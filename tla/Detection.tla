----------------------------- MODULE Detection -----------------------------
(***************************************************************************)
(* system/: what Detector.Info makes of the memory figures a platform      *)
(* gives.  Zero stands for a figure that is missing or unreadable, and in  *)
(* the result for "unknown".                                               *)
(***************************************************************************)
EXTENDS Naturals

Platforms == {"linux", "darwin", "windows", "other"}

\* What a platform may say.  A total that is given is right; only a line of
\* /proc/meminfo may be missing and the call succeed all the same.  A kernel
\* that counts the available memory itself keeps it below the total, and Windows
\* is never out of it while a process runs; the page counts of vm_stat are only
\* added up.
Readings(totals, amounts) ==
  {r \in [platform : Platforms, readable : BOOLEAN, total : totals, available : amounts] :
     /\ r.platform # "linux" => r.total > 0
     /\ r.platform # "darwin" => r.available <= r.total \/ r.total = 0
     /\ r.platform = "windows" => r.available > 0}

\* /proc/meminfo: kernels before 3.14 have no MemAvailable.
linuxAvailable(r) == IF r.available = 0 THEN r.total ELSE r.available

\* A bug: the pages are not held against the total.
darwinAvailableUnclamped(r) == IF r.available = 0 THEN r.total ELSE r.available

\* availableMemoryFromVMStat.
darwinAvailable(r) ==
  IF r.available = 0 \/ r.available > r.total THEN r.total ELSE r.available

Unknown == [total |-> 0, available |-> 0]

\* Info, which does not pass on an error of memoryStats.
DetectedMemory(r) ==
  IF ~ r.readable \/ r.platform = "other" THEN Unknown
  ELSE [total |-> r.total,
        available |-> CASE r.platform = "linux" -> linuxAvailable(r)
                        [] r.platform = "darwin" -> darwinAvailable(r)
                        [] r.platform = "windows" -> r.available]

============================================================================
