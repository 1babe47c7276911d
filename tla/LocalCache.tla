---------------------------- MODULE LocalCache ----------------------------
(***************************************************************************)
(* models/local.go and models/pull.go: the local model cache.  ScanLocal   *)
(* walks the cache directory itself; Pull and Delete run a Python helper   *)
(* that changes it, one file at a time, and translate what it prints.      *)
(* Nothing locks the cache, so a scan and helpers interleave freely.       *)
(* huggingface_hub is not part of src/: its steps are those the snippets   *)
(* of pull.go name.  Every file counts as one byte.                        *)
(***************************************************************************)
EXTENDS Naturals, FiniteSets

CONSTANTS
  Models,       \* bound: the models there may be, each a directory
  Files,        \* bound: the files of a whole model
  Callers       \* bound: the goroutines that call Pull and Delete

ASSUME CacheAssumption == IsFiniteSet(Files) /\ Files # {}

VARIABLES
  dirs,         \* the models that have a directory
  disk,         \* the files in each
  call,         \* the call of Pull or Delete each caller is in, or was last in
  scan,         \* the call of ScanLocal; missed: models it could not read all of
  touched       \* models a helper has changed since the scan listed them

vars == <<dirs, disk, call, scan, touched>>

\* crossed: a helper has pulled what this one deletes, or the other way round.
NoCall == [op |-> "none", model |-> "", pc |-> "idle", todo |-> {}, size |-> 0,
           crossed |-> FALSE]
Results == {"ok", "ErrHuggingFaceHubUnavailable", "ErrLocalModelNotFound", "error"}

NoScan == [pc |-> "idle", entries |-> {}, model |-> "", names |-> {}, totalSize |-> 0,
           results |-> {}, missed |-> {}]

TypeOK ==
  /\ dirs \subseteq Models /\ disk \in [Models -> SUBSET Files]
  /\ \A m \in Models : disk[m] # {} => m \in dirs
  /\ \A c \in Callers : /\ call[c].pc \in {"idle", "import", "work"} \cup Results
                        /\ call[c].todo \subseteq Files
                        /\ call[c].size \in 0 .. Cardinality(Files)
  /\ scan.pc \in {"idle", "entries", "walk", "done", "error"} /\ scan.missed \subseteq Models
  /\ scan.totalSize \in 0 .. Cardinality(Files)
  /\ \A r \in scan.results : r.name \in Models /\ r.size \in 0 .. Cardinality(Files)

Init ==
  /\ dirs = {} /\ disk = [m \in Models |-> {}]
  /\ call = [c \in Callers |-> NoCall] /\ scan = NoScan /\ touched = {}

----------------------------------------------------------------------------
(* Pull and Delete.  A caller waits in cmd.Run while its helper works.     *)

Active(c) == call[c].pc \in {"import", "work"}

\* The callers whose helpers work against one that does op to m.
Against(m, op) ==
  {c \in Callers : Active(c) /\ call[c].model = m /\ call[c].op # op}

\* runPythonSnippet, lines 128-134, after a check for an empty model id.
Call(c, m, op) ==
  /\ ~ Active(c)
  /\ call' = [d \in Callers |->
                IF d = c
                THEN [NoCall EXCEPT !.op = op, !.model = m, !.pc = "import",
                                    !.crossed = Against(m, op) # {}]
                ELSE [call[d] EXCEPT !.crossed = @ \/ d \in Against(m, op)]]
  /\ UNCHANGED <<dirs, disk, scan, touched>>

\* Pull lines 166-186, Delete lines 204-228: how a call returns.
Return(c, result) == call' = [call EXCEPT ![c] = [NoCall EXCEPT !.pc = result]]

\* The snippets' ImportError.
HelperUnavailable(c) ==
  /\ call[c].pc = "import" /\ Return(c, "ErrHuggingFaceHubUnavailable")
  /\ UNCHANGED <<dirs, disk, scan, touched>>

\* snapshot_download looks up what is missing, and creates the directory.
PullBegins(c) ==
  /\ call[c].pc = "import" /\ call[c].op = "pull"
  /\ LET m == call[c].model
     IN /\ call' = [call EXCEPT ![c].pc = "work", ![c].todo = Files \ disk[m]]
        /\ dirs' = dirs \cup {m} /\ touched' = touched \cup {m}
  /\ UNCHANGED <<disk, scan>>

\* scan_cache_dir finds the model's revisions.
DeleteBegins(c) ==
  /\ call[c].pc = "import" /\ call[c].op = "delete" /\ call[c].model \in dirs
  /\ call' = [call EXCEPT ![c].pc = "work", ![c].todo = disk[call[c].model]]
  /\ UNCHANGED <<dirs, disk, scan, touched>>

\* "no_cached_model".
DeleteFindsNone(c) ==
  /\ call[c].pc = "import" /\ call[c].op = "delete" /\ call[c].model \notin dirs
  /\ Return(c, "ErrLocalModelNotFound")
  /\ UNCHANGED <<dirs, disk, scan, touched>>

\* One file arrives, with its directory, or is unlinked.
HelperWorks(c, f) ==
  /\ call[c].pc = "work" /\ f \in call[c].todo
  /\ call' = [call EXCEPT ![c].todo = @ \ {f}]
  /\ LET m == call[c].model
     IN /\ \/ /\ call[c].op = "pull"
              /\ disk' = [disk EXCEPT ![m] = @ \cup {f}] /\ dirs' = dirs \cup {m}
           \/ /\ call[c].op = "delete"
              /\ disk' = [disk EXCEPT ![m] = @ \ {f}] /\ UNCHANGED dirs
        /\ touched' = touched \cup {m}
  /\ UNCHANGED scan

\* A bug: the size is taken while the download is under way.
PullEndsEarly(c) ==
  /\ call[c].pc = "work" /\ call[c].op = "pull"
  /\ call' = [call EXCEPT ![c] = [NoCall EXCEPT !.pc = "ok",
                                          !.size = Cardinality(disk[call[c].model])]]
  /\ UNCHANGED <<dirs, disk, scan, touched>>

\* scan_cache_dir gives the size of what has been pulled.
PullEnds(c) ==
  /\ call[c].pc = "work" /\ call[c].op = "pull" /\ call[c].todo = {}
  /\ call' = [call EXCEPT ![c] = [NoCall EXCEPT !.pc = "ok",
                                          !.size = Cardinality(disk[call[c].model])]]
  /\ UNCHANGED <<dirs, disk, scan, touched>>

\* The empty directory goes.
DeleteEnds(c) ==
  /\ call[c].pc = "work" /\ call[c].op = "delete" /\ call[c].todo = {}
  /\ Return(c, "ok")
  /\ LET m == call[c].model
     IN /\ dirs' = (IF disk[m] = {} THEN dirs \ {m} ELSE dirs)
        /\ touched' = touched \cup {m}
  /\ UNCHANGED <<disk, scan>>

\* A bug: the exit status of the helper is not looked at.
HelperFailsUnseen(c) ==
  /\ Active(c) /\ Return(c, "ok")
  /\ UNCHANGED <<dirs, disk, scan, touched>>

\* An exception ends the helper, or exec.CommandContext kills it when the
\* context is done; what it did so far stays.
HelperFails(c) ==
  /\ Active(c) /\ Return(c, "error")
  /\ UNCHANGED <<dirs, disk, scan, touched>>

\* Lines 72-73: an exception without a message is printed as an empty error, which
\* Pull does not take for one, line 175.
HelperFailsQuietly(c) ==
  /\ Active(c) /\ call[c].op = "pull" /\ Return(c, "ok")
  /\ UNCHANGED <<dirs, disk, scan, touched>>

----------------------------------------------------------------------------
(* scanLocalDir.                                                           *)

\* Lines 60-72: a directory that does not exist is read as an empty one.
ScanLists ==
  /\ scan.pc \in {"idle", "done", "error"}
  /\ scan' = [NoScan EXCEPT !.pc = "entries", !.entries = dirs]
  /\ touched' = {}
  /\ UNCHANGED <<dirs, disk, call>>

\* Lines 60-62 and 67-69: there is no name for the directory, or it cannot be read.
\* "It returns an empty slice, not an error."
ScanCannotList ==
  /\ scan.pc \in {"idle", "done", "error"}
  /\ scan' = [NoScan EXCEPT !.pc = "done", !.missed = Models]
  /\ touched' = {}
  /\ UNCHANGED <<dirs, disk, call>>

\* Lines 57 and 72: the scan's own context is done.
ScanCanceled ==
  /\ scan.pc \in {"idle", "entries"} /\ scan' = [NoScan EXCEPT !.pc = "error"]
  /\ UNCHANGED <<dirs, disk, call, touched>>

\* A bug: the total of the model before is kept.
ScanEntryKeepsTotal(m) ==
  /\ scan.pc = "entries" /\ m \in scan.entries
  /\ scan' = [scan EXCEPT !.pc = "walk", !.entries = @ \ {m}, !.model = m,
                          !.names = disk[m]]
  /\ UNCHANGED <<dirs, disk, call, touched>>

\* Lines 71-88: WalkDir reads the names in a model's directory; a directory
\* that has gone has none.
ScanEntry(m) ==
  /\ scan.pc = "entries" /\ m \in scan.entries
  /\ scan' = [scan EXCEPT !.pc = "walk", !.entries = @ \ {m}, !.model = m,
                          !.names = disk[m], !.totalSize = 0]
  /\ UNCHANGED <<dirs, disk, call, touched>>

\* Lines 89-99: d.Info fails for a file that has gone since.
ScanFile(f) ==
  /\ scan.pc = "walk" /\ f \in scan.names
  /\ scan' = [scan EXCEPT !.names = @ \ {f},
                          !.totalSize = IF f \in disk[scan.model] THEN @ + 1 ELSE @]
  /\ UNCHANGED <<dirs, disk, call, touched>>

\* Lines 86-92: so it may for a file that is there, which is skipped like the files
\* of a directory that cannot be read.
ScanFileFails(f) ==
  /\ scan.pc = "walk" /\ f \in scan.names \cap disk[scan.model]
  /\ scan' = [scan EXCEPT !.names = @ \ {f}, !.missed = @ \cup {scan.model}]
  /\ UNCHANGED <<dirs, disk, call, touched>>

\* Lines 101-108: the model is listed whatever was found in it.
ScanAppends ==
  /\ scan.pc = "walk" /\ scan.names = {}
  /\ scan' = [scan EXCEPT !.pc = "entries",
                          !.results = @ \cup {[name |-> scan.model, size |-> scan.totalSize]}]
  /\ UNCHANGED <<dirs, disk, call, touched>>

\* Line 110.
ScanReturns ==
  /\ scan.pc = "entries" /\ scan.entries = {} /\ scan' = [scan EXCEPT !.pc = "done"]
  /\ UNCHANGED <<dirs, disk, call, touched>>

----------------------------------------------------------------------------
Next ==
  \/ \E c \in Callers :
       \/ \E m \in Models : Call(c, m, "pull") \/ Call(c, m, "delete")
       \/ HelperUnavailable(c) \/ PullBegins(c) \/ DeleteBegins(c) \/ DeleteFindsNone(c)
       \/ \E f \in Files : HelperWorks(c, f)
       \/ PullEnds(c) \/ DeleteEnds(c) \/ HelperFails(c) \/ HelperFailsQuietly(c)
  \/ ScanLists \/ ScanCannotList \/ ScanCanceled
  \/ \E m \in Models : ScanEntry(m)
  \/ \E f \in Files : ScanFile(f) \/ ScanFileFails(f)
  \/ ScanAppends \/ ScanReturns

\* A download takes as long as it takes: nothing here need ever happen.
Spec == Init /\ [][Next]_vars

----------------------------------------------------------------------------
\* What the scan lists of a model.
Listed(m) == {r \in scan.results : r.name = m}

\* A model listed as smaller than it is.
ListedShort(m) ==
  \E n \in 0 .. Cardinality(Files) :
    n < Cardinality(disk[m]) /\ m \in dirs /\ Listed(m) = {[name |-> m, size |-> n]}

\* A scan is not atomic, but it is right about every model no helper changed
\* while it was under way: listed if it is there, once, and with its size.  What it
\* cannot read it does not report: either nothing at all is listed, or the model
\* is, once, with less than its size.
RestingModelsAreRight ==
  scan.pc = "done" =>
    \A m \in Models \ touched :
      IF m \in scan.missed THEN scan.results = {} \/ ListedShort(m)
      ELSE Listed(m) = IF m \in dirs THEN {[name |-> m, size |-> Cardinality(disk[m])]}
                       ELSE {}

\* A call that returns no error did what it was called for, even if others did
\* the same to the model meanwhile, as long as none did the opposite: a Pull that
\* reports a size left the model whole and says how large it is (a size of zero
\* may hide a failure), Delete left nothing of it.
Done(c) ==
  LET m == call[c].model
  IN IF call[c].op = "pull"
     THEN call'[c].size > 0 => disk'[m] = Files /\ call'[c].size = Cardinality(Files)
     ELSE m \notin dirs'
SuccessMeansDone ==
  [][\A c \in Callers :
       Active(c) /\ ~ call[c].crossed /\ call'[c].pc = "ok" => Done(c)]_vars

============================================================================
