-------------------------- MODULE LocalCache_proofs --------------------------
(***************************************************************************)
(* Theorems about LocalCache, for any models and files, and any number of  *)
(* goroutines that pull and delete.                                        *)
(***************************************************************************)
EXTENDS LocalCache, FiniteSetTheorems, TLAPS

Sizes == 0 .. Cardinality(Files)

DiskTypes ==
  /\ dirs \subseteq Models /\ disk \in [Models -> SUBSET Files] /\ touched \subseteq Models
  /\ \A m \in Models : disk[m] # {} => m \in dirs

Calls ==
  [op : {"none", "pull", "delete"}, model : Models \cup {""},
   pc : {"idle", "import", "work"} \cup Results,
   todo : SUBSET Files, size : Sizes, crossed : BOOLEAN]

CallTypes ==
  /\ call \in [Callers -> Calls]
  /\ \A c \in Callers :
       Active(c) => call[c].model \in Models /\ call[c].op \in {"pull", "delete"}

Scans ==
  [pc : {"idle", "entries", "walk", "done", "error"}, entries : SUBSET Models,
   model : Models \cup {""}, names : SUBSET Files, totalSize : Sizes,
   results : SUBSET [name : Models, size : Sizes], missed : SUBSET Models]

ScanTypes ==
  /\ scan \in Scans
  /\ scan.pc = "walk" =>
       scan.model \in Models /\ scan.totalSize + Cardinality(scan.names) \in Sizes

\* Whose helper works against another knows it.
CrossInv ==
  \A c, d \in Callers :
    Active(c) /\ Active(d) /\ call[c].model = call[d].model /\ call[c].op # call[d].op =>
      call[c].crossed

\* What a helper has not done yet is all there is left to do, if no other
\* works against it.
WorkInv ==
  \A c \in Callers :
    LET m == call[c].model
        todo == call[c].todo
    IN call[c].pc = "work" /\ ~ call[c].crossed =>
         IF call[c].op = "pull" THEN Files \subseteq disk[m] \cup todo ELSE disk[m] \subseteq todo

\* What it should have found.
Entry(m) == IF m \in dirs THEN {[name |-> m, size |-> Cardinality(disk[m])]} ELSE {}

Walked(m) == scan.pc = "walk" /\ scan.model = m

\* The files of the model under way are counted or still to be, unless they could
\* not be read.
Counted(m) ==
  LET found == scan.totalSize + Cardinality(scan.names)
  IN IF m \in scan.missed THEN found < Cardinality(disk[m]) ELSE found = Cardinality(disk[m])

\* The model is listed as it is, or short of what could not be read.
Found(m) ==
  IF m \in scan.missed THEN (scan.pc = "done" /\ scan.results = {}) \/ ListedShort(m)
  ELSE Listed(m) = Entry(m)

\* A model is still to be listed, or under way, or listed.
Rest(m) ==
  /\ m \in scan.entries => m \in dirs /\ Listed(m) = {} /\ ~ Walked(m) /\ m \notin scan.missed
  /\ Walked(m) => m \in dirs /\ Listed(m) = {} /\ scan.names \subseteq disk[m] /\ Counted(m)
  /\ m \notin scan.entries /\ ~ Walked(m) => Found(m)

\* So is every model that no helper has touched.
RestInv ==
  /\ scan.pc \in {"entries", "walk", "done"} => \A m \in Models \ touched : Rest(m)
  /\ scan.pc = "done" => scan.entries = {}

CacheInv == DiskTypes /\ CallTypes /\ ScanTypes /\ CrossInv /\ WorkInv /\ RestInv

----------------------------------------------------------------------------
(* How many files there are.                                               *)

LEMMA Counts ==
  /\ Cardinality(Files) \in Nat /\ 0 \in Sizes /\ Cardinality({}) = 0
  /\ \A S \in SUBSET Files : IsFiniteSet(S) /\ Cardinality(S) \in Sizes
<1>1. Cardinality(Files) \in Nat /\ Cardinality({}) = 0
  BY CacheAssumption, FS_CardinalityType, FS_EmptySet
<1>2. ASSUME NEW S \in SUBSET Files
      PROVE  IsFiniteSet(S) /\ Cardinality(S) \in Nat /\ Cardinality(S) <= Cardinality(Files)
  BY CacheAssumption, FS_Subset, FS_CardinalityType
<1> QED
  BY <1>1, <1>2 DEF Sizes

LEMMA OneLess ==
  ASSUME NEW S \in SUBSET Files, NEW f \in S
  PROVE  Cardinality(S \ {f}) = Cardinality(S) - 1
BY Counts, FS_RemoveElement

LEMMA InitIsGood == Init => CacheInv
<1> SUFFICES ASSUME Init PROVE CacheInv
  OBVIOUS
<1>1. /\ dirs = {} /\ disk = [m \in Models |-> {}] /\ call = [c \in Callers |-> NoCall]
      /\ scan = NoScan /\ touched = {}
  BY DEF Init
<1>2. DiskTypes
  BY <1>1 DEF DiskTypes
<1>3. NoCall \in Calls
  BY Counts DEF NoCall, Calls
<1>4. \A c \in Callers : call[c] = NoCall /\ call[c].pc = "idle"
  BY <1>1 DEF NoCall
<1>5. CallTypes /\ CrossInv /\ WorkInv
  BY <1>1, <1>3, <1>4 DEF CallTypes, CrossInv, WorkInv, Active
<1>6. NoScan \in Scans /\ NoScan.pc = "idle"
  BY Counts DEF NoScan, Scans
<1>7. ScanTypes /\ RestInv
  BY <1>1, <1>6 DEF ScanTypes, RestInv
<1> QED
  BY <1>2, <1>5, <1>7 DEF CacheInv

----------------------------------------------------------------------------
(* Pull and Delete.                                                        *)

\* Only a new call can cross another.
LEMMA CrossKept ==
  ASSUME CrossInv,
         \A c \in Callers :
           Active(c)' => /\ Active(c) /\ call'[c].model = call[c].model
                         /\ call'[c].op = call[c].op /\ (call[c].crossed => call'[c].crossed)
  PROVE  CrossInv'
BY DEF CrossInv

\* A helper touches what it changes.
LEMMA RestKept ==
  ASSUME RestInv, scan' = scan, touched \subseteq touched',
         \A m \in Models \ touched' : (m \in dirs' <=> m \in dirs) /\ disk'[m] = disk[m]
  PROVE  RestInv'
<1> SUFFICES ASSUME scan.pc \in {"entries", "walk", "done"}, NEW m \in Models \ touched'
             PROVE  Rest(m)'
  BY DEF RestInv
<1>1. m \in Models \ touched /\ disk'[m] = disk[m] /\ (m \in dirs' <=> m \in dirs)
  OBVIOUS
<1>2. /\ Listed(m)' = Listed(m) /\ Walked(m)' = Walked(m) /\ Entry(m)' = Entry(m)
      /\ Counted(m)' = Counted(m)
  BY <1>1 DEF Listed, Walked, Entry, Counted
<1>3. ListedShort(m)' <=> ListedShort(m)
  BY <1>1, <1>2 DEF ListedShort
<1>4. Found(m)' <=> Found(m)
  BY <1>2, <1>3 DEF Found
<1> QED
  BY <1>1, <1>2, <1>4 DEF RestInv, Rest

\* A call ends, and the cache stays as it is.
LEMMA ReturnKeeps ==
  ASSUME CacheInv, NEW c \in Callers, NEW r \in Calls, r.pc \in Results,
         call' = [call EXCEPT ![c] = r], UNCHANGED <<dirs, disk, scan, touched>>
  PROVE  CacheInv'
<1> USE DEF CacheInv
<1>1. \A d \in Callers : call'[d] = (IF d = c THEN r ELSE call[d])
  BY DEF CallTypes
<1>2. \A d \in Callers : Active(d)' => d # c /\ Active(d) /\ call'[d] = call[d]
  BY <1>1 DEF Active, Results
<1>3. CallTypes'
  BY <1>1, <1>2 DEF CallTypes
<1>4. CrossInv'
  BY <1>2, CrossKept
<1>5. WorkInv'
  BY <1>1, <1>2 DEF WorkInv, Active
<1>6. DiskTypes' /\ ScanTypes'
  BY DEF DiskTypes, ScanTypes
<1>7. RestInv'
  BY RestKept
<1> QED
  BY <1>3, <1>4, <1>5, <1>6, <1>7

LEMMA EndIsCall ==
  /\ \A result \in Results : [NoCall EXCEPT !.pc = result] \in Calls
  /\ \A result \in Results : [NoCall EXCEPT !.pc = result].pc = result
BY Counts DEF NoCall, Calls

\* A call begins.
LEMMA CallKeeps ==
  ASSUME CacheInv, NEW c \in Callers, NEW m \in Models, NEW op \in {"pull", "delete"},
         Call(c, m, op)
  PROVE  CacheInv'
<1> USE DEF CacheInv
<1> DEFINE new == [NoCall EXCEPT !.op = op, !.model = m, !.pc = "import",
                                 !.crossed = Against(m, op) # {}]
           marked(d) == [call[d] EXCEPT !.crossed = @ \/ d \in Against(m, op)]
<1>1. /\ ~ Active(c) /\ UNCHANGED <<dirs, disk, scan, touched>>
      /\ \A d \in Callers : call'[d] = IF d = c THEN new ELSE marked(d)
      /\ call' = [d \in Callers |-> IF d = c THEN new ELSE marked(d)]
  BY DEF Call
<1>2. new \in Calls /\ new.pc = "import" /\ new.op = op /\ new.model = m
  BY Counts DEF NoCall, Calls
<1>3. ASSUME NEW d \in Callers, d # c
      PROVE  /\ call'[d] \in Calls /\ call'[d].pc = call[d].pc /\ call'[d].op = call[d].op
             /\ call'[d].model = call[d].model /\ call'[d].todo = call[d].todo
             /\ call'[d].crossed = (call[d].crossed \/ d \in Against(m, op))
  <2>1. call[d] \in Calls /\ call'[d] = marked(d)
    BY <1>1, <1>3 DEF CallTypes
  <2> QED
    BY <2>1 DEF Calls
<1>4. call'[c] = new /\ (new.crossed <=> Against(m, op) # {})
  BY <1>1 DEF NoCall
<1> HIDE DEF new, marked
<1>5. CallTypes'
  <2>1. \A d \in Callers : call'[d] \in Calls
    BY <1>2, <1>3, <1>4
  <2>2. call' \in [Callers -> Calls]
    BY <1>1, <2>1
  <2>3. \A d \in Callers :
          Active(d)' => call'[d].model \in Models /\ call'[d].op \in {"pull", "delete"}
    BY <1>2, <1>3, <1>4 DEF CallTypes, Active
  <2> QED
    BY <2>2, <2>3 DEF CallTypes
<1>6. CrossInv'
  <2> SUFFICES ASSUME NEW d \in Callers, NEW e \in Callers, Active(d)', Active(e)',
                      call'[d].model = call'[e].model, call'[d].op # call'[e].op
               PROVE  call'[d].crossed
    BY DEF CrossInv
  <2>1. d # e
    OBVIOUS
  <2>2. CASE d = c
    <3>1. e \in Against(m, op)
      BY <1>2, <1>3, <1>4, <2>1, <2>2 DEF Against, Active
    <3> QED
      BY <1>4, <2>2, <3>1
  <2>3. CASE d # c /\ e = c
    <3>1. d \in Against(m, op)
      BY <1>2, <1>3, <1>4, <2>3 DEF Against, Active
    <3> QED
      BY <1>3, <2>3, <3>1
  <2>4. CASE d # c /\ e # c
    <3>1. call[d].crossed
      BY <1>3, <2>4 DEF CrossInv, Active
    <3> QED
      BY <1>3, <2>4, <3>1
  <2> QED
    BY <2>2, <2>3, <2>4
<1>7. WorkInv'
  <2> SUFFICES ASSUME NEW d \in Callers, call'[d].pc = "work", ~ call'[d].crossed
               PROVE  IF call'[d].op = "pull"
                      THEN Files \subseteq disk[call'[d].model] \cup call'[d].todo
                      ELSE disk[call'[d].model] \subseteq call'[d].todo
    BY <1>1 DEF WorkInv
  <2>1. d # c
    BY <1>2, <1>4
  <2>2. ~ call[d].crossed /\ call[d].pc = "work"
    BY <1>3, <2>1
  <2> QED
    BY <1>3, <2>1, <2>2 DEF WorkInv
<1>8. DiskTypes' /\ ScanTypes'
  BY <1>1 DEF DiskTypes, ScanTypes
<1>9. RestInv'
  BY <1>1, RestKept
<1> QED
  BY <1>5, <1>6, <1>7, <1>8, <1>9

\* A helper begins or works: its call goes on, and it touches what it changes.
LEMMA WorkKeeps ==
  ASSUME CacheInv, NEW c \in Callers, Active(c), NEW todo \in SUBSET Files,
         call' = [call EXCEPT ![c].pc = "work", ![c].todo = todo], scan' = scan
  PROVE  /\ CallTypes' /\ CrossInv' /\ ScanTypes'
         /\ \A d \in Callers \ {c} : call'[d] = call[d]
         /\ call'[c].pc = "work" /\ call'[c].todo = todo /\ call'[c].model = call[c].model
         /\ call'[c].op = call[c].op /\ call'[c].crossed = call[c].crossed
<1> USE DEF CacheInv
<1>1. call[c] \in Calls /\ call \in [Callers -> Calls]
  BY DEF CallTypes
<1>2. /\ call'[c].pc = "work" /\ call'[c].todo = todo /\ call'[c].model = call[c].model
      /\ call'[c].op = call[c].op /\ call'[c].crossed = call[c].crossed
      /\ \A d \in Callers \ {c} : call'[d] = call[d]
  BY <1>1 DEF Calls
<1>3. call' \in [Callers -> Calls]
  BY <1>1 DEF Calls
<1>4. CallTypes'
  BY <1>2, <1>3 DEF CallTypes, Active
<1>5. CrossInv'
  BY <1>2, CrossKept DEF Active
<1>6. ScanTypes'
  BY DEF ScanTypes
<1> QED
  BY <1>2, <1>4, <1>5, <1>6

LEMMA PullBeginsKeeps ==
  ASSUME CacheInv, NEW c \in Callers, PullBegins(c)
  PROVE  CacheInv'
<1> USE DEF CacheInv
<1> DEFINE m == call[c].model
           todo == Files \ disk[m]
<1>1. /\ call[c].pc = "import" /\ call[c].op = "pull" /\ Active(c)
      /\ call' = [call EXCEPT ![c].pc = "work", ![c].todo = todo]
      /\ dirs' = dirs \cup {m} /\ touched' = touched \cup {m} /\ UNCHANGED <<disk, scan>>
  BY DEF PullBegins, Active
<1>2. m \in Models /\ todo \in SUBSET Files
  BY <1>1 DEF CallTypes
<1>3. /\ CallTypes' /\ CrossInv' /\ ScanTypes'
      /\ \A d \in Callers \ {c} : call'[d] = call[d]
      /\ call'[c].todo = todo /\ call'[c].model = m /\ call'[c].op = "pull"
  <2> HIDE DEF m, todo
  <2> QED
    BY <1>1, <1>2, WorkKeeps DEF m
<1>4. DiskTypes'
  BY <1>1, <1>2 DEF DiskTypes
<1>5. WorkInv'
  <2>1. ASSUME NEW d \in Callers \ {c}, call'[d].pc = "work", ~ call'[d].crossed
        PROVE  IF call'[d].op = "pull"
               THEN Files \subseteq disk'[call'[d].model] \cup call'[d].todo
               ELSE disk'[call'[d].model] \subseteq call'[d].todo
    BY <1>1, <1>3, <2>1 DEF WorkInv
  <2>2. Files \subseteq disk'[m] \cup call'[c].todo
    BY <1>1, <1>3
  <2> HIDE DEF m, todo
  <2> QED
    BY <1>3, <2>1, <2>2 DEF WorkInv
<1>6. RestInv'
  <2> HIDE DEF m
  <2> QED
    BY <1>1, RestKept
<1> QED
  BY <1>3, <1>4, <1>5, <1>6

LEMMA DeleteBeginsKeeps ==
  ASSUME CacheInv, NEW c \in Callers, DeleteBegins(c)
  PROVE  CacheInv'
<1> USE DEF CacheInv
<1> DEFINE m == call[c].model
           todo == disk[m]
<1>1. /\ call[c].pc = "import" /\ call[c].op = "delete" /\ Active(c)
      /\ call' = [call EXCEPT ![c].pc = "work", ![c].todo = todo]
      /\ UNCHANGED <<dirs, disk, scan, touched>>
  BY DEF DeleteBegins, Active
<1>2. m \in Models /\ todo \in SUBSET Files
  BY <1>1 DEF CallTypes, DiskTypes
<1>3. /\ CallTypes' /\ CrossInv' /\ ScanTypes'
      /\ \A d \in Callers \ {c} : call'[d] = call[d]
      /\ call'[c].todo = todo /\ call'[c].model = m /\ call'[c].op = "delete"
  <2> HIDE DEF m, todo
  <2> QED
    BY <1>1, <1>2, WorkKeeps DEF m
<1>4. DiskTypes'
  BY <1>1 DEF DiskTypes
<1>5. WorkInv'
  <2>1. ASSUME NEW d \in Callers \ {c}, call'[d].pc = "work", ~ call'[d].crossed
        PROVE  IF call'[d].op = "pull"
               THEN Files \subseteq disk'[call'[d].model] \cup call'[d].todo
               ELSE disk'[call'[d].model] \subseteq call'[d].todo
    BY <1>1, <1>3, <2>1 DEF WorkInv
  <2>2. disk'[m] \subseteq call'[c].todo
    BY <1>1, <1>3
  <2> HIDE DEF m, todo
  <2> QED
    BY <1>3, <2>1, <2>2 DEF WorkInv
<1>6. RestInv'
  BY <1>1, RestKept
<1> QED
  BY <1>3, <1>4, <1>5, <1>6

LEMMA HelperWorksKeeps ==
  ASSUME CacheInv, NEW c \in Callers, NEW f \in Files, HelperWorks(c, f)
  PROVE  CacheInv'
<1> USE DEF CacheInv
<1> DEFINE m == call[c].model
           op == call[c].op
           todo == call[c].todo \ {f}
<1>1. /\ call[c].pc = "work" /\ f \in call[c].todo /\ Active(c)
      /\ \/ op = "pull" /\ disk' = [disk EXCEPT ![m] = @ \cup {f}] /\ dirs' = dirs \cup {m}
         \/ op = "delete" /\ disk' = [disk EXCEPT ![m] = @ \ {f}] /\ dirs' = dirs
      /\ touched' = touched \cup {m} /\ scan' = scan
  BY DEF HelperWorks, Active
<1>2. call[c] \in Calls /\ call \in [Callers -> Calls] /\ m \in Models
  BY <1>1 DEF CallTypes
<1>3. todo \in SUBSET Files
  BY <1>2 DEF Calls
<1>4. call' = [call EXCEPT ![c].pc = "work", ![c].todo = todo]
  <2>1. call' = [call EXCEPT ![c].todo = todo]
    BY <1>2 DEF HelperWorks
  <2> QED
    BY <1>1, <1>2, <2>1 DEF Calls
<1>5. /\ CallTypes' /\ CrossInv' /\ ScanTypes'
      /\ \A d \in Callers \ {c} : call'[d] = call[d]
      /\ call'[c].pc = "work" /\ call'[c].todo = todo /\ call'[c].model = m
      /\ call'[c].op = op /\ call'[c].crossed = call[c].crossed
  <2> HIDE DEF m, op, todo
  <2> QED
    BY <1>1, <1>3, <1>4, WorkKeeps DEF m, op
<1> HIDE DEF m
<1>6. /\ disk \in [Models -> SUBSET Files]
      /\ \A n \in Models : n # m => disk'[n] = disk[n]
      /\ disk'[m] = disk[m] \cup {f} \/ disk'[m] = disk[m] \ {f}
  BY <1>1, <1>2 DEF DiskTypes
<1>7. DiskTypes'
  BY <1>1, <1>2 DEF DiskTypes
<1>8. WorkInv'
  <2> SUFFICES ASSUME NEW d \in Callers, call'[d].pc = "work", ~ call'[d].crossed
               PROVE  IF call'[d].op = "pull"
                      THEN Files \subseteq disk'[call'[d].model] \cup call'[d].todo
                      ELSE disk'[call'[d].model] \subseteq call'[d].todo
    BY DEF WorkInv
  <2>0. call[d].pc = "work" /\ ~ call[d].crossed /\ Active(d)
        /\ call'[d].model = call[d].model /\ call'[d].op = call[d].op
        /\ call[d].model \in Models
    BY <1>1, <1>5 DEF m, CallTypes, Active
  <2>1. IF call[d].op = "pull" THEN Files \subseteq disk[call[d].model] \cup call[d].todo
        ELSE disk[call[d].model] \subseteq call[d].todo
    BY <2>0 DEF WorkInv
  <2>2. CASE d = c
    <3>1. call'[d].todo = call[d].todo \ {f} /\ call[d].model = m /\ call[d].op = op
      BY <1>5, <2>2 DEF m
    <3>2. CASE op = "pull"
      <4>1. disk'[m] = disk[m] \cup {f}
        BY <1>1, <1>2, <1>6, <3>2
      <4> QED
        BY <2>0, <2>1, <3>1, <3>2, <4>1
    <3>3. CASE op = "delete"
      <4>1. disk'[m] = disk[m] \ {f}
        BY <1>1, <1>2, <1>6, <3>3
      <4> QED
        BY <2>0, <2>1, <3>1, <3>3, <4>1
    <3> QED
      BY <1>1, <3>2, <3>3
  <2>3. CASE d # c /\ call[d].model # m
    BY <1>5, <1>6, <2>0, <2>1, <2>3
  <2>4. CASE d # c /\ call[d].model = m
    <3>1. call[d].op = op
      BY <1>1, <2>0, <2>4 DEF CrossInv, m
    <3>2. call'[d].todo = call[d].todo
      BY <1>5, <2>4
    <3>3. CASE op = "pull"
      <4>1. disk'[m] = disk[m] \cup {f}
        BY <1>1, <1>2, <1>6, <3>3
      <4> QED
        BY <2>0, <2>1, <2>4, <3>1, <3>2, <3>3, <4>1
    <3>4. CASE op = "delete"
      <4>1. disk'[m] = disk[m] \ {f}
        BY <1>1, <1>2, <1>6, <3>4
      <4> QED
        BY <2>0, <2>1, <2>4, <3>1, <3>2, <3>4, <4>1
    <3> QED
      BY <1>1, <3>3, <3>4
  <2> QED
    BY <2>2, <2>3, <2>4
<1>9. RestInv'
  <2>1. \A n \in Models \ touched' : (n \in dirs' <=> n \in dirs) /\ disk'[n] = disk[n]
    BY <1>1, <1>6
  <2> QED
    BY <1>1, <2>1, RestKept
<1> QED
  BY <1>5, <1>7, <1>8, <1>9

LEMMA DeleteEndsKeeps ==
  ASSUME CacheInv, NEW c \in Callers, DeleteEnds(c)
  PROVE  CacheInv'
<1> USE DEF CacheInv
<1> DEFINE m == call[c].model
           r == [NoCall EXCEPT !.pc = "ok"]
<1>1. /\ call[c].pc = "work" /\ call[c].op = "delete" /\ call[c].todo = {} /\ Active(c)
      /\ call' = [call EXCEPT ![c] = r]
      /\ dirs' = (IF disk[m] = {} THEN dirs \ {m} ELSE dirs)
      /\ touched' = touched \cup {m} /\ UNCHANGED <<disk, scan>>
  BY DEF DeleteEnds, Return, Active
<1>2. m \in Models /\ r \in Calls /\ r.pc = "ok"
  BY <1>1, EndIsCall DEF CallTypes, Results
<1> HIDE DEF m, r
<1>3. \A d \in Callers : call'[d] = (IF d = c THEN r ELSE call[d])
  BY <1>1 DEF CallTypes
<1>4. \A d \in Callers : Active(d)' => d # c /\ Active(d) /\ call'[d] = call[d]
  BY <1>2, <1>3 DEF Active
<1>5. CallTypes'
  BY <1>1, <1>2, <1>4 DEF CallTypes
<1>6. CrossInv'
  BY <1>4, CrossKept
<1>7. WorkInv'
  BY <1>1, <1>4 DEF WorkInv, Active
<1>8. DiskTypes' /\ ScanTypes'
  BY <1>1, <1>2 DEF DiskTypes, ScanTypes
<1>9. RestInv'
  BY <1>1, RestKept
<1> QED
  BY <1>5, <1>6, <1>7, <1>8, <1>9

LEMMA PullEndsKeeps ==
  ASSUME CacheInv, NEW c \in Callers, PullEnds(c)
  PROVE  CacheInv'
<1> DEFINE r == [NoCall EXCEPT !.pc = "ok", !.size = Cardinality(disk[call[c].model])]
<1>1. /\ call' = [call EXCEPT ![c] = r] /\ Active(c)
      /\ UNCHANGED <<dirs, disk, scan, touched>>
  BY DEF PullEnds, Active
<1>2. disk[call[c].model] \in SUBSET Files
  BY <1>1 DEF CacheInv, CallTypes, DiskTypes
<1>3. r \in Calls /\ r.pc \in Results
  BY <1>2, Counts DEF NoCall, Calls, Results
<1> HIDE DEF r
<1> QED
  BY <1>1, <1>3, ReturnKeeps

\* Whatever a caller or its helper does.
LEMMA CallerKeeps ==
  ASSUME CacheInv, NEW c \in Callers,
         \/ \E m \in Models : Call(c, m, "pull") \/ Call(c, m, "delete")
         \/ HelperUnavailable(c) \/ PullBegins(c) \/ DeleteBegins(c) \/ DeleteFindsNone(c)
         \/ \E f \in Files : HelperWorks(c, f)
         \/ PullEnds(c) \/ DeleteEnds(c) \/ HelperFails(c) \/ HelperFailsQuietly(c)
  PROVE  CacheInv'
<1>1. ASSUME NEW result \in Results, Return(c, result), UNCHANGED <<dirs, disk, scan, touched>>
      PROVE  CacheInv'
  <2> DEFINE r == [NoCall EXCEPT !.pc = result]
  <2>1. r \in Calls /\ r.pc \in Results
    BY EndIsCall
  <2>2. call' = [call EXCEPT ![c] = r]
    BY <1>1 DEF Return
  <2> HIDE DEF r
  <2> QED
    BY <1>1, <2>1, <2>2, ReturnKeeps
<1>2. CASE HelperUnavailable(c)
  BY <1>1, <1>2 DEF HelperUnavailable, Results
<1>3. CASE DeleteFindsNone(c)
  BY <1>1, <1>3 DEF DeleteFindsNone, Results
<1>4. CASE HelperFails(c)
  BY <1>1, <1>4 DEF HelperFails, Results
<1>5. CASE HelperFailsQuietly(c)
  BY <1>1, <1>5 DEF HelperFailsQuietly, Results
<1> QED
  BY <1>2, <1>3, <1>4, <1>5, CallKeeps, PullBeginsKeeps, DeleteBeginsKeeps, HelperWorksKeeps,
     PullEndsKeeps, DeleteEndsKeeps

----------------------------------------------------------------------------
(* ScanLocal, which leaves the cache and the calls alone.                  *)

LEMMA ScanLeaves ==
  ASSUME CacheInv, UNCHANGED <<dirs, disk, call>>, touched' \subseteq touched
  PROVE  DiskTypes' /\ CallTypes' /\ CrossInv' /\ WorkInv'
BY DEF CacheInv, DiskTypes, CallTypes, CrossInv, WorkInv, Active

LEMMA ScanListsKeeps ==
  ASSUME CacheInv, ScanLists
  PROVE  CacheInv'
<1>1. /\ scan' = [NoScan EXCEPT !.pc = "entries", !.entries = dirs] /\ touched' = {}
      /\ UNCHANGED <<dirs, disk, call>> /\ dirs \subseteq Models
  BY DEF ScanLists, CacheInv, DiskTypes
<1>2. scan' \in Scans
  BY <1>1, Counts DEF NoScan, Scans
<1>3. scan'.pc = "entries" /\ scan'.entries = dirs /\ scan'.results = {} /\ scan'.missed = {}
  BY <1>1 DEF NoScan
<1>4. ScanTypes'
  BY <1>2, <1>3 DEF ScanTypes
<1>5. RestInv'
  <2>1. ASSUME NEW m \in Models PROVE Rest(m)'
    <3>1. Listed(m)' = {} /\ ~ Walked(m)' /\ (m \notin dirs => Entry(m)' = {})
      BY <1>1, <1>3 DEF Walked, Listed, Entry
    <3> QED
      BY <1>1, <1>3, <3>1 DEF Rest, Found
  <2> QED
    BY <1>3, <2>1 DEF RestInv
<1>6. DiskTypes' /\ CallTypes' /\ CrossInv' /\ WorkInv'
  BY <1>1, ScanLeaves
<1> QED
  BY <1>4, <1>5, <1>6 DEF CacheInv

LEMMA ScanCannotListKeeps ==
  ASSUME CacheInv, ScanCannotList
  PROVE  CacheInv'
<1>1. /\ scan' = [NoScan EXCEPT !.pc = "done", !.missed = Models] /\ touched' = {}
      /\ UNCHANGED <<dirs, disk, call>>
  BY DEF ScanCannotList
<1>2. scan' \in Scans
  BY <1>1, Counts DEF NoScan, Scans
<1>3. scan'.pc = "done" /\ scan'.entries = {} /\ scan'.results = {} /\ scan'.missed = Models
  BY <1>1 DEF NoScan
<1>4. ScanTypes'
  BY <1>2, <1>3 DEF ScanTypes
<1>5. RestInv'
  BY <1>1, <1>3 DEF RestInv, Rest, Found, Walked
<1>6. DiskTypes' /\ CallTypes' /\ CrossInv' /\ WorkInv'
  BY <1>1, ScanLeaves DEF CacheInv, DiskTypes
<1> QED
  BY <1>4, <1>5, <1>6 DEF CacheInv

LEMMA ScanCanceledKeeps ==
  ASSUME CacheInv, ScanCanceled
  PROVE  CacheInv'
<1>1. /\ scan' = [NoScan EXCEPT !.pc = "error"]
      /\ UNCHANGED <<dirs, disk, call, touched>>
  BY DEF ScanCanceled
<1>2. scan' \in Scans /\ scan'.pc = "error"
  BY <1>1, Counts DEF NoScan, Scans
<1>3. ScanTypes' /\ RestInv'
  BY <1>2 DEF ScanTypes, RestInv
<1>4. DiskTypes' /\ CallTypes' /\ CrossInv' /\ WorkInv'
  BY <1>1, ScanLeaves
<1> QED
  BY <1>3, <1>4 DEF CacheInv

LEMMA ScanEntryKeeps ==
  ASSUME CacheInv, NEW m \in Models, ScanEntry(m)
  PROVE  CacheInv'
<1> USE DEF CacheInv
<1>1. /\ scan.pc = "entries" /\ m \in scan.entries
      /\ scan' = [scan EXCEPT !.pc = "walk", !.entries = @ \ {m}, !.model = m,
                              !.names = disk[m], !.totalSize = 0]
      /\ UNCHANGED <<dirs, disk, call, touched>> /\ disk[m] \in SUBSET Files
  BY DEF ScanEntry, DiskTypes
<1>2. scan \in Scans
  BY DEF ScanTypes
<1>3. scan' \in Scans
  BY <1>1, <1>2, Counts DEF Scans
<1>4. /\ scan'.pc = "walk" /\ scan'.entries = scan.entries \ {m} /\ scan'.model = m
      /\ scan'.names = disk[m] /\ scan'.totalSize = 0 /\ scan'.results = scan.results
      /\ scan'.missed = scan.missed
  BY <1>1, <1>2 DEF Scans
<1>5. Cardinality(disk[m]) \in Sizes /\ 0 + Cardinality(disk[m]) = Cardinality(disk[m])
  BY <1>1, Counts DEF Sizes
<1>6. ScanTypes'
  BY <1>3, <1>4, <1>5 DEF ScanTypes
<1>7. RestInv'
  <2> SUFFICES ASSUME NEW n \in Models \ touched
               PROVE  Rest(n)'
    BY <1>1, <1>4 DEF RestInv
  <2>1. Listed(n)' = Listed(n) /\ Entry(n)' = Entry(n) /\ (Walked(n)' <=> n = m) /\ ~ Walked(n)
    BY <1>1, <1>4 DEF Listed, Entry, Walked
  <2>2. CASE n = m
    <3>1. m \in dirs /\ Listed(m) = {} /\ m \notin scan.missed
      BY <1>1, <2>2 DEF RestInv, Rest
    <3>2. Counted(m)'
      BY <1>1, <1>4, <1>5, <3>1 DEF Counted
    <3> QED
      BY <1>1, <1>4, <2>1, <2>2, <3>1, <3>2 DEF Rest
  <2>3. CASE n # m
    <3>1. Rest(n) /\ (Found(n) => Found(n)')
      BY <1>1, <1>4, <2>1 DEF RestInv, Found, ListedShort
    <3> QED
      BY <1>1, <1>4, <2>1, <2>3, <3>1 DEF Rest
  <2> QED
    BY <2>2, <2>3
<1>8. DiskTypes' /\ CallTypes' /\ CrossInv' /\ WorkInv'
  BY <1>1, ScanLeaves
<1> QED
  BY <1>6, <1>7, <1>8

LEMMA ScanFileKeeps ==
  ASSUME CacheInv, NEW f \in Files, ScanFile(f)
  PROVE  CacheInv'
<1> USE DEF CacheInv
<1> DEFINE total == IF f \in disk[scan.model] THEN scan.totalSize + 1 ELSE scan.totalSize
<1>1. /\ scan.pc = "walk" /\ f \in scan.names
      /\ scan' = [scan EXCEPT !.names = @ \ {f}, !.totalSize = total]
      /\ UNCHANGED <<dirs, disk, call, touched>>
  BY DEF ScanFile
<1>2. /\ scan \in Scans /\ scan.model \in Models /\ scan.names \in SUBSET Files
      /\ scan.totalSize \in Nat /\ scan.totalSize + Cardinality(scan.names) \in Sizes
  <2>1. scan \in Scans /\ scan.model \in Models /\ scan.totalSize + Cardinality(scan.names) \in Sizes
    BY <1>1 DEF ScanTypes
  <2>2. scan.names \in SUBSET Files /\ scan.totalSize \in Sizes
    BY <2>1 DEF Scans
  <2> QED
    BY <2>1, <2>2 DEF Sizes
<1>3. Cardinality(scan.names \ {f}) = Cardinality(scan.names) - 1 /\ Cardinality(scan.names) \in Nat
      /\ Cardinality(scan.names \ {f}) \in Nat
  <2>1. scan.names \ {f} \in SUBSET Files
    BY <1>2
  <2> QED
    BY <1>1, <1>2, <2>1, OneLess, Counts DEF Sizes
<1>4. /\ total \in Sizes /\ total + Cardinality(scan.names \ {f}) \in Sizes
      /\ f \in disk[scan.model] =>
           total + Cardinality(scan.names \ {f}) = scan.totalSize + Cardinality(scan.names)
  BY <1>2, <1>3, Counts DEF Sizes
<1> HIDE DEF total
<1>5. /\ scan'.pc = "walk" /\ scan'.entries = scan.entries /\ scan'.model = scan.model
      /\ scan'.names = scan.names \ {f} /\ scan'.totalSize = total
      /\ scan'.results = scan.results /\ scan'.missed = scan.missed /\ scan' \in Scans
  BY <1>1, <1>2, <1>4 DEF Scans
<1>6. ScanTypes'
  BY <1>2, <1>4, <1>5 DEF ScanTypes
<1>7. RestInv'
  <2> SUFFICES ASSUME NEW n \in Models \ touched
               PROVE  Rest(n)'
    BY <1>1, <1>5 DEF RestInv
  <2>1. Listed(n)' = Listed(n) /\ Entry(n)' = Entry(n) /\ Walked(n)' = Walked(n)
    BY <1>1, <1>5 DEF Listed, Entry, Walked
  <2>2. Rest(n) /\ (Walked(n) => f \in disk[n] /\ scan.model = n)
    BY <1>1 DEF RestInv, Rest, Walked
  <2>3. Walked(n) => Counted(n)'
    BY <1>1, <1>4, <1>5, <2>2 DEF Rest, Counted
  <2>4. Found(n) => Found(n)'
    BY <1>1, <1>5, <2>1 DEF Found, ListedShort
  <2> QED
    BY <1>1, <1>5, <2>1, <2>2, <2>3, <2>4 DEF Rest
<1>8. DiskTypes' /\ CallTypes' /\ CrossInv' /\ WorkInv'
  BY <1>1, ScanLeaves
<1> QED
  BY <1>6, <1>7, <1>8

LEMMA ScanFileFailsKeeps ==
  ASSUME CacheInv, NEW f \in Files, ScanFileFails(f)
  PROVE  CacheInv'
<1> USE DEF CacheInv
<1>1. /\ scan.pc = "walk" /\ f \in scan.names /\ f \in disk[scan.model]
      /\ scan' = [scan EXCEPT !.names = @ \ {f}, !.missed = @ \cup {scan.model}]
      /\ UNCHANGED <<dirs, disk, call, touched>>
  BY DEF ScanFileFails
<1>2. /\ scan \in Scans /\ scan.model \in Models /\ scan.names \in SUBSET Files
      /\ scan.totalSize \in Nat /\ scan.totalSize + Cardinality(scan.names) \in Sizes
  <2>1. scan \in Scans /\ scan.model \in Models /\ scan.totalSize + Cardinality(scan.names) \in Sizes
    BY <1>1 DEF ScanTypes
  <2>2. scan.names \in SUBSET Files /\ scan.totalSize \in Sizes
    BY <2>1 DEF Scans
  <2> QED
    BY <2>1, <2>2 DEF Sizes
<1>3. Cardinality(scan.names \ {f}) = Cardinality(scan.names) - 1 /\ Cardinality(scan.names) \in Nat
      /\ Cardinality(scan.names \ {f}) \in Nat
  <2>1. scan.names \ {f} \in SUBSET Files
    BY <1>2
  <2> QED
    BY <1>1, <1>2, <2>1, OneLess, Counts DEF Sizes
<1>4. scan.totalSize + Cardinality(scan.names \ {f}) \in Sizes
  BY <1>2, <1>3, Counts DEF Sizes
<1>5. /\ scan'.pc = "walk" /\ scan'.entries = scan.entries /\ scan'.model = scan.model
      /\ scan'.names = scan.names \ {f} /\ scan'.totalSize = scan.totalSize
      /\ scan'.results = scan.results /\ scan'.missed = scan.missed \cup {scan.model}
      /\ scan' \in Scans
  BY <1>1, <1>2 DEF Scans
<1>6. ScanTypes'
  BY <1>2, <1>4, <1>5 DEF ScanTypes
<1>7. RestInv'
  <2> SUFFICES ASSUME NEW n \in Models \ touched PROVE Rest(n)'
    BY <1>1, <1>5 DEF RestInv
  <2>1. /\ Listed(n)' = Listed(n) /\ Entry(n)' = Entry(n) /\ Walked(n)' = Walked(n)
        /\ (Walked(n) <=> n = scan.model) /\ Rest(n)
    BY <1>1, <1>5 DEF Listed, Entry, Walked, RestInv
  <2>2. CASE n = scan.model
    <3>1. Counted(n) /\ Cardinality(disk[n]) \in Nat
      BY <2>1, <2>2, Counts DEF Rest, DiskTypes, Sizes
    <3>2. Counted(n)'
      BY <1>1, <1>2, <1>3, <1>5, <2>2, <3>1 DEF Counted
    <3> QED
      BY <1>1, <1>5, <2>1, <2>2, <3>2 DEF Rest
  <2>3. CASE n # scan.model
    <3>1. Found(n) => Found(n)'
      BY <1>1, <1>5, <2>1, <2>3 DEF Found, ListedShort
    <3> QED
      BY <1>1, <1>5, <2>1, <2>3, <3>1 DEF Rest
  <2> QED
    BY <2>2, <2>3
<1>8. DiskTypes' /\ CallTypes' /\ CrossInv' /\ WorkInv'
  BY <1>1, ScanLeaves
<1> QED
  BY <1>6, <1>7, <1>8

LEMMA ScanAppendsKeeps ==
  ASSUME CacheInv, ScanAppends
  PROVE  CacheInv'
<1> USE DEF CacheInv
<1> DEFINE entry == [name |-> scan.model, size |-> scan.totalSize]
<1>1. /\ scan.pc = "walk" /\ scan.names = {}
      /\ scan' = [scan EXCEPT !.pc = "entries", !.results = @ \cup {entry}]
      /\ UNCHANGED <<dirs, disk, call, touched>>
  BY DEF ScanAppends
<1>2. /\ scan \in Scans /\ scan.model \in Models /\ scan.totalSize \in Sizes
      /\ scan.totalSize + Cardinality(scan.names) = scan.totalSize
  <2>1. scan \in Scans /\ scan.model \in Models /\ scan.totalSize \in Sizes
    BY <1>1 DEF ScanTypes, Scans
  <2> QED
    BY <1>1, <2>1, Counts DEF Sizes
<1>3. /\ entry \in [name : Models, size : Sizes]
      /\ entry.name = scan.model /\ entry.size = scan.totalSize
  BY <1>2
<1>4. /\ scan'.pc = "entries" /\ scan'.entries = scan.entries
      /\ scan'.results = scan.results \cup {entry} /\ scan'.missed = scan.missed
      /\ scan' \in Scans
  <2> HIDE DEF entry
  <2> QED
    BY <1>1, <1>2, <1>3 DEF Scans
<1>6. ScanTypes'
  BY <1>4 DEF ScanTypes
<1>7. RestInv'
  <2> SUFFICES ASSUME NEW n \in Models \ touched
               PROVE  Rest(n)'
    BY <1>1, <1>4 DEF RestInv
  <2>1. ~ Walked(n)' /\ Entry(n)' = Entry(n) /\ (Walked(n) <=> scan.model = n)
    BY <1>1, <1>4 DEF Entry, Walked
  <2>0. Rest(n)
    BY <1>1 DEF RestInv
  <2>2. CASE n = scan.model
    <3>1. Listed(n) = {} /\ n \in dirs /\ n \notin scan.entries /\ Counted(n)
      BY <2>0, <2>1, <2>2 DEF Rest
    <3>2. Listed(n)' = {entry}
      BY <1>3, <1>4, <2>2, <3>1 DEF Listed
    <3>3. IF n \in scan.missed THEN scan.totalSize < Cardinality(disk[n])
          ELSE scan.totalSize = Cardinality(disk[n])
      BY <1>2, <3>1 DEF Counted
    <3>4. CASE n \in scan.missed
      <4>1. ListedShort(n)'
        BY <1>1, <1>2, <2>2, <3>1, <3>2, <3>3, <3>4 DEF ListedShort, Sizes
      <4> QED
        BY <1>4, <2>1, <3>1, <3>4, <4>1 DEF Rest, Found
    <3>5. CASE n \notin scan.missed
      BY <1>4, <2>1, <2>2, <3>1, <3>2, <3>3, <3>5 DEF Entry, Rest, Found
    <3> QED
      BY <3>4, <3>5
  <2>3. CASE n # scan.model
    <3>1. Listed(n)' = Listed(n)
      BY <1>3, <1>4, <2>3 DEF Listed
    <3>2. Found(n) => Found(n)'
      BY <1>1, <1>4, <2>1, <3>1 DEF Found, ListedShort
    <3> QED
      BY <1>1, <1>4, <2>0, <2>1, <2>3, <3>1, <3>2 DEF Rest
  <2> QED
    BY <2>2, <2>3
<1>8. DiskTypes' /\ CallTypes' /\ CrossInv' /\ WorkInv'
  BY <1>1, ScanLeaves
<1> QED
  BY <1>6, <1>7, <1>8

LEMMA ScanReturnsKeeps ==
  ASSUME CacheInv, ScanReturns
  PROVE  CacheInv'
<1> USE DEF CacheInv
<1>1. /\ scan.pc = "entries" /\ scan.entries = {} /\ scan' = [scan EXCEPT !.pc = "done"]
      /\ UNCHANGED <<dirs, disk, call, touched>> /\ scan \in Scans
  BY DEF ScanReturns, ScanTypes
<1>2. /\ scan'.pc = "done" /\ scan'.entries = {} /\ scan'.results = scan.results
      /\ scan'.missed = scan.missed /\ scan' \in Scans
  BY <1>1 DEF Scans
<1>3. ScanTypes'
  BY <1>2 DEF ScanTypes
<1>4. \A n \in Models : /\ Listed(n)' = Listed(n) /\ Entry(n)' = Entry(n)
                        /\ ~ Walked(n)' /\ ~ Walked(n)
  BY <1>1, <1>2 DEF Listed, Entry, Walked
<1>5. RestInv'
  <2>1. ASSUME NEW n \in Models \ touched PROVE Rest(n)'
    <3>1. Rest(n) /\ (Found(n) => Found(n)')
      BY <1>1, <1>2, <1>4 DEF RestInv, Found, ListedShort
    <3> QED
      BY <1>1, <1>2, <1>4, <3>1 DEF Rest
  <2> QED
    BY <1>1, <1>2, <2>1 DEF RestInv
<1>6. DiskTypes' /\ CallTypes' /\ CrossInv' /\ WorkInv'
  BY <1>1, ScanLeaves
<1> QED
  BY <1>3, <1>5, <1>6

----------------------------------------------------------------------------
LEMMA CacheInvariant == Spec => []CacheInv
<1>1. CacheInv /\ [Next]_vars => CacheInv'
  <2> SUFFICES ASSUME CacheInv, [Next]_vars PROVE CacheInv'
    OBVIOUS
  <2>1. CASE UNCHANGED vars
    BY <2>1 DEF vars, CacheInv, DiskTypes, CallTypes, ScanTypes, CrossInv, WorkInv, RestInv,
       Rest, Counted, Found, ListedShort, Active, Walked, Listed, Entry
  <2> QED
    BY <2>1, CallerKeeps, ScanListsKeeps, ScanCannotListKeeps, ScanCanceledKeeps,
       ScanEntryKeeps, ScanFileKeeps, ScanFileFailsKeeps, ScanAppendsKeeps, ScanReturnsKeeps
       DEF Next
<1> QED
  BY <1>1, InitIsGood, PTL DEF Spec

\* A call has no more to do and a scan no more counted than there are files.
THEOREM CacheTypes == Spec => []TypeOK
<1>1. CacheInv => TypeOK
  BY DEF CacheInv, DiskTypes, CallTypes, ScanTypes, Calls, Scans, Sizes, TypeOK
<1> QED
  BY <1>1, CacheInvariant, PTL

\* ScanLocal is right about every model that no helper touched meanwhile, and where it
\* could not read the cache lists too little, never too much.
THEOREM RestingModelsListedRight == Spec => []RestingModelsAreRight
<1>1. CacheInv => RestingModelsAreRight
  <2> SUFFICES ASSUME CacheInv, scan.pc = "done", NEW m \in Models \ touched
               PROVE  IF m \in scan.missed THEN scan.results = {} \/ ListedShort(m)
                      ELSE Listed(m) = Entry(m)
    BY DEF RestingModelsAreRight, Entry
  <2> QED
    BY DEF CacheInv, RestInv, Rest, Found, Walked
<1> QED
  BY <1>1, CacheInvariant, PTL

\* Pull and Delete, where no other call crosses them, do what they say: but a Pull
\* that reports no size says nothing.
THEOREM SuccessIsEarned == Spec => SuccessMeansDone
<1> DEFINE Earned == \A c \in Callers :
                       Active(c) /\ ~ call[c].crossed /\ call'[c].pc = "ok" => Done(c)
<1>1. CacheInv /\ [Next]_vars => [Earned]_vars
  <2> SUFFICES ASSUME CacheInv, Next, NEW c \in Callers, Active(c), ~ call[c].crossed,
                      call'[c].pc = "ok"
               PROVE  Done(c)
    OBVIOUS
  <2> USE DEF CacheInv
  <2>1. call[c].pc # "ok" /\ call \in [Callers -> Calls] /\ call[c].model \in Models
        /\ call[c].op \in {"pull", "delete"}
    BY DEF Active, CallTypes
  <2>2. CASE PullEnds(c)
    <3>1. /\ call[c].pc = "work" /\ call[c].op = "pull" /\ call[c].todo = {} /\ disk' = disk
          /\ call'[c].size = Cardinality(disk[call[c].model])
      BY <2>1, <2>2 DEF PullEnds, NoCall
    <3>2. disk[call[c].model] = Files
      BY <2>1, <3>1 DEF WorkInv, DiskTypes
    <3> QED
      BY <3>1, <3>2 DEF Done
  <2>3. CASE DeleteEnds(c)
    <3>1. /\ call[c].pc = "work" /\ call[c].op = "delete" /\ call[c].todo = {}
          /\ dirs' = (IF disk[call[c].model] = {} THEN dirs \ {call[c].model} ELSE dirs)
      BY <2>3 DEF DeleteEnds
    <3>2. disk[call[c].model] = {}
      BY <3>1 DEF WorkInv
    <3> QED
      BY <3>1, <3>2 DEF Done
  <2>4. ASSUME NEW d \in Callers, NEW result \in Results, result # "ok", Return(d, result)
        PROVE  call'[c].pc # "ok"
    BY <2>1, <2>4 DEF Return, NoCall
  <2>5. ASSUME NEW d \in Callers, d # c, PullEnds(d) \/ DeleteEnds(d)
        PROVE  call'[c].pc # "ok"
    BY <2>1, <2>5 DEF PullEnds, DeleteEnds, Return
  <2>6. ASSUME NEW d \in Callers, NEW m \in Models, NEW op \in {"pull", "delete"}, Call(d, m, op)
        PROVE  call'[c].pc # "ok"
    <3>1. call[c] \in Calls /\ d # c
      BY <2>1, <2>6 DEF Call
    <3>2. call'[c].pc = call[c].pc
      BY <2>6, <3>1 DEF Call, Calls
    <3> QED
      BY <2>1, <3>2
  <2>7. ASSUME NEW d \in Callers,
               PullBegins(d) \/ DeleteBegins(d) \/ \E f \in Files : HelperWorks(d, f)
        PROVE  call'[c].pc # "ok"
    <3>1. ASSUME NEW todo, call' = [call EXCEPT ![d].pc = "work", ![d].todo = todo]
          PROVE  call'[c].pc # "ok"
      BY <2>1, <3>1 DEF Calls
    <3>2. ASSUME NEW todo, call' = [call EXCEPT ![d].todo = todo]
          PROVE  call'[c].pc # "ok"
      BY <2>1, <3>2 DEF Calls
    <3>3. CASE PullBegins(d)
      BY <3>1, <3>3 DEF PullBegins
    <3>4. CASE DeleteBegins(d)
      BY <3>1, <3>4 DEF DeleteBegins
    <3>5. ASSUME NEW f \in Files, HelperWorks(d, f) PROVE call'[c].pc # "ok"
      BY <2>1, <3>2, <3>5 DEF HelperWorks
    <3> QED
      BY <2>7, <3>3, <3>4, <3>5
  <2>8. CASE UNCHANGED call
    BY <2>1, <2>8
  <2>12. ASSUME NEW d \in Callers, HelperFailsQuietly(d) PROVE Done(c)
    <3>1. d = c
      BY <2>1, <2>12 DEF HelperFailsQuietly, Return
    <3>2. call[c].op = "pull" /\ call'[c].size = 0
      BY <2>1, <2>12, <3>1 DEF HelperFailsQuietly, Return, NoCall
    <3> QED
      BY <3>2 DEF Done
  <2>9. /\ \A d \in Callers : HelperUnavailable(d) => Return(d, "ErrHuggingFaceHubUnavailable")
        /\ \A d \in Callers : DeleteFindsNone(d) => Return(d, "ErrLocalModelNotFound")
        /\ \A d \in Callers : HelperFails(d) => Return(d, "error")
    BY DEF HelperUnavailable, DeleteFindsNone, HelperFails
  <2>10. /\ ScanLists \/ ScanCannotList \/ ScanCanceled \/ ScanAppends \/ ScanReturns => UNCHANGED call
         /\ \A m \in Models : ScanEntry(m) => UNCHANGED call
         /\ \A f \in Files : ScanFile(f) \/ ScanFileFails(f) => UNCHANGED call
    BY DEF ScanLists, ScanCannotList, ScanCanceled, ScanAppends, ScanReturns, ScanEntry,
       ScanFile, ScanFileFails
  <2>11. \A d \in Callers :
           HelperUnavailable(d) \/ DeleteFindsNone(d) \/ HelperFails(d) => call'[c].pc # "ok"
    BY <2>4, <2>9 DEF Results
  <2> QED
    BY <2>2, <2>3, <2>5, <2>6, <2>7, <2>8, <2>10, <2>11, <2>12 DEF Next
<1> QED
  BY <1>1, CacheInvariant, PTL DEF Spec, SuccessMeansDone

=============================================================================
