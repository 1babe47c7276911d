------------------------------ MODULE Planner ------------------------------
(***************************************************************************)
(* autopilot.go and optimize/optimizer.go.  AutoPilot reads the hardware,  *)
(* selects a model and asks the optimizer for an advice; an application    *)
(* may also ask the optimizer itself, and may ask again with the advised   *)
(* profile made explicit, the way a configuration is pinned.               *)
(*                                                                         *)
(* AutoPilot goes through OptimizeService, client.go, which has no field   *)
(* for the available memory: its advice is asked for with 0, "unknown".    *)
(***************************************************************************)
EXTENDS Sizing, Detection

CONSTANTS
  Tasks,        \* bound: the tasks AutoPilot is asked for, "" for any
  Pins,         \* bound: the models it is asked for by name, known or not
  Shapes,       \* bound: the architectures the optimizer is asked about
  Contexts,     \* bound: the context lengths asked for, 0 for none
  Totals,       \* bound: the sizes of the hardware's memory, 0 for none given
  Memories      \* bound: the amounts of available memory, 0 for unknown

ASSUME WishesAssumption ==
  /\ Tasks \subseteq STRING /\ Pins \subseteq STRING /\ Shapes \subseteq Architectures
  /\ Contexts \subseteq Nat /\ Memories \subseteq Nat /\ Totals \subseteq Nat

VARIABLES
  cfg,          \* AutoPilotConfig; model "auto" lets AutoPilot choose
  hardware,     \* the memory System.Info found
  pc,           \* where the call is, or how it returned
  model,        \* modelInfo
  request,      \* what the optimizer is asked
  rec,          \* what it answers
  pinned        \* what it answers with the advised profile made explicit

vars == <<cfg, hardware, pc, model, request, rec, pinned>>

Configs == [task : Tasks, model : Pins \cup {"auto"}, context : Contexts]
Requests == [arch : Shapes, context : Contexts, available : Memories,
             profile : Profiles \cup {"auto"}]

\* In place of a record there is not, or not yet.
None == [is |-> "none"]

Init ==
  /\ \/ pc = "info" /\ cfg \in Configs /\ request = None
     \/ pc = "asked" /\ cfg = None /\ request \in Requests
  /\ hardware = Unknown /\ model = None /\ rec = None /\ pinned = None

----------------------------------------------------------------------------
(* Client.AutoPilot.                                                       *)

\* System.Info, line 81.
Inspect(reading) ==
  /\ pc = "info"
  /\ hardware' = DetectedMemory(reading) /\ pc' = "select"
  /\ UNCHANGED <<cfg, model, request, rec, pinned>>

\* Lines 130-133.
SelectPinned ==
  /\ pc = "select" /\ cfg.model # "auto"
  /\ \E i \in DOMAIN Registry : Registry[i].name = cfg.model /\ model' = Registry[i]
  /\ pc' = "recommend"
  /\ UNCHANGED <<cfg, hardware, request, rec, pinned>>

\* A bug: the error of selectModel is not returned.
SelectUnknownIgnored ==
  /\ pc = "select" /\ cfg.model # "auto"
  /\ \A i \in DOMAIN Registry : Registry[i].name # cfg.model
  /\ pc' = "recommend"
  /\ UNCHANGED <<cfg, hardware, model, request, rec, pinned>>

\* Line 134.
SelectUnknown ==
  /\ pc = "select" /\ cfg.model # "auto"
  /\ \A i \in DOMAIN Registry : Registry[i].name # cfg.model
  /\ pc' = "ErrModelNotFound"
  /\ UNCHANGED <<cfg, hardware, model, request, rec, pinned>>

\* Lines 137-144 and 154.
SelectBest ==
  /\ pc = "select" /\ cfg.model = "auto"
  /\ LET candidates == RecommendScored(cfg.task, hardware.available, cfg.context)
     IN candidates # <<>> /\ model' = Head(candidates)
  /\ pc' = "recommend"
  /\ UNCHANGED <<cfg, hardware, request, rec, pinned>>

\* Lines 146-152.
SelectNone ==
  /\ pc = "select" /\ cfg.model = "auto"
  /\ RecommendScored(cfg.task, hardware.available, cfg.context) = <<>>
  /\ pc' = IF Registry = <<>> THEN "ErrModelNotFound" ELSE "ErrInsufficientMemory"
  /\ UNCHANGED <<cfg, hardware, model, request, rec, pinned>>

\* Lines 86-89.
contextLength == IF cfg.context = 0 THEN DefaultContext ELSE cfg.context

\* Lines 96-101 and OptimizeService.Recommend.
Advise ==
  /\ pc = "recommend" /\ pc' = "asked"
  /\ request' = [arch |-> model.arch, context |-> contextLength, available |-> 0,
                 profile |-> "auto"]
  /\ UNCHANGED <<cfg, hardware, model, rec, pinned>>

\* System.Info or RecommendScored fails, or the context is done.
Fail ==
  /\ pc \in {"info", "select", "recommend"}
  /\ pc' = "failed"
  /\ UNCHANGED <<cfg, hardware, model, request, rec, pinned>>

----------------------------------------------------------------------------
(* Optimizer.Recommend.                                                    *)

\* Lines 55-61: the context is done, or the context length is not positive.
Refuse ==
  /\ pc = "asked" /\ pc' = "failed"
  /\ UNCHANGED <<cfg, hardware, model, request, rec, pinned>>

\* Lines 63-105.
Reply ==
  /\ pc = "asked" /\ request.context > 0 /\ pc' = "answered"
  /\ rec' = Recommend(request.arch, request.context, request.available, request.profile)
  /\ UNCHANGED <<cfg, hardware, model, request, pinned>>

\* The same question with the advised profile made explicit.
Pin ==
  /\ pc = "answered" /\ pinned = None
  /\ pinned' = Recommend(request.arch, request.context, request.available, rec.profile)
  /\ UNCHANGED <<cfg, hardware, pc, model, request, rec>>

Next ==
  \/ \E reading \in Readings(Totals, Memories) : Inspect(reading)
  \/ SelectPinned \/ SelectUnknown \/ SelectBest \/ SelectNone \/ Advise \/ Fail
  \/ Refuse \/ Reply \/ Pin

Spec == Init /\ [][Next]_vars

----------------------------------------------------------------------------
Models == {Registry[i] : i \in DOMAIN Registry}
Advices == [profile : Profiles, bits : {4, 8, 16}, before : Nat, after : Nat,
            reason : {"requested", "unknown", "sufficient", "compressed", "tight"}]

\* The optimizer is asked only about a model AutoPilot found, or a question
\* an application asked itself, and its answers are advices.
TypeOK ==
  /\ cfg \in Configs \cup {None} /\ hardware \in [total : Nat, available : Nat]
  /\ pc \in {"info", "select", "recommend", "asked", "answered", "failed",
             "ErrModelNotFound", "ErrInsufficientMemory"}
  /\ model \in Models \cup {None}
  /\ cfg # None /\ pc \in {"recommend", "asked", "answered"} => model \in Models
  /\ pc \in {"asked", "answered"} => request # None
  /\ rec \in Advices \cup {None} /\ pinned \in Advices \cup {None}

\* Whatever a platform that gives the total says of the rest, what is in use
\* does not wrap below zero in a monitor's samples (client.go line 537); and no
\* machine of which a figure was read is taken for one of unknown memory, which
\* every model fits.  Where /proc/meminfo has the available memory and not the
\* total, the difference does wrap: no line of the code is against it.
HardwareIsRight ==
  /\ hardware.total > 0 => hardware.available <= hardware.total
  /\ hardware.available = 0 => hardware = Unknown

----------------------------------------------------------------------------
(* What AutoPilot selects.                                                 *)

Selected == cfg # None /\ pc \in {"recommend", "asked", "answered"} /\ cfg.model = "auto"

Eligible == {m \in Models : m.supported /\ (cfg.task = "" \/ cfg.task \in m.tasks)}

\* What a model takes at the context length of the plan.
Needs(m) == Footprint(m, contextLength)

\* A model AutoPilot selected itself suits the task, is supported and fits the
\* memory the hardware had, as 4-bit weights and at the context length of the
\* plan: the two defaults for an unset context length agree.
SelectedFits ==
  Selected => model \in Eligible /\ (hardware.available > 0 => Needs(model) <= hardware.available)

\* "a curated pick outranks an equally-fitting alternative": no eligible model
\* that is at least as good in both footprint and curation, and better in one,
\* is passed over.
BestIsSelected ==
  Selected /\ hardware.available > 0 =>
    ~ \E m \in Eligible :
        /\ Needs(m) <= Needs(model) /\ (model.recommended => m.recommended)
        /\ Needs(m) < Needs(model) \/ (m.recommended /\ ~ model.recommended)

\* ErrInsufficientMemory is returned only when no eligible model fits at the
\* context length the plan would have had.
RefusedOnlyIfNothingFits ==
  pc = "ErrInsufficientMemory" =>
    \A m \in Eligible : hardware.available > 0 /\ Needs(m) > hardware.available

\* The selection is the best that fits, and there is none only if nothing fits.
SelectionIsRight == SelectedFits /\ BestIsSelected /\ RefusedOnlyIfNothingFits

----------------------------------------------------------------------------
(* What the optimizer advises.                                             *)

\* The reason of an advice is true of the estimates in the same advice, which
\* a second call of the estimator made for another precision: "sufficient"
\* only if the uncompressed footprint fits, "compressed" only if the
\* compressed one fits and the other does not, "tight" only if neither does.
ReasonIsTrue ==
  pc = "answered" =>
    CASE rec.reason = "sufficient" -> rec.before <= request.available
      [] rec.reason = "compressed" ->
           rec.after <= request.available /\ request.available < rec.before
      [] rec.reason = "tight" -> request.available < rec.after
      [] OTHER -> rec.reason = "unknown" => request.available = 0

\* Making the advised profile explicit changes neither the width nor the
\* estimates: the tables from precisions to profiles and back agree.
PinningKeepsAdvice ==
  pinned # None =>
    /\ pinned.profile = rec.profile
    /\ <<pinned.bits, pinned.before, pinned.after>> = <<rec.bits, rec.before, rec.after>>

\* An advice agrees with itself: its reason with its estimates, and its profile
\* with its precision.
AdviceIsConsistent == ReasonIsTrue /\ PinningKeepsAdvice

\* No compression costs memory, and a narrower cache never takes more.
AdviceNeverGrows ==
  pc = "answered" =>
    /\ rec.after <= rec.before
    /\ \A m \in Memories, p \in Profiles \cup {"auto"} :
         LET other == Recommend(request.arch, request.context, m, p)
         IN other.bits <= rec.bits => other.after <= rec.after

\* With more memory known to be available Recommend never compresses harder,
\* nor does it call for the "memory" profile when less did not.
MoreMemoryCompressesLess ==
  pc = "answered" /\ request.available > 0 =>
    \A m \in Memories : m >= request.available =>
      LET more == Recommend(request.arch, request.context, m, request.profile)
      IN /\ more.bits >= rec.bits
         /\ (request.profile = "auto" /\ more.profile = "memory") => rec.profile = "memory"

\* Less precision never takes more memory, and more memory never costs
\* precision.
AdviceIsMonotone == AdviceNeverGrows /\ MoreMemoryCompressesLess

============================================================================
