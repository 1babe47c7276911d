------------------------------- MODULE Sizing -------------------------------
(***************************************************************************)
(* The arithmetic behind memory estimates, compression advice and model    *)
(* ranking: packages memory, optimize and models (recommend.go).           *)
(*                                                                         *)
(* Sizes are natural numbers of bytes; a scalar's size is counted in       *)
(* halves of a byte, so that a float64 product truncated to uint64 is an   *)
(* integer division by two.  Scores are compared, never reported, so they  *)
(* are scaled to integers by a factor common to all candidates.            *)
(***************************************************************************)
EXTENDS Naturals, Sequences, FiniteSets

CONSTANTS
  Registry,         \* staticRegistry: a sequence of models
  Overhead,         \* runtimeOverheadBytes
  DefaultContext    \* 8192 of recommend.go and defaultContextLength

Precisions == {"fp16", "fp8", "int8", "int4"}
Profiles == {"speed", "balanced", "memory", "maximum-context"}

Architectures ==
  [layers : Nat, kvHeads : Nat, headDim : Nat, hidden : Nat, params : Nat]

ASSUME RegistryAssumption ==
  /\ Registry \in Seq([name : STRING, arch : Architectures, tasks : SUBSET STRING,
                       supported : BOOLEAN, recommended : BOOLEAN])
  /\ \A i, j \in DOMAIN Registry : Registry[i].name = Registry[j].name => i = j
ASSUME SizesAssumption == Overhead \in Nat /\ DefaultContext \in Nat \ {0}

----------------------------------------------------------------------------
(* Package memory.                                                         *)

\* Precision.BytesPerElement, in half bytes.
HalfBytes(precision) ==
  CASE precision = "fp16" -> 4
    [] precision \in {"fp8", "int8"} -> 2
    [] precision = "int4" -> 1

EstimateKVCacheBytes(arch, context, precision) ==
  (arch.layers * context * arch.kvHeads * arch.headDim * 2 * HalfBytes(precision)) \div 2

estimateParameterCount(arch) == 12 * arch.hidden * arch.hidden * arch.layers

modelMemoryBytes(arch, precision) ==
  LET params == IF arch.params > 0 THEN arch.params ELSE estimateParameterCount(arch)
  IN (params * HalfBytes(precision)) \div 2

\* Estimate for a positive context length: the footprint before and after
\* compressing the KV cache.
Estimate(arch, context, precision, optimized) ==
  LET fixed == modelMemoryBytes(arch, precision) + Overhead
      total == fixed + EstimateKVCacheBytes(arch, context, precision)
      optimizedTotal == fixed + EstimateKVCacheBytes(arch, context, optimized)
  IN [total |-> total, optimizedTotal |-> optimizedTotal,
      saved |-> IF total > optimizedTotal THEN total - optimizedTotal ELSE 0]

\* A bug: the compressed footprint decides whether compression is needed.
RecommendStrategySwapped(estimate, available) ==
  CASE available = 0 -> [precision |-> "int4", reason |-> "unknown"]
    [] available > 0 /\ estimate.optimizedTotal <= available ->
         [precision |-> "fp16", reason |-> "sufficient"]
    [] OTHER -> [precision |-> "int4", reason |-> "tight"]

\* The precision and the reason for it; 0 bytes available means "unknown".
RecommendStrategy(estimate, available) ==
  CASE available = 0 -> [precision |-> "int4", reason |-> "unknown"]
    [] available > 0 /\ estimate.total <= available ->
         [precision |-> "fp16", reason |-> "sufficient"]
    [] available > 0 /\ estimate.total > available /\ estimate.optimizedTotal <= available ->
         [precision |-> "int4", reason |-> "compressed"]
    [] OTHER -> [precision |-> "int4", reason |-> "tight"]

----------------------------------------------------------------------------
(* Package optimize.                                                       *)

precisionForProfile(profile) ==
  CASE profile = "speed" -> "fp16"
    [] profile = "balanced" -> "int8"
    [] profile \in {"memory", "maximum-context"} -> "int4"

\* A bug: 16 bits are called balanced.
profileForPrecisionShifted(precision, estimate, available) ==
  IF precision = "fp16" THEN "balanced" ELSE "memory"

\* A bug: the comparison is the wrong way round.
profileForPrecisionReversed(precision, estimate, available) ==
  CASE precision = "fp16" -> "speed"
    [] precision = "int8" -> "balanced"
    [] precision \in {"fp8", "int4"} ->
         IF available > 2 * estimate.optimizedTotal THEN "memory" ELSE "maximum-context"

profileForPrecision(precision, estimate, available) ==
  CASE precision = "fp16" -> "speed"
    [] precision = "int8" -> "balanced"
    [] precision \in {"fp8", "int4"} ->
         IF available > 0 /\ estimate.optimizedTotal > 0 /\ available < 2 * estimate.optimizedTotal
         THEN "memory" ELSE "maximum-context"

\* A bug: the width of a pair.
bitsForPrecisionDoubled(precision) ==
  CASE precision = "fp16" -> 32
    [] precision \in {"fp8", "int8"} -> 16
    [] precision = "int4" -> 8

bitsForPrecision(precision) ==
  CASE precision = "fp16" -> 16
    [] precision \in {"fp8", "int8"} -> 8
    [] precision = "int4" -> 4

\* optimizer.Recommend for a positive context length; a profile that is not
\* one of Profiles leaves the choice to the available memory.
Recommend(arch, context, available, profile) ==
  LET estimate == Estimate(arch, context, "fp16", "int4")
      strategy == IF profile \in Profiles
                  THEN [precision |-> precisionForProfile(profile), reason |-> "requested"]
                  ELSE RecommendStrategy(estimate, available)
      final == Estimate(arch, context, "fp16", strategy.precision)
  IN [profile |-> IF profile \in Profiles THEN profile
                  ELSE profileForPrecision(strategy.precision, estimate, available),
      bits |-> bitsForPrecision(strategy.precision),
      before |-> final.total,
      after |-> final.optimizedTotal,
      reason |-> strategy.reason]

----------------------------------------------------------------------------
(* Package models: ranking the registry.                                   *)

\* What loading model m as 4-bit weights and cache takes.
Footprint(m, context) == Estimate(m.arch, context, "int4", "int4").total

\* A bug: no context length is taken for a context of length one.
ScoringContextOne(context) == IF context = 0 THEN 1 ELSE context

ScoringContext(context) == IF context = 0 THEN DefaultContext ELSE context

\* Where the models RecommendScored considers are in the registry; an empty
\* task asks for any.
Fitting(task, available, context) ==
  {i \in DOMAIN Registry :
     LET m == Registry[i]
     IN /\ m.supported
        /\ task = "" \/ task \in m.tasks
        /\ available > 0 => Footprint(m, ScoringContext(context)) <= available}

\* baseScore + headroom * headroomWeight, times twice the available memory.
Score(m, available, context) ==
  LET bonus == IF m.recommended THEN 1 ELSE 0
  IN IF available = 0 THEN bonus
     ELSE bonus * available + 2 * (available - Footprint(m, ScoringContext(context)))

\* The order of the stable descending sort by score.
Before(i, j, available, context) ==
  LET first == Score(Registry[i], available, context)
      second == Score(Registry[j], available, context)
  IN first > second \/ (first = second /\ i < j)

RecommendScored(task, available, context) ==
  LET fitting == Fitting(task, available, context)
      Rank(i) == 1 + Cardinality({j \in fitting : Before(j, i, available, context)})
  IN [k \in 1 .. Cardinality(fitting) |-> Registry[CHOOSE i \in fitting : Rank(i) = k]]

============================================================================
