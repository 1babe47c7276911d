--------------------------- MODULE Planner_proofs ---------------------------
(* Theorems about Planner, for any registry and any figures of a platform. *)
EXTENDS Planner, FiniteSetTheorems, WellFoundedInduction, TLAPS

\* What a detector makes of a reading is sane.
Sane(memory) ==
  /\ memory \in [total : Nat, available : Nat]
  /\ memory.total > 0 => memory.available <= memory.total
  /\ memory.available = 0 => memory = Unknown

\* No platform's figures, however they add up, yield more available memory than
\* the total it gives, or the appearance of an unknown machine (system/,
\* memoryStats).
LEMMA DetectedIsSane ==
  ASSUME NEW r \in Readings(Totals, Memories)
  PROVE  Sane(DetectedMemory(r))
<1>1. /\ r.platform \in Platforms /\ r.readable \in BOOLEAN
      /\ r.total \in Nat /\ r.available \in Nat
      /\ r.platform # "linux" => r.total > 0
      /\ r.platform # "darwin" => r.available <= r.total \/ r.total = 0
      /\ r.platform = "windows" => r.available > 0
  BY WishesAssumption DEF Readings
<1>2. CASE ~ r.readable \/ r.platform = "other"
  BY <1>2 DEF DetectedMemory, Sane, Unknown
<1>3. CASE r.readable /\ r.platform = "linux"
  <2>1. DetectedMemory(r) = [total |-> r.total, available |-> linuxAvailable(r)]
    BY <1>3 DEF DetectedMemory
  <2>2. /\ linuxAvailable(r) \in Nat /\ r.total \in Nat
        /\ r.total > 0 => linuxAvailable(r) <= r.total
        /\ linuxAvailable(r) = 0 => r.total = 0
    BY <1>1, <1>3 DEF linuxAvailable
  <2> QED
    BY <2>1, <2>2 DEF Sane, Unknown
<1>4. CASE r.readable /\ r.platform = "darwin"
  BY <1>1, <1>4 DEF DetectedMemory, Sane, darwinAvailable
<1>5. CASE r.readable /\ r.platform = "windows"
  BY <1>1, <1>5 DEF DetectedMemory, Sane
<1> QED
  BY <1>1, <1>2, <1>3, <1>4, <1>5 DEF Platforms

\* What AutoPilot and the monitor's sampler read of the hardware is sane in
\* every state: where the total is known, what is in use does not wrap below
\* zero (client.go line 537).
THEOREM HardwareCorrect == Spec => []HardwareIsRight
<1> DEFINE HInv == Sane(hardware)
<1>1. Init => HInv
  BY DEF Init, Sane, Unknown
<1>2. HInv /\ [Next]_vars => HInv'
  <2> SUFFICES ASSUME HInv, [Next]_vars PROVE HInv'
    OBVIOUS
  <2>1. ASSUME NEW reading \in Readings(Totals, Memories), Inspect(reading) PROVE HInv'
    BY <2>1, DetectedIsSane DEF Inspect
  <2>2. CASE UNCHANGED hardware
    BY <2>2
  <2> QED
    BY <2>1, <2>2 DEF Next, vars, SelectPinned, SelectUnknown, SelectBest, SelectNone,
                      Advise, Fail, Refuse, Reply, Pin
<1>3. HInv => HardwareIsRight
  BY DEF Sane, HardwareIsRight
<1> QED
  BY <1>1, <1>2, <1>3, PTL DEF Spec

----------------------------------------------------------------------------
(* The arithmetic of estimates.                                            *)

LEMMA Products == \A a, b \in Nat : a * b \in Nat
OBVIOUS

LEMMA HalfBytesType ==
  ASSUME NEW p \in Precisions
  PROVE  HalfBytes(p) \in {1, 2, 4}
BY DEF Precisions, HalfBytes

\* The scalars of a cache.
Scalars(arch, context) == arch.layers * context * arch.kvHeads * arch.headDim * 2

LEMMA CacheType ==
  ASSUME NEW arch \in Architectures, NEW context \in Nat
  PROVE  /\ Scalars(arch, context) \in Nat
         /\ \A p \in Precisions : EstimateKVCacheBytes(arch, context, p) \in Nat
<1>1. /\ arch.layers \in Nat /\ arch.kvHeads \in Nat /\ arch.headDim \in Nat
  BY DEF Architectures
<1>2. arch.layers * context \in Nat
  BY <1>1, Products
<1>3. arch.layers * context * arch.kvHeads \in Nat
  BY ONLY <1>1, <1>2, Products
<1>4. arch.layers * context * arch.kvHeads * arch.headDim \in Nat
  BY ONLY <1>1, <1>3, Products
<1>5. Scalars(arch, context) \in Nat
  BY ONLY <1>4, Products DEF Scalars
<1>6. ASSUME NEW p \in Precisions PROVE EstimateKVCacheBytes(arch, context, p) \in Nat
  <2>1. EstimateKVCacheBytes(arch, context, p) = (Scalars(arch, context) * HalfBytes(p)) \div 2
    BY DEF EstimateKVCacheBytes, Scalars
  <2>2. HalfBytes(p) \in Nat
    BY HalfBytesType
  <2>3. Scalars(arch, context) * HalfBytes(p) \in Nat
    BY ONLY <1>5, <2>2, Products
  <2>4. \A n \in Nat : n \div 2 \in Nat
    OBVIOUS
  <2> QED
    BY ONLY <2>1, <2>3, <2>4
<1> QED
  BY <1>5, <1>6

\* A narrower cache never takes more.
LEMMA NarrowerIsSmaller ==
  ASSUME NEW arch \in Architectures, NEW context \in Nat,
         NEW p \in Precisions, NEW q \in Precisions, HalfBytes(p) <= HalfBytes(q)
  PROVE  EstimateKVCacheBytes(arch, context, p) <= EstimateKVCacheBytes(arch, context, q)
<1> DEFINE n == Scalars(arch, context)
<1>1. /\ EstimateKVCacheBytes(arch, context, p) = (n * HalfBytes(p)) \div 2
      /\ EstimateKVCacheBytes(arch, context, q) = (n * HalfBytes(q)) \div 2
  BY DEF EstimateKVCacheBytes, Scalars
<1>2. n \in Nat /\ HalfBytes(p) \in {1, 2, 4} /\ HalfBytes(q) \in {1, 2, 4}
  BY CacheType, HalfBytesType
<1> HIDE DEF n
<1>3. (n * 1) \div 2 <= (n * 2) \div 2 /\ (n * 2) \div 2 <= (n * 4) \div 2
      /\ (n * 1) \div 2 <= (n * 4) \div 2
  BY <1>2
<1>4. \A a, b \in {1, 2, 4} : a <= b => (n * a) \div 2 <= (n * b) \div 2
  BY <1>2, <1>3
<1> QED
  BY <1>1, <1>2, <1>4

LEMMA WeightsType ==
  ASSUME NEW arch \in Architectures, NEW p \in Precisions
  PROVE  modelMemoryBytes(arch, p) \in Nat
<1> DEFINE params == IF arch.params > 0 THEN arch.params ELSE estimateParameterCount(arch)
<1>1. arch.params \in Nat /\ arch.hidden \in Nat /\ arch.layers \in Nat /\ HalfBytes(p) \in Nat
  BY HalfBytesType DEF Architectures
<1>2. 12 * arch.hidden \in Nat
  BY <1>1
<1>3. 12 * arch.hidden * arch.hidden \in Nat
  BY ONLY <1>1, <1>2, Products
<1>4. estimateParameterCount(arch) \in Nat
  BY ONLY <1>1, <1>3, Products DEF estimateParameterCount
<1>5. params \in Nat
  BY <1>1, <1>4
<1>6. modelMemoryBytes(arch, p) = (params * HalfBytes(p)) \div 2
  BY DEF modelMemoryBytes
<1> HIDE DEF params
<1>7. params * HalfBytes(p) \in Nat
  BY ONLY <1>1, <1>5, Products
<1>8. \A n \in Nat : n \div 2 \in Nat
  OBVIOUS
<1> QED
  BY ONLY <1>6, <1>7, <1>8

\* Whatever it is compressed to, what a model takes uncompressed is the same.
LEMMA EstimateIs ==
  ASSUME NEW arch \in Architectures, NEW context \in Nat, NEW p \in Precisions,
         NEW q \in Precisions
  PROVE  LET fixed == modelMemoryBytes(arch, p) + Overhead
             e == Estimate(arch, context, p, q)
         IN /\ fixed \in Nat
            /\ e.total = fixed + EstimateKVCacheBytes(arch, context, p)
            /\ e.optimizedTotal = fixed + EstimateKVCacheBytes(arch, context, q)
            /\ e.total \in Nat /\ e.optimizedTotal \in Nat
<1>1. /\ modelMemoryBytes(arch, p) \in Nat /\ Overhead \in Nat
      /\ EstimateKVCacheBytes(arch, context, p) \in Nat
      /\ EstimateKVCacheBytes(arch, context, q) \in Nat
  BY WeightsType, CacheType, SizesAssumption
<1>2. /\ Estimate(arch, context, p, q).total =
           modelMemoryBytes(arch, p) + Overhead + EstimateKVCacheBytes(arch, context, p)
      /\ Estimate(arch, context, p, q).optimizedTotal =
           modelMemoryBytes(arch, p) + Overhead + EstimateKVCacheBytes(arch, context, q)
  BY DEF Estimate
<1> QED
  BY <1>1, <1>2

----------------------------------------------------------------------------
(* What the optimizer advises.                                             *)

Reasons == {"requested", "unknown", "sufficient", "compressed", "tight"}

\* The footprint with the cache kept in some precision.
Total(arch, context, p) ==
  modelMemoryBytes(arch, "fp16") + Overhead + EstimateKVCacheBytes(arch, context, p)

\* What an advice means: its reason is true, and its profile is the one of the
\* precision p it stands for.
Means(r, arch, context, available, profile, p) ==
  /\ r \in Advices /\ p \in {"fp16", "int8", "int4"}
  /\ r.bits = bitsForPrecision(p) /\ precisionForProfile(r.profile) = p
  /\ r.before = Total(arch, context, "fp16") /\ r.after = Total(arch, context, p)
  /\ profile \in Profiles =>
       r.reason = "requested" /\ r.profile = profile /\ p = precisionForProfile(profile)
  /\ profile \notin Profiles =>
       \/ r.reason = "unknown" /\ available = 0 /\ p = "int4" /\ r.profile = "maximum-context"
       \/ r.reason = "sufficient" /\ 0 < available /\ r.before <= available /\ p = "fp16"
          /\ r.profile = "speed"
       \/ /\ 0 < available /\ available < r.before /\ p = "int4"
          /\ \/ r.reason = "compressed" /\ r.after <= available
             \/ r.reason = "tight" /\ available < r.after
          /\ r.profile = IF r.after > 0 /\ available < 2 * r.after
                         THEN "memory" ELSE "maximum-context"

LEMMA ProfilesAndBack ==
  /\ \A profile \in Profiles : precisionForProfile(profile) \in {"fp16", "int8", "int4"}
  /\ precisionForProfile("speed") = "fp16" /\ precisionForProfile("memory") = "int4"
  /\ precisionForProfile("maximum-context") = "int4"
  /\ bitsForPrecision("fp16") = 16 /\ bitsForPrecision("int8") = 8 /\ bitsForPrecision("int4") = 4
BY DEF Profiles, precisionForProfile, bitsForPrecision

LEMMA StrategyIs ==
  ASSUME NEW e, e.total \in Nat, e.optimizedTotal \in Nat, NEW available \in Nat,
         NEW p, NEW reason, p = RecommendStrategy(e, available).precision,
         reason = RecommendStrategy(e, available).reason
  PROVE  \/ available = 0 /\ p = "int4" /\ reason = "unknown"
         \/ 0 < available /\ e.total <= available /\ p = "fp16" /\ reason = "sufficient"
         \/ /\ 0 < available /\ available < e.total /\ p = "int4"
            /\ \/ e.optimizedTotal <= available /\ reason = "compressed"
               \/ available < e.optimizedTotal /\ reason = "tight"
<1>1. CASE available = 0
  BY <1>1 DEF RecommendStrategy
<1>2. CASE available > 0 /\ e.total <= available
  BY <1>2 DEF RecommendStrategy
<1>3. CASE available > 0 /\ e.total > available /\ e.optimizedTotal <= available
  BY <1>3 DEF RecommendStrategy
<1>4. CASE available > 0 /\ e.total > available /\ e.optimizedTotal > available
  BY <1>4 DEF RecommendStrategy
<1> QED
  BY <1>1, <1>2, <1>3, <1>4

LEMMA ProfileIs ==
  ASSUME NEW e, NEW available
  PROVE  /\ profileForPrecision("fp16", e, available) = "speed"
         /\ profileForPrecision("int4", e, available) =
              IF available > 0 /\ e.optimizedTotal > 0 /\ available < 2 * e.optimizedTotal
              THEN "memory" ELSE "maximum-context"
BY DEF profileForPrecision

LEMMA RecommendMeans ==
  ASSUME NEW arch \in Architectures, NEW context \in Nat, NEW available \in Nat,
         NEW profile \in Profiles \cup {"auto"}
  PROVE  \E p \in {"fp16", "int8", "int4"} :
           Means(Recommend(arch, context, available, profile), arch, context, available, profile, p)
<1> DEFINE estimate == Estimate(arch, context, "fp16", "int4")
           strategy == IF profile \in Profiles
                       THEN [precision |-> precisionForProfile(profile), reason |-> "requested"]
                       ELSE RecommendStrategy(estimate, available)
           final == Estimate(arch, context, "fp16", strategy.precision)
           p == strategy.precision
           advised == IF profile \in Profiles THEN profile
                      ELSE profileForPrecision(p, estimate, available)
           r == Recommend(arch, context, available, profile)
<1>1. /\ estimate.total = Total(arch, context, "fp16") /\ estimate.total \in Nat
      /\ estimate.optimizedTotal = Total(arch, context, "int4") /\ estimate.optimizedTotal \in Nat
  BY EstimateIs DEF Total, Precisions
<1>2. r = [profile |-> advised, bits |-> bitsForPrecision(p), before |-> final.total,
           after |-> final.optimizedTotal, reason |-> strategy.reason]
  BY DEF Recommend
<1> HIDE DEF estimate, r
<1>3. CASE profile \in Profiles
  <2>1. /\ p = precisionForProfile(profile) /\ strategy.reason = "requested" /\ advised = profile
        /\ p \in {"fp16", "int8", "int4"} /\ bitsForPrecision(p) \in {4, 8, 16}
    BY <1>3, ProfilesAndBack
  <2> HIDE DEF p, strategy, advised
  <2>2. /\ final.total = Total(arch, context, "fp16") /\ final.total \in Nat
        /\ final.optimizedTotal = Total(arch, context, p) /\ final.optimizedTotal \in Nat
    BY <2>1, EstimateIs DEF Total, Precisions, p
  <2> HIDE DEF final
  <2>3. Means(r, arch, context, available, profile, p)
    BY <1>2, <1>3, <2>1, <2>2 DEF Means, Advices
  <2> QED
    BY <2>1, <2>3 DEF r
<1>4. CASE profile \notin Profiles
  <2>1. /\ strategy = RecommendStrategy(estimate, available)
        /\ advised = profileForPrecision(p, estimate, available)
        /\ p = strategy.precision
    BY <1>4
  <2> HIDE DEF p, strategy, advised
  <2> DEFINE reason == strategy.reason
             t == estimate.total
             o == estimate.optimizedTotal
  <2>2. /\ t \in Nat /\ o \in Nat
        /\ \/ available = 0 /\ p = "int4" /\ reason = "unknown"
           \/ 0 < available /\ t <= available /\ p = "fp16" /\ reason = "sufficient"
           \/ /\ 0 < available /\ available < t /\ p = "int4"
              /\ \/ o <= available /\ reason = "compressed"
                 \/ available < o /\ reason = "tight"
    BY <1>1, <2>1, StrategyIs
  <2> HIDE DEF reason, t, o
  <2>3. /\ p \in {"fp16", "int4"} /\ bitsForPrecision(p) \in {4, 8, 16}
        /\ p = "fp16" => advised = "speed"
        /\ p = "int4" =>
             advised = IF available > 0 /\ o > 0 /\ available < 2 * o
                       THEN "memory" ELSE "maximum-context"
    BY <2>1, <2>2, ProfilesAndBack, ProfileIs DEF o
  <2>4. /\ p = strategy.precision /\ advised \in Profiles /\ precisionForProfile(advised) = p
    BY <2>1, <2>3, ProfilesAndBack DEF Profiles
  <2>5. /\ final.total = Total(arch, context, "fp16") /\ final.total \in Nat
        /\ final.optimizedTotal = Total(arch, context, p) /\ final.optimizedTotal \in Nat
    BY <2>3, EstimateIs DEF Total, Precisions, p
  <2> HIDE DEF final
  <2>6. reason \in Reasons
    BY <2>2 DEF Reasons
  <2>7. /\ r \in Advices /\ r.bits = bitsForPrecision(p) /\ precisionForProfile(r.profile) = p
        /\ r.before = Total(arch, context, "fp16") /\ r.after = Total(arch, context, p)
        /\ r.reason = reason /\ r.profile = advised
    BY <1>2, <2>3, <2>4, <2>5, <2>6 DEF Advices, Reasons, reason
  <2>8. \/ r.reason = "unknown" /\ available = 0 /\ p = "int4" /\ r.profile = "maximum-context"
        \/ r.reason = "sufficient" /\ 0 < available /\ r.before <= available /\ p = "fp16"
           /\ r.profile = "speed"
        \/ /\ 0 < available /\ available < r.before /\ p = "int4"
           /\ \/ r.reason = "compressed" /\ r.after <= available
              \/ r.reason = "tight" /\ available < r.after
           /\ r.profile = IF r.after > 0 /\ available < 2 * r.after
                          THEN "memory" ELSE "maximum-context"
    <3>1. t = r.before /\ t \in Nat /\ (p = "int4" => o = r.after) /\ o \in Nat
      BY <1>1, <2>7 DEF t, o
    <3> QED
      BY <2>2, <2>3, <2>7, <3>1
  <2> QED
    BY <1>4, <2>3, <2>7, <2>8 DEF Means, r
<1> QED
  BY <1>3, <1>4

----------------------------------------------------------------------------
(* What the ranking puts first.                                            *)

\* Every set of numbers has a least one.
LEMMA LeastNumber ==
  ASSUME NEW T \in SUBSET Nat, T # {}
  PROVE  \E n \in T : \A m \in T : ~ (m < n)
<1> DEFINE R == OpToRel(<, Nat)
<1>1. PICK n \in T : \A m \in T : <<m, n>> \notin R
  BY NatLessThanWellFounded, WFMin
<1>2. \A m \in Nat : m < n => <<m, n>> \in R
  BY DEF OpToRel
<1> QED
  BY <1>1, <1>2

LEMMA ModelIs == \A m \in Models : m.arch \in Architectures
<1> DEFINE Entries == [name : STRING, arch : Architectures, tasks : SUBSET STRING,
                       supported : BOOLEAN, recommended : BOOLEAN]
<1>1. \A e \in Entries : e.arch \in Architectures
  OBVIOUS
<1>2. Registry \in Seq(Entries)
  BY RegistryAssumption
<1> HIDE DEF Entries
<1>3. SUFFICES ASSUME NEW m \in Models PROVE m \in Entries
  BY <1>1
<1>4. PICK i \in DOMAIN Registry : m = Registry[i]
  BY DEF Models
<1> QED
  BY <1>2, <1>4

LEMMA FootprintType ==
  ASSUME NEW m \in Models, NEW context \in Nat
  PROVE  Footprint(m, context) \in Nat
BY ModelIs, EstimateIs DEF Footprint, Precisions

LEMMA FittingIs ==
  ASSUME NEW task, NEW available \in Nat, NEW context \in Nat
  PROVE  LET fitting == Fitting(task, available, context)
         IN /\ fitting \subseteq 1 .. Len(Registry) /\ IsFiniteSet(fitting)
            /\ Cardinality(fitting) \in Nat /\ Len(Registry) \in Nat
            /\ ScoringContext(context) \in Nat
            /\ \A i \in fitting :
                 LET m == Registry[i]
                 IN /\ m \in Models /\ m.supported /\ (task = "" \/ task \in m.tasks)
                    /\ available > 0 => Footprint(m, ScoringContext(context)) <= available
<1> DEFINE fitting == Fitting(task, available, context)
<1>1. DOMAIN Registry = 1 .. Len(Registry) /\ Len(Registry) \in Nat
  BY RegistryAssumption
<1>2. fitting \subseteq 1 .. Len(Registry)
  BY <1>1 DEF Fitting
<1>3. IsFiniteSet(1 .. Len(Registry))
  <2>1. 1 \in Int /\ Len(Registry) \in Int
    BY <1>1
  <2> QED
    BY ONLY <2>1, FS_Interval
<1>4. ScoringContext(context) \in Nat
  BY SizesAssumption DEF ScoringContext
<1>5. \A i \in fitting :
        LET m == Registry[i]
        IN /\ m \in Models /\ m.supported /\ (task = "" \/ task \in m.tasks)
           /\ available > 0 => Footprint(m, ScoringContext(context)) <= available
  BY DEF Fitting, Models
<1> HIDE DEF fitting
<1>6. IsFiniteSet(fitting)
  BY ONLY <1>2, <1>3, FS_Subset
<1>7. Cardinality(fitting) \in Nat
  BY ONLY <1>6, FS_CardinalityType
<1> QED
  BY <1>1, <1>2, <1>4, <1>5, <1>6, <1>7 DEF fitting

\* A curated model is worth half of the available memory, counted twice.
LEMMA ScoreIs ==
  ASSUME NEW task, NEW available \in Nat, NEW context \in Nat,
         NEW i \in Fitting(task, available, context)
  PROVE  LET m == Registry[i]
             f == Footprint(m, ScoringContext(context))
             score == Score(m, available, context)
         IN /\ score \in Nat /\ score <= 3 * available + 1 /\ f \in Nat
            /\ available > 0 =>
                 score = (IF m.recommended THEN available ELSE 0) + 2 * (available - f)
<1> DEFINE m == Registry[i]
           f == Footprint(m, ScoringContext(context))
<1>1. m \in Models /\ ScoringContext(context) \in Nat /\ (available > 0 => f <= available)
  BY FittingIs
<1>2. f \in Nat
  BY <1>1, FootprintType
<1>3. Score(m, available, context) =
        IF available = 0 THEN IF m.recommended THEN 1 ELSE 0
        ELSE (IF m.recommended THEN 1 ELSE 0) * available + 2 * (available - f)
  BY DEF Score
<1> HIDE DEF m, f
<1>4. CASE available = 0
  BY <1>2, <1>3, <1>4 DEF m, f
<1>5. CASE available # 0 /\ m.recommended
  <2>1. Score(m, available, context) = available + 2 * (available - f)
    BY <1>3, <1>5
  <2> QED
    BY <1>1, <1>2, <1>5, <2>1 DEF m, f
<1>6. CASE available # 0 /\ ~ m.recommended
  <2>1. Score(m, available, context) = 2 * (available - f)
    BY <1>1, <1>2, <1>3, <1>6
  <2> QED
    BY <1>1, <1>2, <1>6, <2>1 DEF m, f
<1> QED
  BY <1>4, <1>5, <1>6

\* One of the models that fit comes before all others.
LEMMA SomeIsFirst ==
  ASSUME NEW task, NEW available \in Nat, NEW context \in Nat,
         Fitting(task, available, context) # {}
  PROVE  \E b \in Fitting(task, available, context) :
           \A j \in Fitting(task, available, context) : ~ Before(j, b, available, context)
<1> DEFINE fitting == Fitting(task, available, context)
           score(i) == Score(Registry[i], available, context)
           top == 3 * available + 1
<1>1. \A i \in fitting : score(i) \in Nat /\ score(i) <= top /\ i \in Nat
  <2> SUFFICES ASSUME NEW i \in fitting PROVE score(i) \in Nat /\ score(i) <= top /\ i \in Nat
    OBVIOUS
  <2>1. score(i) \in Nat /\ score(i) <= top
    BY ScoreIs
  <2>2. i \in 1 .. Len(Registry)
    BY FittingIs
  <2> HIDE DEF fitting, score, top
  <2> QED
    BY <2>1, <2>2
<1>2. \A i, j \in fitting : Before(i, j, available, context) <=>
        score(i) > score(j) \/ (score(i) = score(j) /\ i < j)
  BY DEF Before
<1>3. fitting # {} /\ top \in Nat
  OBVIOUS
<1> HIDE DEF fitting, score, top
<1> DEFINE gaps == {top - score(i) : i \in fitting}
<1>4. gaps \in SUBSET Nat /\ gaps # {}
  BY <1>1, <1>3
<1>5. PICK least \in gaps : \A g \in gaps : ~ (g < least)
  BY <1>4, LeastNumber
<1> DEFINE tops == {i \in fitting : top - score(i) = least}
<1>6. tops \in SUBSET Nat /\ tops # {}
  BY <1>1, <1>5
<1>7. PICK b \in tops : \A j \in tops : ~ (j < b)
  BY <1>6, LeastNumber
<1>8. ASSUME NEW j \in fitting PROVE ~ Before(j, b, available, context)
  <2>1. ~ (top - score(j) < top - score(b))
    BY <1>5, <1>7
  <2>2. score(j) <= score(b)
    BY <1>1, <1>3, <1>7, <2>1
  <2>3. score(j) = score(b) => ~ (j < b)
    BY <1>7
  <2> QED
    BY <1>1, <1>2, <1>7, <2>2, <2>3
<1> QED
  BY <1>7, <1>8 DEF fitting

\* The ranking is empty if nothing fits, and otherwise starts with what comes
\* before all others.
LEMMA RankingStarts ==
  ASSUME NEW task, NEW available \in Nat, NEW context \in Nat
  PROVE  LET fitting == Fitting(task, available, context)
             ranking == RecommendScored(task, available, context)
         IN /\ ranking = <<>> => fitting = {}
            /\ ranking # <<>> =>
                 \E b \in fitting : /\ Head(ranking) = Registry[b]
                                    /\ \A j \in fitting : ~ Before(j, b, available, context)
<1> DEFINE fitting == Fitting(task, available, context)
           ranking == RecommendScored(task, available, context)
           n == Cardinality(fitting)
           ahead(i) == {j \in fitting : Before(j, i, available, context)}
           Rank(i) == 1 + Cardinality(ahead(i))
           at(k) == Registry[CHOOSE i \in fitting : Rank(i) = k]
<1>1. ranking = [k \in 1 .. n |-> at(k)]
  BY DEF RecommendScored
<1>2. IsFiniteSet(fitting) /\ n \in Nat
  BY FittingIs
<1>3. n = 0 <=> fitting = {}
  <2> HIDE DEF fitting
  <2> QED
    BY <1>2, FS_EmptySet
<1>4. \A i \in fitting : Rank(i) = 1 <=> ahead(i) = {}
  <2> SUFFICES ASSUME NEW i \in fitting PROVE Rank(i) = 1 <=> ahead(i) = {}
    OBVIOUS
  <2>1. ahead(i) \subseteq fitting
    OBVIOUS
  <2> HIDE DEF fitting, ahead
  <2>2. IsFiniteSet(ahead(i))
    BY <1>2, <2>1, FS_Subset
  <2>3. Cardinality(ahead(i)) \in Nat /\ (Cardinality(ahead(i)) = 0 <=> ahead(i) = {})
    BY <2>2, FS_CardinalityType, FS_EmptySet
  <2> QED
    BY <2>3
<1>5. ranking = <<>> => fitting = {}
  <2> SUFFICES ASSUME ranking = <<>> PROVE n = 0
    BY <1>3
  <2>1. DOMAIN ranking = 1 .. n
    BY <1>1
  <2>2. 1 .. n = {}
    BY <2>1
  <2> QED
    BY <1>2, <2>2
<1>6. ASSUME ranking # <<>>
      PROVE  \E b \in fitting : /\ Head(ranking) = Registry[b]
                                /\ \A j \in fitting : ~ Before(j, b, available, context)
  <2>1. n # 0
    <3> SUFFICES ASSUME n = 0 PROVE ranking = <<>>
      BY <1>6
    <3>1. ranking = [k \in 1 .. 0 |-> at(k)]
      BY <1>1
    <3> HIDE DEF ranking, at
    <3> QED
      BY <3>1
  <2>2. fitting # {}
    BY <1>3, <2>1
  <2>3. PICK a \in fitting : \A j \in fitting : ~ Before(j, a, available, context)
    BY <2>2, SomeIsFirst
  <2>4. Rank(a) = 1
    BY <1>4, <2>3
  <2> DEFINE b == CHOOSE i \in fitting : Rank(i) = 1
  <2>5. b \in fitting /\ Rank(b) = 1
    <3> HIDE DEF Rank, fitting
    <3> QED
      BY <2>4
  <2>6. \A j \in fitting : ~ Before(j, b, available, context)
    <3>1. ahead(b) = {}
      BY <1>4, <2>5
    <3> HIDE DEF b
    <3> QED
      BY <3>1
  <2>7. Head(ranking) = at(1)
    <3> DEFINE S == {at(k) : k \in 1 .. n}
    <3> HIDE DEF at
    <3>1. ranking \in [1 .. n -> S] /\ 1 \in 1 .. n /\ ranking[1] = at(1)
      BY <1>1, <1>2, <2>1
    <3> HIDE DEF S, ranking, n
    <3>2. ranking \in Seq(S) /\ Len(ranking) = n
      BY <1>2, <3>1
    <3> QED
      BY <3>1, <3>2
  <2> QED
    BY <2>5, <2>6, <2>7
<1> QED
  BY <1>5, <1>6

----------------------------------------------------------------------------
(* The invariant of a plan.                                                *)

\* What the optimizer is ever asked.
Questions == [arch : Architectures, context : Nat, available : Nat,
              profile : Profiles \cup {"auto"}]

Answer(profile) == Recommend(request.arch, request.context, request.available, profile)

\* What AutoPilot knows at each point: it selects for a configuration, and
\* goes on only with a model of the registry.
CallInv ==
  /\ cfg \in Configs \cup {None} /\ model \in Models \cup {None} /\ Sane(hardware)
  /\ pc \in {"info", "select", "recommend", "asked", "answered", "failed",
             "ErrModelNotFound", "ErrInsufficientMemory"}
  /\ pc \in {"info", "select", "recommend", "ErrInsufficientMemory"} => cfg \in Configs
  /\ pc = "recommend" => model \in Models
  /\ cfg # None /\ pc \in {"asked", "answered"} => model \in Models

\* What the optimizer answers is its answer to the question that is kept.
AnswerInv ==
  /\ pc \in {"asked", "answered"} => request \in Questions
  /\ pc # "answered" => rec = None /\ pinned = None
  /\ pc = "answered" =>
       /\ rec = Answer(request.profile)
       /\ pinned = None \/ pinned = Answer(rec.profile)

PlanInv == CallInv /\ AnswerInv /\ SelectionIsRight

\* A question is not the absence of one.
LEMMA QuestionIsSomething == \A q \in Questions : q # None
<1> SUFFICES ASSUME NEW q \in Questions PROVE q # None
  OBVIOUS
<1>1. "arch" \in DOMAIN q
  BY DEF Questions
<1>2. "arch" \notin DOMAIN None
  BY DEF None
<1> QED
  BY <1>1, <1>2

LEMMA ConfigIsSomething == \A c \in Configs : c # None
<1> SUFFICES ASSUME NEW c \in Configs PROVE c # None
  OBVIOUS
<1>1. "task" \in DOMAIN c
  BY DEF Configs
<1>2. "task" \notin DOMAIN None
  BY DEF None
<1> QED
  BY <1>1, <1>2

\* An advice means the same for the same question, whatever it is pinned to.
LEMMA AnswerMeans ==
  ASSUME AnswerInv, pc = "answered"
  PROVE  /\ request \in Questions
         /\ \E p \in {"fp16", "int8", "int4"} :
              Means(rec, request.arch, request.context, request.available, request.profile, p)
         /\ rec \in Advices
<1>1. /\ request \in Questions /\ rec = Answer(request.profile)
  BY DEF AnswerInv
<1>2. /\ request.arch \in Architectures /\ request.context \in Nat /\ request.available \in Nat
      /\ request.profile \in Profiles \cup {"auto"}
  BY <1>1 DEF Questions
<1>3. PICK p \in {"fp16", "int8", "int4"} :
        Means(rec, request.arch, request.context, request.available, request.profile, p)
  BY <1>1, <1>2, RecommendMeans DEF Answer
<1> QED
  BY <1>1, <1>3 DEF Means

\* What an application may ask, and what AutoPilot does, are questions.
LEMMA Asked ==
  /\ \A q \in Requests : q \in Questions
  /\ \A m \in Models, context \in Nat :
       [arch |-> m.arch, context |-> context, available |-> 0, profile |-> "auto"] \in Questions
<1>1. ASSUME NEW q \in Requests PROVE q \in Questions
  BY WishesAssumption DEF Requests, Questions
<1>2. ASSUME NEW m \in Models, NEW context \in Nat
      PROVE  [arch |-> m.arch, context |-> context, available |-> 0, profile |-> "auto"]
               \in Questions
  <2>1. m.arch \in Architectures
    BY ModelIs
  <2> QED
    BY <2>1 DEF Questions
<1> QED
  BY <1>1, <1>2

----------------------------------------------------------------------------
(* What AutoPilot selects is the best that fits.                           *)

\* Of two models that fit, the one in front is no larger, or curated and the
\* other not; its score says so.
LEMMA FirstIsBest ==
  ASSUME NEW task, NEW available \in Nat, NEW context \in Nat, available > 0,
         NEW b \in Fitting(task, available, context), NEW j \in Fitting(task, available, context),
         ~ Before(j, b, available, context)
  PROVE  LET f(i) == Footprint(Registry[i], ScoringContext(context))
         IN ~ /\ f(j) <= f(b) /\ (Registry[b].recommended => Registry[j].recommended)
              /\ f(j) < f(b) \/ (Registry[j].recommended /\ ~ Registry[b].recommended)
<1> DEFINE f(i) == Footprint(Registry[i], ScoringContext(context))
           score(i) == Score(Registry[i], available, context)
           curated(i) == Registry[i].recommended
<1>1. /\ score(b) \in Nat /\ f(b) \in Nat
      /\ score(b) = (IF curated(b) THEN available ELSE 0) + 2 * (available - f(b))
  BY ScoreIs
<1>2. /\ score(j) \in Nat /\ f(j) \in Nat
      /\ score(j) = (IF curated(j) THEN available ELSE 0) + 2 * (available - f(j))
  BY ScoreIs
<1>3. ~ (score(j) > score(b))
  BY DEF Before
<1> HIDE DEF f, score, curated
<1>4. f(j) <= f(b) /\ (curated(b) => curated(j)) => ~ (f(j) < f(b))
  <2> SUFFICES ASSUME f(j) <= f(b), curated(b) => curated(j), f(j) < f(b) PROVE FALSE
    OBVIOUS
  <2>1. 2 * (available - f(j)) > 2 * (available - f(b))
    BY <1>1, <1>2
  <2>2. CASE curated(b)
    BY <1>1, <1>2, <1>3, <2>1, <2>2
  <2>3. CASE ~ curated(b)
    BY <1>1, <1>2, <1>3, <2>1, <2>3
  <2> QED
    BY <2>2, <2>3
<1>5. f(j) <= f(b) => ~ (curated(j) /\ ~ curated(b))
  BY <1>1, <1>2, <1>3
<1>6. ~ /\ f(j) <= f(b) /\ (curated(b) => curated(j))
        /\ f(j) < f(b) \/ (curated(j) /\ ~ curated(b))
  BY <1>4, <1>5
<1> QED
  BY <1>6 DEF f, curated

\* Whatever suits the task and is supported fits, or takes too much memory.
LEMMA EligibleIs ==
  ASSUME NEW m \in Eligible
  PROVE  \E i \in DOMAIN Registry :
           /\ m = Registry[i]
           /\ \/ i \in Fitting(cfg.task, hardware.available, cfg.context)
              \/ /\ hardware.available > 0
                 /\ ~ (Footprint(m, ScoringContext(cfg.context)) <= hardware.available)
<1>1. PICK i \in DOMAIN Registry : m = Registry[i]
  BY DEF Eligible, Models
<1>2. m.supported /\ (cfg.task = "" \/ cfg.task \in m.tasks)
  BY DEF Eligible
<1> QED
  BY <1>1, <1>2 DEF Fitting

\* Selecting the head of the ranking selects the best.
LEMMA BestSelected ==
  ASSUME CallInv, SelectBest
  PROVE  model' \in Models /\ SelectionIsRight'
<1> DEFINE ranking == RecommendScored(cfg.task, hardware.available, cfg.context)
           fitting == Fitting(cfg.task, hardware.available, cfg.context)
           available == hardware.available
           f(m) == Footprint(m, ScoringContext(cfg.context))
<1>1. /\ pc' = "recommend" /\ cfg' = cfg /\ hardware' = hardware
      /\ ranking # <<>> /\ model' = Head(ranking)
  BY DEF SelectBest
<1>2. cfg \in Configs /\ cfg.context \in Nat /\ available \in Nat
  BY WishesAssumption DEF CallInv, SelectBest, Configs, Sane
<1>3. PICK b \in fitting :
        Head(ranking) = Registry[b] /\ \A j \in fitting : ~ Before(j, b, available, cfg.context)
  BY <1>1, <1>2, RankingStarts
<1>4. /\ model' = Registry[b] /\ model' \in Models /\ model'.supported
      /\ cfg.task = "" \/ cfg.task \in model'.tasks
      /\ available > 0 => f(model') <= available
  <2>1. \A i \in fitting :
          LET m == Registry[i]
          IN /\ m \in Models /\ m.supported /\ (cfg.task = "" \/ cfg.task \in m.tasks)
             /\ available > 0 => f(m) <= available
    BY <1>2, FittingIs
  <2> HIDE DEF fitting, available, f
  <2> QED
    BY <1>1, <1>3, <2>1
<1>5. contextLength' = ScoringContext(cfg.context)
  BY <1>1 DEF contextLength, ScoringContext
<1>6. SelectedFits'
  BY <1>1, <1>4, <1>5 DEF SelectedFits, Eligible, Needs
<1>7. ASSUME available > 0, NEW m \in Eligible
      PROVE  ~ /\ f(m) <= f(model') /\ (model'.recommended => m.recommended)
               /\ f(m) < f(model') \/ (m.recommended /\ ~ model'.recommended)
  <2>1. PICK i \in DOMAIN Registry :
          m = Registry[i] /\ (i \in fitting \/ ~ (f(m) <= available))
    BY EligibleIs
  <2>2. f(m) \in Nat /\ f(model') \in Nat
    <3>1. m \in Models /\ ScoringContext(cfg.context) \in Nat
      BY <1>2, SizesAssumption DEF Eligible, ScoringContext
    <3> QED
      BY <1>4, <3>1, FootprintType
  <2>3. CASE i \in fitting
    BY <1>2, <1>3, <1>4, <1>7, <2>1, <2>3, FirstIsBest
  <2>4. CASE ~ (f(m) <= available)
    <3>1. f(model') <= available
      BY <1>4, <1>7
    <3> HIDE DEF f, available
    <3>2. ~ (f(m) <= f(model'))
      BY <1>2, <2>2, <2>4, <3>1
    <3> QED
      BY <3>2
  <2> QED
    BY <2>1, <2>3, <2>4
<1>8. BestIsSelected'
  BY <1>1, <1>5, <1>7 DEF BestIsSelected, Eligible, Needs
<1>9. RefusedOnlyIfNothingFits'
  BY <1>1 DEF RefusedOnlyIfNothingFits
<1> QED
  BY <1>4, <1>6, <1>8, <1>9 DEF SelectionIsRight

\* An empty ranking means that nothing fits.
LEMMA NoneSelected ==
  ASSUME CallInv, SelectNone
  PROVE  SelectionIsRight'
<1> DEFINE fitting == Fitting(cfg.task, hardware.available, cfg.context)
           f(m) == Footprint(m, ScoringContext(cfg.context))
<1>1. /\ pc' \in {"ErrModelNotFound", "ErrInsufficientMemory"}
      /\ cfg' = cfg /\ hardware' = hardware
      /\ RecommendScored(cfg.task, hardware.available, cfg.context) = <<>>
  BY DEF SelectNone
<1>2. cfg \in Configs /\ cfg.context \in Nat /\ hardware.available \in Nat
  BY WishesAssumption DEF CallInv, SelectNone, Configs, Sane
<1>3. fitting = {}
  BY <1>1, <1>2, RankingStarts
<1>4. ASSUME NEW m \in Eligible
      PROVE  hardware.available > 0 /\ f(m) > hardware.available
  <2>1. hardware.available > 0 /\ ~ (f(m) <= hardware.available)
    BY <1>3, EligibleIs
  <2>2. m \in Models /\ ScoringContext(cfg.context) \in Nat
    BY <1>2, SizesAssumption DEF Eligible, ScoringContext
  <2>3. f(m) \in Nat
    BY <2>2, FootprintType
  <2> HIDE DEF f
  <2> QED
    BY <1>2, <2>1, <2>3
<1>5. contextLength' = ScoringContext(cfg.context)
  BY <1>1 DEF contextLength, ScoringContext
<1>6. RefusedOnlyIfNothingFits'
  BY <1>1, <1>4, <1>5 DEF RefusedOnlyIfNothingFits, Eligible, Needs
<1>7. SelectedFits' /\ BestIsSelected'
  BY <1>1 DEF SelectedFits, BestIsSelected, Selected
<1> QED
  BY <1>6, <1>7 DEF SelectionIsRight

\* Steps that select nothing keep the selection, or end it.
LEMMA SelectionKept ==
  ASSUME SelectionIsRight, cfg' = cfg, model' = model, hardware' = hardware,
         Selected' => Selected, pc' = "ErrInsufficientMemory" => pc = pc'
  PROVE  SelectionIsRight'
<1>1. Eligible' = Eligible /\ contextLength' = contextLength
  BY DEF Eligible, contextLength
<1>2. \A m : Needs(m)' = Needs(m)
  BY <1>1 DEF Needs
<1> QED
  BY <1>1, <1>2 DEF SelectionIsRight, SelectedFits, BestIsSelected, RefusedOnlyIfNothingFits, Needs

LEMMA NothingSelected ==
  ASSUME ~ Selected', pc' # "ErrInsufficientMemory"
  PROVE  SelectionIsRight'
BY DEF SelectionIsRight, SelectedFits, BestIsSelected, RefusedOnlyIfNothingFits

LEMMA InitialPlan == Init => PlanInv
<1> SUFFICES ASSUME Init PROVE PlanInv
  OBVIOUS
<1>1. Sane(hardware)
  BY DEF Init, Sane, Unknown
<1>2. CallInv
  BY <1>1, ConfigIsSomething DEF Init, CallInv
<1>3. AnswerInv
  BY Asked DEF Init, AnswerInv
<1>4. SelectionIsRight
  BY ConfigIsSomething
     DEF Init, SelectionIsRight, SelectedFits, BestIsSelected, RefusedOnlyIfNothingFits, Selected
<1> QED
  BY <1>2, <1>3, <1>4 DEF PlanInv

LEMMA PlanStep == PlanInv /\ [Next]_vars => PlanInv'
<1> SUFFICES ASSUME PlanInv, [Next]_vars PROVE PlanInv'
  OBVIOUS
<1>0. CallInv /\ AnswerInv /\ SelectionIsRight
  BY DEF PlanInv
<1>1. ASSUME NEW reading \in Readings(Totals, Memories), Inspect(reading) PROVE PlanInv'
  <2>1. Sane(hardware')
    BY <1>1, DetectedIsSane DEF Inspect
  <2>2. CallInv'
    BY <1>0, <1>1, <2>1 DEF Inspect, CallInv
  <2>3. AnswerInv'
    BY <1>0, <1>1 DEF Inspect, AnswerInv
  <2>4. SelectionIsRight'
    BY <1>1, NothingSelected DEF Inspect, Selected
  <2> QED
    BY <2>2, <2>3, <2>4 DEF PlanInv
<1>2. CASE SelectPinned
  <2>1. CallInv'
    BY <1>0, <1>2 DEF SelectPinned, CallInv, Models
  <2>2. AnswerInv'
    BY <1>0, <1>2 DEF SelectPinned, AnswerInv
  <2>3. SelectionIsRight'
    BY <1>2, NothingSelected DEF SelectPinned, Selected
  <2> QED
    BY <2>1, <2>2, <2>3 DEF PlanInv
<1>3. CASE SelectUnknown
  <2>1. CallInv'
    BY <1>0, <1>3 DEF SelectUnknown, CallInv
  <2>2. AnswerInv'
    BY <1>0, <1>3 DEF SelectUnknown, AnswerInv
  <2>3. SelectionIsRight'
    BY <1>3, NothingSelected DEF SelectUnknown, Selected
  <2> QED
    BY <2>1, <2>2, <2>3 DEF PlanInv
<1>4. CASE SelectBest
  <2>1. model' \in Models /\ SelectionIsRight'
    BY <1>0, <1>4, BestSelected
  <2>2. CallInv'
    BY <1>0, <1>4, <2>1 DEF SelectBest, CallInv
  <2>3. AnswerInv'
    BY <1>0, <1>4 DEF SelectBest, AnswerInv
  <2> QED
    BY <2>1, <2>2, <2>3 DEF PlanInv
<1>5. CASE SelectNone
  <2>1. SelectionIsRight'
    BY <1>0, <1>5, NoneSelected
  <2>2. CallInv'
    BY <1>0, <1>5 DEF SelectNone, CallInv
  <2>3. AnswerInv'
    BY <1>0, <1>5 DEF SelectNone, AnswerInv
  <2> QED
    BY <2>1, <2>2, <2>3 DEF PlanInv
<1>6. CASE Advise
  <2>1. CallInv'
    BY <1>0, <1>6 DEF Advise, CallInv
  <2>2. request' \in Questions
    <3>1. model \in Models /\ contextLength \in Nat
      BY <1>0, <1>6, WishesAssumption, SizesAssumption
         DEF Advise, CallInv, contextLength, Configs
    <3> QED
      BY <1>6, <3>1, Asked DEF Advise
  <2>3. AnswerInv'
    BY <1>0, <1>6, <2>2 DEF Advise, AnswerInv
  <2>4. SelectionIsRight'
    BY <1>0, <1>6, SelectionKept DEF Advise, Selected
  <2> QED
    BY <2>1, <2>3, <2>4 DEF PlanInv
<1>7. CASE Fail
  <2>1. CallInv'
    BY <1>0, <1>7 DEF Fail, CallInv
  <2>2. AnswerInv'
    BY <1>0, <1>7 DEF Fail, AnswerInv
  <2>3. SelectionIsRight'
    BY <1>7, NothingSelected DEF Fail, Selected
  <2> QED
    BY <2>1, <2>2, <2>3 DEF PlanInv
<1>8. CASE Refuse
  <2>1. CallInv'
    BY <1>0, <1>8 DEF Refuse, CallInv
  <2>2. AnswerInv'
    BY <1>0, <1>8 DEF Refuse, AnswerInv
  <2>3. SelectionIsRight'
    BY <1>8, NothingSelected DEF Refuse, Selected
  <2> QED
    BY <2>1, <2>2, <2>3 DEF PlanInv
<1>9. CASE Reply
  <2>1. CallInv'
    BY <1>0, <1>9 DEF Reply, CallInv
  <2>2. AnswerInv'
    BY <1>0, <1>9 DEF Reply, AnswerInv, Answer
  <2>3. SelectionIsRight'
    BY <1>0, <1>9, SelectionKept DEF Reply, Selected
  <2> QED
    BY <2>1, <2>2, <2>3 DEF PlanInv
<1>10. CASE Pin
  <2>1. CallInv'
    BY <1>0, <1>10 DEF Pin, CallInv
  <2>2. AnswerInv'
    BY <1>0, <1>10 DEF Pin, AnswerInv, Answer
  <2>3. SelectionIsRight'
    BY <1>0, <1>10, SelectionKept DEF Pin, Selected
  <2> QED
    BY <2>1, <2>2, <2>3 DEF PlanInv
<1>11. CASE UNCHANGED vars
  <2>1. CallInv'
    BY <1>0, <1>11 DEF vars, CallInv
  <2>2. AnswerInv'
    BY <1>0, <1>11 DEF vars, AnswerInv, Answer
  <2>3. SelectionIsRight'
    BY <1>0, <1>11, SelectionKept DEF vars, Selected
  <2> QED
    BY <2>1, <2>2, <2>3 DEF PlanInv
<1> QED
  BY <1>1, <1>2, <1>3, <1>4, <1>5, <1>6, <1>7, <1>8, <1>9, <1>10, <1>11 DEF Next

LEMMA PlanCorrect == Spec => []PlanInv
BY InitialPlan, PlanStep, PTL DEF Spec

\* What a pinned advice means, its profile being the one that was advised.
LEMMA PinnedMeans ==
  ASSUME AnswerInv, pc = "answered", pinned # None
  PROVE  \E p \in {"fp16", "int8", "int4"} :
           Means(pinned, request.arch, request.context, request.available, rec.profile, p)
<1>1. request \in Questions /\ rec \in Advices /\ pinned = Answer(rec.profile)
  BY AnswerMeans DEF AnswerInv
<1>2. /\ request.arch \in Architectures /\ request.context \in Nat /\ request.available \in Nat
      /\ rec.profile \in Profiles \cup {"auto"}
  BY <1>1 DEF Questions, Advices
<1> QED
  BY <1>1, <1>2, RecommendMeans DEF Answer

----------------------------------------------------------------------------
(* The theorems.                                                           *)

\* The optimizer is asked only about a model AutoPilot found, or a question an
\* application asked, and answers with an advice (autopilot.go, optimizer.go).
THEOREM PlannerTypes == Spec => []TypeOK
<1>1. PlanInv => TypeOK
  <2> SUFFICES ASSUME PlanInv PROVE TypeOK
    OBVIOUS
  <2>1. CallInv /\ AnswerInv
    BY DEF PlanInv
  <2>2. rec \in Advices \cup {None}
    BY <2>1, AnswerMeans DEF AnswerInv
  <2>3. pinned \in Advices \cup {None}
    BY <2>1, PinnedMeans DEF AnswerInv, Means
  <2>4. hardware \in [total : Nat, available : Nat]
    BY <2>1 DEF CallInv, Sane
  <2>5. pc \in {"asked", "answered"} => request # None
    BY <2>1, QuestionIsSomething DEF AnswerInv
  <2> QED
    BY <2>1, <2>2, <2>3, <2>4, <2>5 DEF TypeOK, CallInv
<1> QED
  BY <1>1, PlanCorrect, PTL

\* The model AutoPilot selects itself suits the task, fits the memory, and no
\* other model that does is as good in both footprint and curation and better
\* in one; it finds none only if nothing fits (selectModel, RecommendScored).
THEOREM SelectionIsOptimal == Spec => []SelectionIsRight
<1>1. PlanInv => SelectionIsRight
  BY DEF PlanInv
<1> QED
  BY <1>1, PlanCorrect, PTL

\* The reason of an advice is true of its estimates, and making the advised
\* profile explicit changes nothing (Optimizer.Recommend).
THEOREM AdviceAgreesWithItself == Spec => []AdviceIsConsistent
<1>1. PlanInv => AdviceIsConsistent
  <2> SUFFICES ASSUME PlanInv PROVE AdviceIsConsistent
    OBVIOUS
  <2>1. AnswerInv
    BY DEF PlanInv
  <2>2. ReasonIsTrue
    <3> SUFFICES ASSUME pc = "answered"
                 PROVE  CASE rec.reason = "sufficient" -> rec.before <= request.available
                          [] rec.reason = "compressed" ->
                               rec.after <= request.available /\ request.available < rec.before
                          [] rec.reason = "tight" -> request.available < rec.after
                          [] OTHER -> rec.reason = "unknown" => request.available = 0
      BY DEF ReasonIsTrue
    <3>1. PICK p \in {"fp16", "int8", "int4"} :
            Means(rec, request.arch, request.context, request.available, request.profile, p)
      BY <2>1, AnswerMeans
    <3> QED
      BY <3>1 DEF Means
  <2>3. PinningKeepsAdvice
    <3> SUFFICES ASSUME pinned # None
                 PROVE  /\ pinned.profile = rec.profile /\ pinned.bits = rec.bits
                        /\ pinned.before = rec.before /\ pinned.after = rec.after
      BY DEF PinningKeepsAdvice
    <3>1. pc = "answered"
      BY <2>1 DEF AnswerInv
    <3>2. PICK p \in {"fp16", "int8", "int4"} :
            Means(rec, request.arch, request.context, request.available, request.profile, p)
      BY <2>1, <3>1, AnswerMeans
    <3>3. PICK q \in {"fp16", "int8", "int4"} :
            Means(pinned, request.arch, request.context, request.available, rec.profile, q)
      BY <2>1, <3>1, PinnedMeans
    <3>4. rec.profile \in Profiles /\ precisionForProfile(rec.profile) = p
      BY <3>2 DEF Means, Advices
    <3>5. q = p /\ pinned.profile = rec.profile
      BY <3>3, <3>4 DEF Means
    <3> QED
      BY <3>2, <3>3, <3>5 DEF Means
  <2> QED
    BY <2>2, <2>3 DEF AdviceIsConsistent
<1> QED
  BY <1>1, PlanCorrect, PTL

\* Fewer bits are a narrower cache, and 16 bits are no compression.
LEMMA NarrowerTotal ==
  ASSUME NEW arch \in Architectures, NEW context \in Nat,
         NEW p \in {"fp16", "int8", "int4"}, NEW q \in {"fp16", "int8", "int4"},
         bitsForPrecision(p) <= bitsForPrecision(q)
  PROVE  Total(arch, context, p) <= Total(arch, context, q)
<1>1. p \in Precisions /\ q \in Precisions
  BY DEF Precisions
<1>2. HalfBytes(p) <= HalfBytes(q)
  BY DEF HalfBytes, bitsForPrecision
<1>3. EstimateKVCacheBytes(arch, context, p) <= EstimateKVCacheBytes(arch, context, q)
  BY <1>1, <1>2, NarrowerIsSmaller
<1>4. /\ modelMemoryBytes(arch, "fp16") + Overhead \in Nat
      /\ EstimateKVCacheBytes(arch, context, p) \in Nat
      /\ EstimateKVCacheBytes(arch, context, q) \in Nat
  BY <1>1, EstimateIs, CacheType DEF Precisions
<1> QED
  BY ONLY <1>3, <1>4 DEF Total

\* A narrower cache never takes more memory, and more memory never makes the
\* optimizer compress harder (Optimizer.Recommend).
THEOREM AdviceGrowsWithMemory == Spec => []AdviceIsMonotone
<1>1. PlanInv => AdviceIsMonotone
  <2> SUFFICES ASSUME PlanInv, pc = "answered"
               PROVE  AdviceNeverGrows /\ MoreMemoryCompressesLess
    BY DEF AdviceIsMonotone, AdviceNeverGrows, MoreMemoryCompressesLess
  <2> DEFINE arch == request.arch
             context == request.context
             available == request.available
             profile == request.profile
  <2>1. request \in Questions
    BY AnswerMeans DEF PlanInv
  <2>2. /\ arch \in Architectures /\ context \in Nat /\ available \in Nat
        /\ profile \in Profiles \cup {"auto"}
    BY <2>1 DEF Questions
  <2>3. PICK p \in {"fp16", "int8", "int4"} : Means(rec, arch, context, available, profile, p)
    BY AnswerMeans DEF PlanInv
  <2> HIDE DEF arch, context, available, profile
  <2>4. rec.bits = bitsForPrecision(p) /\ rec.after = Total(arch, context, p)
        /\ rec.before = Total(arch, context, "fp16")
    BY <2>3 DEF Means
  <2>5. rec.after <= rec.before
    <3>1. bitsForPrecision(p) <= bitsForPrecision("fp16")
      BY ProfilesAndBack
    <3> QED
      BY <2>2, <2>4, <3>1, NarrowerTotal
  <2>6. ASSUME NEW m \in Memories, NEW wish \in Profiles \cup {"auto"},
               Recommend(arch, context, m, wish).bits <= rec.bits
        PROVE  Recommend(arch, context, m, wish).after <= rec.after
    <3> DEFINE other == Recommend(arch, context, m, wish)
    <3>1. m \in Nat
      BY WishesAssumption
    <3>2. PICK q \in {"fp16", "int8", "int4"} : Means(other, arch, context, m, wish, q)
      BY <2>2, <3>1, RecommendMeans
    <3>3. other.bits = bitsForPrecision(q) /\ other.after = Total(arch, context, q)
      BY <3>2 DEF Means
    <3>4. bitsForPrecision(q) <= bitsForPrecision(p)
      BY <2>4, <2>6, <3>3
    <3> QED
      BY <2>2, <2>4, <3>3, <3>4, NarrowerTotal
  <2>7. ASSUME available > 0, NEW m \in Memories, m >= available
        PROVE  LET more == Recommend(arch, context, m, profile)
               IN /\ more.bits >= rec.bits
                  /\ (profile = "auto" /\ more.profile = "memory") => rec.profile = "memory"
    <3> DEFINE more == Recommend(arch, context, m, profile)
    <3>1. m \in Nat
      BY WishesAssumption
    <3>2. PICK q \in {"fp16", "int8", "int4"} : Means(more, arch, context, m, profile, q)
      BY <2>2, <3>1, RecommendMeans
    <3> HIDE DEF more
    <3>3. /\ more.bits = bitsForPrecision(q) /\ more.after = Total(arch, context, q)
          /\ more.before = rec.before /\ more.before \in Nat /\ more.after \in Nat
          /\ rec.after \in Nat
      BY <2>3, <2>4, <3>2 DEF Means, Advices
    <3>4. CASE profile \in Profiles
      <4>1. p = q
        BY <2>3, <3>2, <3>4 DEF Means
      <4>2. profile # "auto"
        BY <3>4 DEF Profiles
      <4>3. rec.bits \in Nat
        BY <2>3 DEF Means, Advices
      <4> QED
        BY <2>4, <3>3, <4>1, <4>2, <4>3 DEF more
    <3>5. CASE profile \notin Profiles
      <4>1. \/ p = "fp16" /\ rec.before <= available
            \/ /\ available < rec.before /\ p = "int4"
               /\ rec.profile = IF rec.after > 0 /\ available < 2 * rec.after
                                THEN "memory" ELSE "maximum-context"
        BY <2>2, <2>3, <2>7, <3>5 DEF Means
      <4>2. \/ q = "fp16" /\ more.before <= m /\ more.profile = "speed"
            \/ /\ m < more.before /\ q = "int4"
               /\ more.profile = IF more.after > 0 /\ m < 2 * more.after
                                 THEN "memory" ELSE "maximum-context"
        BY <2>2, <2>7, <3>1, <3>2, <3>5 DEF Means
      <4>3. more.bits >= rec.bits
        BY <2>2, <2>4, <2>7, <3>1, <3>3, <4>1, <4>2, ProfilesAndBack
      <4>4. more.profile = "memory" => rec.profile = "memory"
        <5> SUFFICES ASSUME more.profile = "memory" PROVE rec.profile = "memory"
          OBVIOUS
        <5>1. q = "int4" /\ m < more.before /\ more.after > 0 /\ m < 2 * more.after
          BY <4>2
        <5>2. p = "int4"
          BY <2>2, <2>7, <3>1, <3>3, <4>1, <5>1
        <5>3. rec.after = more.after
          BY <2>4, <3>3, <5>1, <5>2
        <5> QED
          BY <2>2, <2>7, <3>1, <3>3, <4>1, <5>1, <5>2, <5>3
      <4> QED
        BY <4>3, <4>4 DEF more
    <3> QED
      BY <3>4, <3>5
  <2>8. AdviceNeverGrows
    BY <2>5, <2>6 DEF AdviceNeverGrows, arch, context
  <2>9. MoreMemoryCompressesLess
    BY <2>7 DEF MoreMemoryCompressesLess, arch, context, available, profile
  <2> QED
    BY <2>8, <2>9
<1> QED
  BY <1>1, PlanCorrect, PTL

=============================================================================
