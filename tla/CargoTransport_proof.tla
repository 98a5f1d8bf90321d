------------------------- MODULE CargoTransport_proof -------------------------
(***************************************************************************)
(* What holds of CargoTransport for every number of targets, warehouses,   *)
(* cargoes and steps.  First its type invariant, the conservation of       *)
(* cargo, the cached state and the bounds of the delayed reward.  Then     *)
(* that it implements CargoLedger, and what targets may rely on:           *)
(* remembered empty warehouses are empty, and a goal changes exactly at a  *)
(* delivery.  Last, what follows from the sums of the cargoes: when an     *)
(* episode ends, how its two rewards differ, and that every target finds   *)
(* cargo when episodes start with cargoes.                                 *)
(***************************************************************************)
EXTENDS CargoTransport, FiniteSetTheorems, TLAPS

-------------------------------------------------------------------------------
(* Sums of naturals over a finite domain *)

\* The units of one x: as many as its value.
LEMMA UnitsOfOne ==
  ASSUME NEW x, NEW n \in Nat
  PROVE  IsFiniteSet({x} \X (1..n)) /\ Cardinality({x} \X (1..n)) = n
<1>1. IsFiniteSet(1..n) /\ Cardinality(1..n) = n
  BY FS_Interval
<1>2. IsFiniteSet({x}) /\ Cardinality({x}) = 1
  BY FS_Singleton
<1> DEFINE a == {x}
           b == 1..n
<1>3. IsFiniteSet(a \X b) /\ Cardinality(a \X b) = Cardinality(a) * Cardinality(b)
  <2> HIDE DEF a, b
  <2> QED
    BY <1>1, <1>2, FS_Product DEF a, b
<1>4. 1 * n = n
  OBVIOUS
<1> QED
  BY <1>1, <1>2, <1>3, <1>4

\* A sum over a finite domain is a natural number.
LEMMA UnitsFinite ==
  ASSUME NEW D, IsFiniteSet(D), NEW f \in [D -> Nat]
  PROVE  IsFiniteSet(UnitsOf(f)) /\ Total(f) \in Nat
<1> DEFINE B == {{x} \X (1..f[x]) : x \in D}
           g == [x \in D |-> {x} \X (1..f[x])]
<1>1. g \in Surjection(D, B)
  BY DEF Surjection
<1>2. IsFiniteSet(B)
  BY <1>1, FS_Surjection
<1>3. ASSUME NEW b \in B PROVE IsFiniteSet(b)
  <2>1. PICK x \in D : b = {x} \X (1..f[x])
    OBVIOUS
  <2>2. f[x] \in Nat
    OBVIOUS
  <2> HIDE DEF B
  <2> QED
    BY <2>1, <2>2, UnitsOfOne
<1>4. IsFiniteSet(UNION B)
  BY <1>2, <1>3, FS_UNION
<1>5. UnitsOf(f) = UNION B
  BY DEF UnitsOf
<1> QED
  BY <1>4, <1>5, FS_CardinalityType DEF Total

\* Changing one value changes the sum by the difference.
LEMMA TotalUpdate ==
  ASSUME NEW D, IsFiniteSet(D), NEW f \in [D -> Nat], NEW x \in D, NEW n \in Nat
  PROVE  Total([f EXCEPT ![x] = n]) = Total(f) - f[x] + n
<1> DEFINE h == [f EXCEPT ![x] = n]
           rest == UnitsOf(f) \ ({x} \X (1..f[x]))
           old == {x} \X (1..f[x])
           new == {x} \X (1..n)
<1>1. IsFiniteSet(rest) /\ Cardinality(rest) \in Nat
  <2>1. IsFiniteSet(UnitsOf(f))
    BY UnitsFinite
  <2>2. IsFiniteSet(rest)
    BY <2>1, FS_Difference
  <2> QED
    BY <2>2, FS_CardinalityType
<1>2. IsFiniteSet(old) /\ Cardinality(old) = f[x]
  BY UnitsOfOne
<1>3. IsFiniteSet(new) /\ Cardinality(new) = n
  BY UnitsOfOne
<1>4. UnitsOf(f) = rest \cup old /\ rest \cap old = {}
  BY DEF UnitsOf
<1>5. UnitsOf(h) = rest \cup new /\ rest \cap new = {}
  BY DEF UnitsOf
<1>6. Cardinality(UnitsOf(f)) = Cardinality(rest) + f[x] - Cardinality({})
  BY <1>1, <1>2, <1>4, FS_Union
<1>7. Cardinality(UnitsOf(h)) = Cardinality(rest) + n - Cardinality({})
  BY <1>1, <1>3, <1>5, FS_Union
<1> QED
  BY <1>1, <1>6, <1>7, FS_EmptySet DEF Total

\* The empty sum.
LEMMA TotalZero ==
  ASSUME NEW D
  PROVE  Total([x \in D |-> 0]) = 0
<1>1. UnitsOf([x \in D |-> 0]) = {}
  BY DEF UnitsOf
<1> QED
  BY <1>1, FS_EmptySet DEF Total

-------------------------------------------------------------------------------
(* The constants, and what reset() may fill the stores with *)

LEMMA ConfigFacts ==
  /\ IsFiniteSet(Warehouses) /\ None \notin Warehouses
  /\ NumTargets \in Nat \ {0}
  /\ CargoesPerTarget \in Nat \ {0}
  /\ FreightScale \in Nat \ {0} /\ BountyScale \in Nat
  /\ MaxBatches \in Nat \ {0}
  BY ConfigAssumption DEF ValidConfig

LEMMA TargetsFinite == IsFiniteSet(Targets)
  BY FS_Interval, ConfigFacts DEF Targets

LEMMA BatchSizeType == BatchSize \in Nat
  BY ConfigFacts DEF BatchSize

LEMMA FilledType ==
  ASSUME NEW n \in Nat, NEW d
  PROVE  Filled(d, n) \in [Warehouses -> [Warehouses -> Nat]]
<1>1. ASSUME NEW s \in Warehouses, NEW r \in Warehouses
      PROVE  Cardinality({i \in 1..n : d[i] = <<s, r>>}) \in Nat
  <2>1. IsFiniteSet(1..n)
    BY FS_Interval
  <2>2. IsFiniteSet({i \in 1..n : d[i] = <<s, r>>})
    BY <2>1, FS_Subset
  <2> QED
    BY <2>2, FS_CardinalityType
<1> QED
  BY <1>1 DEF Filled

LEMMA LoadType ==
  ASSUME NEW load \in Loads
  PROVE  load \in [Warehouses -> [Warehouses -> Nat]]
<1>1. PICK k \in 1..MaxBatches : load \in LoadsOf(k * BatchSize)
  BY DEF Loads
<1>2. k * BatchSize \in Nat
  BY BatchSizeType, ConfigFacts
<1> QED
  BY <1>1, <1>2, FilledType DEF LoadsOf

LEMMA BitsAtType ==
  ASSUME NEW g, NEW weight \in 0..2
  PROVE  BitsAt(g, weight) \in [Warehouses -> 0..2]
  BY DEF BitsAt

-------------------------------------------------------------------------------
(* Type correctness *)

LEMMA InitTypeOK == Init => TypeOK
  BY ConfigFacts, BitsAtType DEF Init, TypeOK, NoCall, Targets, BitsAt

\* A load that is taken fits the target and the store.
LEMMA CargoWeightType ==
  ASSUME TypeOK, NEW t \in Targets, NEW w \in Warehouses, NEW g \in Recipients(w)
  PROVE  /\ g \in Warehouses
         /\ CargoWeight(t, w, g) \in 1..target_capacities[t]
         /\ CargoWeight(t, w, g) \in 1..2
         /\ CargoWeight(t, w, g) <= remaining_cargoes[w][g]
         /\ target_capacities[t] \in {1, 2}
         /\ remaining_cargoes[w][g] \in Nat
  BY DEF TypeOK, Recipients, CargoWeight

LEMMA LoadTypeOK ==
  ASSUME TypeOK, NEW t \in Targets, NEW w \in Warehouses, NEW g \in Recipients(w),
         Load(t, w, g)
  PROVE  /\ remaining_cargoes' \in [Warehouses -> [Warehouses -> Nat]]
         /\ target_goals' \in [Targets -> Warehouses \cup {None}]
         /\ target_goal_bits' \in [Targets -> [Warehouses -> 0..2]]
         /\ goal_bits' \in [Targets -> [Warehouses -> 0..2]]
         /\ freights' \in [Targets -> Nat] /\ bounties' \in [Targets -> Nat]
<1> DEFINE weight == CargoWeight(t, w, g)
<1>1. weight \in 0..2 /\ weight <= remaining_cargoes[w][g] /\ g \in Warehouses
      /\ remaining_cargoes[w][g] \in Nat
  BY CargoWeightType
<1>2. BitsAt(g, weight) \in [Warehouses -> 0..2]
  BY <1>1, BitsAtType
<1>3. weight * FreightScale \in Nat /\ weight * BountyScale \in Nat
  BY <1>1, ConfigFacts
<1> HIDE DEF weight
<1>4. remaining_cargoes[w][g] - weight \in Nat
  BY <1>1
<1> QED
  BY <1>1, <1>2, <1>3, <1>4 DEF TypeOK, Load, weight

LEMMA NextTypeOK == TypeOK /\ [Next]_vars => TypeOK'
<1> SUFFICES ASSUME TypeOK, [Next]_vars PROVE TypeOK'
  OBVIOUS
<1> USE DEF counters, stock, carried, totals
<1>1. CASE BeginReset
  <2>1. PICK load \in Loads, capacities \in Capacities :
          /\ target_capacities' = capacities
          /\ remaining_cargoes' = load
          /\ awaiting_cargo_counts' =
               [r \in Warehouses |-> Total([s \in Warehouses |-> load[s][r]])]
    BY <1>1 DEF BeginReset
  <2>2. load \in [Warehouses -> [Warehouses -> Nat]]
    BY LoadType
  <2>3. ASSUME NEW r \in Warehouses
        PROVE  Total([s \in Warehouses |-> load[s][r]]) \in Nat
    <3>1. [s \in Warehouses |-> load[s][r]] \in [Warehouses -> Nat]
      BY <2>2
    <3> QED
      BY <3>1, UnitsFinite, ConfigFacts
  <2>4. awaiting_cargo_counts' \in [Warehouses -> Int]
    BY <2>1, <2>3
  <2>5. target_capacities' \in [Targets -> {1, 2}]
    BY <2>1 DEF Capacities
  <2>6. BitsAt(None, 0) \in [Warehouses -> 0..2]
    BY BitsAtType
  <2> QED
    BY <1>1, <2>1, <2>2, <2>4, <2>5, <2>6, ConfigFacts DEF BeginReset, FreshEmptyBits, TypeOK, NoCall
<1>2. CASE EndResetAssign
  BY <1>2, ConfigFacts DEF EndResetAssign, TypeOK, NoCall
<1>3. CASE StartCargo
  <2>1. cursor \in Targets /\ cursor + 1 \in 1..(NumTargets + 1)
    BY <1>3, ConfigFacts DEF StartCargo, Targets
  <2>2. CASE \E w \in Warehouses : \E g \in Recipients(w) : Load(cursor, w, g)
    BY <1>3, <2>1, <2>2, LoadTypeOK DEF StartCargo, TakeFromAnyStore, TypeOK
  <2>3. CASE UNCHANGED <<carried, remaining_cargoes>>
    BY <1>3, <2>1, <2>3 DEF StartCargo, TakeFromAnyStore, TypeOK
  <2> QED
    BY <1>3, <2>2, <2>3 DEF StartCargo, TakeFromAnyStore
<1>4. CASE EndReset
  BY <1>4, ConfigFacts DEF EndReset, TypeOK
<1>5. CASE Step
  <2>1. PICK tracked \in SUBSET Targets : BeginStep(tracked)
    BY <1>5 DEF Step
  <2>2. Cardinality(Charged(tracked)) \in Nat
    <3>1. IsFiniteSet(Charged(tracked))
      BY TargetsFinite, FS_Subset DEF Charged
    <3> QED
      BY <3>1, FS_CardinalityType
  <2>3. bounties' \in [Targets -> Nat]
    BY <2>1 DEF BeginStep, TypeOK
  <2>4. call' \in [reward : Int, delayed : Int,
                   old_goals : [Targets -> Warehouses \cup {None}]]
    BY <2>1, <2>2 DEF BeginStep, TypeOK
  <2> QED
    BY <2>1, <2>3, <2>4, ConfigFacts DEF BeginStep, TypeOK
<1>6. CASE AssignTarget
  <2>1. cursor \in Targets /\ cursor + 1 \in 1..(NumTargets + 1)
    BY <1>6, ConfigFacts DEF AssignTarget, InAssignLoop, Targets
  <2>2. CASE \E place \in Warehouses \cup {None} : PassBy(cursor, place)
    <3>1. PICK place \in Warehouses \cup {None} : PassBy(cursor, place)
      BY <2>2
    <3>2. empty_bits' \in [Targets -> [Warehouses -> BOOLEAN]]
      BY <2>1, <3>1 DEF PassBy, TypeOK
    <3> QED
      BY <1>6, <2>1, <3>1, <3>2 DEF PassBy, AssignTarget, TypeOK
  <2>3. CASE \E w \in Warehouses : Serve(cursor, w)
    <3>1. PICK w \in Warehouses : Serve(cursor, w)
      BY <2>3
    <3>2. empty_bits' \in [Targets -> [Warehouses -> BOOLEAN]]
      BY <2>1, <3>1 DEF Serve, TypeOK
    <3>3. /\ call' \in [reward : Int, delayed : Int,
                        old_goals : [Targets -> Warehouses \cup {None}]]
          /\ num_delivered_cargoes' \in Nat
          /\ awaiting_cargo_counts' \in [Warehouses -> Int]
      <4> DEFINE weight == target_goal_bits[cursor][w]
      <4>1. weight \in 0..2 /\ freights[cursor] \in Nat /\ bounties[cursor] \in Nat
        BY <2>1 DEF TypeOK
      <4>2. weight * BountyScale \in Int
        BY <4>1, ConfigFacts
      <4>3. CASE Deliver(cursor, w)
        <5> DEFINE reward == freights[cursor] + bounties[cursor]
                   lost == Lost(cursor, w)
        <5>1. reward \in Int /\ lost \in Int
          BY <4>1, <4>2 DEF Lost
        <5>2. /\ call' = [call EXCEPT !.reward = @ + reward, !.delayed = @ + reward - lost]
              /\ num_delivered_cargoes' = num_delivered_cargoes + weight
              /\ awaiting_cargo_counts' = [awaiting_cargo_counts EXCEPT ![w] = @ - weight]
          BY <4>3 DEF Deliver
        <5> HIDE DEF reward, lost, weight
        <5>3. call.reward \in Int /\ call.delayed \in Int
          BY DEF TypeOK
        <5>4. call.reward + reward \in Int /\ call.delayed + reward - lost \in Int
          BY <5>1, <5>3
        <5>5. call' \in [reward : Int, delayed : Int,
                        old_goals : [Targets -> Warehouses \cup {None}]]
          BY <5>2, <5>4 DEF TypeOK
        <5>6. num_delivered_cargoes' \in Nat
          BY <4>1, <5>2 DEF TypeOK
        <5>7. awaiting_cargo_counts' \in [Warehouses -> Int]
          BY <4>1, <5>2 DEF TypeOK
        <5> QED
          BY <5>5, <5>6, <5>7
      <4>4. CASE UNCHANGED <<call, num_delivered_cargoes, awaiting_cargo_counts>>
        BY <4>4 DEF TypeOK
      <4> QED
        BY <3>1, <4>3, <4>4 DEF Serve
    <3>4. /\ remaining_cargoes' \in [Warehouses -> [Warehouses -> Nat]]
          /\ target_goals' \in [Targets -> Warehouses \cup {None}]
          /\ target_goal_bits' \in [Targets -> [Warehouses -> 0..2]]
          /\ goal_bits' \in [Targets -> [Warehouses -> 0..2]]
          /\ freights' \in [Targets -> Nat] /\ bounties' \in [Targets -> Nat]
      <4>1. CASE \E g \in Recipients(w) : Load(cursor, w, g)
        BY <2>1, <4>1, LoadTypeOK
      <4>2. CASE LeaveEmpty(cursor)
        BY <2>1, <4>2, BitsAtType DEF LeaveEmpty, TypeOK
      <4> QED
        BY <3>1, <4>1, <4>2 DEF Serve
    <3> QED
      BY <1>6, <2>1, <3>2, <3>3, <3>4 DEF AssignTarget, TypeOK
  <2> QED
    BY <1>6, <2>2, <2>3 DEF AssignTarget
<1>7. CASE EndStep
  BY <1>7, ConfigFacts DEF EndStep, Tick, TypeOK, NoCall
<1>8. CASE ReadState
  BY <1>8 DEF ReadState, TypeOK
<1>9. CASE UNCHANGED vars
  BY <1>9 DEF vars, TypeOK
<1> QED
  BY <1>1, <1>2, <1>3, <1>4, <1>5, <1>6, <1>7, <1>8, <1>9 DEF Next

\* Every variable of the environment keeps its type through every sequence of
\* calls: bounties and stores never go below zero, a load fits its target.
THEOREM TypeCorrect == Spec => []TypeOK
<1>1. Init => TypeOK
  BY InitTypeOK
<1>2. TypeOK /\ [Next]_vars => TypeOK'
  BY NextTypeOK
<1> QED
  BY <1>1, <1>2, PTL DEF Spec

-------------------------------------------------------------------------------
(* The records of a target's cargo *)

\* The records of one target, as CargoRecordsAgree states them of all.
RecordAgrees(t) ==
  /\ target_goal_bits[t] = goal_bits[t]
  /\ target_goal_bits[t] = BitsAt(target_goals[t], Weight(t))
  /\ target_goals[t] # None => Weight(t) \in 1..target_capacities[t]
  /\ freights[t] = Weight(t) * FreightScale
  /\ bounties[t] <= Weight(t) * BountyScale

LEMMA RecordsPointwise ==
  ASSUME TypeOK
  PROVE  CargoRecordsAgree <=> \A t \in Targets : RecordAgrees(t)
<1>1. target_goal_bits = goal_bits <=> \A t \in Targets : target_goal_bits[t] = goal_bits[t]
  BY DEF TypeOK
<1> QED
  BY <1>1 DEF CargoRecordsAgree, RecordAgrees

\* What a step does not touch keeps its record.
LEMMA SameRecord ==
  ASSUME NEW t \in Targets, RecordAgrees(t),
         target_goal_bits'[t] = target_goal_bits[t], goal_bits'[t] = goal_bits[t],
         target_goals'[t] = target_goals[t], freights'[t] = freights[t],
         bounties'[t] = bounties[t], target_capacities'[t] = target_capacities[t]
  PROVE  RecordAgrees(t)'
<1>1. Weight(t)' = Weight(t)
  BY DEF Weight
<1> QED
  BY <1>1 DEF RecordAgrees, BitsAt

LEMMA LoadRecords ==
  ASSUME TypeOK, NEW t \in Targets, NEW w \in Warehouses, NEW g \in Recipients(w),
         Load(t, w, g), UNCHANGED target_capacities,
         \A u \in Targets : RecordAgrees(u)
  PROVE  \A u \in Targets : RecordAgrees(u)'
<1>1. CargoWeight(t, w, g) \in 1..target_capacities[t] /\ g \in Warehouses /\ g # None
  BY CargoWeightType, ConfigFacts
<1>2. RecordAgrees(t)'
  <2>1. target_goals'[t] = g /\ target_goal_bits'[t] = BitsAt(g, CargoWeight(t, w, g))
    BY DEF Load, TypeOK
  <2>2. Weight(t)' = CargoWeight(t, w, g)
    BY <1>1, <2>1 DEF Weight, BitsAt
  <2>3. /\ goal_bits'[t] = BitsAt(g, CargoWeight(t, w, g))
        /\ freights'[t] = CargoWeight(t, w, g) * FreightScale
        /\ bounties'[t] = CargoWeight(t, w, g) * BountyScale
    BY DEF Load, TypeOK
  <2>4. CargoWeight(t, w, g) * BountyScale \in Int
    BY CargoWeightType, ConfigFacts
  <2>5. BitsAt(target_goals[t], Weight(t))' = BitsAt(g, CargoWeight(t, w, g))
    BY <2>1, <2>2 DEF BitsAt
  <2> QED
    BY <1>1, <2>1, <2>2, <2>3, <2>4, <2>5 DEF RecordAgrees
<1>3. ASSUME NEW u \in Targets, u # t PROVE RecordAgrees(u)'
  BY <1>3, SameRecord DEF Load, TypeOK
<1> QED
  BY <1>2, <1>3

LEMMA NextCargoRecords ==
  ASSUME TypeOK, TypeOK', CargoRecordsAgree, [Next]_vars
  PROVE  CargoRecordsAgree'
<1> SUFFICES \A t \in Targets : RecordAgrees(t)'
  <2>1. (CargoRecordsAgree <=> \A t \in Targets : RecordAgrees(t))'
    BY RecordsPointwise, PTL
  <2> QED
    BY <2>1
<1>0. \A t \in Targets : RecordAgrees(t)
  BY RecordsPointwise
<1> USE DEF counters, stock, carried, totals
<1> DEFINE Kept == /\ UNCHANGED <<target_goal_bits, goal_bits, target_goals, freights,
                                  bounties, target_capacities>>
<1>1. ASSUME Kept PROVE \A t \in Targets : RecordAgrees(t)'
  BY <1>0, <1>1, SameRecord
<1>2. CASE BeginReset
  <2> SUFFICES ASSUME NEW t \in Targets PROVE RecordAgrees(t)'
    OBVIOUS
  <2>1. /\ target_goals'[t] = None /\ freights'[t] = 0 /\ bounties'[t] = 0
        /\ target_goal_bits'[t] = BitsAt(None, 0) /\ goal_bits'[t] = BitsAt(None, 0)
    BY <1>2 DEF BeginReset
  <2>2. Weight(t)' = 0
    BY <2>1 DEF Weight
  <2> QED
    BY <2>1, <2>2, ConfigFacts DEF RecordAgrees, BitsAt
<1>3. CASE StartCargo
  <2>1. CASE \E w \in Warehouses : \E g \in Recipients(w) : Load(cursor, w, g)
    BY <1>0, <1>3, <2>1, LoadRecords DEF StartCargo
  <2>2. CASE UNCHANGED <<carried, remaining_cargoes>>
    BY <1>1, <1>3, <2>2 DEF StartCargo
  <2> QED
    BY <1>3, <2>1, <2>2 DEF StartCargo, TakeFromAnyStore
<1>4. CASE Step
  <2> SUFFICES ASSUME NEW t \in Targets PROVE RecordAgrees(t)'
    OBVIOUS
  <2>1. bounties'[t] <= bounties[t] /\ bounties[t] \in Nat /\ bounties'[t] \in Nat
    BY <1>4 DEF Step, BeginStep, TypeOK
  <2>2. UNCHANGED <<target_goal_bits, goal_bits, target_goals, freights, target_capacities>>
    BY <1>4 DEF Step, BeginStep
  <2>3. Weight(t)' = Weight(t)
    BY <2>2 DEF Weight
  <2>4. Weight(t) * BountyScale \in Int
    <3>1. Weight(t) \in 0..2
      BY DEF TypeOK, Weight
    <3> QED
      BY <3>1, ConfigFacts
  <2>5. bounties'[t] <= Weight(t) * BountyScale
    BY <1>0, <2>1, <2>4 DEF RecordAgrees
  <2> QED
    BY <1>0, <2>2, <2>3, <2>5 DEF RecordAgrees, BitsAt
<1>5. CASE AssignTarget
  <2>1. UNCHANGED target_capacities
    BY <1>5 DEF AssignTarget
  <2>2. PICK t \in Targets : \/ \E place \in Warehouses \cup {None} : PassBy(t, place)
                            \/ \E w \in Warehouses : Serve(t, w)
    BY <1>5 DEF AssignTarget, InAssignLoop
  <2>3. CASE \E place \in Warehouses \cup {None} : PassBy(t, place)
    BY <1>1, <2>1, <2>3 DEF PassBy
  <2>4. ASSUME NEW w \in Warehouses, NEW g \in Recipients(w), Load(t, w, g)
        PROVE  \A u \in Targets : RecordAgrees(u)'
    BY <1>0, <2>1, <2>4, LoadRecords
  <2>5. CASE LeaveEmpty(t)
    <3>1. ASSUME NEW u \in Targets, u # t PROVE RecordAgrees(u)'
      BY <1>0, <2>1, <2>5, <3>1, SameRecord DEF LeaveEmpty, TypeOK
    <3>2. /\ target_goals'[t] = None /\ freights'[t] = 0 /\ bounties'[t] = 0
          /\ target_goal_bits'[t] = BitsAt(None, 0) /\ goal_bits'[t] = BitsAt(None, 0)
      BY <2>5 DEF LeaveEmpty, TypeOK
    <3>3. Weight(t)' = 0
      BY <3>2 DEF Weight
    <3> QED
      BY <3>1, <3>2, <3>3, ConfigFacts DEF RecordAgrees, BitsAt
  <2> QED
    BY <2>2, <2>3, <2>4, <2>5 DEF Serve
<1>6. CASE EndResetAssign \/ EndReset \/ EndStep \/ ReadState \/ UNCHANGED vars
  BY <1>1, <1>6 DEF EndResetAssign, EndReset, EndStep, ReadState, vars
<1> QED
  BY <1>2, <1>3, <1>4, <1>5, <1>6 DEF Next

-------------------------------------------------------------------------------
(* Conservation of cargo *)

LEMMA UnitTypes ==
  ASSUME TypeOK
  PROVE  /\ \A s, r \in Warehouses : remaining_cargoes[s][r] \in Nat
         /\ \A t \in Targets, r \in Warehouses : target_goal_bits[t][r] \in 0..2
<1>1. remaining_cargoes \in [Warehouses -> [Warehouses -> Nat]]
  BY DEF TypeOK
<1>2. target_goal_bits \in [Targets -> [Warehouses -> 0..2]]
  BY DEF TypeOK
<1> QED
  BY <1>1, <1>2

LEMMA ColumnTypes ==
  ASSUME TypeOK, NEW w \in Warehouses
  PROVE  /\ StoredFor(w) \in [Warehouses -> Nat] /\ CarriedFor(w) \in [Targets -> Nat]
         /\ Total(StoredFor(w)) \in Nat /\ Total(CarriedFor(w)) \in Nat
<1>1. StoredFor(w) \in [Warehouses -> Nat] /\ CarriedFor(w) \in [Targets -> Nat]
  BY UnitTypes DEF StoredFor, CarriedFor
<1> QED
  BY <1>1, UnitsFinite, TargetsFinite, ConfigFacts

\* A step that touches the row of one store and the record of one target moves the
\* two sums of a warehouse by what it does to that row and to that record.
LEMMA OneCarrierMoves ==
  ASSUME TypeOK, TypeOK', NEW t \in Targets, NEW w \in Warehouses, NEW r \in Warehouses,
         \A s \in Warehouses : s # w => remaining_cargoes'[s] = remaining_cargoes[s],
         \A u \in Targets : u # t => target_goal_bits'[u] = target_goal_bits[u]
  PROVE  /\ Total(StoredFor(r))' = Total(StoredFor(r)) - remaining_cargoes[w][r]
                                                      + remaining_cargoes'[w][r]
         /\ Total(CarriedFor(r))' = Total(CarriedFor(r)) - target_goal_bits[t][r]
                                                        + target_goal_bits'[t][r]
<1>1. StoredFor(r) \in [Warehouses -> Nat] /\ CarriedFor(r) \in [Targets -> Nat]
  BY ColumnTypes
<1>2. remaining_cargoes'[w][r] \in Nat /\ target_goal_bits'[t][r] \in Nat
  <2>1. remaining_cargoes' \in [Warehouses -> [Warehouses -> Nat]]
    BY DEF TypeOK
  <2>2. target_goal_bits' \in [Targets -> [Warehouses -> 0..2]]
    BY DEF TypeOK
  <2> QED
    BY <2>1, <2>2
<1>3. StoredFor(r)' = [StoredFor(r) EXCEPT ![w] = remaining_cargoes'[w][r]]
  BY DEF StoredFor
<1>4. CarriedFor(r)' = [CarriedFor(r) EXCEPT ![t] = target_goal_bits'[t][r]]
  BY DEF CarriedFor
<1>5. StoredFor(r)[w] = remaining_cargoes[w][r] /\ CarriedFor(r)[t] = target_goal_bits[t][r]
  BY DEF StoredFor, CarriedFor
<1>9. IsFiniteSet(Warehouses)
  BY ConfigFacts
<1>6. Total([StoredFor(r) EXCEPT ![w] = remaining_cargoes'[w][r]])
        = Total(StoredFor(r)) - StoredFor(r)[w] + remaining_cargoes'[w][r]
  <2> DEFINE f == StoredFor(r)
             n == remaining_cargoes'[w][r]
  <2> HIDE DEF f, n
  <2>1. f \in [Warehouses -> Nat] /\ n \in Nat
    BY <1>1, <1>2 DEF f, n
  <2>2. Total([f EXCEPT ![w] = n]) = Total(f) - f[w] + n
    BY <1>9, <2>1, TotalUpdate
  <2> QED
    BY <2>2 DEF f, n
<1>7. Total([CarriedFor(r) EXCEPT ![t] = target_goal_bits'[t][r]])
        = Total(CarriedFor(r)) - CarriedFor(r)[t] + target_goal_bits'[t][r]
  <2> DEFINE f == CarriedFor(r)
             n == target_goal_bits'[t][r]
  <2> HIDE DEF f, n
  <2>1. f \in [Targets -> Nat] /\ n \in Nat
    BY <1>1, <1>2 DEF f, n
  <2>2. Total([f EXCEPT ![t] = n]) = Total(f) - f[t] + n
    BY <2>1, TotalUpdate, TargetsFinite
  <2> QED
    BY <2>2 DEF f, n
<1>8. Total(StoredFor(r))' = Total(StoredFor(r)') /\ Total(CarriedFor(r))' = Total(CarriedFor(r)')
  BY DEF Total, UnitsOf
<1> QED
  BY <1>3, <1>4, <1>5, <1>6, <1>7, <1>8

\* What a loading target takes from the store it carries afterwards.
LEMMA LoadMoves ==
  ASSUME TypeOK, TypeOK', NEW t \in Targets, NEW w \in Warehouses, NEW g \in Recipients(w),
         Load(t, w, g), NEW r \in Warehouses
  PROVE  Total(StoredFor(r))' + Total(CarriedFor(r))'
           = Total(StoredFor(r)) + Total(CarriedFor(r)) - target_goal_bits[t][r]
<1> DEFINE weight == CargoWeight(t, w, g)
<1>1. weight \in Nat /\ g \in Warehouses
  BY CargoWeightType
<1>2. remaining_cargoes'[w][r] = remaining_cargoes[w][r] - (IF r = g THEN weight ELSE 0)
  BY <1>1 DEF Load, TypeOK
<1>3. target_goal_bits'[t][r] = (IF r = g THEN weight ELSE 0)
  BY DEF Load, TypeOK, BitsAt
<1>4. /\ \A s \in Warehouses : s # w => remaining_cargoes'[s] = remaining_cargoes[s]
      /\ \A u \in Targets : u # t => target_goal_bits'[u] = target_goal_bits[u]
  BY DEF Load, TypeOK
<1>5. remaining_cargoes[w][r] \in Nat /\ target_goal_bits[t][r] \in Nat
  BY UnitTypes
<1> HIDE DEF weight
<1> QED
  BY <1>1, <1>2, <1>3, <1>4, <1>5, OneCarrierMoves, ColumnTypes

\* A target that leaves without cargo only gives up what it carried.
LEMMA LeaveEmptyMoves ==
  ASSUME TypeOK, TypeOK', NEW t \in Targets, LeaveEmpty(t), NEW r \in Warehouses
  PROVE  Total(StoredFor(r))' + Total(CarriedFor(r))'
           = Total(StoredFor(r)) + Total(CarriedFor(r)) - target_goal_bits[t][r]
<1>1. target_goal_bits'[t][r] = 0 /\ remaining_cargoes'[r][r] = remaining_cargoes[r][r]
  BY DEF LeaveEmpty, TypeOK, BitsAt
<1>2. /\ \A s \in Warehouses : s # r => remaining_cargoes'[s] = remaining_cargoes[s]
      /\ \A u \in Targets : u # t => target_goal_bits'[u] = target_goal_bits[u]
  BY DEF LeaveEmpty, TypeOK
<1>3. remaining_cargoes[r][r] \in Nat /\ target_goal_bits[t][r] \in Nat
  BY UnitTypes
<1> QED
  BY <1>1, <1>2, <1>3, OneCarrierMoves, ColumnTypes

LEMMA InitCargoConserved == Init => CargoConserved
<1> SUFFICES ASSUME Init, NEW w \in Warehouses
             PROVE  awaiting_cargo_counts[w] = Total(StoredFor(w)) + Total(CarriedFor(w))
  BY DEF CargoConserved
<1>1. StoredFor(w) = [s \in Warehouses |-> 0] /\ CarriedFor(w) = [t \in Targets |-> 0]
  BY DEF Init, StoredFor, CarriedFor, BitsAt
<1> QED
  BY <1>1, TotalZero DEF Init

LEMMA NextCargoConserved ==
  ASSUME TypeOK, TypeOK', CargoRecordsAgree, CargoConserved, [Next]_vars
  PROVE  CargoConserved'
<1> SUFFICES ASSUME NEW r \in Warehouses
             PROVE  awaiting_cargo_counts'[r] = Total(StoredFor(r))' + Total(CarriedFor(r))'
  BY DEF CargoConserved
<1>0. /\ awaiting_cargo_counts[r] = Total(StoredFor(r)) + Total(CarriedFor(r))
      /\ awaiting_cargo_counts[r] \in Int
      /\ Total(StoredFor(r)) \in Nat /\ Total(CarriedFor(r)) \in Nat
  BY ColumnTypes DEF CargoConserved, TypeOK
<1> USE DEF counters, stock, carried, totals
<1> DEFINE Kept == UNCHANGED <<remaining_cargoes, awaiting_cargo_counts, target_goal_bits>>
           Goal == awaiting_cargo_counts'[r] = Total(StoredFor(r))' + Total(CarriedFor(r))'
<1>1. ASSUME Kept PROVE Goal
  BY <1>0, <1>1 DEF StoredFor, CarriedFor, Total, UnitsOf
<1>2. CASE BeginReset
  <2>1. PICK load \in Loads :
          /\ remaining_cargoes' = load
          /\ awaiting_cargo_counts' =
               [w \in Warehouses |-> Total([s \in Warehouses |-> load[s][w]])]
    BY <1>2 DEF BeginReset
  <2>2. awaiting_cargo_counts'[r] = Total([s \in Warehouses |-> load[s][r]])
    BY <2>1
  <2>3. StoredFor(r)' = [s \in Warehouses |-> load[s][r]]
    BY <2>1 DEF StoredFor
  <2>4. CarriedFor(r)' = [t \in Targets |-> 0]
    BY <1>2 DEF BeginReset, CarriedFor, BitsAt
  <2>5. Total(StoredFor(r))' = Total(StoredFor(r)') /\ Total(CarriedFor(r))' = Total(CarriedFor(r)')
    BY DEF Total, UnitsOf
  <2>6. Total(StoredFor(r))' \in Nat
    <3>1. load \in [Warehouses -> [Warehouses -> Nat]]
      BY LoadType
    <3>2. [s \in Warehouses |-> load[s][r]] \in [Warehouses -> Nat]
      BY <3>1
    <3> QED
      BY <2>3, <2>5, <3>2, UnitsFinite, ConfigFacts
  <2> QED
    BY <2>2, <2>3, <2>4, <2>5, <2>6, TotalZero
<1>3. CASE StartCargo
  <2>1. CASE UNCHANGED <<carried, remaining_cargoes>>
    BY <1>1, <1>3, <2>1 DEF StartCargo
  <2>2. CASE target_goals[cursor] = None
             /\ \E w \in Warehouses : \E g \in Recipients(w) : Load(cursor, w, g)
    <3>1. PICK t \in Targets, w \in Warehouses :
            target_goals[t] = None /\ \E g \in Recipients(w) : Load(t, w, g)
      BY <1>3, <2>2 DEF StartCargo, TakeFromAnyStore
    <3>2. target_goal_bits[t][r] = 0
      BY <3>1 DEF CargoRecordsAgree, BitsAt, Weight
    <3>3. Total(StoredFor(r))' + Total(CarriedFor(r))' = Total(StoredFor(r)) + Total(CarriedFor(r)) - 0
      BY <3>1, <3>2, LoadMoves
    <3> QED
      BY <1>0, <1>3, <3>3 DEF StartCargo
  <2> QED
    BY <1>3, <2>1, <2>2 DEF StartCargo, TakeFromAnyStore
<1>4. CASE AssignTarget
  <2>1. PICK t \in Targets : \/ \E place \in Warehouses \cup {None} : PassBy(t, place)
                            \/ \E w \in Warehouses : Serve(t, w)
    BY <1>4 DEF AssignTarget, InAssignLoop
  <2>2. CASE \E place \in Warehouses \cup {None} : PassBy(t, place)
    BY <1>1, <2>2 DEF PassBy
  <2>3. CASE \E w \in Warehouses : Serve(t, w)
    <3>1. PICK w \in Warehouses : Serve(t, w)
      BY <2>3
    <3>2. Total(StoredFor(r))' + Total(CarriedFor(r))'
            = Total(StoredFor(r)) + Total(CarriedFor(r)) - target_goal_bits[t][r]
      BY <3>1, LoadMoves, LeaveEmptyMoves DEF Serve
    <3>3. CASE target_goals[t] = w
      <4>1. target_goal_bits[t][r] = IF r = w THEN target_goal_bits[t][w] ELSE 0
        BY <3>3, ConfigFacts DEF CargoRecordsAgree, BitsAt, Weight
      <4>2. awaiting_cargo_counts'[r] =
              awaiting_cargo_counts[r] - (IF r = w THEN target_goal_bits[t][w] ELSE 0)
        <5>1. Deliver(t, w)
          BY <3>1, <3>3 DEF Serve
        <5>2. awaiting_cargo_counts' =
                [awaiting_cargo_counts EXCEPT ![w] = @ - target_goal_bits[t][w]]
          BY <5>1 DEF Deliver
        <5>3. awaiting_cargo_counts \in [Warehouses -> Int]
          BY DEF TypeOK
        <5> QED
          BY <1>0, <5>2, <5>3, UnitTypes
      <4>3. awaiting_cargo_counts'[r] = awaiting_cargo_counts[r] - target_goal_bits[t][r]
        BY <4>1, <4>2
      <4> QED
        BY <1>0, <3>2, <4>3, UnitTypes
    <3>4. CASE target_goals[t] = None
      <4>1. target_goal_bits[t][r] = 0
        BY <3>4 DEF CargoRecordsAgree, BitsAt, Weight
      <4>2. awaiting_cargo_counts' = awaiting_cargo_counts
        BY <3>1, <3>4, ConfigFacts DEF Serve
      <4>3. Total(StoredFor(r))' + Total(CarriedFor(r))' = Total(StoredFor(r)) + Total(CarriedFor(r)) - 0
        BY <3>2, <4>1
      <4> QED
        BY <1>0, <4>2, <4>3
    <3> QED
      BY <3>1, <3>3, <3>4 DEF Serve
  <2> QED
    BY <2>1, <2>2, <2>3
<1>5. CASE Step \/ EndResetAssign \/ EndReset \/ EndStep \/ ReadState \/ UNCHANGED vars
  BY <1>1, <1>5 DEF Step, BeginStep, EndResetAssign, EndReset, EndStep, ReadState, vars
<1> QED
  BY <1>2, <1>3, <1>4, <1>5 DEF Next

\* The inductive invariant: conservation needs the records, since a delivery takes
\* from the awaited units what target_goal_bits says the target carries.
CargoInv == TypeOK /\ CargoRecordsAgree /\ CargoConserved

LEMMA InitCargoRecords == Init => CargoRecordsAgree
<1> SUFFICES ASSUME Init PROVE CargoRecordsAgree
  OBVIOUS
<1>1. \A t \in Targets : Weight(t) = 0
  BY DEF Init, Weight
<1> QED
  BY <1>1, ConfigFacts DEF Init, CargoRecordsAgree

LEMMA CargoInvariance == Spec => []CargoInv
<1>1. Init => CargoInv
  BY InitTypeOK, InitCargoRecords, InitCargoConserved DEF CargoInv
<1>2. CargoInv /\ [Next]_vars => CargoInv'
  BY NextTypeOK, NextCargoRecords, NextCargoConserved DEF CargoInv
<1> QED
  BY <1>1, <1>2, PTL DEF Spec

\* For every configuration, a warehouse always waits for exactly the units that
\* are in a store or on a target for it.
THEOREM CargoIsConserved == Spec => []CargoConserved
<1>1. CargoInv => CargoConserved
  BY DEF CargoInv
<1> QED
  BY <1>1, CargoInvariance, PTL

\* The environment's and the entity's record of a target's cargo always agree.
THEOREM RecordsAlwaysAgree == Spec => []CargoRecordsAgree
<1>1. CargoInv => CargoRecordsAgree
  BY DEF CargoInv
<1> QED
  BY <1>1, CargoInvariance, PTL

-------------------------------------------------------------------------------
(* The cached state, and what deliveries pay *)

\* There is a cached state only between calls, and then it is the present one.
CacheInv == IF AtRest THEN state_cache \subseteq {Snapshot} ELSE state_cache = {}

LEMMA NextCache == CacheInv /\ [Next]_vars => CacheInv'
<1>0. SUFFICES ASSUME CacheInv, [Next]_vars PROVE CacheInv'
  OBVIOUS
<1> USE DEF CacheInv, AtRest
<1>1. CASE BeginReset \/ Step
  BY <1>1 DEF BeginReset, Step, BeginStep, DroppedCache
<1>2. CASE EndResetAssign \/ StartCargo \/ AssignTarget
  BY <1>0, <1>2 DEF EndResetAssign, StartCargo, AssignTarget, InAssignLoop
<1>3. CASE EndReset \/ EndStep
  BY <1>0, <1>3 DEF EndReset, EndStep
<1>4. CASE ReadState
  BY <1>0, <1>4 DEF ReadState, Snapshot, stock, carried
<1>5. CASE UNCHANGED vars
  BY <1>0, <1>5 DEF vars, Snapshot, stock, carried
<1> QED
  BY <1>0, <1>1, <1>2, <1>3, <1>4, <1>5 DEF Next

\* state() is never stale: every call that changes what it shows drops it.
THEOREM StateCacheCorrect == Spec => []StateCacheFresh
<1>1. Init => CacheInv
  BY DEF Init, CacheInv, AtRest
<1>2. CacheInv => StateCacheFresh
  BY DEF CacheInv, StateCacheFresh
<1> QED
  BY <1>1, <1>2, NextCache, PTL DEF Spec

\* The bounds, for any delayed reward and number of delivered units.
Between(delayed, n) ==
  delayed >= (FreightScale - BountyScale) * n /\ delayed <= (FreightScale + BountyScale) * n

LEMMA OneMorePays ==
  ASSUME NEW d \in Int, NEW n \in Nat, Between(d, n), NEW w \in 0..2,
         NEW bounty \in Nat, bounty <= w * BountyScale
  PROVE  Between(d + (w * FreightScale + bounty - (w * BountyScale - bounty)), n + w)
<1> DEFINE less == FreightScale - BountyScale
           more == FreightScale + BountyScale
<1>1. /\ FreightScale \in Nat /\ BountyScale \in Nat
      /\ less \in Int /\ more \in Int /\ w \in Int /\ n \in Int
  BY ConfigFacts
<1>2. less * (n + w) = less * n + less * w /\ more * (n + w) = more * n + more * w
  BY <1>1
<1>3. /\ less * w = w * FreightScale - w * BountyScale
      /\ more * w = w * FreightScale + w * BountyScale
  BY <1>1
<1>4. /\ w * FreightScale \in Int /\ w * BountyScale \in Int
      /\ less * n \in Int /\ more * n \in Int
  BY <1>1
<1>5. d >= less * n /\ d <= more * n
  BY DEF Between
<1>6. /\ d + (w * FreightScale + bounty - (w * BountyScale - bounty)) >= less * n + less * w
      /\ d + (w * FreightScale + bounty - (w * BountyScale - bounty)) <= more * n + more * w
  BY <1>3, <1>4, <1>5
<1> QED
  BY <1>2, <1>6 DEF Between

PayInv ==
  /\ InEpisode => Between(rewards.delayed + call.delayed, num_delivered_cargoes)
  /\ phase \in {"start_cargo", "running", "done"} => call.delayed = 0

LEMMA NextPay == TypeOK /\ CargoRecordsAgree /\ PayInv /\ [Next]_vars => PayInv'
<1>0. SUFFICES ASSUME TypeOK, CargoRecordsAgree, PayInv, [Next]_vars PROVE PayInv'
  OBVIOUS
<1>t. /\ rewards.delayed \in Int /\ rewards.dense \in Int /\ call.delayed \in Int
      /\ num_delivered_cargoes \in Nat
      /\ call \in [reward : Int, delayed : Int, old_goals : [Targets -> Warehouses \cup {None}]]
  BY <1>0 DEF TypeOK
<1> USE DEF PayInv, InEpisode
<1>1. CASE BeginReset
  BY <1>1 DEF BeginReset
<1>2. CASE EndResetAssign
  <2>1. /\ rewards'.delayed = 0 /\ call'.delayed = 0 /\ num_delivered_cargoes' = 0
    BY <1>2 DEF EndResetAssign, NoCall
  <2>2. Between(0 + 0, 0)
    BY ConfigFacts DEF Between
  <2> QED
    BY <2>1, <2>2
<1>3. CASE StartCargo \/ EndReset \/ ReadState
  BY <1>0, <1>3 DEF StartCargo, EndReset, ReadState, totals
<1>4. CASE Step
  <2>1. /\ phase = "running" /\ phase' = "step_assign" /\ call'.delayed = 0 /\ UNCHANGED totals
    BY <1>4 DEF Step, BeginStep
  <2> QED
    BY <1>0, <2>1 DEF totals
<1>5. CASE AssignTarget
  <2>0. /\ phase' = phase /\ phase \in {"reset_assign", "step_assign"} /\ rewards' = rewards
        /\ cursor \in Targets
    BY <1>5 DEF AssignTarget, InAssignLoop
  <2>1. CASE UNCHANGED <<call, num_delivered_cargoes>>
    BY <1>0, <2>0, <2>1
  <2>2. ASSUME NEW w \in Warehouses, target_goals[cursor] = w, Deliver(cursor, w),
               phase = "step_assign"
        PROVE  PayInv'
    <3>1. Weight(cursor) = target_goal_bits[cursor][w] /\ w # None
      BY <2>0, <2>2, ConfigFacts DEF Weight
    <3>2. PICK units \in 0..2 : units = target_goal_bits[cursor][w]
      BY <1>0, <2>0, <2>2, UnitTypes
    <3>3. PICK bounty \in Nat : bounty = bounties[cursor]
      BY <1>0, <2>0 DEF TypeOK
    <3>4. freights[cursor] = units * FreightScale /\ bounty <= units * BountyScale
      BY <1>0, <2>0, <3>1, <3>2, <3>3 DEF CargoRecordsAgree
    <3>5. call'.delayed =
            call.delayed + (units * FreightScale + bounty) - (units * BountyScale - bounty)
      BY <1>t, <2>2, <3>2, <3>3, <3>4 DEF Deliver, Lost
    <3>6. num_delivered_cargoes' = num_delivered_cargoes + units
      BY <2>2, <3>2 DEF Deliver
    <3>7. Between(rewards.delayed + call.delayed, num_delivered_cargoes)
      BY <1>0, <2>2
    <3>8. PICK d \in Int : d = rewards.delayed + call.delayed
      BY <1>t
    <3>9. Between(d + (units * FreightScale + bounty - (units * BountyScale - bounty)),
                  num_delivered_cargoes + units)
      BY <1>t, <3>4, <3>7, <3>8, OneMorePays
    <3>10. units * FreightScale \in Int /\ units * BountyScale \in Int
      BY ConfigFacts
    <3>11. rewards'.delayed + call'.delayed
             = d + (units * FreightScale + bounty - (units * BountyScale - bounty))
      BY <1>t, <2>0, <3>5, <3>8, <3>10
    <3> QED
      BY <2>0, <2>2, <3>6, <3>9, <3>11
  <2>3. CASE \E w \in Warehouses : target_goals[cursor] = w /\ Deliver(cursor, w)
    <3>1. CASE phase = "reset_assign"
      BY <2>0, <3>1
    <3>2. CASE phase = "step_assign"
      BY <2>2, <2>3, <3>2
    <3> QED
      BY <2>0, <3>1, <3>2
  <2> QED
    BY <1>5, <2>1, <2>3 DEF AssignTarget, PassBy, Serve
<1>6. CASE EndStep
  <2>1. /\ phase = "step_assign" /\ call'.delayed = 0
        /\ rewards'.delayed = rewards.delayed + call.delayed
        /\ num_delivered_cargoes' = num_delivered_cargoes
    BY <1>6 DEF EndStep, NoCall
  <2>2. rewards'.delayed + call'.delayed = rewards.delayed + call.delayed
    BY <1>t, <2>1
  <2> QED
    BY <1>0, <2>1, <2>2
<1>7. CASE UNCHANGED vars
  BY <1>0, <1>7 DEF vars, totals
<1> QED
  BY <1>0, <1>1, <1>2, <1>3, <1>4, <1>5, <1>6, <1>7 DEF Next

\* What an episode has paid with delay stays within freight minus and plus bounty
\* for each unit delivered.
THEOREM DelayedRewardBounded == Spec => []DelayedRewardBounds
<1>1. Init => PayInv
  BY DEF Init, PayInv, InEpisode
<1>2. Spec => []PayInv
  <2>1. CargoInv => TypeOK /\ CargoRecordsAgree
    BY DEF CargoInv
  <2> QED
    BY <1>1, <2>1, NextPay, CargoInvariance, PTL DEF Spec
<1>3. PayInv => DelayedRewardBounds
  BY DEF PayInv, DelayedRewardBounds, Between
<1> QED
  BY <1>2, <1>3, PTL

-------------------------------------------------------------------------------
(* The ledger *)

\* The ledger's variables, as CargoTransport has them.
StoredSum == [w \in Warehouses |-> Total(StoredFor(w))]
LoadOf == [t \in Targets |-> [goal |-> target_goals[t], weight |-> Weight(t)]]

\* No store holds cargo for its own warehouse.
NoOwnCargo == \A w \in Warehouses : remaining_cargoes[w][w] = 0

\* The loop of reset() meets every target unloaded.
ResetUnloaded ==
  phase = "reset_assign" => \A t \in Targets : cursor <= t => target_goals[t] = None

LedgerInv == CargoInv /\ NoOwnCargo /\ ResetUnloaded /\ EmptyBitsSound

-------------------------------------------------------------------------------
(* The invariant *)

LEMMA LoadNotOwn ==
  ASSUME NEW load \in Loads, NEW w \in Warehouses
  PROVE  load[w][w] = 0
<1>1. PICK k \in 1..MaxBatches : load \in LoadsOf(k * BatchSize)
  BY DEF Loads
<1> DEFINE n == k * BatchSize
<1>2. PICK d \in [1..n -> Pairs] : load = Filled(d, n)
  BY <1>1 DEF LoadsOf
<1>3. {i \in 1..n : d[i] = <<w, w>>} = {}
  BY DEF Pairs
<1> HIDE DEF n
<1> QED
  BY <1>2, <1>3, FS_EmptySet DEF Filled

LEMMA InitLedgerInv == Init => LedgerInv
<1>1. Init => CargoInv
  BY InitTypeOK, InitCargoRecords, InitCargoConserved DEF CargoInv
<1>2. Init => NoOwnCargo /\ ResetUnloaded /\ EmptyBitsSound
  BY DEF Init, NoOwnCargo, ResetUnloaded, EmptyBitsSound
<1> QED
  BY <1>1, <1>2 DEF LedgerInv

\* Loading takes from one entry of one store, and nothing else of the stores.
LEMMA LoadLowers ==
  ASSUME TypeOK, NEW t \in Targets, NEW w \in Warehouses, NEW g \in Recipients(w),
         Load(t, w, g), NEW s \in Warehouses, NEW r \in Warehouses
  PROVE  remaining_cargoes'[s][r] \in 0..remaining_cargoes[s][r]
<1> DEFINE weight == CargoWeight(t, w, g)
<1>1. weight \in Nat /\ weight <= remaining_cargoes[w][g] /\ g \in Warehouses
  BY CargoWeightType
<1>2. remaining_cargoes[s][r] \in Nat
  BY UnitTypes
<1>3. remaining_cargoes'[s][r] = IF s = w /\ r = g THEN remaining_cargoes[w][g] - weight
                                 ELSE remaining_cargoes[s][r]
  BY <1>1 DEF Load, TypeOK
<1> HIDE DEF weight
<1> QED
  BY <1>1, <1>2, <1>3

\* Between two resets no entry of a store grows.
LEMMA StoresShrink ==
  ASSUME TypeOK, [Next]_vars, ~BeginReset, NEW s \in Warehouses, NEW r \in Warehouses
  PROVE  remaining_cargoes'[s][r] \in 0..remaining_cargoes[s][r]
<1> USE DEF counters, stock, carried, totals
<1>1. remaining_cargoes[s][r] \in Nat
  BY UnitTypes
<1>2. CASE UNCHANGED remaining_cargoes
  BY <1>1, <1>2
<1>3. CASE \E t \in Targets, w \in Warehouses : \E g \in Recipients(w) : Load(t, w, g)
  BY <1>3, LoadLowers
<1>4. CASE StartCargo
  BY <1>2, <1>3, <1>4 DEF StartCargo, TakeFromAnyStore
<1>5. CASE AssignTarget
  BY <1>2, <1>3, <1>5 DEF AssignTarget, InAssignLoop, PassBy, Serve, LeaveEmpty
<1> QED
  BY <1>2, <1>4, <1>5 DEF Next, EndResetAssign, EndReset, Step, BeginStep, EndStep,
                          ReadState, vars

LEMMA NextNoOwnCargo == TypeOK /\ NoOwnCargo /\ [Next]_vars => NoOwnCargo'
<1> SUFFICES ASSUME TypeOK, NoOwnCargo, [Next]_vars, NEW w \in Warehouses
             PROVE  remaining_cargoes'[w][w] = 0
  BY DEF NoOwnCargo
<1>1. CASE BeginReset
  BY <1>1, LoadNotOwn DEF BeginReset
<1>2. CASE ~BeginReset
  <2>1. remaining_cargoes'[w][w] \in 0..0
    BY <1>2, StoresShrink DEF NoOwnCargo
  <2> QED
    BY <2>1
<1> QED
  BY <1>1, <1>2

LEMMA NextResetUnloaded == TypeOK /\ ResetUnloaded /\ [Next]_vars => ResetUnloaded'
<1> SUFFICES ASSUME TypeOK, ResetUnloaded, [Next]_vars, phase' = "reset_assign",
                    NEW u \in Targets, cursor' <= u
             PROVE  target_goals'[u] = None
  BY DEF ResetUnloaded
<1> USE DEF counters, stock, carried, totals
<1>1. CASE BeginReset
  BY <1>1 DEF BeginReset
<1>2. CASE AssignTarget
  <2>1. cursor \in Targets /\ cursor \in Int /\ u \in Int /\ cursor' = cursor + 1 /\ phase' = phase
    BY <1>2, ConfigFacts DEF AssignTarget, InAssignLoop, Targets
  <2>2. u # cursor /\ cursor <= u
    BY <2>1
  <2>3. target_goals'[u] = target_goals[u]
    BY <1>2, <2>1, <2>2 DEF AssignTarget, PassBy, Serve, Load, LeaveEmpty, TypeOK
  <2> QED
    BY <2>1, <2>2, <2>3 DEF ResetUnloaded
<1>3. CASE ReadState \/ UNCHANGED vars
  BY <1>3 DEF ReadState, vars, ResetUnloaded
<1> QED
  BY <1>1, <1>2, <1>3 DEF Next, EndResetAssign, StartCargo, EndReset, Step, BeginStep, EndStep

LEMMA NextEmptyBits == TypeOK /\ TypeOK' /\ EmptyBitsSound /\ [Next]_vars => EmptyBitsSound'
<1> SUFFICES ASSUME TypeOK, TypeOK', EmptyBitsSound, [Next]_vars,
                    NEW t \in Targets, NEW w \in Warehouses, empty_bits'[t][w]
             PROVE  Recipients(w)' = {}
  BY DEF EmptyBitsSound
<1> USE DEF counters, stock, carried, totals
<1>1. ASSUME ~BeginReset, empty_bits[t][w] PROVE Recipients(w)' = {}
  <2>1. ASSUME NEW r \in Warehouses PROVE ~(remaining_cargoes'[w][r] > 0)
    <3>1. remaining_cargoes'[w][r] \in 0..remaining_cargoes[w][r]
      BY <1>1, StoresShrink
    <3>2. ~(remaining_cargoes[w][r] > 0) /\ remaining_cargoes[w][r] \in Nat
      BY <1>1, UnitTypes DEF EmptyBitsSound, Recipients
    <3> QED
      BY <3>1, <3>2
  <2> QED
    BY <2>1 DEF Recipients
<1>2. CASE BeginReset
  BY <1>2 DEF BeginReset, FreshEmptyBits
<1>3. CASE AssignTarget
  <2>1. ~BeginReset
    BY <1>3 DEF AssignTarget, InAssignLoop, BeginReset
  <2>2. PICK c \in Targets : \/ \E place \in Warehouses \cup {None} : PassBy(c, place)
                            \/ \E v \in Warehouses : Serve(c, v)
    BY <1>3 DEF AssignTarget, InAssignLoop
  <2>3. ASSUME NEW place \in Warehouses \cup {None}, PassBy(c, place)
        PROVE  Recipients(w)' = {}
    <3>1. UNCHANGED remaining_cargoes
      BY <2>3 DEF PassBy
    <3>2. CASE empty_bits[t][w]
      BY <1>1, <2>1, <3>2
    <3>3. CASE ~empty_bits[t][w]
      <4>1. place # None
        BY <2>3, <3>3 DEF PassBy
      <4>2. empty_bits' = [empty_bits EXCEPT ![c][place] = (Recipients(place) = {})]
        BY <2>3, <4>1 DEF PassBy
      <4>3. t = c /\ w = place
        BY <3>3, <4>1, <4>2 DEF TypeOK
      <4>4. Recipients(w) = {}
        BY <4>2, <4>3 DEF TypeOK
      <4> QED
        BY <3>1, <4>4 DEF Recipients
    <3> QED
      BY <3>2, <3>3
  <2>4. ASSUME NEW v \in Warehouses, Serve(c, v) PROVE Recipients(w)' = {}
    <3>1. empty_bits' = [empty_bits EXCEPT ![c][v] =
                           \A r \in Warehouses : remaining_cargoes'[v][r] = 0]
      BY <2>4 DEF Serve
    <3>2. CASE empty_bits[t][w]
      BY <1>1, <2>1, <3>2
    <3>3. CASE ~empty_bits[t][w]
      <4>1. t = c /\ w = v
        BY <3>1, <3>3 DEF TypeOK
      <4>2. \A r \in Warehouses : remaining_cargoes'[w][r] = 0
        BY <3>1, <4>1 DEF TypeOK
      <4> QED
        BY <4>2 DEF Recipients
    <3> QED
      BY <3>2, <3>3
  <2> QED
    BY <2>2, <2>3, <2>4
<1>4. CASE EndResetAssign \/ StartCargo \/ EndReset \/ Step \/ EndStep \/ ReadState \/ UNCHANGED vars
  <2>1. empty_bits' = empty_bits
    BY <1>4 DEF EndResetAssign, StartCargo, EndReset, Step, BeginStep, EndStep, ReadState, vars
  <2>2. ~BeginReset
    BY <1>4 DEF EndResetAssign, StartCargo, EndReset, Step, BeginStep, EndStep, ReadState,
                vars, BeginReset
  <2> QED
    BY <1>1, <2>1, <2>2
<1> QED
  BY <1>2, <1>3, <1>4 DEF Next

LEMMA LedgerInvariance == Spec => []LedgerInv
<1>1. Init => LedgerInv
  BY InitLedgerInv
<1>2. LedgerInv /\ [Next]_vars => LedgerInv'
  BY NextTypeOK, NextCargoRecords, NextCargoConserved, NextNoOwnCargo, NextResetUnloaded,
     NextEmptyBits DEF LedgerInv, CargoInv
<1> QED
  BY <1>1, <1>2, PTL DEF Spec

\* A warehouse that a target remembers as empty has no cargo left, however the
\* other targets have loaded since, in every configuration.
THEOREM EmptyBitsAlwaysSound == Spec => []EmptyBitsSound
<1>1. LedgerInv => EmptyBitsSound
  BY DEF LedgerInv
<1> QED
  BY <1>1, LedgerInvariance, PTL

-------------------------------------------------------------------------------
(* The refinement *)

LEMMA WeightFacts ==
  ASSUME TypeOK, CargoRecordsAgree, NEW t \in Targets
  PROVE  /\ Weight(t) \in 0..2
         /\ target_goals[t] = None <=> Weight(t) = 0
         /\ \A w \in Warehouses : target_goals[t] = w => Weight(t) = target_goal_bits[t][w]
<1>1. /\ target_goals[t] \in Warehouses \cup {None}
      /\ target_capacities[t] \in {1, 2}
      /\ \A w \in Warehouses : target_goal_bits[t][w] \in 0..2
  BY UnitTypes DEF TypeOK
<1>2. target_goals[t] # None => Weight(t) \in 1..target_capacities[t]
  BY DEF CargoRecordsAgree
<1> QED
  BY <1>1, <1>2, ConfigFacts DEF Weight

\* A target is Empty in the ledger exactly when it has no goal.
LEMMA EmptyLoad ==
  ASSUME TypeOK, CargoRecordsAgree, NEW t \in Targets
  PROVE  LoadOf[t] = Ledger!Empty <=> target_goals[t] = None
  BY WeightFacts DEF LoadOf, Ledger!Empty

\* What a step leaves alone stays as it is in the ledger.
LEMMA SameStored ==
  ASSUME UNCHANGED remaining_cargoes PROVE UNCHANGED StoredSum
  BY DEF StoredSum, StoredFor, Total, UnitsOf

LEMMA SameLoads ==
  ASSUME UNCHANGED <<target_goals, target_goal_bits>> PROVE UNCHANGED LoadOf
  BY DEF LoadOf, Weight

LEMMA StoredIsNat == TypeOK => \A r \in Warehouses : Total(StoredFor(r)) \in Nat
  BY ColumnTypes

\* Loading is the ledger's Take, of an amount the stores have.
LEMMA LoadTakes ==
  ASSUME TypeOK, TypeOK', CargoRecordsAgree', NEW t \in Targets, NEW w \in Warehouses,
         NEW g \in Recipients(w), Load(t, w, g)
  PROVE  \E n \in 1..StoredSum[g] :
           /\ StoredSum' = [StoredSum EXCEPT ![g] = @ - n]
           /\ LoadOf' = [LoadOf EXCEPT ![t] = [goal |-> g, weight |-> n]]
<1> DEFINE n == CargoWeight(t, w, g)
<1>1. n \in 1..2 /\ g \in Warehouses /\ g # None
  BY CargoWeightType, ConfigFacts
<1>2. target_goals'[t] = g /\ target_goal_bits'[t] = BitsAt(g, n)
  BY DEF Load, TypeOK
<1>3. remaining_cargoes' = [remaining_cargoes EXCEPT ![w][g] = @ - n]
  BY DEF Load
<1> HIDE DEF n
<1>4. ASSUME NEW r \in Warehouses
      PROVE  Total(StoredFor(r))' = Total(StoredFor(r)) - (IF r = g THEN n ELSE 0)
  <2>1. remaining_cargoes'[w][r] = remaining_cargoes[w][r] - (IF r = g THEN n ELSE 0)
    <3>1. remaining_cargoes[w][r] \in Nat
      BY UnitTypes
    <3> QED
      BY <1>1, <1>3, <3>1 DEF TypeOK
  <2>2. \A s \in Warehouses : s # w => remaining_cargoes'[s] = remaining_cargoes[s]
    BY <1>3 DEF TypeOK
  <2>3. \A u \in Targets : u # t => target_goal_bits'[u] = target_goal_bits[u]
    BY DEF Load, TypeOK
  <2>4. Total(StoredFor(r))' = Total(StoredFor(r)) - remaining_cargoes[w][r]
                                                  + remaining_cargoes'[w][r]
    BY <2>2, <2>3, OneCarrierMoves
  <2>5. remaining_cargoes[w][r] \in Nat /\ Total(StoredFor(r)) \in Nat
    BY UnitTypes, ColumnTypes
  <2> QED
    BY <1>1, <2>1, <2>4, <2>5
<1>5. StoredSum' = [StoredSum EXCEPT ![g] = @ - n]
  <2>1. StoredSum' = [r \in Warehouses |-> Total(StoredFor(r))']
    BY DEF StoredSum
  <2>2. \A r \in Warehouses : StoredSum[r] = Total(StoredFor(r)) /\ StoredSum[r] \in Nat
    BY ColumnTypes DEF StoredSum
  <2>3. DOMAIN StoredSum = Warehouses /\ StoredSum = [r \in Warehouses |-> StoredSum[r]]
    BY DEF StoredSum
  <2>4. ASSUME NEW r \in Warehouses
        PROVE  Total(StoredFor(r))' = [StoredSum EXCEPT ![g] = @ - n][r]
    BY <1>1, <1>4, <2>2, <2>3
  <2> QED
    BY <2>1, <2>3, <2>4
<1>6. n \in 1..StoredSum[g]
  <2>1. Total(StoredFor(g))' = Total(StoredFor(g)) - n
    BY <1>1, <1>4
  <2>2. (Total(StoredFor(g)) \in Nat)'
    <3>1. (\A r \in Warehouses : Total(StoredFor(r)) \in Nat)'
      BY StoredIsNat, PTL
    <3> QED
      BY <1>1, <3>1
  <2>3. Total(StoredFor(g)) \in Nat /\ StoredSum[g] = Total(StoredFor(g))
    BY <1>1, ColumnTypes DEF StoredSum
  <2> QED
    BY <1>1, <2>1, <2>2, <2>3
<1>7. LoadOf' = [LoadOf EXCEPT ![t] = [goal |-> g, weight |-> n]]
  <2>1. Weight(t)' = n
    BY <1>1, <1>2 DEF Weight, BitsAt
  <2>2. ASSUME NEW u \in Targets, u # t
        PROVE  target_goals'[u] = target_goals[u] /\ Weight(u)' = Weight(u)
    BY <2>2 DEF Load, TypeOK, Weight
  <2> QED
    BY <1>2, <2>1, <2>2 DEF LoadOf
<1> QED
  BY <1>5, <1>6, <1>7

LEMMA LeaveEmptyEmpties ==
  ASSUME TypeOK, NEW t \in Targets, LeaveEmpty(t)
  PROVE  /\ StoredSum' = StoredSum
         /\ LoadOf' = [LoadOf EXCEPT ![t] = Ledger!Empty]
<1>1. StoredSum' = StoredSum
  BY SameStored DEF LeaveEmpty
<1>2. target_goals'[t] = None /\ Weight(t)' = 0
  BY DEF LeaveEmpty, TypeOK, Weight
<1>3. ASSUME NEW u \in Targets, u # t
      PROVE  target_goals'[u] = target_goals[u] /\ Weight(u)' = Weight(u)
  BY <1>3 DEF LeaveEmpty, TypeOK, Weight
<1> QED
  BY <1>1, <1>2, <1>3 DEF LoadOf, Ledger!Empty

LEMMA NextKeepsLedger ==
  ASSUME LedgerInv, LedgerInv', [Next]_vars
  PROVE  [Ledger!Next]_Ledger!ledger
<1> USE DEF counters, stock, carried, totals
<1>0. TypeOK /\ TypeOK' /\ CargoRecordsAgree /\ CargoRecordsAgree' /\ NoOwnCargo /\ ResetUnloaded
  BY DEF LedgerInv, CargoInv
<1> DEFINE open == phase \notin {"constructed", "done"}
           delivered == IF phase = "reset_assign" THEN 0 ELSE num_delivered_cargoes
           Kept == UNCHANGED <<open, StoredSum, LoadOf, delivered>>
<1>1. ASSUME Kept PROVE UNCHANGED Ledger!ledger
  BY <1>1 DEF Ledger!ledger, StoredSum, LoadOf
<1>2. ASSUME NEW t \in Targets, UNCHANGED <<open, delivered>>, open, target_goals[t] = None,
             NEW w \in Warehouses, NEW g \in Recipients(w), Load(t, w, g)
      PROVE  Ledger!Next
  <2>1. LoadOf[t] = Ledger!Empty
    BY <1>0, <1>2, EmptyLoad
  <2>2. PICK n \in 1..StoredSum[g] :
          /\ StoredSum' = [StoredSum EXCEPT ![g] = @ - n]
          /\ LoadOf' = [LoadOf EXCEPT ![t] = [goal |-> g, weight |-> n]]
    BY <1>0, <1>2, LoadTakes
  <2>3. g \in Warehouses
    BY DEF Recipients
  <2>4. Ledger!Take(t, g, n)
    BY <2>2 DEF Ledger!Take, StoredSum, LoadOf
  <2>5. Ledger!PickUp(t)
    BY <1>2, <2>1, <2>2, <2>3, <2>4 DEF Ledger!PickUp, StoredSum, LoadOf
  <2> QED
    BY <2>5 DEF Ledger!Next
<1>3. CASE BeginReset
  <2>1. StoredSum' \in [Warehouses -> Nat]
    <3>1. (\A r \in Warehouses : Total(StoredFor(r)) \in Nat)'
      BY <1>0, StoredIsNat, PTL
    <3> QED
      BY <3>1 DEF StoredSum
  <2>2. LoadOf' = [t \in Targets |-> Ledger!Empty]
    BY <1>3 DEF BeginReset, LoadOf, Weight, Ledger!Empty
  <2>3. open' = TRUE /\ delivered' = 0
    BY <1>3 DEF BeginReset
  <2>4. Ledger!NewEpisode
    BY <2>1, <2>2, <2>3 DEF Ledger!NewEpisode, StoredSum, LoadOf
  <2> QED
    BY <2>4 DEF Ledger!Next
<1>4. CASE StartCargo
  <2>1. UNCHANGED <<open, delivered>> /\ open /\ cursor \in Targets
    BY <1>4 DEF StartCargo
  <2>2. CASE UNCHANGED <<carried, remaining_cargoes>>
    BY <1>1, <2>1, <2>2, SameStored, SameLoads
  <2>3. CASE target_goals[cursor] = None /\ TakeFromAnyStore(cursor)
    <3>1. CASE \E w \in Warehouses : \E g \in Recipients(w) : Load(cursor, w, g)
      <4>1. PICK t \in Targets : target_goals[t] = None
                /\ \E w \in Warehouses : \E g \in Recipients(w) : Load(t, w, g)
        BY <2>1, <2>3, <3>1
      <4> QED
        BY <1>2, <2>1, <4>1
    <3> QED
      BY <2>2, <2>3, <3>1 DEF TakeFromAnyStore
  <2> QED
    BY <1>4, <2>2, <2>3 DEF StartCargo
<1>5. CASE AssignTarget
  <2>1. UNCHANGED open /\ open /\ phase' = phase
    BY <1>5 DEF AssignTarget, InAssignLoop
  <2>2. PICK t \in Targets :
          /\ t = cursor
          /\ \/ \E place \in Warehouses \cup {None} : PassBy(t, place)
             \/ \E w \in Warehouses : Serve(t, w)
    BY <1>5 DEF AssignTarget, InAssignLoop
  <2>3. CASE \E place \in Warehouses \cup {None} : PassBy(t, place)
    BY <1>1, <2>1, <2>3, SameStored, SameLoads DEF PassBy
  <2>4. ASSUME NEW w \in Warehouses, Serve(t, w), target_goals[t] = None
        PROVE  Ledger!Next \/ Kept
    <3>1. UNCHANGED num_delivered_cargoes
      BY <2>4, ConfigFacts DEF Serve
    <3>2. CASE \E g \in Recipients(w) : Load(t, w, g)
      BY <1>2, <2>1, <2>4, <3>1, <3>2
    <3>3. CASE LeaveEmpty(t)
      <4>1. StoredSum' = StoredSum /\ LoadOf' = [LoadOf EXCEPT ![t] = Ledger!Empty]
        BY <1>0, <3>3, LeaveEmptyEmpties
      <4>2. LoadOf[t] = Ledger!Empty
        BY <1>0, <2>4, EmptyLoad
      <4>3. LoadOf' = LoadOf
        BY <4>1, <4>2 DEF LoadOf
      <4> QED
        BY <2>1, <3>1, <4>1, <4>3
    <3> QED
      BY <2>4, <3>2, <3>3 DEF Serve
  <2>5. ASSUME NEW w \in Warehouses, Serve(t, w), target_goals[t] = w
        PROVE  Ledger!Next
    <3>1. phase # "reset_assign"
      BY <1>0, <2>2, <2>5, ConfigFacts DEF ResetUnloaded, TypeOK, Targets
    <3>2. LoadOf[t] = [goal |-> w, weight |-> target_goal_bits[t][w]] /\ LoadOf[t] # Ledger!Empty
      BY <1>0, <2>5, EmptyLoad, WeightFacts, ConfigFacts DEF LoadOf
    <3>3. delivered' = delivered + LoadOf[t].weight
      BY <2>1, <2>5, <3>1, <3>2 DEF Serve, Deliver
    <3>4. CASE LeaveEmpty(t)
      <4>1. StoredSum' = StoredSum /\ LoadOf' = [LoadOf EXCEPT ![t] = Ledger!Empty]
        BY <1>0, <3>4, LeaveEmptyEmpties
      <4>2. Ledger!Deliver(t)
        BY <2>1, <3>2, <3>3, <4>1 DEF Ledger!Deliver, StoredSum, LoadOf
      <4> QED
        BY <4>2 DEF Ledger!Next
    <3>5. ASSUME NEW g \in Recipients(w), Load(t, w, g) PROVE Ledger!Next
      <4>1. PICK n \in 1..StoredSum[g] :
              /\ StoredSum' = [StoredSum EXCEPT ![g] = @ - n]
              /\ LoadOf' = [LoadOf EXCEPT ![t] = [goal |-> g, weight |-> n]]
        BY <1>0, <3>5, LoadTakes
      <4>2. g \in Warehouses \ {LoadOf[t].goal}
        BY <1>0, <3>2 DEF Recipients, NoOwnCargo
      <4>3. Ledger!Take(t, g, n)
        BY <4>1 DEF Ledger!Take, StoredSum, LoadOf
      <4>4. Ledger!Deliver(t)
        BY <2>1, <3>2, <3>3, <4>1, <4>2, <4>3 DEF Ledger!Deliver, StoredSum, LoadOf
      <4> QED
        BY <4>4 DEF Ledger!Next
    <3> QED
      BY <2>5, <3>4, <3>5 DEF Serve
  <2> QED
    BY <1>1, <2>2, <2>3, <2>4, <2>5 DEF Serve
<1>6. CASE EndStep
  <2>1. UNCHANGED <<StoredSum, LoadOf>>
    BY <1>6, SameStored, SameLoads DEF EndStep
  <2>2. open /\ delivered' = delivered
    BY <1>6 DEF EndStep
  <2>3. CASE open'
    BY <1>1, <2>1, <2>2, <2>3
  <2>4. CASE ~open'
    <3>1. Ledger!Close
      BY <2>1, <2>2, <2>4 DEF Ledger!Close, StoredSum, LoadOf
    <3> QED
      BY <3>1 DEF Ledger!Next
  <2> QED
    BY <2>3, <2>4
<1>7. CASE EndResetAssign \/ EndReset \/ Step \/ ReadState \/ UNCHANGED vars
  <2>1. UNCHANGED <<StoredSum, LoadOf>>
    BY <1>7, SameStored, SameLoads DEF EndResetAssign, EndReset, Step, BeginStep, ReadState, vars
  <2>2. UNCHANGED <<open, delivered>>
    BY <1>7 DEF EndResetAssign, EndReset, Step, BeginStep, ReadState, vars
  <2> QED
    BY <1>1, <2>1, <2>2
<1> QED
  BY <1>3, <1>4, <1>5, <1>6, <1>7 DEF Next

LEMMA InitKeepsLedger == Init => Ledger!Init
<1> SUFFICES ASSUME Init PROVE Ledger!Init
  OBVIOUS
<1>1. LoadOf = [t \in Targets |-> Ledger!Empty]
  BY DEF Init, LoadOf, Weight, Ledger!Empty
<1>2. ASSUME NEW w \in Warehouses PROVE Total(StoredFor(w)) = 0
  <2>1. StoredFor(w) = [s \in Warehouses |-> 0]
    BY DEF Init, StoredFor
  <2> QED
    BY <2>1, TotalZero
<1>3. StoredSum = [w \in Warehouses |-> 0]
  BY <1>2 DEF StoredSum
<1> QED
  BY <1>1, <1>3 DEF Init, Ledger!Init, StoredSum, LoadOf

\* For every configuration the environment implements the ledger: whatever the
\* order of calls, a unit of cargo goes from a store to a target to its goal and
\* is counted there once, and nothing moves after an episode is done.
THEOREM LedgerImplemented == Spec => KeepsLedger
<1>1. Init => Ledger!Init
  BY InitKeepsLedger
<1>2. LedgerInv /\ LedgerInv' /\ [Next]_vars => [Ledger!Next]_Ledger!ledger
  BY NextKeepsLedger
<1> QED
  BY <1>1, <1>2, LedgerInvariance, PTL DEF Spec, KeepsLedger, Ledger!Spec

\* target_dones reports every delivery, for every configuration: in the loop of
\* step() a goal changes exactly when what was carried to it is delivered.
THEOREM GoalsChangeAtDelivery == Spec => GoalChangesAtDelivery
<1> DEFINE Act == phase = "step_assign" /\ InAssignLoop /\ target_goals[cursor] # None =>
                    (target_goals'[cursor] # target_goals[cursor]
                       <=> num_delivered_cargoes' = num_delivered_cargoes + Weight(cursor))
<1>1. ASSUME LedgerInv, LedgerInv', [Next]_vars PROVE [Act]_vars
  <2> USE DEF counters, stock, carried, totals
  <2> SUFFICES ASSUME NEW t \in Targets, t = cursor, phase = "step_assign",
                      target_goals[t] # None, vars' # vars
               PROVE  target_goals'[t] # target_goals[t]
                        <=> num_delivered_cargoes' = num_delivered_cargoes + Weight(t)
    BY DEF InAssignLoop
  <2>1. AssignTarget
    <3>1. cursor \in 1..NumTargets
      BY DEF Targets
    <3> QED
      BY <1>1, <3>1, ConfigFacts DEF Next, BeginReset, EndResetAssign, StartCargo, EndReset,
         Step, BeginStep, EndStep, ReadState
  <2>2. TypeOK /\ CargoRecordsAgree /\ NoOwnCargo
    BY <1>1 DEF LedgerInv, CargoInv
  <2>3. Weight(t) \in 1..2 /\ num_delivered_cargoes \in Nat
    BY <2>2, WeightFacts DEF TypeOK
  <2>4. ASSUME NEW place \in Warehouses \cup {None}, PassBy(t, place)
        PROVE  UNCHANGED <<target_goals, num_delivered_cargoes>>
    BY <2>4 DEF PassBy
  <2>5. ASSUME NEW w \in Warehouses, Serve(t, w)
        PROVE  /\ target_goals'[t] # target_goals[t]
               /\ num_delivered_cargoes' = num_delivered_cargoes + Weight(t)
    <3>1. target_goals[t] = w /\ Deliver(t, w)
      BY <2>5 DEF Serve
    <3>2. num_delivered_cargoes' = num_delivered_cargoes + Weight(t)
      BY <2>2, <3>1, WeightFacts DEF Deliver
    <3>3. target_goals'[t] # w
      BY <2>2, <2>5, ConfigFacts DEF Serve, Load, LeaveEmpty, Recipients, NoOwnCargo, TypeOK
    <3> QED
      BY <3>1, <3>2, <3>3
  <2> QED
    BY <2>1, <2>3, <2>4, <2>5 DEF AssignTarget
<1> QED
  BY <1>1, LedgerInvariance, PTL DEF Spec, GoalChangesAtDelivery

-------------------------------------------------------------------------------
(* The end of the episode *)

\* A sum is zero only if there is nothing to sum.
LEMMA TotalNothing ==
  ASSUME NEW D, IsFiniteSet(D), NEW f \in [D -> Nat]
  PROVE  Total(f) = 0 <=> \A x \in D : f[x] = 0
<1>1. Total(f) = 0 <=> UnitsOf(f) = {}
  <2>1. IsFiniteSet(UnitsOf(f))
    BY UnitsFinite
  <2> QED
    BY <2>1, FS_EmptySet DEF Total
<1>2. ASSUME \A x \in D : f[x] = 0 PROVE UnitsOf(f) = {}
  BY <1>2 DEF UnitsOf
<1>3. ASSUME UnitsOf(f) = {}, NEW x \in D PROVE f[x] = 0
  <2>1. <<x, 1>> \notin UnitsOf(f)
    BY <1>3
  <2>2. 1 \notin 1..f[x]
    BY <2>1 DEF UnitsOf
  <2> QED
    BY <2>2
<1> QED
  BY <1>1, <1>2, <1>3

\* A warehouse awaits nothing exactly when nothing is stored or carried for it.
LEMMA NothingAwaited ==
  ASSUME TypeOK, CargoConserved, NEW w \in Warehouses
  PROVE  awaiting_cargo_counts[w] = 0 <=>
           /\ \A s \in Warehouses : remaining_cargoes[s][w] = 0
           /\ \A t \in Targets : target_goal_bits[t][w] = 0
<1>1. /\ StoredFor(w) \in [Warehouses -> Nat] /\ CarriedFor(w) \in [Targets -> Nat]
      /\ Total(StoredFor(w)) \in Nat /\ Total(CarriedFor(w)) \in Nat
  BY ColumnTypes
<1>2. awaiting_cargo_counts[w] = 0 <=> Total(StoredFor(w)) = 0 /\ Total(CarriedFor(w)) = 0
  BY <1>1 DEF CargoConserved
<1>3. Total(StoredFor(w)) = 0 <=> \A s \in Warehouses : remaining_cargoes[s][w] = 0
  BY <1>1, TotalNothing, ConfigFacts DEF StoredFor
<1>4. Total(CarriedFor(w)) = 0 <=> \A t \in Targets : target_goal_bits[t][w] = 0
  BY <1>1, TotalNothing, TargetsFinite DEF CarriedFor
<1> QED
  BY <1>2, <1>3, <1>4

\* reset() ends with cargo to deliver, step() with some or with `done'.
EndInv ==
  /\ phase \in {"reset_assign", "start_cargo", "running"} =>
       \E w \in Warehouses : awaiting_cargo_counts[w] # 0
  /\ phase = "done" /\ episode_step <= MaxSteps =>
       \A w \in Warehouses : awaiting_cargo_counts[w] = 0

\* The filling loop of reset() goes on until no store is empty.
LEMMA LoadIsAwaited ==
  ASSUME BeginReset
  PROVE  \E w \in Warehouses : awaiting_cargo_counts'[w] # 0
<1>1. PICK load \in Loads :
        awaiting_cargo_counts' = [r \in Warehouses |-> Total([s \in Warehouses |-> load[s][r]])]
  BY DEF BeginReset
<1>2. PICK k \in 1..MaxBatches : load \in LoadsOf(k * BatchSize)
  BY DEF Loads
<1>3. k * BatchSize \in Nat
  BY BatchSizeType, ConfigFacts
<1>4. PICK n \in Nat : n = k * BatchSize
  BY <1>3
<1>5. PICK d \in [1..n -> Pairs] : load = Filled(d, n) /\ LoopStopsAt(d, n)
  BY <1>2, <1>4 DEF LoadsOf
<1>6. NoEmptyRow(load)
  BY <1>4, <1>5 DEF LoopStopsAt
<1>7. PICK s \in Warehouses : TRUE
  <2>1. Warehouses # {}
    <3>1. IsFiniteSet(Warehouses) /\ Cardinality(Warehouses) >= 2
      BY ConfigAssumption DEF ValidConfig
    <3> QED
      BY <3>1, FS_EmptySet
  <2> QED
    BY <2>1
<1>8. PICK r \in Warehouses : load[s][r] > 0
  BY <1>6 DEF NoEmptyRow
<1>9. load \in [Warehouses -> [Warehouses -> Nat]]
  BY LoadType
<1>10. [q \in Warehouses |-> load[q][r]] \in [Warehouses -> Nat]
  BY <1>9
<1>11. [q \in Warehouses |-> load[q][r]][s] # 0
  BY <1>8
<1>12. Total([q \in Warehouses |-> load[q][r]]) # 0
  BY <1>10, <1>11, TotalNothing, ConfigFacts
<1> QED
  BY <1>1, <1>12

LEMMA NextEnd == TypeOK /\ ResetUnloaded /\ EndInv /\ [Next]_vars => EndInv'
<1>0. SUFFICES ASSUME TypeOK, ResetUnloaded, EndInv, [Next]_vars PROVE EndInv'
  OBVIOUS
<1> USE DEF EndInv
<1>1. CASE BeginReset
  <2>1. phase' = "reset_assign"
    BY <1>1 DEF BeginReset
  <2> QED
    BY <1>1, <2>1, LoadIsAwaited
<1>2. CASE AssignTarget
  <2>1. phase' = phase /\ phase \in {"reset_assign", "step_assign"} /\ cursor \in Targets
    BY <1>2 DEF AssignTarget, InAssignLoop
  <2>2. CASE phase = "reset_assign"
    <3>1. cursor <= cursor
      BY <2>1, ConfigFacts DEF Targets
    <3>2. target_goals[cursor] = None
      BY <1>0, <2>1, <2>2, <3>1 DEF ResetUnloaded
    <3>3. awaiting_cargo_counts' = awaiting_cargo_counts
      BY <1>2, <3>2, ConfigFacts DEF AssignTarget, PassBy, Serve, stock
    <3> QED
      BY <1>0, <2>1, <2>2, <3>3
  <2>3. CASE phase = "step_assign"
    BY <2>1, <2>3
  <2> QED
    BY <2>1, <2>2, <2>3
<1>3. CASE EndResetAssign \/ StartCargo \/ EndReset
  BY <1>0, <1>3 DEF EndResetAssign, StartCargo, EndReset, stock
<1>4. CASE Step
  BY <1>4 DEF Step, BeginStep
<1>5. CASE EndStep
  <2>1. /\ phase' = IF Done THEN "done" ELSE "running"
        /\ episode_step' = Tick /\ awaiting_cargo_counts' = awaiting_cargo_counts
    BY <1>5 DEF EndStep, stock
  <2> QED
    BY <2>1 DEF Done
<1>6. CASE ReadState \/ UNCHANGED vars
  BY <1>0, <1>6 DEF ReadState, vars, stock, counters
<1> QED
  BY <1>0, <1>1, <1>2, <1>3, <1>4, <1>5, <1>6 DEF Next

\* An episode that ends in time leaves nothing behind, one that goes on has
\* something left to deliver.
THEOREM EndsCorrect == Spec => []EndsWhenAllDelivered
<1>1. Init => EndInv
  BY DEF Init, EndInv
<1>2. Spec => []EndInv
  <2>1. LedgerInv => TypeOK /\ ResetUnloaded
    BY DEF LedgerInv, CargoInv
  <2> QED
    BY <1>1, <2>1, NextEnd, LedgerInvariance, PTL DEF Spec
<1>3. CargoInv /\ EndInv => EndsWhenAllDelivered
  <2>0. SUFFICES ASSUME CargoInv, EndInv PROVE EndsWhenAllDelivered
    OBVIOUS
  <2>1. TypeOK /\ CargoRecordsAgree /\ CargoConserved
    BY <2>0 DEF CargoInv
  <2>2. CASE phase = "done" /\ episode_step <= MaxSteps
    <3>1. \A w \in Warehouses : awaiting_cargo_counts[w] = 0
      BY <2>0, <2>2 DEF EndInv
    <3>2. /\ \A s, w \in Warehouses : remaining_cargoes[s][w] = 0
          /\ \A t \in Targets : \A w \in Warehouses : target_goal_bits[t][w] = 0
      BY <2>1, <3>1, NothingAwaited
    <3>3. \A s \in Warehouses : Recipients(s) = {}
      BY <3>2 DEF Recipients
    <3>4. \A t \in Targets : Weight(t) = 0
      <4>1. \A t \in Targets : target_goals[t] \in Warehouses \cup {None}
        BY <2>1 DEF TypeOK
      <4> QED
        BY <3>2, <4>1 DEF Weight
    <3>5. \A t \in Targets : target_goals[t] = None
      BY <2>1, <3>4, WeightFacts
    <3> QED
      BY <2>2, <3>3, <3>5 DEF EndsWhenAllDelivered
  <2>3. CASE phase = "running"
    <3>1. PICK w \in Warehouses : awaiting_cargo_counts[w] # 0
      BY <2>0, <2>3 DEF EndInv
    <3>2. \/ \E s \in Warehouses : remaining_cargoes[s][w] # 0
          \/ \E t \in Targets : target_goal_bits[t][w] # 0
      BY <2>1, <3>1, NothingAwaited
    <3>3. CASE \E s \in Warehouses : remaining_cargoes[s][w] # 0
      <4>1. PICK s \in Warehouses : remaining_cargoes[s][w] > 0
        BY <2>1, <3>3, UnitTypes
      <4>2. w \in Recipients(s)
        BY <4>1 DEF Recipients
      <4> QED
        BY <2>3, <4>2 DEF EndsWhenAllDelivered
    <3>4. CASE \E t \in Targets : target_goal_bits[t][w] # 0
      <4>1. PICK t \in Targets : target_goal_bits[t][w] # 0
        BY <3>4
      <4>2. target_goals[t] # None
        BY <2>1, <4>1 DEF CargoRecordsAgree, BitsAt, Weight
      <4> QED
        BY <2>3, <4>2 DEF EndsWhenAllDelivered
    <3> QED
      BY <3>2, <3>3, <3>4
  <2>4. CASE phase # "running" /\ ~(phase = "done" /\ episode_step <= MaxSteps)
    BY <2>4 DEF EndsWhenAllDelivered
  <2> QED
    BY <2>2, <2>3, <2>4
<1> QED
  BY <1>2, <1>3, CargoInvariance, PTL

-------------------------------------------------------------------------------
(* The two rewards *)

\* One more for each x in C.
LEMMA TotalOnes ==
  ASSUME NEW D, IsFiniteSet(D), NEW f \in [D -> Nat], NEW C \in SUBSET D,
         NEW g \in [D -> Nat], \A x \in D : g[x] = IF x \in C THEN f[x] + 1 ELSE f[x]
  PROVE  Total(g) = Total(f) + Cardinality(C)
<1> DEFINE unit == [x \in C |-> <<x, f[x] + 1>>]
           new == {unit[x] : x \in C}
<1>1. IsFiniteSet(C) /\ Cardinality(C) \in Nat
  BY FS_Subset, FS_CardinalityType
<1>2. unit \in Bijection(C, new)
  <2>1. unit \in [C -> new] /\ \A y \in new : \E x \in C : unit[x] = y
    OBVIOUS
  <2>2. \A x, y \in C : unit[x] = unit[y] => x = y
    OBVIOUS
  <2> HIDE DEF unit, new
  <2> QED
    BY <2>1, <2>2 DEF Bijection, Injection, Surjection, IsInjective
<1>3. IsFiniteSet(new) /\ Cardinality(new) = Cardinality(C)
  BY <1>1, <1>2, FS_Bijection DEF ExistsBijection
<1>4. IsFiniteSet(UnitsOf(f)) /\ Cardinality(UnitsOf(f)) \in Nat
  BY UnitsFinite, FS_CardinalityType
<1>5. UnitsOf(f) \cap new = {}
  <2>1. \A x \in D : f[x] \in Nat /\ f[x] + 1 \notin 1..f[x]
    OBVIOUS
  <2> QED
    BY <2>1 DEF UnitsOf
<1>6. UnitsOf(g) = UnitsOf(f) \cup new
  <2>1. \A x \in D : 1..g[x] = IF x \in C THEN (1..f[x]) \cup {f[x] + 1} ELSE 1..f[x]
    <3>1. \A n \in Nat : 1..(n + 1) = (1..n) \cup {n + 1}
      OBVIOUS
    <3>2. \A x \in D : f[x] \in Nat
      OBVIOUS
    <3> QED
      BY <3>1, <3>2
  <2>2. ASSUME NEW y \in UnitsOf(g) PROVE y \in UnitsOf(f) \cup new
    BY <2>1 DEF UnitsOf
  <2>3. ASSUME NEW y \in UnitsOf(f) PROVE y \in UnitsOf(g)
    BY <2>1 DEF UnitsOf
  <2>4. ASSUME NEW y \in new PROVE y \in UnitsOf(g)
    BY <2>1 DEF UnitsOf
  <2> QED
    BY <2>2, <2>3, <2>4
<1> HIDE DEF new
<1>7. Cardinality(UnitsOf(g)) = Cardinality(UnitsOf(f)) + Cardinality(new) - Cardinality({})
  BY <1>3, <1>4, <1>5, <1>6, FS_Union
<1> QED
  BY <1>1, <1>3, <1>4, <1>7, FS_EmptySet DEF Total

LEMMA LostTypes ==
  ASSUME TypeOK, CargoRecordsAgree
  PROVE  /\ LostBounty \in [Targets -> Nat]
         /\ \A t \in Targets : target_goals[t] = None => LostBounty[t] = 0
<1>1. ASSUME NEW t \in Targets
      PROVE  /\ Weight(t) * BountyScale - bounties[t] \in Nat
             /\ target_goals[t] = None => Weight(t) * BountyScale - bounties[t] = 0
  <2>1. PICK weight \in 0..2 : weight = Weight(t)
    BY WeightFacts
  <2>2. bounties[t] \in Nat /\ bounties[t] <= weight * BountyScale /\ BountyScale \in Nat
    BY <2>1, ConfigFacts DEF TypeOK, CargoRecordsAgree
  <2>3. target_goals[t] = None => weight = 0
    BY <2>1 DEF Weight
  <2>4. weight * BountyScale - bounties[t] \in Nat
    BY <2>2
  <2>5. weight = 0 => weight * BountyScale - bounties[t] = 0
    BY <2>2
  <2> QED
    BY <2>1, <2>3, <2>4, <2>5
<1> QED
  BY <1>1 DEF LostBounty

\* Whoever loads, or leaves without cargo, has lost nothing.
LEMMA FreshCargo ==
  ASSUME TypeOK, NEW t \in Targets, NEW w \in Warehouses,
         (\E g \in Recipients(w) : Load(t, w, g)) \/ LeaveEmpty(t)
  PROVE  LostBounty' = [LostBounty EXCEPT ![t] = 0]
<1>1. /\ Weight(t)' * BountyScale - bounties'[t] = 0
  <2>1. ASSUME NEW g \in Recipients(w), Load(t, w, g)
        PROVE  Weight(t)' * BountyScale - bounties'[t] = 0
    <3>1. PICK weight \in Nat : weight = CargoWeight(t, w, g)
      BY CargoWeightType
    <3>2. g \in Warehouses /\ g # None
      BY CargoWeightType, ConfigFacts
    <3>3. /\ target_goals'[t] = g /\ target_goal_bits'[t] = BitsAt(g, weight)
          /\ bounties'[t] = weight * BountyScale
      BY <2>1, <3>1 DEF Load, TypeOK
    <3>4. Weight(t)' = weight
      BY <3>2, <3>3 DEF Weight, BitsAt
    <3> QED
      BY <3>3, <3>4, ConfigFacts
  <2>2. CASE LeaveEmpty(t)
    <3>1. Weight(t)' = 0 /\ bounties'[t] = 0
      BY <2>2 DEF LeaveEmpty, TypeOK, Weight
    <3> QED
      BY <3>1, ConfigFacts
  <2> QED
    BY <2>1, <2>2
<1>2. ASSUME NEW u \in Targets, u # t
      PROVE  Weight(u)' * BountyScale - bounties'[u] = Weight(u) * BountyScale - bounties[u]
  BY <1>2 DEF Load, LeaveEmpty, TypeOK, Weight
<1> QED
  BY <1>1, <1>2 DEF LostBounty

\* The inductive invariant: reset() loses no bounty, and between calls no reward
\* of a call is left over.
RewardInv ==
  /\ InEpisode =>
       rewards.dense + call.reward = rewards.delayed + call.delayed - Total(LostBounty)
  /\ phase \in {"reset_assign", "start_cargo"} => \A t \in Targets : LostBounty[t] = 0
  /\ phase \in {"start_cargo", "running", "done"} => call.reward = 0 /\ call.delayed = 0

LEMMA NextRewards ==
  TypeOK /\ TypeOK' /\ CargoRecordsAgree /\ CargoRecordsAgree' /\ RewardInv /\ [Next]_vars
    => RewardInv'
<1>0. SUFFICES ASSUME TypeOK, TypeOK', CargoRecordsAgree, CargoRecordsAgree', RewardInv, [Next]_vars
               PROVE  RewardInv'
  OBVIOUS
<1>t. /\ rewards.delayed \in Int /\ rewards.dense \in Int
      /\ call.delayed \in Int /\ call.reward \in Int
      /\ call \in [reward : Int, delayed : Int, old_goals : [Targets -> Warehouses \cup {None}]]
  BY <1>0 DEF TypeOK
<1>f. PICK f \in [Targets -> Nat] :
        f = LostBounty /\ \A t \in Targets : target_goals[t] = None => f[t] = 0
  BY <1>0, LostTypes
<1>n. IsFiniteSet(Targets) /\ Total(f) \in Nat
  BY <1>f, TargetsFinite, UnitsFinite
<1>c. Total(LostBounty)' = Total(LostBounty')
  BY DEF Total, UnitsOf
<1> USE DEF RewardInv, InEpisode
<1>1. ASSUME UNCHANGED carried PROVE LostBounty' = f
  BY <1>1, <1>f DEF carried, LostBounty, Weight
<1>2. CASE BeginReset
  <2>1. ASSUME NEW t \in Targets PROVE LostBounty'[t] = 0
    <3>1. Weight(t)' = 0 /\ bounties'[t] = 0
      BY <1>2 DEF BeginReset, Weight
    <3> QED
      BY <3>1, ConfigFacts DEF LostBounty
  <2> QED
    BY <1>2, <2>1 DEF BeginReset
<1>3. CASE EndResetAssign
  <2>1. /\ phase = "reset_assign" /\ phase' = "start_cargo" /\ rewards' = [dense |-> 0, delayed |-> 0]
        /\ call'.reward = 0 /\ call'.delayed = 0 /\ LostBounty' = f
    BY <1>1, <1>3 DEF EndResetAssign, NoCall
  <2>2. \A t \in Targets : f[t] = 0
    BY <1>0, <1>f, <2>1
  <2>3. Total(f) = 0
    BY <1>f, <1>n, <2>2, TotalNothing
  <2> QED
    BY <1>c, <2>1, <2>2, <2>3
<1>4. CASE StartCargo
  <2>1. phase = "start_cargo" /\ phase' = phase /\ rewards' = rewards /\ call' = call
    BY <1>4 DEF StartCargo, totals
  <2>2. LostBounty' = f
    <3>1. CASE UNCHANGED carried
      BY <1>1, <3>1
    <3>2. ASSUME NEW w \in Warehouses, \E g \in Recipients(w) : Load(cursor, w, g)
          PROVE  LostBounty' = f
      <4>1. cursor \in Targets /\ f[cursor] = 0
        BY <1>0, <1>4, <1>f, <2>1 DEF StartCargo
      <4>2. LostBounty' = [f EXCEPT ![cursor] = 0]
        BY <1>0, <1>f, <3>2, <4>1, FreshCargo
      <4> QED
        BY <1>f, <4>1, <4>2
    <3> QED
      BY <1>4, <3>1, <3>2 DEF StartCargo, TakeFromAnyStore
  <2> QED
    BY <1>0, <1>c, <1>f, <2>1, <2>2
<1>5. CASE Step
  <2>1. PICK tracked \in SUBSET Targets : BeginStep(tracked)
    BY <1>5 DEF Step
  <2>2. /\ phase = "running" /\ phase' = "step_assign" /\ rewards' = rewards
        /\ call'.reward = -Cardinality(Charged(tracked)) /\ call'.delayed = 0
    BY <2>1 DEF BeginStep, totals
  <2>3. /\ rewards.dense + 0 = rewards.delayed + 0 - Total(f)
    BY <1>0, <1>f, <2>2
  <2>5. Charged(tracked) \in SUBSET Targets
    BY DEF Charged
  <2>6. ASSUME NEW t \in Targets
        PROVE  LostBounty'[t] = IF t \in Charged(tracked) THEN f[t] + 1 ELSE f[t]
    <3>1. PICK weight \in 0..2 : weight = Weight(t)
      BY <1>0, WeightFacts
    <3>2. Weight(t)' = weight
      BY <2>1, <3>1 DEF BeginStep, Weight
    <3>3. bounties'[t] = IF t \in Charged(tracked) THEN bounties[t] - 1 ELSE bounties[t]
      BY <2>1 DEF BeginStep, Charged
    <3>4. bounties[t] \in Nat /\ weight * BountyScale \in Int
      BY <1>0, ConfigFacts DEF TypeOK
    <3>5. f[t] = weight * BountyScale - bounties[t]
      BY <1>f, <3>1 DEF LostBounty
    <3>6. LostBounty'[t] = weight * BountyScale - bounties'[t]
      BY <3>2 DEF LostBounty
    <3> QED
      BY <3>3, <3>4, <3>5, <3>6
  <2>4. PICK g \in [Targets -> Nat] : g = LostBounty'
    <3>1. LostBounty' = [t \in Targets |-> LostBounty'[t]]
      BY DEF LostBounty
    <3>2. \A t \in Targets : LostBounty'[t] \in Nat
      BY <1>f, <2>6
    <3> QED
      BY <3>1, <3>2
  <2>7. Total(g) = Total(f) + Cardinality(Charged(tracked))
    BY <1>n, <2>4, <2>5, <2>6, TotalOnes
  <2>8. Cardinality(Charged(tracked)) \in Nat
    BY <1>n, <2>5, FS_Subset, FS_CardinalityType
  <2>9. rewards.dense + (-Cardinality(Charged(tracked))) = rewards.delayed + 0 - Total(g)
    BY <1>n, <1>t, <2>3, <2>7, <2>8
  <2> QED
    BY <1>c, <2>2, <2>4, <2>9
<1>6. CASE AssignTarget
  <2>0. /\ phase' = phase /\ phase \in {"reset_assign", "step_assign"} /\ rewards' = rewards
        /\ cursor \in Targets
    BY <1>6 DEF AssignTarget, InAssignLoop
  <2>1. CASE \E place \in Warehouses \cup {None} : PassBy(cursor, place)
    <3>1. LostBounty' = f /\ call' = call
      BY <1>1, <2>1 DEF PassBy
    <3> QED
      BY <1>0, <1>c, <1>f, <2>0, <3>1
  <2>2. ASSUME NEW w \in Warehouses, Serve(cursor, w) PROVE RewardInv'
    <3>1. LostBounty' = [f EXCEPT ![cursor] = 0]
      BY <1>0, <1>f, <2>0, <2>2, FreshCargo DEF Serve
    <3>2. Total([f EXCEPT ![cursor] = 0]) = Total(f) - f[cursor] + 0
      <4>1. PICK t \in Targets : t = cursor
        BY <2>0
      <4>2. PICK n \in Nat : n = 0
        OBVIOUS
      <4>3. Total([f EXCEPT ![t] = n]) = Total(f) - f[t] + n
        BY <1>n, TotalUpdate
      <4> QED
        BY <4>1, <4>2, <4>3
    <3>3. CASE phase = "reset_assign"
      BY <1>0, <1>f, <2>0, <3>1, <3>3
    <3>4. CASE phase = "step_assign" /\ target_goals[cursor] = w
      <4>1. Deliver(cursor, w)
        BY <2>2, <3>4 DEF Serve
      <4>2. Lost(cursor, w) = f[cursor]
        <5>1. Weight(cursor) = target_goal_bits[cursor][w]
          BY <1>0, <2>0, <3>4, WeightFacts
        <5> QED
          BY <1>f, <2>0, <5>1 DEF Lost, LostBounty
      <4>3. PICK reward \in Int : reward = freights[cursor] + bounties[cursor]
        BY <1>0, <2>0 DEF TypeOK
      <4>4. call'.reward = call.reward + reward /\ call'.delayed = call.delayed + reward - f[cursor]
        BY <1>t, <4>1, <4>2, <4>3 DEF Deliver
      <4>5. rewards.dense + call.reward = rewards.delayed + call.delayed - Total(f)
        BY <1>0, <1>f, <3>4
      <4>6. f[cursor] \in Nat
        BY <1>f, <2>0
      <4>7. rewards.dense + (call.reward + reward)
              = rewards.delayed + (call.delayed + reward - f[cursor]) - (Total(f) - f[cursor] + 0)
        BY <1>n, <1>t, <4>5, <4>6
      <4> QED
        BY <1>c, <2>0, <3>1, <3>2, <3>4, <4>4, <4>7
    <3>5. CASE phase = "step_assign" /\ target_goals[cursor] = None
      <4>1. call' = call
        BY <2>2, <3>5, ConfigFacts DEF Serve
      <4>2. f[cursor] = 0
        BY <1>f, <2>0, <3>5
      <4>3. LostBounty' = f
        BY <1>f, <2>0, <3>1, <4>2
      <4> QED
        BY <1>0, <1>c, <1>f, <2>0, <3>5, <4>1, <4>3
    <3> QED
      BY <2>0, <2>2, <3>3, <3>4, <3>5 DEF Serve
  <2> QED
    BY <1>6, <2>1, <2>2 DEF AssignTarget
<1>7. CASE EndReset \/ ReadState
  <2>1. /\ UNCHANGED <<rewards, call, carried>>
        /\ phase \in {"start_cargo", "running", "done"} /\ phase' \in {"running", "done"}
    BY <1>7 DEF EndReset, ReadState, totals
  <2> QED
    BY <1>0, <1>1, <1>c, <1>f, <2>1
<1>8. CASE EndStep
  <2>1. /\ phase = "step_assign" /\ phase' \in {"running", "done"}
        /\ rewards'.dense = rewards.dense + call.reward
        /\ rewards'.delayed = rewards.delayed + call.delayed
        /\ call'.reward = 0 /\ call'.delayed = 0 /\ LostBounty' = f
    BY <1>1, <1>8 DEF EndStep, NoCall
  <2>2. rewards.dense + call.reward = rewards.delayed + call.delayed - Total(f)
    BY <1>0, <1>f, <2>1
  <2>3. (rewards.dense + call.reward) + 0 = (rewards.delayed + call.delayed) + 0 - Total(f)
    BY <1>n, <1>t, <2>2
  <2> QED
    BY <1>c, <2>1, <2>3
<1>9. CASE UNCHANGED vars
  <2>1. LostBounty' = f /\ UNCHANGED <<phase, rewards, call>>
    BY <1>1, <1>9 DEF vars, totals
  <2> QED
    BY <1>0, <1>c, <1>f, <2>1
<1> QED
  BY <1>0, <1>2, <1>3, <1>4, <1>5, <1>6, <1>7, <1>8, <1>9 DEF Next

\* The dense and the delayed reward differ by what is lost on cargoes under way.
THEOREM RewardsAlwaysReconcile == Spec => []RewardsReconcile
<1>1. Init => RewardInv
  BY DEF Init, RewardInv, InEpisode
<1>2. Spec => []RewardInv
  <2>1. CargoInv => TypeOK /\ CargoRecordsAgree
    BY DEF CargoInv
  <2> QED
    BY <1>1, <2>1, NextRewards, CargoInvariance, PTL DEF Spec
<1>3. RewardInv => RewardsReconcile
  BY DEF RewardInv, RewardsReconcile
<1> QED
  BY <1>2, <1>3, PTL

-------------------------------------------------------------------------------
(* What is on the way fills less than one batch while a target is unloaded    *)

\* A family of finite sets, one for each x: its members side by side.
SideBySide(F) == UNION {{x} \X F[x] : x \in DOMAIN F}

\* As many as the sum of the sizes.
LEMMA SizesAddUp ==
  ASSUME NEW D, IsFiniteSet(D), NEW F, DOMAIN F = D, NEW f \in [D -> Nat],
         \A x \in D : IsFiniteSet(F[x]) /\ Cardinality(F[x]) = f[x]
  PROVE  IsFiniteSet(SideBySide(F)) /\ Cardinality(SideBySide(F)) = Total(f)
<1>1. ASSUME NEW x \in D PROVE Bijection(1..f[x], F[x]) # {}
  BY FS_CardinalityType DEF ExistsBijection
<1> DEFINE b == [x \in D |-> CHOOSE g \in Bijection(1..f[x], F[x]) : TRUE]
<1>2. ASSUME NEW x \in D
      PROVE  /\ \A i \in 1..f[x] : b[x][i] \in F[x]
             /\ \A i, j \in 1..f[x] : b[x][i] = b[x][j] => i = j
             /\ \A y \in F[x] : \E i \in 1..f[x] : b[x][i] = y
  <2>1. b[x] \in Bijection(1..f[x], F[x])
    BY <1>1
  <2> QED
    BY <2>1 DEF Bijection, Injection, Surjection, IsInjective
<1> HIDE DEF b
<1>3. \A u : u \in UnitsOf(f) <=> \E x \in D : \E i \in 1..f[x] : u = <<x, i>>
  BY DEF UnitsOf
<1>4. \A u : u \in SideBySide(F) <=> \E x \in D : \E y \in F[x] : u = <<x, y>>
  BY DEF SideBySide
<1> DEFINE m == [u \in UnitsOf(f) |-> <<u[1], b[u[1]][u[2]]>>]
<1>5. \A u \in UnitsOf(f) : m[u] \in SideBySide(F)
  BY <1>2, <1>3, <1>4
<1>6. \A u, v \in UnitsOf(f) : m[u] = m[v] => u = v
  <2>1. SUFFICES ASSUME NEW u \in UnitsOf(f), NEW v \in UnitsOf(f), m[u] = m[v]
                 PROVE  u = v
    OBVIOUS
  <2>2. PICK x \in D : \E i \in 1..f[x] : u = <<x, i>>
    BY <1>3
  <2>3. PICK i \in 1..f[x] : u = <<x, i>>
    BY <2>2
  <2>4. PICK y \in D : \E j \in 1..f[y] : v = <<y, j>>
    BY <1>3
  <2>5. PICK j \in 1..f[y] : v = <<y, j>>
    BY <2>4
  <2>6. m[u] = <<x, b[x][i]>> /\ m[v] = <<y, b[y][j]>>
    BY <2>3, <2>5
  <2>7. x = y /\ b[x][i] = b[x][j]
    BY <2>1, <2>6
  <2> QED
    BY <1>2, <2>3, <2>5, <2>7
<1>7. \A z \in SideBySide(F) : \E u \in UnitsOf(f) : m[u] = z
  <2>1. SUFFICES ASSUME NEW z \in SideBySide(F) PROVE \E u \in UnitsOf(f) : m[u] = z
    OBVIOUS
  <2>2. PICK x \in D : \E y \in F[x] : z = <<x, y>>
    BY <1>4
  <2>3. PICK y \in F[x] : z = <<x, y>>
    BY <2>2
  <2>4. PICK i \in 1..f[x] : b[x][i] = y
    BY <1>2
  <2>5. <<x, i>> \in UnitsOf(f)
    BY <1>3
  <2>6. m[<<x, i>>] = <<x, b[x][i]>>
    BY <2>5
  <2> QED
    BY <2>3, <2>4, <2>5, <2>6
<1>8. m \in [UnitsOf(f) -> SideBySide(F)]
  BY <1>5
<1> HIDE DEF m
<1>9. m \in Bijection(UnitsOf(f), SideBySide(F))
  BY <1>6, <1>7, <1>8 DEF Bijection, Injection, Surjection, IsInjective
<1>10. IsFiniteSet(UnitsOf(f))
  BY UnitsFinite
<1> QED
  BY <1>9, <1>10, FS_Bijection DEF ExistsBijection, Total

\* A set that maps one to one into a finite set is no larger.
LEMMA FitsInto ==
  ASSUME NEW S, NEW T, IsFiniteSet(T), NEW m \in [S -> T],
         \A x, y \in S : m[x] = m[y] => x = y
  PROVE  Cardinality(S) <= Cardinality(T)
<1>1. m \in Injection(S, T)
  BY DEF Injection, IsInjective
<1> QED
  BY <1>1, FS_Injection

LEMMA WarehousesFacts ==
  /\ IsFiniteSet(Warehouses) /\ CargoesPerTarget \in Nat /\ CargoesPerTarget >= 2
  /\ NumTargets \in Nat \ {0}
<1>1. Cardinality(Warehouses) \in Nat /\ IsFiniteSet(Warehouses)
  BY ConfigFacts, FS_CardinalityType
<1>2. Cardinality(Warehouses) >= 2 /\ CargoesPerTarget >= Cardinality(Warehouses)
  BY ConfigAssumption DEF ValidConfig
<1> QED
  BY <1>1, <1>2, ConfigFacts

\* reset() draws at least one batch, and every unit of it is awaited.
LEMMA DrawsAreAwaited ==
  ASSUME NEW n \in Nat, NEW d \in [1..n -> Pairs]
  PROVE  LET awaited == [r \in Warehouses |-> Total([s \in Warehouses |-> Filled(d, n)[s][r]])]
         IN  awaited \in [Warehouses -> Nat] /\ n <= Total(awaited)
<1> DEFINE Drawn(s, r) == {i \in 1..n : d[i] = <<s, r>>}
           Column(r) == [s \in Warehouses |-> Filled(d, n)[s][r]]
           From(r) == [s \in Warehouses |-> Drawn(s, r)]
           awaited == [r \in Warehouses |-> Total(Column(r))]
           F == [r \in Warehouses |-> SideBySide(From(r))]
<1>0. IsFiniteSet(Warehouses)
  BY WarehousesFacts
<1>1. ASSUME NEW s \in Warehouses, NEW r \in Warehouses
      PROVE  /\ IsFiniteSet(Drawn(s, r)) /\ Cardinality(Drawn(s, r)) \in Nat
             /\ Filled(d, n)[s][r] = Cardinality(Drawn(s, r))
  <2>1. IsFiniteSet(1..n) /\ Drawn(s, r) \in SUBSET (1..n)
    BY FS_Interval
  <2>2. IsFiniteSet(Drawn(s, r))
    BY <2>1, FS_Subset
  <2>3. Cardinality(Drawn(s, r)) \in Nat
    BY <2>2, FS_CardinalityType
  <2> QED
    BY <2>2, <2>3 DEF Filled
<1> HIDE DEF Drawn
<1>2. ASSUME NEW r \in Warehouses
      PROVE  /\ IsFiniteSet(F[r]) /\ Cardinality(F[r]) = awaited[r] /\ awaited[r] \in Nat
  <2>1. Column(r) \in [Warehouses -> Nat]
    BY <1>1
  <2>2. \A s \in Warehouses : IsFiniteSet(From(r)[s]) /\ Cardinality(From(r)[s]) = Column(r)[s]
    BY <1>1
  <2>3. DOMAIN From(r) = Warehouses
    OBVIOUS
  <2>4. F[r] = SideBySide(From(r)) /\ awaited[r] = Total(Column(r))
    OBVIOUS
  <2> HIDE DEF From, Column, F, awaited
  <2>5. IsFiniteSet(SideBySide(From(r))) /\ Cardinality(SideBySide(From(r))) = Total(Column(r))
    BY <1>0, <2>1, <2>2, <2>3, SizesAddUp
  <2>6. Total(Column(r)) \in Nat
    BY <1>0, <2>1, UnitsFinite
  <2> QED
    BY <2>4, <2>5, <2>6
<1>3. awaited \in [Warehouses -> Nat]
  BY <1>2
<1> DEFINE all == SideBySide(F)
<1>4. DOMAIN F = Warehouses
  OBVIOUS
<1>5. IsFiniteSet(all) /\ Cardinality(all) = Total(awaited)
  <2> HIDE DEF F, awaited
  <2> QED
    BY <1>0, <1>2, <1>3, <1>4, SizesAddUp
<1> DEFINE m == [i \in 1..n |-> <<d[i][2], <<d[i][1], i>>>>]
<1>6. ASSUME NEW i \in 1..n PROVE m[i] \in all
  <2>1. PICK s \in Warehouses : \E r \in Warehouses : d[i] = <<s, r>>
    BY DEF Pairs
  <2>2. PICK r \in Warehouses : d[i] = <<s, r>>
    BY <2>1
  <2>3. i \in Drawn(s, r)
    BY <2>2 DEF Drawn
  <2>4. <<s, i>> \in SideBySide(From(r))
    BY <2>3 DEF SideBySide
  <2>5. m[i] = <<r, <<s, i>>>>
    BY <2>2
  <2>6. <<r, <<s, i>>>> \in {r} \X F[r]
    BY <2>4
  <2> QED
    BY <2>5, <2>6 DEF SideBySide
<1>7. \A i, j \in 1..n : m[i] = m[j] => i = j
  OBVIOUS
<1>8. m \in [1..n -> all]
  BY <1>6
<1>9. Cardinality(1..n) = n
  BY FS_Interval
<1> HIDE DEF m, all
<1>10. n <= Cardinality(all)
  BY <1>5, <1>7, <1>8, <1>9, FitsInto
<1> QED
  BY <1>3, <1>5, <1>10

\* At least a batch is awaited while reset() runs.
LEMMA BatchIsAwaited ==
  ASSUME BeginReset
  PROVE  /\ awaiting_cargo_counts' \in [Warehouses -> Nat]
         /\ Total(awaiting_cargo_counts)' \in Nat
         /\ BatchSize <= Total(awaiting_cargo_counts)'
<1>1. PICK load \in Loads :
        awaiting_cargo_counts' = [r \in Warehouses |-> Total([s \in Warehouses |-> load[s][r]])]
  BY DEF BeginReset
<1>2. PICK k \in 1..MaxBatches : load \in LoadsOf(k * BatchSize)
  BY DEF Loads
<1>3. k * BatchSize \in Nat /\ BatchSize <= k * BatchSize
  <2>1. k \in Nat /\ k >= 1 /\ BatchSize \in Nat
    BY BatchSizeType, ConfigFacts
  <2>2. ASSUME NEW b \in Nat PROVE k * b \in Nat /\ b <= k * b
    BY <2>1
  <2> QED
    BY <2>1, <2>2
<1>4. PICK n \in Nat : n = k * BatchSize
  BY <1>3
<1>5. PICK d \in [1..n -> Pairs] : load = Filled(d, n)
  BY <1>2, <1>4 DEF LoadsOf
<1>6. awaiting_cargo_counts' \in [Warehouses -> Nat] /\ n <= Total(awaiting_cargo_counts')
  BY <1>1, <1>5, DrawsAreAwaited
<1>7. Total(awaiting_cargo_counts') \in Nat
  BY <1>6, UnitsFinite, WarehousesFacts
<1>8. Total(awaiting_cargo_counts)' = Total(awaiting_cargo_counts')
  BY DEF Total, UnitsOf
<1> QED
  BY <1>3, <1>4, <1>6, <1>7, <1>8, BatchSizeType

\* With empty stores and an unloaded target, less than a batch is awaited.
LEMMA CarriedIsLess ==
  ASSUME TypeOK, CargoRecordsAgree, CargoConserved, NEW t \in Targets,
         target_goals[t] = None, \A w \in Warehouses : Recipients(w) = {}
  PROVE  /\ awaiting_cargo_counts \in [Warehouses -> Nat]
         /\ Total(awaiting_cargo_counts) < BatchSize
<1> DEFINE others == Targets \ {t}
           room == others \X (1..2)
           F == [w \in Warehouses |-> UnitsOf(CarriedFor(w))]
           all == SideBySide(F)
<1>0. IsFiniteSet(Warehouses) /\ IsFiniteSet(Targets)
  BY WarehousesFacts, TargetsFinite
<1>1. ASSUME NEW w \in Warehouses
      PROVE  /\ IsFiniteSet(F[w]) /\ Cardinality(F[w]) = awaiting_cargo_counts[w]
             /\ awaiting_cargo_counts[w] \in Nat
  <2>1. \A s \in Warehouses : remaining_cargoes[s][w] = 0
    BY UnitTypes DEF Recipients
  <2>2. StoredFor(w) = [s \in Warehouses |-> 0]
    BY <2>1 DEF StoredFor
  <2>3. Total(StoredFor(w)) = 0
    BY <2>2, TotalZero
  <2>4. CarriedFor(w) \in [Targets -> Nat] /\ Total(CarriedFor(w)) \in Nat
    BY ColumnTypes
  <2>5. awaiting_cargo_counts[w] = Total(CarriedFor(w))
    BY <2>3, <2>4 DEF CargoConserved
  <2>6. IsFiniteSet(UnitsOf(CarriedFor(w)))
    BY <1>0, <2>4, UnitsFinite
  <2> QED
    BY <2>4, <2>5, <2>6 DEF Total
<1>2. awaiting_cargo_counts \in [Warehouses -> Nat]
  BY <1>1 DEF TypeOK
<1>3. IsFiniteSet(all) /\ Cardinality(all) = Total(awaiting_cargo_counts)
  <2>1. DOMAIN F = Warehouses
    OBVIOUS
  <2> HIDE DEF F
  <2> QED
    BY <1>0, <1>1, <1>2, <2>1, SizesAddUp
<1>4. ASSUME NEW z \in all
      PROVE  \E u \in others, i \in 1..2 : z = <<target_goals[u], <<u, i>>>>
  <2>1. PICK w \in Warehouses : z \in {w} \X F[w]
    BY DEF SideBySide
  <2>2. PICK u \in Targets : \E i \in 1..target_goal_bits[u][w] : z = <<w, <<u, i>>>>
    BY <2>1 DEF UnitsOf, CarriedFor
  <2>3. PICK i \in 1..target_goal_bits[u][w] : z = <<w, <<u, i>>>>
    BY <2>2
  <2>4. target_goal_bits[u][w] \in 0..2
    BY UnitTypes
  <2>5. target_goal_bits[u] = BitsAt(target_goals[u], Weight(u))
    BY DEF CargoRecordsAgree
  <2>6. w = target_goals[u]
    BY <2>3, <2>4, <2>5 DEF BitsAt
  <2>7. u # t
    BY <2>6, ConfigFacts
  <2>8. i \in 1..2
    BY <2>4
  <2> QED
    BY <2>3, <2>6, <2>7, <2>8
<1> DEFINE m == [z \in all |-> z[2]]
<1>5. m \in [all -> room]
  BY <1>4
<1>6. \A x, y \in all : m[x] = m[y] => x = y
  BY <1>4
<1>7. NumTargets \in Nat \ {0} /\ CargoesPerTarget \in Nat /\ CargoesPerTarget >= 2
  BY WarehousesFacts
<1>8. IsFiniteSet(room) /\ Cardinality(room) = (NumTargets - 1) * 2
  <2>1. Cardinality(Targets) = NumTargets
    BY <1>7, FS_Interval DEF Targets
  <2>2. IsFiniteSet(others) /\ Cardinality(others) = NumTargets - 1
    BY <1>0, <2>1, FS_RemoveElement
  <2>3. IsFiniteSet(1..2) /\ Cardinality(1..2) = 2
    <3>1. ASSUME NEW n \in Nat PROVE IsFiniteSet(1..n) /\ Cardinality(1..n) = n
      BY FS_Interval
    <3>2. 2 \in Nat
      OBVIOUS
    <3> QED
      BY <3>1, <3>2
  <2> HIDE DEF others
  <2> QED
    BY <2>2, <2>3, FS_Product
<1> HIDE DEF m, all, room
<1>9. Cardinality(all) <= Cardinality(room)
  BY <1>5, <1>6, <1>8, FitsInto
<1>10. (NumTargets - 1) * 2 < CargoesPerTarget * NumTargets
  <2>1. ASSUME NEW n \in Nat \ {0}, NEW c \in Nat, c >= 2 PROVE (n - 1) * 2 < c * n
    <3>1. PICK e \in Nat : c = e + 2
      <4>1. c - 2 \in Nat /\ c = (c - 2) + 2
        BY <2>1
      <4> QED
        BY <4>1
    <3>2. c * n = e * n + 2 * n /\ e * n \in Nat
      BY <3>1
    <3> QED
      BY <3>2
  <2> QED
    BY <1>7, <2>1
<1>11. Total(awaiting_cargo_counts) \in Nat
  BY <1>0, <1>2, UnitsFinite
<1> QED
  BY <1>2, <1>3, <1>7, <1>8, <1>9, <1>10, <1>11 DEF BatchSize

\* reset() takes no unit out of the count, and the loop that starts with cargoes
\* leaves no target behind it unloaded.
StartInv ==
  /\ phase \in {"reset_assign", "start_cargo"} => BatchSize <= Total(awaiting_cargo_counts)
  /\ StartWithCargoes /\ phase = "start_cargo" =>
       \A t \in Targets : t < cursor => target_goals[t] # None

LEMMA NextStart == CargoInv /\ ResetUnloaded /\ StartInv /\ [Next]_vars => StartInv'
<1>0. SUFFICES ASSUME CargoInv, ResetUnloaded, StartInv, [Next]_vars PROVE StartInv'
  OBVIOUS
<1> USE DEF counters, stock, carried, totals
<1>t. TypeOK /\ CargoRecordsAgree /\ CargoConserved
  BY <1>0 DEF CargoInv
<1>s. ASSUME UNCHANGED awaiting_cargo_counts
      PROVE  Total(awaiting_cargo_counts)' = Total(awaiting_cargo_counts)
  BY <1>s DEF Total, UnitsOf
<1>1. CASE BeginReset
  <2>1. phase' = "reset_assign"
    BY <1>1 DEF BeginReset
  <2> QED
    BY <1>1, <2>1, BatchIsAwaited DEF StartInv
<1>2. CASE AssignTarget
  <2>1. phase' = phase /\ phase # "start_cargo"
    BY <1>2 DEF AssignTarget, InAssignLoop
  <2>2. phase = "reset_assign" => UNCHANGED awaiting_cargo_counts
    <3>1. ASSUME phase = "reset_assign" PROVE target_goals[cursor] = None
      <4>1. cursor \in Targets /\ cursor <= cursor
        BY <1>2, ConfigFacts DEF AssignTarget, InAssignLoop, Targets
      <4> QED
        BY <1>0, <3>1, <4>1 DEF ResetUnloaded
    <3> QED
      BY <1>2, <3>1, ConfigFacts DEF AssignTarget, PassBy, Serve
  <2> QED
    BY <1>0, <1>s, <2>1, <2>2 DEF StartInv
<1>3. CASE EndResetAssign
  <2>1. phase = "reset_assign" /\ cursor' = 1 /\ UNCHANGED awaiting_cargo_counts
    BY <1>3 DEF EndResetAssign
  <2>2. \A t \in Targets : ~(t < 1)
    BY ConfigFacts DEF Targets
  <2> QED
    BY <1>0, <1>s, <2>1, <2>2 DEF StartInv
<1>4. CASE StartCargo
  <2>1. /\ phase = "start_cargo" /\ cursor \in Targets /\ cursor' = cursor + 1
        /\ UNCHANGED awaiting_cargo_counts
    BY <1>4 DEF StartCargo
  <2>2. BatchSize <= Total(awaiting_cargo_counts)'
    BY <1>0, <1>s, <2>1 DEF StartInv
  <2>3. ASSUME StartWithCargoes, NEW t \in Targets, t < cursor' PROVE target_goals'[t] # None
    <3>1. t = cursor \/ t < cursor
      BY <2>1, <2>3, ConfigFacts DEF Targets
    <3>2. CASE target_goals[cursor] # None
      <4>1. UNCHANGED target_goals
        BY <1>4, <3>2 DEF StartCargo
      <4> QED
        BY <1>0, <2>1, <2>3, <3>1, <3>2, <4>1 DEF StartInv
    <3>3. CASE target_goals[cursor] = None
      <4>1. PICK c \in Targets : c = cursor
        BY <2>1
      <4>2. ~(\A w \in Warehouses : Recipients(w) = {})
        <5>1. SUFFICES ASSUME \A w \in Warehouses : Recipients(w) = {} PROVE FALSE
          OBVIOUS
        <5>2. awaiting_cargo_counts \in [Warehouses -> Nat]
              /\ Total(awaiting_cargo_counts) < BatchSize
          BY <1>t, <3>3, <4>1, <5>1, CarriedIsLess
        <5>3. Total(awaiting_cargo_counts) \in Nat /\ BatchSize \in Nat
          BY <5>2, UnitsFinite, WarehousesFacts, BatchSizeType
        <5>4. BatchSize <= Total(awaiting_cargo_counts)
          BY <1>0, <2>1 DEF StartInv
        <5> QED
          BY <5>2, <5>3, <5>4
      <4>3. TakeFromAnyStore(cursor)
        BY <1>4, <2>3, <3>3 DEF StartCargo
      <4>4. PICK w \in Warehouses : \E g \in Recipients(w) : Load(cursor, w, g)
        BY <4>2, <4>3 DEF TakeFromAnyStore
      <4>5. PICK g \in Recipients(w) : Load(cursor, w, g)
        BY <4>4
      <4>6. g # None
        BY ConfigFacts DEF Recipients
      <4>7. target_goals' = [target_goals EXCEPT ![cursor] = g]
        BY <4>5 DEF Load
      <4>8. target_goals'[t] = IF t = cursor THEN g ELSE target_goals[t]
        BY <1>t, <4>7 DEF TypeOK
      <4> QED
        BY <1>0, <2>1, <2>3, <3>1, <4>6, <4>8 DEF StartInv
    <3> QED
      BY <3>2, <3>3
  <2> QED
    BY <2>1, <2>2, <2>3, <1>4 DEF StartInv, StartCargo
<1>5. CASE EndReset \/ Step \/ EndStep
  <2>1. phase' \notin {"reset_assign", "start_cargo"}
    BY <1>5 DEF EndReset, Step, BeginStep, EndStep
  <2> QED
    BY <2>1 DEF StartInv
<1>6. CASE ReadState \/ UNCHANGED vars
  <2>1. UNCHANGED <<phase, cursor, target_goals, awaiting_cargo_counts>>
    BY <1>6 DEF ReadState, vars
  <2> QED
    BY <1>0, <1>s, <2>1 DEF StartInv
<1> QED
  BY <1>0, <1>1, <1>2, <1>3, <1>4, <1>5, <1>6 DEF Next

\* The internal assertion of reset() holds in every configuration: with
\* targets_start_with_cargoes no target starts without cargo.
THEOREM EveryoneStartsLoaded == Spec => []StartsLoaded
<1>1. Init => StartInv
  BY DEF Init, StartInv
<1>2. LedgerInv => CargoInv /\ ResetUnloaded
  BY DEF LedgerInv
<1>3. Spec => []StartInv
  BY <1>1, <1>2, NextStart, LedgerInvariance, PTL DEF Spec
<1>4. StartInv => StartsLoaded
  <2>1. \A t \in Targets : t < NumTargets + 1
    BY ConfigFacts DEF Targets
  <2> QED
    BY <2>1 DEF StartInv, StartsLoaded
<1> QED
  BY <1>3, <1>4, PTL
===============================================================================
