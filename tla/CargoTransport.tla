---------------------------- MODULE CargoTransport ----------------------------
(***************************************************************************)
(* The episode logic of MultiAgentTracking (mate/environment.py): the      *)
(* cargoes, the goals of the targets, the two reward accumulators and the  *)
(* end of an episode, driven by reset(), step() and state().               *)
(*                                                                         *)
(* Both reset() and step() run _assign_goals(), a loop over the targets in *)
(* index order; an iteration is one action here, `cursor' is the loop      *)
(* index and `phase' says which call is running.  Nothing else is enabled  *)
(* while a call runs, as the environment is single threaded.               *)
(*                                                                         *)
(* Geometry is abstracted to what the loop asks of it: after a step a      *)
(* target is at one warehouse or at none (the warehouse squares lie in     *)
(* the four corners of the terrain and are disjoint), and any subset of    *)
(* the targets is tracked by the cameras.                                  *)
(***************************************************************************)
EXTENDS Integers, Sequences, FiniteSets, Totals

CONSTANTS
  Warehouses,         \* the warehouses (four in the program)
  None,               \* no goal (-1 in target_goals), no warehouse
  NumTargets,         \* number of targets
  NumHigh,            \* num_high_capacity_targets
  CargoesPerTarget,   \* num_cargoes_per_target
  StartWithCargoes,   \* targets_start_with_cargoes
  FreightScale,       \* freight_scale, an integer by np.ceil
  BountyScale,        \* bounty_scale, an integer by np.ceil
  MaxSteps,           \* max_episode_steps
  MaxBatches          \* BOUND: rounds of the filling loop of reset()

\* What validate_config() accepts and __init__ derives from it.
ValidConfig ==
  /\ IsFiniteSet(Warehouses) /\ None \notin Warehouses
  /\ NumTargets \in Nat \ {0}
  /\ NumHigh \in 0..NumTargets
  /\ CargoesPerTarget \in Nat \ {0} /\ CargoesPerTarget >= Cardinality(Warehouses)
  /\ Cardinality(Warehouses) >= 2
  /\ StartWithCargoes \in BOOLEAN
  /\ FreightScale \in Nat \ {0} /\ BountyScale \in Nat
  /\ MaxSteps \in Nat \ {0} /\ MaxBatches \in Nat \ {0}

ASSUME ConfigAssumption == ValidConfig

VARIABLES
  phase,               \* the call that is running, or the state between calls
  cursor,              \* the next target of the loop that is running
  target_capacities,   \* units a target carries at most
  remaining_cargoes,   \* [sender][recipient]: units waiting in the sender's store
  awaiting_cargo_counts,  \* units a recipient still waits for
  target_goals,        \* where a target's cargo goes, or None
  target_goal_bits,    \* the environment's record of a target's cargo weight
  goal_bits,           \* the same, in the Target entity (what the agent sees)
  empty_bits,          \* warehouses a target has seen empty
  freights, bounties,  \* what a delivery will pay
  target_dones,        \* targets that ended a delivery in the last step
  num_delivered_cargoes,
  rewards,             \* target_team_episode_reward (dense) and its delayed twin
  call,                \* locals of _assign_goals: its two rewards, old_target_goals
  episode_step,
  state_cache          \* _state: {} or the one snapshot state() returns

counters == <<target_capacities, episode_step>>
stock    == <<remaining_cargoes, awaiting_cargo_counts>>
carried  == <<target_goals, target_goal_bits, goal_bits, freights, bounties>>
totals   == <<target_dones, num_delivered_cargoes, rewards>>
vars == <<phase, cursor, counters, stock, carried, empty_bits, totals, call, state_cache>>

-------------------------------------------------------------------------------
(* Helpers *)

Targets == 1..NumTargets

\* np.flatnonzero(remaining_cargoes[w] > 0)
Recipients(w) == {r \in Warehouses : remaining_cargoes[w][r] > 0}

\* Mutant: a target takes its full capacity even from a smaller store.
CargoWeightUnchecked(t, w, g) == target_capacities[t]

\* Row of goal bits with `weight' at g (all zero when g is None).
BitsAt(g, weight) == [r \in Warehouses |-> IF r = g THEN weight ELSE 0]

\* min(capacity, remaining) for target t taking cargo from w to g
CargoWeight(t, w, g) ==
  IF target_capacities[t] <= remaining_cargoes[w][g]
  THEN target_capacities[t] ELSE remaining_cargoes[w][g]

\* The tracked targets that still have a bounty to lose.
ChargedAll(tracked) == tracked    \* mutant: they are charged for nothing, too
Charged(tracked) == {t \in tracked : bounties[t] > 0}

\* The part of its bounty target t has lost when it delivers at w.
LostOfOne(t, w) == BountyScale - bounties[t]    \* mutant: the weight is forgotten
Lost(t, w) == target_goal_bits[t][w] * BountyScale - bounties[t]

\* The episode's clock, and the end of the episode.
StoppedClock == episode_step    \* mutant: the clock is not advanced
Tick == episode_step + 1
DoneWhenStoresEmpty ==          \* mutant: looks at the stores, not at what is awaited
  Tick > MaxSteps \/ \A s, r \in Warehouses : remaining_cargoes[s][r] = 0
Done == ~(Tick <= MaxSteps /\ \E w \in Warehouses : awaiting_cargo_counts[w] # 0)

\* Target.reset() forgets which warehouses were seen empty.
KeptEmptyBits == empty_bits     \* mutant: it does not
FreshEmptyBits == [t \in Targets |-> [w \in Warehouses |-> FALSE]]

\* _update_view() drops the cached global state.
KeptCache == state_cache        \* mutant: it does not
DroppedCache == {}

\* The part of the global state that changes outside _update_view().
Snapshot == [freights |-> freights, bounties |-> bounties, remaining |-> remaining_cargoes]

(* The filling loop of reset(): batches of random (sender, recipient) draws,  *)
(* the two distinct, are added until no sender's row is empty.                *)
BatchSize == CargoesPerTarget * NumTargets
AllPairs == Warehouses \X Warehouses    \* mutant: drawn with replacement
Pairs == {p \in Warehouses \X Warehouses : p[1] # p[2]}
Filled(draws, n) ==
  [s \in Warehouses |-> [r \in Warehouses |->
     Cardinality({i \in 1..n : draws[i] = <<s, r>>})]]
NoEmptyRow(m) == \A s \in Warehouses : \E r \in Warehouses : m[s][r] > 0
LoopStopsAt(draws, n) ==
  \A k \in 1..MaxBatches : k * BatchSize <= n =>
    (NoEmptyRow(Filled(draws, k * BatchSize)) <=> k * BatchSize = n)
LoadsOf(n) == {Filled(d, n) : d \in {e \in [1..n -> Pairs] : LoopStopsAt(e, n)}}
Loads == UNION {LoadsOf(k * BatchSize) : k \in 1..MaxBatches}

Capacities ==
  {c \in [Targets -> {1, 2}] : Cardinality({t \in Targets : c[t] = 2}) = NumHigh}

NoCall == [reward |-> 0, delayed |-> 0, old_goals |-> [t \in Targets |-> None]]

-------------------------------------------------------------------------------
(* A new environment object: __init__ *)
Init ==
  /\ phase = "constructed" /\ cursor = 1
  /\ target_capacities = [t \in Targets |-> 1]
  /\ remaining_cargoes = [s \in Warehouses |-> [r \in Warehouses |-> 0]]
  /\ awaiting_cargo_counts = [w \in Warehouses |-> 0]
  /\ target_goals = [t \in Targets |-> None]
  /\ target_goal_bits = [t \in Targets |-> BitsAt(None, 0)]
  /\ goal_bits = [t \in Targets |-> BitsAt(None, 0)]
  /\ empty_bits = [t \in Targets |-> [w \in Warehouses |-> FALSE]]
  /\ freights = [t \in Targets |-> 0] /\ bounties = [t \in Targets |-> 0]
  /\ target_dones = [t \in Targets |-> FALSE]
  /\ num_delivered_cargoes = 0
  /\ rewards = [dense |-> 0, delayed |-> 0]
  /\ call = NoCall
  /\ episode_step = 0
  /\ state_cache = {}

-------------------------------------------------------------------------------
(* reset(), up to its call of _assign_goals().  A caller may give up an       *)
(* episode, so it is enabled between any two steps.                           *)
BeginReset ==
  /\ phase \in {"constructed", "running", "done"}
  /\ \E load \in Loads, capacities \in Capacities :
       /\ target_capacities' = capacities
       /\ remaining_cargoes' = load
       /\ awaiting_cargo_counts' =
            [r \in Warehouses |-> Total([s \in Warehouses |-> load[s][r]])]
  /\ target_goals' = [t \in Targets |-> None]
  /\ target_goal_bits' = [t \in Targets |-> BitsAt(None, 0)]
  /\ goal_bits' = [t \in Targets |-> BitsAt(None, 0)]
  /\ empty_bits' = FreshEmptyBits
  /\ freights' = [t \in Targets |-> 0]
  /\ bounties' = [t \in Targets |-> 0]
  /\ state_cache' = DroppedCache
  /\ call' = NoCall
  /\ phase' = "reset_assign" /\ cursor' = 1
  /\ UNCHANGED <<totals, episode_step>>

(* step(), up to the loop of _assign_goals(): the cameras pay for every       *)
(* tracked target that still has bounty left.                                 *)
BeginStep(tracked) ==
  /\ phase = "running"
  /\ bounties' = [t \in Targets |->
                    IF t \in tracked /\ bounties[t] > 0 THEN bounties[t] - 1 ELSE bounties[t]]
  /\ call' = [reward |-> -Cardinality(Charged(tracked)), delayed |-> 0,
              old_goals |-> target_goals]
  /\ state_cache' = DroppedCache
  /\ phase' = "step_assign" /\ cursor' = 1
  /\ UNCHANGED <<counters, stock, target_goals, target_goal_bits, goal_bits,
                 freights, empty_bits, totals>>

-------------------------------------------------------------------------------
(* One iteration of the loop of _assign_goals(), for target t at place.       *)

InAssignLoop == phase \in {"reset_assign", "step_assign"} /\ cursor \in Targets

\* t is at no warehouse, or at one that is not the goal of its cargo.
PassBy(t, place) ==
  /\ place \in Warehouses => target_goals[t] \notin {None, place}
  /\ empty_bits' = IF place = None THEN empty_bits
                   ELSE [empty_bits EXCEPT ![t][place] = (Recipients(place) = {})]
  /\ UNCHANGED <<stock, carried, num_delivered_cargoes, call>>

\* Loading target t at w with cargo for g: the three arrays of the environment,
\* the goal, and the entity's own goal bits.
Load(t, w, g) ==
  LET weight == CargoWeight(t, w, g)
  IN  /\ remaining_cargoes' = [remaining_cargoes EXCEPT ![w][g] = @ - weight]
      /\ target_goal_bits' = [target_goal_bits EXCEPT ![t] = BitsAt(g, weight)]
      /\ goal_bits' = [goal_bits EXCEPT ![t] = BitsAt(g, weight)]
      /\ freights' = [freights EXCEPT ![t] = weight * FreightScale]
      /\ bounties' = [bounties EXCEPT ![t] = weight * BountyScale]
      /\ target_goals' = [target_goals EXCEPT ![t] = g]

\* Mutant: the entity keeps its goal bits when there is nothing to load.
LeaveEmptyStaleEntity(t) ==
  /\ target_goal_bits' = [target_goal_bits EXCEPT ![t] = BitsAt(None, 0)]
  /\ freights' = [freights EXCEPT ![t] = 0]
  /\ bounties' = [bounties EXCEPT ![t] = 0]
  /\ target_goals' = [target_goals EXCEPT ![t] = None]
  /\ UNCHANGED <<remaining_cargoes, goal_bits>>

\* Nothing to load at the warehouse: t leaves it without cargo.
LeaveEmpty(t) ==
  /\ target_goal_bits' = [target_goal_bits EXCEPT ![t] = BitsAt(None, 0)]
  /\ goal_bits' = [goal_bits EXCEPT ![t] = BitsAt(None, 0)]
  /\ freights' = [freights EXCEPT ![t] = 0]
  /\ bounties' = [bounties EXCEPT ![t] = 0]
  /\ target_goals' = [target_goals EXCEPT ![t] = None]
  /\ UNCHANGED remaining_cargoes

\* Mutant: a delivery counts as one unit.
DeliverCountsOne(t, w) ==
  LET weight == target_goal_bits[t][w]
      reward == freights[t] + bounties[t]
  IN  /\ call' = [call EXCEPT !.reward = @ + reward, !.delayed = @ + reward - Lost(t, w)]
      /\ num_delivered_cargoes' = num_delivered_cargoes + 1
      /\ awaiting_cargo_counts' = [awaiting_cargo_counts EXCEPT ![w] = @ - weight]

\* What t brought to w is paid and no longer awaited.
Deliver(t, w) ==
  LET weight == target_goal_bits[t][w]
      reward == freights[t] + bounties[t]
  IN  /\ call' = [call EXCEPT !.reward = @ + reward, !.delayed = @ + reward - Lost(t, w)]
      /\ num_delivered_cargoes' = num_delivered_cargoes + weight
      /\ awaiting_cargo_counts' = [awaiting_cargo_counts EXCEPT ![w] = @ - weight]

\* t is at warehouse w, unloaded or with cargo for w.
Serve(t, w) ==
  /\ target_goals[t] \in {None, w}
  /\ IF target_goals[t] = w THEN Deliver(t, w)
     ELSE UNCHANGED <<call, num_delivered_cargoes, awaiting_cargo_counts>>
  /\ \/ \E g \in Recipients(w) : Load(t, w, g)
     \/ Recipients(w) = {} /\ LeaveEmpty(t)
  /\ empty_bits' = [empty_bits EXCEPT ![t][w] =
                      \A r \in Warehouses : remaining_cargoes'[w][r] = 0]

AssignTarget ==
  /\ InAssignLoop
  /\ \/ \E place \in Warehouses \cup {None} : PassBy(cursor, place)
     \/ \E w \in Warehouses : Serve(cursor, w)
  /\ cursor' = cursor + 1
  /\ UNCHANGED <<phase, counters, target_dones, rewards, state_cache>>

-------------------------------------------------------------------------------
(* reset(), after _assign_goals(): its rewards are dropped.                    *)
EndResetAssign ==
  /\ phase = "reset_assign" /\ cursor = NumTargets + 1
  /\ target_dones' = [t \in Targets |-> FALSE]
  /\ num_delivered_cargoes' = 0
  /\ rewards' = [dense |-> 0, delayed |-> 0]
  /\ call' = NoCall
  /\ phase' = "start_cargo" /\ cursor' = 1
  /\ UNCHANGED <<counters, stock, carried, empty_bits, state_cache>>

\* Mutant: only one random warehouse is looked at.
TakeFromOneDraw(t) ==
  \E w \in Warehouses :
    \/ \E g \in Recipients(w) : Load(t, w, g)
    \/ Recipients(w) = {} /\ UNCHANGED <<carried, remaining_cargoes>>

\* The first non-empty warehouse of a random permutation, wherever the target is.
TakeFromAnyStore(t) ==
  \/ \E w \in Warehouses : \E g \in Recipients(w) : Load(t, w, g)
  \/ /\ \A w \in Warehouses : Recipients(w) = {}
     /\ UNCHANGED <<carried, remaining_cargoes>>

\* targets_start_with_cargoes: every target still unloaded takes cargo.
StartCargo ==
  /\ phase = "start_cargo" /\ cursor \in Targets
  /\ IF StartWithCargoes /\ target_goals[cursor] = None
     THEN TakeFromAnyStore(cursor)
     ELSE UNCHANGED <<carried, remaining_cargoes>>
  /\ cursor' = cursor + 1
  /\ UNCHANGED <<phase, counters, awaiting_cargo_counts, empty_bits, totals, call, state_cache>>

EndReset ==
  /\ phase = "start_cargo" /\ cursor = NumTargets + 1
  /\ episode_step' = 0
  /\ phase' = "running" /\ cursor' = 1
  /\ UNCHANGED <<target_capacities, stock, carried, empty_bits, totals,
                 call, state_cache>>

(* step(), after the loop.  `done' looks at the clock and the awaited units.  *)
EndStep ==
  /\ phase = "step_assign" /\ cursor = NumTargets + 1
  /\ target_dones' = [t \in Targets |->
       target_goals[t] # call.old_goals[t] /\ call.old_goals[t] # None]
  /\ rewards' = [dense |-> rewards.dense + call.reward,
                 delayed |-> rewards.delayed + call.delayed]
  /\ episode_step' = Tick
  /\ phase' = IF Done THEN "done" ELSE "running"
  /\ call' = NoCall /\ cursor' = 1
  /\ UNCHANGED <<target_capacities, stock, carried, empty_bits,
                 num_delivered_cargoes, state_cache>>

(* state(): computed once, then cached until _update_view() drops it.          *)
ReadState ==
  /\ phase \in {"running", "done"}
  /\ state_cache' = IF state_cache = {} THEN {Snapshot} ELSE state_cache
  /\ UNCHANGED <<phase, cursor, counters, stock, carried, empty_bits, totals, call>>

-------------------------------------------------------------------------------
Step == \E tracked \in SUBSET Targets : BeginStep(tracked)

Next ==
  \/ BeginReset \/ EndResetAssign \/ StartCargo \/ EndReset
  \/ Step \/ AssignTarget \/ EndStep
  \/ ReadState

Spec == Init /\ [][Next]_vars

-------------------------------------------------------------------------------
(* Properties *)

InEpisode == phase \in {"start_cargo", "running", "step_assign", "done"}
AtRest == phase \in {"running", "done"}

\* Units for warehouse w that wait in each store and that each target carries,
\* and what each carrier has lost by being tracked.
StoredFor(w) == [s \in Warehouses |-> remaining_cargoes[s][w]]
CarriedFor(w) == [t \in Targets |-> target_goal_bits[t][w]]
Weight(t) == IF target_goals[t] = None THEN 0 ELSE target_goal_bits[t][target_goals[t]]
LostBounty == [t \in Targets |-> Weight(t) * BountyScale - bounties[t]]

TypeOK ==
  /\ phase \in {"constructed", "reset_assign", "start_cargo", "running", "step_assign", "done"}
  /\ cursor \in 1..(NumTargets + 1)
  /\ target_capacities \in [Targets -> {1, 2}]
  /\ remaining_cargoes \in [Warehouses -> [Warehouses -> Nat]]
  /\ awaiting_cargo_counts \in [Warehouses -> Int]
  /\ target_goals \in [Targets -> Warehouses \cup {None}]
  /\ target_goal_bits \in [Targets -> [Warehouses -> 0..2]]
  /\ goal_bits \in [Targets -> [Warehouses -> 0..2]]
  /\ empty_bits \in [Targets -> [Warehouses -> BOOLEAN]]
  /\ freights \in [Targets -> Nat] /\ bounties \in [Targets -> Nat]
  /\ target_dones \in [Targets -> BOOLEAN]
  /\ num_delivered_cargoes \in Nat
  /\ rewards \in [dense : Int, delayed : Int]
  /\ call \in [reward : Int, delayed : Int, old_goals : [Targets -> Warehouses \cup {None}]]
  /\ episode_step \in Nat

\* Cargo is neither lost nor made: a warehouse waits for exactly the units that
\* are still in a store or on a target with it as goal (remaining_cargoes,
\* target_goal_bits and awaiting_cargo_counts are updated in different places).
CargoConserved ==
  \A w \in Warehouses :
    awaiting_cargo_counts[w] =
      Total(StoredFor(w)) + Total(CarriedFor(w))

\* What the environment and the entity record of a target's cargo agree with
\* each other and with its goal, its capacity and its possible pay.
CargoRecordsAgree ==
  /\ target_goal_bits = goal_bits
  /\ \A t \in Targets :
       /\ target_goal_bits[t] = BitsAt(target_goals[t], Weight(t))
       /\ target_goals[t] # None => Weight(t) \in 1..target_capacities[t]
       /\ freights[t] = Weight(t) * FreightScale
       /\ bounties[t] <= Weight(t) * BountyScale

\* A warehouse a target remembers as empty stays empty: target agents (naive.py,
\* greedy.py) never go back there.
EmptyBitsSound ==
  \A t \in Targets, w \in Warehouses : empty_bits[t][w] => Recipients(w) = {}

\* The dense reward charges tracking at once and the delayed one at delivery, so
\* they differ by what is lost on cargoes still on the way; sparse and dense
\* environments agree when everything has been delivered.
RewardsReconcile ==
  InEpisode =>
    rewards.dense + call.reward = rewards.delayed + call.delayed - Total(LostBounty)

\* A delivered unit adds between freight - bounty and freight + bounty to the
\* delayed reward, which mean_transport_rate divides by.
DelayedRewardBounds ==
  InEpisode =>
    LET delayed == rewards.delayed + call.delayed
    IN  /\ delayed >= (FreightScale - BountyScale) * num_delivered_cargoes
        /\ delayed <= (FreightScale + BountyScale) * num_delivered_cargoes

\* The internal assertion of reset(): with targets_start_with_cargoes every
\* target has cargo when the episode starts.
StartsLoaded ==
  StartWithCargoes /\ phase = "start_cargo" /\ cursor = NumTargets + 1 =>
    \A t \in Targets : target_goals[t] # None

\* An episode that ends before its time limit leaves no cargo behind, and one
\* that goes on has cargo left to deliver.
EndsWhenAllDelivered ==
  LET left == \/ \E w \in Warehouses : Recipients(w) # {}
              \/ \E t \in Targets : target_goals[t] # None
  IN  /\ phase = "done" /\ episode_step <= MaxSteps => ~left
      /\ phase = "running" => left

\* state() never returns freights, bounties or stores of an earlier step.
StateCacheFresh == AtRest => state_cache \subseteq {Snapshot}

\* A loaded target's goal changes exactly when its cargo is delivered, so that
\* target_dones (the goal differs from the one before the step) reports every
\* delivery: a store never holds cargo for its own warehouse.
GoalChangesAtDelivery ==
  [][phase = "step_assign" /\ InAssignLoop /\ target_goals[cursor] # None =>
       (target_goals'[cursor] # target_goals[cursor]
          <=> num_delivered_cargoes' = num_delivered_cargoes + Weight(cursor))]_vars

\* Seen from outside, cargo moves as in CargoLedger: from the stores to a target,
\* from there to its goal, never while no episode is open.  num_delivered_cargoes
\* is zeroed only after the loop of reset(), which must therefore deliver nothing.
Ledger == INSTANCE CargoLedger WITH
  open <- phase \notin {"constructed", "done"},
  stored <- [w \in Warehouses |-> Total(StoredFor(w))],
  loads <- [t \in Targets |-> [goal |-> target_goals[t], weight |-> Weight(t)]],
  delivered <- IF phase = "reset_assign" THEN 0 ELSE num_delivered_cargoes
KeepsLedger == Ledger!Spec

===============================================================================
