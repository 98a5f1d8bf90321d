------------------------------ MODULE CargoLedger ------------------------------
(***************************************************************************)
(* What an episode promises about cargo, without stores, places, steps and *)
(* pay: a unit is stored, then carried towards its goal, then delivered.   *)
(* CargoTransport implements it (KeepsLedger there).                       *)
(***************************************************************************)
EXTENDS Naturals

CONSTANTS Warehouses, Targets, None

VARIABLES
  open,       \* is an episode under way?
  stored,     \* units for a warehouse that wait in some store
  loads,      \* what each target carries, and where to
  delivered   \* units delivered in this episode

ledger == <<open, stored, loads, delivered>>

Empty == [goal |-> None, weight |-> 0]

Init ==
  /\ open = FALSE /\ delivered = 0
  /\ stored = [w \in Warehouses |-> 0]
  /\ loads = [t \in Targets |-> Empty]

NewEpisode ==
  /\ open' = TRUE /\ delivered' = 0
  /\ stored' \in [Warehouses -> Nat]
  /\ loads' = [t \in Targets |-> Empty]

\* t takes n of the units for g.
Take(t, g, n) ==
  /\ stored' = [stored EXCEPT ![g] = @ - n]
  /\ loads' = [loads EXCEPT ![t] = [goal |-> g, weight |-> n]]

PickUp(t) ==
  /\ open /\ loads[t] = Empty
  /\ \E g \in Warehouses : \E n \in 1..stored[g] : Take(t, g, n)
  /\ UNCHANGED <<open, delivered>>

\* t delivers all it carries, and may at once take cargo for somewhere else.
Deliver(t) ==
  /\ open /\ loads[t] # Empty
  /\ delivered' = delivered + loads[t].weight
  /\ \/ stored' = stored /\ loads' = [loads EXCEPT ![t] = Empty]
     \/ \E g \in Warehouses \ {loads[t].goal} : \E n \in 1..stored[g] : Take(t, g, n)
  /\ open' = open

\* Until the next episode nothing moves any more.
Close == open /\ open' = FALSE /\ UNCHANGED <<stored, loads, delivered>>

Next ==
  \/ NewEpisode \/ Close
  \/ \E t \in Targets : PickUp(t) \/ Deliver(t)

Spec == Init /\ [][Next]_ledger
===============================================================================
