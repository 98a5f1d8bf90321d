----------------------------- MODULE TargetBeliefs -----------------------------
(***************************************************************************)
(* GreedyTargetAgent (mate/agents/greedy.py): every target keeps a set of  *)
(* the warehouses it believes non-empty, crosses off what it sees, tells   *)
(* its team once, crosses off what it is told, and picks its destination   *)
(* among the rest.                                                         *)
(*                                                                         *)
(* The agents of a team run their methods in loops that nothing interrupts *)
(* (group_step(), see GroupCommunication), so that each loop is one action *)
(* here.  A filter around the environment may drop any copy of a broadcast.*)
(* How a target moves is left to CargoTransport: noise may take it         *)
(* anywhere.                                                               *)
(***************************************************************************)
EXTENDS CargoTransport

VARIABLES
  stage,               \* the method of the agents that runs next
  non_empty,           \* non_empty_warehouses of each agent
  need_communication,
  mail,                \* what receive_messages() will hand to each agent
  destination,         \* the agent's own goal_bits: where it runs to
  filtered             \* is there a message filter?

belief_vars == <<stage, non_empty, need_communication, mail, destination, filtered>>

-------------------------------------------------------------------------------
(* Helpers *)

\* The warehouses the observation of agent t shows as empty.
SeenEmpty(t) == {w \in Warehouses : empty_bits[t][w]}

SeveralSeen(t) == Cardinality(SeenEmpty(t) \cap non_empty[t]) > 1    \* mutant: off by one
NewlySeen(t) == SeenEmpty(t) \cap non_empty[t] # {}

\* What t still believes after it has read its mail.
Heard(t) == {w \in non_empty[t] : \A set \in mail[t] : w \in set}

KeptBeliefs == non_empty     \* mutant: reset() does not start anew
FreshBeliefs == [t \in Targets |-> Warehouses]

\* The copies of the broadcasts that the filter drops.
Drops == IF filtered THEN SUBSET (Targets \X Targets) ELSE {{}}

\* The goals t may run to: its cargo's, the one it has, or a new one.
Destinations(t) ==
  LET goal == IF target_goals[t] # None THEN target_goals[t] ELSE destination[t]
  IN  IF goal = None \/ (target_goals[t] = None /\ goal \notin non_empty[t])
      THEN IF non_empty[t] = {} THEN {None} ELSE non_empty[t]
      ELSE {goal}

-------------------------------------------------------------------------------
BeliefInit ==
  /\ stage = "reset"
  /\ non_empty = [t \in Targets |-> Warehouses]
  /\ need_communication = [t \in Targets |-> FALSE]
  /\ mail = [t \in Targets |-> {}] /\ destination = [t \in Targets |-> None]
  /\ filtered \in BOOLEAN

\* group_reset(), after the reset() of the environment
ResetAgents ==
  /\ stage = "reset"
  /\ non_empty' = FreshBeliefs
  /\ need_communication' = [t \in Targets |-> FALSE]
  /\ destination' = target_goals
  /\ stage' = "observe"
  /\ UNCHANGED <<vars, mail, filtered>>

\* group_observe(): process_messages() of each agent
Observe ==
  /\ stage = "observe"
  /\ non_empty' = [t \in Targets |-> non_empty[t] \ SeenEmpty(t)]
  /\ need_communication' = [t \in Targets |-> need_communication[t] \/ NewlySeen(t)]
  /\ stage' = "respond"
  /\ UNCHANGED <<vars, mail, destination, filtered>>

\* The agents that have news broadcast all they believe, to themselves, too.
SendResponses ==
  /\ stage = "respond"
  /\ \E dropped \in Drops :
       mail' = [t \in Targets |->
         {non_empty[s] : s \in {u \in Targets : need_communication[u] /\ <<u, t>> \notin dropped}}]
  /\ need_communication' = [t \in Targets |-> FALSE]
  /\ stage' = "hear"
  /\ UNCHANGED <<vars, non_empty, destination, filtered>>

ReceiveResponses ==
  /\ stage = "hear"
  /\ non_empty' = [t \in Targets |-> Heard(t)]
  /\ mail' = [t \in Targets |-> {}]
  /\ stage' = "act"
  /\ UNCHANGED <<vars, need_communication, destination, filtered>>

\* group_act(): only the destination of each agent is kept.
Act ==
  /\ stage = "act"
  /\ destination' \in [Targets -> Warehouses \cup {None}]
  /\ \A t \in Targets : destination'[t] \in Destinations(t)
  /\ stage' = "moved"
  /\ UNCHANGED <<vars, non_empty, need_communication, mail, filtered>>

GroupStep == Observe \/ SendResponses \/ ReceiveResponses \/ Act

-------------------------------------------------------------------------------
(* Properties *)

BeliefTypeOK ==
  /\ stage \in {"reset", "observe", "respond", "hear", "act", "moved"}
  /\ non_empty \in [Targets -> SUBSET Warehouses]
  /\ need_communication \in [Targets -> BOOLEAN]
  /\ mail \in [Targets -> SUBSET SUBSET Warehouses]
  /\ destination \in [Targets -> Warehouses \cup {None}]
  /\ filtered \in BOOLEAN

\* No agent gives up a warehouse that has cargo, by what it sees, by what it is
\* told, or by what it remembers of an earlier episode, whatever a filter drops.
BeliefsSound ==
  stage # "reset" => \A t \in Targets : \A w \in Warehouses \ non_empty[t] : Recipients(w) = {}

\* A target that has nowhere to run to has no cargo, and there is none left.
NobodyGivesUp ==
  stage = "moved" =>
    \A t \in Targets : destination[t] = None =>
      target_goals[t] = None /\ \A w \in Warehouses : Recipients(w) = {}

\* Without a filter the team believes the same when it has communicated, also if
\* several agents had different news.
TeamAgrees ==
  ~filtered /\ stage \in {"act", "moved"} =>
    \A t, u \in Targets : non_empty[t] = non_empty[u]

===============================================================================
