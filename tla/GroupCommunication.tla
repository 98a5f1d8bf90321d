--------------------------- MODULE GroupCommunication ---------------------------
(***************************************************************************)
(* group_communicate() (mate/wrappers/single_team.py) over the channel of  *)
(* the environment.  Before a step() a group of agents of each team may    *)
(* communicate: all of them send their requests, then all read, then all   *)
(* send their responses, then all read again.                              *)
(*                                                                         *)
(* An agent's turn in a loop is one action, except that each message it    *)
(* sends is an action, too.  Nothing interrupts a group that communicates. *)
(* The modules that extend this one say who forms the groups, and when.    *)
(***************************************************************************)
EXTENDS MessageChannel

ASSUME ContentsAssumption == Contents = {"request", "response"}

VARIABLES
  round,      \* the loop of group_communicate() that runs, or "none"
  order,      \* the agents of the group, in the order of the loops
  cursor,     \* whose turn it is
  spoke,      \* the teams that have communicated in this step
  last_requests, last_responses    \* what the agents keep of what they read

group_vars == <<round, order, cursor, spoke>>
agent_vars == <<last_requests, last_responses>>
vars == <<channel_vars, group_vars, agent_vars>>

-------------------------------------------------------------------------------
(* Helpers *)

\* A group may be passed in any order.
Orders(group) ==
  {o \in [1..Cardinality(group) -> group] : \A a \in group : \E i \in DOMAIN o : o[i] = a}

\* Mutant: the responses are sent before the requests are read.
AfterRoundSwapped(r) ==
  CASE r = "send_requests"     -> "send_responses"
    [] r = "send_responses"    -> "receive_requests"
    [] r = "receive_requests"  -> "receive_responses"
    [] r = "receive_responses" -> "none"

AfterRound(r) ==
  CASE r = "send_requests"     -> "receive_requests"
    [] r = "receive_requests"  -> "send_responses"
    [] r = "send_responses"    -> "receive_responses"
    [] r = "receive_responses" -> "none"

\* What send_requests() and send_responses() pack.
ContentOf(r) == IF r = "send_requests" THEN "request" ELSE "response"

LastTurnEarly == cursor >= Len(order) - 1    \* mutant: the last agent is left out
LastTurn == cursor = Len(order)

\* The turn passes to the next agent, or the next loop starts.
Advance ==
  /\ cursor' = IF LastTurn THEN 1 ELSE cursor + 1
  /\ round' = IF LastTurn THEN AfterRound(round) ELSE round
  /\ spoke' = IF round' = "none" THEN spoke \cup {Team(order[cursor])} ELSE spoke
  /\ UNCHANGED order

-------------------------------------------------------------------------------
GroupInit ==
  /\ Init
  /\ round = "none" /\ order = <<>> /\ cursor = 1 /\ spoke = {}
  /\ last_requests = NoMessages /\ last_responses = NoMessages

BeginGroup(group) ==
  /\ round = "none" /\ group # {} /\ \A a \in group : Team(a) \notin spoke
  /\ order' \in Orders(group)
  /\ round' = "send_requests" /\ cursor' = 1
  /\ UNCHANGED <<channel_vars, agent_vars, spoke>>

\* One message of the list an agent returns from send_requests()/send_responses().
AgentSends ==
  /\ round \in {"send_requests", "send_responses"}
  /\ \E m \in Packed(order[cursor]) : \E p \in Passing(m) :
       m.content = ContentOf(round) /\ Send(m, p)
  /\ UNCHANGED <<group_vars, agent_vars>>

AgentHasSent ==
  /\ round \in {"send_requests", "send_responses"}
  /\ Advance
  /\ UNCHANGED <<channel_vars, agent_vars>>

AgentReadsRequests ==
  /\ round = "receive_requests"
  /\ LET a == order[cursor]
     IN  Receive({a}) /\ last_requests' = [last_requests EXCEPT ![a] = queue[a]]
  /\ Advance
  /\ UNCHANGED last_responses

AgentReadsResponses ==
  /\ round = "receive_responses"
  /\ LET a == order[cursor]
     IN  Receive({a}) /\ last_responses' = [last_responses EXCEPT ![a] = queue[a]]
  /\ Advance
  /\ UNCHANGED last_requests

\* The joint action is taken; the agents keep what they have read.
StepEnv ==
  /\ round = "none"
  /\ EnvStep
  /\ spoke' = {}
  /\ UNCHANGED <<round, order, cursor, agent_vars>>

\* env.reset() and group_reset() of both teams.
ResetEnv ==
  /\ round = "none"
  /\ EnvReset
  /\ spoke' = {}
  /\ last_requests' = NoMessages /\ last_responses' = NoMessages
  /\ UNCHANGED <<round, order, cursor>>
===============================================================================
