------------------------------- MODULE SingleTeam -------------------------------
(***************************************************************************)
(* The wrappers SingleTeamMultiAgent and SingleTeamSingleAgent             *)
(* (mate/wrappers/single_team.py).  The learners, all of a team or one of  *)
(* its agents, are driven by the caller, who may send and receive between  *)
(* two steps in any order, or let a whole team communicate as a group      *)
(* (mate/evaluate.py).  The other agents talk inside step(): first the     *)
(* teammates of a single learner, then the opponents, then the environment *)
(* steps and drops what is unread.                                         *)
(*                                                                         *)
(* The code is symmetric in the two teams (swap()); the learners are       *)
(* cameras here.                                                           *)
(***************************************************************************)
EXTENDS GroupCommunication

VARIABLES
  wrapper,    \* "multi" or "single"
  learners,   \* the agents of the caller: a single one is drawn by reset()
  in_step,    \* is the wrapper's step() running?
  told,       \* HISTORY: what receive_messages() returned to the learners since step()
  loose       \* HISTORY: did learners send or read outside of a group in this step?

wrapper_vars == <<wrapper, learners, in_step, told, loose>>
all_vars == <<vars, wrapper_vars>>

-------------------------------------------------------------------------------
(* Helpers *)

Teammates == IF wrapper = "single" THEN Cameras \ learners ELSE {}
InGroups == Agents \ (IF wrapper = "single" THEN learners ELSE {})

Elements(messages) == {messages[i] : i \in DOMAIN messages}
ToldNothing == [a \in Agents |-> {}]

\* receive_messages() without an agent: the buffers are copied, the queues stay.
Peek == UNCHANGED channel_vars

\* The order of the groups inside step().
MayTalk(group) ==
  \/ group = Teammates
  \/ group = Targets /\ (Teammates = {} \/ Cameras \in spoke)

-------------------------------------------------------------------------------
WrapperInit ==
  /\ GroupInit
  /\ \/ wrapper = "multi" /\ learners = Cameras
     \/ wrapper = "single" /\ \E c \in Cameras : learners = {c}
  /\ in_step = FALSE /\ told = ToldNothing /\ loose = FALSE

\* After MaxEpisode steps the caller still reads, but sends nothing (BOUND).
CallersTurn == ~in_step /\ round = "none"

\* send_messages() of the wrapper: from learners only.
LearnerSends ==
  /\ CallersTurn /\ steps < MaxEpisode
  /\ \E a \in learners : \E m \in Packed(a) : \E p \in Passing(m) : Send(m, p)
  /\ loose' = TRUE
  /\ UNCHANGED <<group_vars, agent_vars, wrapper, learners, in_step, told>>

\* receive_messages() for one agent; a single learner needs no argument.
LearnerReads ==
  /\ CallersTurn
  /\ \E a \in learners :
       /\ Receive({a})
       /\ told' = [told EXCEPT ![a] = @ \cup Elements(queue[a])]
  /\ loose' = TRUE
  /\ UNCHANGED <<group_vars, agent_vars, wrapper, learners, in_step>>

\* receive_messages() without an agent, of SingleTeamMultiAgent.
TeamPeeks ==
  /\ CallersTurn /\ wrapper = "multi"
  /\ Peek
  /\ told' = [a \in Agents |-> IF a \in learners THEN told[a] \cup Elements(buffer[a]) ELSE told[a]]
  /\ UNCHANGED <<group_vars, agent_vars, wrapper, learners, in_step, loose>>

\* group_step() of the caller for his team, as in evaluate().
LearnersTalk ==
  /\ CallersTurn /\ wrapper = "multi" /\ steps < MaxEpisode
  /\ BeginGroup(learners)
  /\ UNCHANGED wrapper_vars

\* step() is called ...
CallStep ==
  /\ CallersTurn /\ steps < MaxEpisode
  /\ in_step' = TRUE /\ told' = ToldNothing
  /\ UNCHANGED <<vars, wrapper, learners, loose>>

\* ... runs its groups ...
GroupTalks ==
  /\ in_step
  /\ \E group \in {Teammates, Targets} : MayTalk(group) /\ BeginGroup(group)
  /\ UNCHANGED wrapper_vars

Converse ==
  /\ AgentSends \/ AgentHasSent \/ AgentReadsRequests \/ AgentReadsResponses
  /\ UNCHANGED wrapper_vars

\* ... and steps the environment, whose infos go to the learners and the agents.
StepReturns ==
  /\ in_step
  /\ \A a \in Teammates \cup Targets : Team(a) \in spoke
  /\ StepEnv
  /\ in_step' = FALSE /\ loose' = FALSE
  /\ UNCHANGED <<wrapper, learners, told>>

\* reset(): shuffle_entities draws the place of a single learner anew.
ResetWrapper ==
  /\ CallersTurn
  /\ ResetEnv
  /\ IF wrapper = "single" THEN \E c \in Cameras : learners' = {c} ELSE UNCHANGED learners
  /\ told' = ToldNothing /\ loose' = FALSE
  /\ UNCHANGED <<wrapper, in_step>>

WrapperNext ==
  \/ LearnerSends \/ LearnerReads \/ TeamPeeks \/ LearnersTalk
  \/ CallStep \/ GroupTalks \/ Converse \/ StepReturns \/ ResetWrapper

WrapperSpec == WrapperInit /\ [][WrapperNext]_all_vars

-------------------------------------------------------------------------------
(* Properties *)

Of(messages, senders) == {m \in Elements(messages) : m.sender \in senders}
Says(messages, content) == \A m \in messages : m.content = content

\* Requests and responses travel through the same queues.  When a group has
\* communicated, what its agents take for responses are responses of the group;
\* what they take for requests are requests of the group or anything the caller
\* sent before: an answer of a single learner is never taken for an answer.
RequestsBeforeResponses ==
  \A a \in InGroups : Team(a) \in spoke =>
    LET outside == IF loose THEN learners ELSE {}
    IN  /\ Says(Elements(last_responses[a]), "response")
        /\ Says(Of(last_requests[a], Agents \ outside), "request")
        /\ wrapper = "single" => Of(last_responses[a], learners) = {}

\* When a group has communicated, what its agents keep is exactly what the infos
\* of the step will report to them, the learner's messages included: nothing is
\* left unread for step() to drop.
ReportedIsWhatWasRead ==
  round = "none" =>
    \A a \in InGroups :
      Team(a) \in spoke /\ (a \in learners => ~loose) =>
        buffer[a] = last_requests[a] \o last_responses[a]

\* However a caller mixes the two forms of receive_messages(): he is told of
\* messages of this step only, and what is gone from a queue he has been told of,
\* unless the learners read it as a group.
LearnersMissNothing ==
  \A a \in learners :
    /\ told[a] \subseteq Elements(buffer[a])
    /\ Cameras \notin spoke /\ CallersTurn =>
         Elements(buffer[a]) \subseteq told[a] \cup Elements(queue[a])
===============================================================================
