----------------------------- MODULE DelayedGroup -----------------------------
(***************************************************************************)
(* ExtraCommunicationDelays (mate/wrappers/extra_communication_delays.py)  *)
(* between the groups and the channel: send_messages() puts messages on a  *)
(* heap of (due step, message) that both teams share, then hands all that  *)
(* are due to the environment in one call.  Nothing is handed over when    *)
(* nobody sends.                                                           *)
(*                                                                         *)
(* heapq compares two entries with equal due steps by their messages, and  *)
(* Message has == but no <.  Which entries are compared depends on how the *)
(* heap is laid out; here any two may be, and a lone other entry is.       *)
(***************************************************************************)
EXTENDS GroupCommunication

CONSTANTS
  Delays,      \* what `delay' may be: one number, or the range of a function
  MaxPushed    \* BOUND: messages sent in an episode

ASSUME DelayAssumption ==
  /\ Delays # {} /\ Delays \subseteq Nat
  /\ MaxPushed \in Nat /\ MaxBuffer >= MaxPushed   \* so that Send is never blocked

VARIABLES
  heap,        \* the messages on their way
  flushing,    \* is a send_messages() handing over what is due?
  raised,      \* the exception that ended the program, or "none"
  pushed,      \* HISTORY: how many messages were sent in this episode
  arrived      \* HISTORY: which of them were handed over

delay_vars == <<heap, flushing, raised, pushed, arrived>>
delayed_vars == <<vars, delay_vars>>

-------------------------------------------------------------------------------
(* Helpers *)

DueLate(h) == {e \in h : e.due < steps}        \* mutant: one step late
DueEarly(h) == {e \in h : e.due <= steps + 1}  \* mutant: one step early
Due(h) == {e \in h : e.due <= steps}

\* Two messages that are neither ordered nor equal.
Unordered(e, f) == e.due = f.due /\ e.msg # f.msg

\* heappop(): the earliest due; equal messages are interchangeable.
Latest(h) == CHOOSE e \in h : \A f \in h : f.no <= e.no    \* mutant: the last one sent
Earliest(h) == CHOOSE e \in h :
  \A f \in h : e.due < f.due \/ (e.due = f.due /\ e.no <= f.no)

KeptHeap == heap            \* mutant: an episode starts with what was on its way
EmptyHeap == {}

Sending == round \in {"send_requests", "send_responses"}
Running == raised = "none"

-------------------------------------------------------------------------------
DelayedInit ==
  /\ GroupInit
  /\ heap = {} /\ flushing = FALSE /\ raised = "none" /\ pushed = 0 /\ arrived = {}

\* heappush(), for one message of the list an agent sends.
AgentPushes ==
  /\ Running /\ Sending /\ ~flushing /\ pushed < MaxPushed
  /\ \E m \in Packed(order[cursor]), d \in Delays :
       LET e == [due |-> steps + d, no |-> pushed + 1, msg |-> m]
           clash == \E f \in heap : Unordered(e, f)
       IN  /\ m.content = ContentOf(round)
           /\ \/ raised' = raised /\ ~(clash /\ Cardinality(heap) = 1)
              \/ raised' = "order" /\ clash
           /\ heap' = heap \cup {e}
  /\ pushed' = pushed + 1
  /\ UNCHANGED <<vars, flushing, arrived>>

\* The list is on the heap; what is due is popped and sent in one call, which
\* accepts messages of one team only.  What was popped before an exception is lost.
BeginFlush ==
  /\ Running /\ Sending /\ ~flushing
  /\ LET due == Due(heap)
         mixed == \E e, f \in due : Team(e.msg.sender) # Team(f.msg.sender)
     IN  \/ ~mixed /\ flushing' = TRUE /\ raised' = raised /\ heap' = heap
         \/ mixed /\ flushing' = FALSE /\ raised' = "teams" /\ heap' = heap \ due
         \/ /\ \E e, f \in heap : Unordered(e, f)
            /\ flushing' = FALSE /\ raised' = "order"
            /\ \E popped \in SUBSET due \ {{}} : heap' = heap \ popped
  /\ UNCHANGED <<vars, pushed, arrived>>

\* One message of that call.
HandOver ==
  /\ flushing /\ Due(heap) # {}
  /\ LET e == Earliest(Due(heap))
     IN  /\ \E p \in Passing(e.msg) : Send(e.msg, p)
         /\ heap' = heap \ {e} /\ arrived' = arrived \cup {e.no}
  /\ UNCHANGED <<group_vars, agent_vars, flushing, raised, pushed>>

EndFlush ==
  /\ flushing /\ Due(heap) = {}
  /\ flushing' = FALSE
  /\ AgentHasSent
  /\ UNCHANGED <<heap, raised, pushed, arrived>>

\* What goes past the wrapper, and reset(), which clears the heap first.
PassThrough ==
  /\ Running
  /\ \/ \E team \in {Cameras, Targets} : BeginGroup(team)
     \/ AgentReadsRequests \/ AgentReadsResponses \/ StepEnv
  /\ UNCHANGED delay_vars

DelayedReset ==
  /\ Running /\ ResetEnv
  /\ heap' = EmptyHeap /\ pushed' = 0 /\ arrived' = {}
  /\ UNCHANGED <<flushing, raised>>

DelayedNext ==
  AgentPushes \/ BeginFlush \/ HandOver \/ EndFlush \/ PassThrough \/ DelayedReset

DelayedSpec == DelayedInit /\ [][DelayedNext]_delayed_vars

-------------------------------------------------------------------------------
(* Properties *)

OnTheWay == {e.no : e \in heap}

\* Every message of the episode is on its way or has arrived, not both; none of
\* an earlier episode is, although episode steps start again from zero.
ArriveOnce ==
  Running => OnTheWay \cup arrived = 1..pushed /\ OnTheWay \cap arrived = {}

\* With a constant delay no message overtakes another.
NoOvertaking ==
  (\A c, d \in Delays : c = d) => \A e \in heap, n \in arrived : n < e.no

\* After a team has communicated nothing that is due is held back, of either team.
NothingHeldBack == Running /\ round = "none" /\ spoke # {} => \A e \in heap : e.due > steps

\* What is delayed by a step or more is handed over at the first turn of a later
\* step, in a loop of requests: a group reads everything as a request, late
\* responses included, and nothing is left for the loop that reads responses.
LateMailComesAsRequests == 0 \notin Delays => last_responses = NoMessages

(* What the documentation promises, and the code does not keep *)

\* docs/source/wrappers.rst:584 "Users can use this wrapper to implement a
\* communication channel with random delays", for both teams (line 580)
DelaysDoNotRaise == raised = "none"
===============================================================================
