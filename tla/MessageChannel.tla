----------------------------- MODULE MessageChannel -----------------------------
(***************************************************************************)
(* Intra-team messages in MultiAgentTracking (mate/environment.py): the    *)
(* per-agent queues that receive_messages() empties, the per-agent buffers *)
(* and communication edges that step() reports in the infos, and the       *)
(* filter a wrapper may put in front of send_messages().                   *)
(*                                                                         *)
(* send_messages() takes a list and handles it message by message with no  *)
(* state of its own, so a list is a run of Send steps.  A list that mixes  *)
(* teams raises before anything is sent and changes nothing.  A recipient  *)
(* outside the team would raise after earlier messages of the list were    *)
(* delivered; no agent packs one, and it is left out.                      *)
(* Next lets the callers use the interface in any order; GroupCommunication *)
(* restricts them to the protocol of the agents.                           *)
(***************************************************************************)
EXTENDS Integers, Sequences, FiniteSets

CONSTANTS
  Cameras, Targets,   \* the agents of the two teams
  Everyone,           \* recipient None: a broadcast
  Contents,           \* what messages say
  Filtered,           \* is there a MessageFilter around the environment?
  MaxBuffer,          \* BOUND: messages an agent gets in a step
  MaxEpisode          \* BOUND: steps in an episode

Agents == Cameras \cup Targets

TeamsDisjoint ==
  /\ IsFiniteSet(Cameras) /\ IsFiniteSet(Targets) /\ Cameras \cap Targets = {}
  /\ Everyone \notin Agents
  /\ Filtered \in BOOLEAN /\ MaxBuffer \in Nat /\ MaxEpisode \in Nat

ASSUME ChannelAssumption == TeamsDisjoint

VARIABLES
  queue,         \* message_queues: what receive_messages() will return
  buffer,        \* message_buffers: what the infos of the step will hold
  edges,         \* communication_edges[sender][recipient]
  total_edges,   \* total_communication_edges, of the episode
  steps,         \* episode_step
  read,          \* HISTORY: what receive_messages() returned in this step
  reported       \* HISTORY: [sender][recipient] messages the infos of the episode held

channel_vars == <<queue, buffer, edges, total_edges, steps, read, reported>>

-------------------------------------------------------------------------------
(* Helpers *)

Team(a) == IF a \in Cameras THEN Cameras ELSE Targets

Message ==
  [sender : Agents, recipient : Agents \cup {Everyone}, content : Contents,
   broadcasting : BOOLEAN]

\* What an agent can pack (AgentBase.pack_message).
Packed(s) ==
  {[sender |-> s, recipient |-> r, content |-> c, broadcasting |-> (r = Everyone)] :
     r \in Team(s) \cup {Everyone}, c \in Contents}

\* Mutant: a broadcast goes to the others only.
AddresseesOthers(m) ==
  IF m.recipient = Everyone THEN Team(m.sender) \ {m.sender} ELSE {m.recipient}

\* Mutant: a broadcast is told by its flag, which its copies carry, too.
AddresseesFlagged(m) == IF m.broadcasting THEN Team(m.sender) ELSE {m.recipient}

\* route_messages(): a broadcast is one message for every teammate, its sender included.
Addressees(m) == IF m.recipient = Everyone THEN Team(m.sender) ELSE {m.recipient}
Routed(m, r) == [m EXCEPT !.recipient = r]

\* MessageFilter drops any of the routed messages.
Passing(m) == IF Filtered THEN SUBSET Addressees(m) ELSE {Addressees(m)}

\* What send_messages() of the environment gets and routes: the message, or the
\* copies that MessageFilter has routed already.
HandedOn(m, passing) == IF Filtered THEN {Routed(m, r) : r \in passing} ELSE {m}
Copies(m, passing, r) == Cardinality({h \in HandedOn(m, passing) : r \in Addressees(h)})

Deliver(box, m, passing) ==
  [r \in Agents |-> box[r] \o [i \in 1..Copies(m, passing, r) |-> Routed(m, r)]]

\* How many of `messages' come from s.
From(messages, s) == Cardinality({i \in DOMAIN messages : messages[i].sender = s})

NoMessages == [a \in Agents |-> <<>>]
NoEdges == [s \in Agents |-> [r \in Agents |-> 0]]

\* queue after step(): everything unread is dropped.
KeptQueue == queue         \* mutant: unread messages stay for the next step
ClearedQueue == NoMessages

\* total edges after reset()
KeptTotals == total_edges  \* mutant: they go on counting
ClearedTotals == NoEdges

-------------------------------------------------------------------------------
Init ==
  /\ queue = NoMessages /\ buffer = NoMessages
  /\ edges = NoEdges /\ total_edges = NoEdges
  /\ steps = 0
  /\ read = NoMessages /\ reported = NoEdges

\* Mutant: an edge is counted for what is sent, also when the filter drops it.
CountAddressed(m, passing) ==
  edges' = [edges EXCEPT ![m.sender] =
              [r \in Agents |-> IF r \in Addressees(m) THEN @[r] + 1 ELSE @[r]]]

\* communication_edges[sender, recipient] += 1 for every delivered message.
CountEdges(m, passing) ==
  edges' = [edges EXCEPT ![m.sender] =
              [r \in Agents |-> @[r] + Copies(m, passing, r)]]

\* send_messages(), for message m of its list, which is to go to `passing'.
Send(m, passing) ==
  /\ \A r \in passing : Len(buffer[r]) < MaxBuffer
  /\ queue' = Deliver(queue, m, passing) /\ buffer' = Deliver(buffer, m, passing)
  /\ CountEdges(m, passing)
  /\ UNCHANGED <<total_edges, steps, read, reported>>

\* Mutant: the read of one agent empties the queues of all.
ReceiveClearsAll(agents) ==
  /\ read' = [a \in Agents |-> IF a \in agents THEN read[a] \o queue[a] ELSE read[a]]
  /\ queue' = NoMessages
  /\ UNCHANGED <<buffer, edges, total_edges, steps, reported>>

\* receive_messages(), for one agent or (no argument) for all.
Receive(agents) ==
  /\ read' = [a \in Agents |-> IF a \in agents THEN read[a] \o queue[a] ELSE read[a]]
  /\ queue' = [a \in Agents |-> IF a \in agents THEN <<>> ELSE queue[a]]
  /\ UNCHANGED <<buffer, edges, total_edges, steps, reported>>

\* step(), its communication part: the infos report the buffers and the row and
\* column sums of the edges (a history here); then accumulate and clear.
EnvStep ==
  /\ steps < MaxEpisode
  /\ total_edges' = [s \in Agents |-> [r \in Agents |-> total_edges[s][r] + edges[s][r]]]
  /\ reported' = [s \in Agents |-> [r \in Agents |-> reported[s][r] + From(buffer[r], s)]]
  /\ edges' = NoEdges
  /\ buffer' = NoMessages /\ queue' = ClearedQueue
  /\ read' = NoMessages
  /\ steps' = steps + 1

\* reset(), its communication part.
EnvReset ==
  /\ total_edges' = ClearedTotals /\ edges' = NoEdges
  /\ buffer' = NoMessages /\ queue' = NoMessages
  /\ steps' = 0
  /\ read' = NoMessages /\ reported' = NoEdges

-------------------------------------------------------------------------------
SendMessage == \E s \in Agents : \E m \in Packed(s) : \E p \in Passing(m) : Send(m, p)
ReceiveOne == \E a \in Agents : Receive({a})
ReceiveAll == Receive(Agents)

Next == SendMessage \/ ReceiveOne \/ ReceiveAll \/ EnvStep \/ EnvReset

Spec == Init /\ [][Next]_channel_vars

-------------------------------------------------------------------------------
(* Properties *)

EdgeCounts == [Agents -> [Agents -> Nat]]
\* What may be in the mailbox of a: its own mail, from its own team.
Mail(a) == {m \in Message : m.recipient = a /\ m.sender \in Team(a)}
Boxed(box) == DOMAIN box = Agents /\ \A a \in Agents : box[a] \in Seq(Mail(a))
ChannelTypeOK ==
  /\ Boxed(queue) /\ Boxed(buffer) /\ Boxed(read)
  /\ edges \in EdgeCounts /\ total_edges \in EdgeCounts
  /\ steps \in Nat
  /\ reported \in EdgeCounts

\* In a step an agent gets every message the infos will report for it exactly
\* once and in order, however sends and receives alternate; nothing of an
\* earlier step or episode is left in its queue.
ReadOnceInOrder == \A a \in Agents : read[a] \o queue[a] = buffer[a]

\* The communication edges of a step count what is in the buffers, no more and no
\* less, also when a filter drops messages, and the totals of an episode what the
\* infos of its steps have reported.
EdgesCountMessages ==
  /\ \A s, r \in Agents : edges[s][r] = From(buffer[r], s)
  /\ total_edges = reported

\* Behind a filter a message is routed twice: by the filter and by the environment.
\* No agent gets it twice for that, and none gets a copy that the filter dropped:
\* the others have as many messages as before.
DeliveredOnce ==
  [][\A s \in Agents : \A m \in Packed(s) : \A p \in Passing(m) :
       Send(m, p) =>
         \A r \in Agents :
           Len(buffer'[r]) = IF r \in p THEN Len(buffer[r]) + 1 ELSE Len(buffer[r])]_channel_vars

\* A broadcast that no filter touches is heard by the whole team, its sender
\* included, and all teammates hear the same broadcasts in the same order: the
\* n-th of one is the n-th of the other.
Heard(a, n) == {i \in 1..n : buffer[a][i].broadcasting}
AllHeard(a) == Heard(a, Len(buffer[a]))
BroadcastsReachTeam ==
  ~Filtered =>
    \A a \in Agents : \A b \in Team(a) :
      /\ Cardinality(AllHeard(a)) = Cardinality(AllHeard(b))
      /\ \A i \in AllHeard(a) : \E j \in AllHeard(b) :
           /\ Cardinality(Heard(a, i)) = Cardinality(Heard(b, j))
           /\ buffer[b][j] = Routed(buffer[a][i], b)
===============================================================================
