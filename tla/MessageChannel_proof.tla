------------------------- MODULE MessageChannel_proof -------------------------
(***************************************************************************)
(* What holds of the channel for every number of agents, whatever they     *)
(* send and whatever a filter drops: every mailbox holds its owner's mail, *)
(* every message is read once and in order, and the communication edges    *)
(* count exactly the delivered messages.                                   *)
(***************************************************************************)
EXTENDS MessageChannel, FiniteSetTheorems, SequenceTheorems, TLAPS

-------------------------------------------------------------------------------
(* Sequences of messages *)

\* Appending to what is unread appends to what has been and will be read.
LEMMA AppendUnread ==
  ASSUME NEW S, NEW s \in Seq(S), NEW t \in Seq(S), NEW e \in S
  PROVE  s \o Append(t, e) = Append(s \o t, e)
<1>1. Append(t, e) \in Seq(S) /\ s \o t \in Seq(S)
  BY AppendProperties, ConcatProperties
<1>2. s \o Append(t, e) \in Seq(S) /\ Append(s \o t, e) \in Seq(S)
  BY <1>1, AppendProperties, ConcatProperties
<1>3. Len(s \o Append(t, e)) = Len(s) + Len(t) + 1 /\ Len(Append(s \o t, e)) = Len(s) + Len(t) + 1
  BY <1>1, AppendProperties, ConcatProperties
<1>4. \A i \in 1..Len(s \o Append(t, e)) : (s \o Append(t, e))[i] = Append(s \o t, e)[i]
  BY <1>1, <1>3
<1> QED
  BY <1>2, <1>3, <1>4, SeqEqual

\* A message more from s, or none.
LEMMA FromAppend ==
  ASSUME NEW S, NEW seq \in Seq(S), NEW m \in S, NEW s
  PROVE  /\ From(seq, s) \in Nat
         /\ From(Append(seq, m), s) = From(seq, s) + (IF m.sender = s THEN 1 ELSE 0)
<1> DEFINE n == Len(seq)
           old == {i \in 1..n : seq[i].sender = s}
           new == {i \in 1..(n + 1) : Append(seq, m)[i].sender = s}
<1>1. n \in Nat /\ DOMAIN seq = 1..n /\ DOMAIN Append(seq, m) = 1..(n + 1)
  BY AppendProperties, LenProperties
<1>2. From(seq, s) = Cardinality(old) /\ From(Append(seq, m), s) = Cardinality(new)
  BY <1>1 DEF From
<1>3. IsFiniteSet(old) /\ Cardinality(old) \in Nat
  <2>1. IsFiniteSet(1..n)
    BY <1>1, FS_Interval
  <2> QED
    BY <2>1, FS_Subset, FS_CardinalityType
<1>4. new = IF m.sender = s THEN old \cup {n + 1} ELSE old
  BY <1>1, AppendProperties
<1>5. n + 1 \notin old
  BY <1>1
<1>6. Cardinality(old \cup {n + 1}) = Cardinality(old) + 1
  BY <1>3, <1>5, FS_AddElement
<1>7. CASE m.sender = s
  BY <1>2, <1>3, <1>4, <1>6, <1>7
<1>8. CASE m.sender # s
  <2> HIDE DEF old, new
  <2> QED
    BY <1>2, <1>3, <1>4, <1>8
<1> QED
  BY <1>7, <1>8

LEMMA FromNothing ==
  ASSUME NEW s
  PROVE  From(<<>>, s) = 0
<1>1. {i \in DOMAIN <<>> : <<>>[i].sender = s} = {}
  OBVIOUS
<1> QED
  BY <1>1, FS_EmptySet DEF From

-------------------------------------------------------------------------------
(* Types *)

\* What an agent packs is a message of its own, to its team or one of it.
LEMMA PackedFields ==
  ASSUME NEW s \in Agents, NEW m \in Packed(s)
  PROVE  /\ m \in Message /\ m.sender = s
         /\ m.recipient \in Team(s) \cup {Everyone}
         /\ m.broadcasting <=> m.recipient = Everyone
<1>1. PICK to \in Team(s) \cup {Everyone}, c \in Contents :
        m = [sender |-> s, recipient |-> to, content |-> c,
             broadcasting |-> (to = Everyone)]
  BY DEF Packed
<1>2. to \in Agents \cup {Everyone} /\ (to = Everyone) \in BOOLEAN
  BY DEF Team, Agents
<1>3. m.sender = s /\ m.recipient = to /\ m.content = c /\ m.broadcasting = (to = Everyone)
  BY <1>1
<1>4. m \in Message
  BY <1>1, <1>2 DEF Message
<1> QED
  BY <1>3, <1>4

\* What a packed message becomes on its way to r.
LEMMA RoutedIsMail ==
  ASSUME NEW s \in Agents, NEW m \in Packed(s), NEW p \in Passing(m), NEW r \in p
  PROVE  /\ r \in Agents
         /\ Routed(m, r) \in Mail(r)
         /\ Routed(m, r).sender = s
         /\ m.sender = s
<1>1. m \in Message /\ m.sender = s /\ m.recipient \in Team(s) \cup {Everyone}
  BY PackedFields
<1>2. r \in Team(s)
  BY <1>1, ChannelAssumption DEF Passing, Addressees, TeamsDisjoint, Team, Agents
<1>3. r \in Agents /\ Team(s) = Team(r)
  BY <1>2, ChannelAssumption DEF Team, Agents, TeamsDisjoint
<1>4. Routed(m, r) \in Message /\ Routed(m, r).recipient = r /\ Routed(m, r).sender = s
  BY <1>1, <1>3 DEF Routed, Message
<1>5. s \in Team(r)
  BY <1>3 DEF Team, Agents
<1> QED
  BY <1>1, <1>3, <1>4, <1>5 DEF Mail

\* Routing a copy again gives the copy: each recipient gets one.
LEMMA CopiesOnce ==
  ASSUME NEW s \in Agents, NEW m \in Packed(s), NEW p \in Passing(m), NEW r \in Agents
  PROVE  Copies(m, p, r) = IF r \in p THEN 1 ELSE 0
<1> DEFINE those == {h \in HandedOn(m, p) : r \in Addressees(h)}
<1>1. m \in Message /\ Everyone \notin Agents
  BY PackedFields, ChannelAssumption DEF TeamsDisjoint
<1>2. CASE ~Filtered
  <2>1. HandedOn(m, p) = {m} /\ p = Addressees(m)
    BY <1>2 DEF HandedOn, Passing
  <2>2. those = IF r \in p THEN {m} ELSE {}
    BY <2>1
  <2> HIDE DEF those
  <2>3. Cardinality(those) = IF r \in p THEN 1 ELSE 0
    BY <2>2, FS_EmptySet, FS_Singleton
  <2> QED
    BY <2>3 DEF Copies, those
<1>3. CASE Filtered
  <2>1. ASSUME NEW x \in p
        PROVE  Addressees(Routed(m, x)) = {x}
    <3>1. Routed(m, x).recipient = x
      BY <1>1 DEF Routed, Message
    <3>2. x # Everyone
      BY <1>1, RoutedIsMail
    <3> QED
      BY <3>1, <3>2 DEF Addressees
  <2>2. HandedOn(m, p) = {Routed(m, x) : x \in p}
    BY <1>3 DEF HandedOn
  <2>3. those = IF r \in p THEN {Routed(m, r)} ELSE {}
    <3>1. \A h \in those : r \in p /\ h = Routed(m, r)
      <4> SUFFICES ASSUME NEW h \in those PROVE r \in p /\ h = Routed(m, r)
        OBVIOUS
      <4>1. PICK x \in p : h = Routed(m, x)
        BY <2>2
      <4>2. r \in {x}
        BY <2>1, <4>1
      <4> QED
        BY <4>1, <4>2
    <3>2. r \in p => Routed(m, r) \in those
      BY <2>1, <2>2
    <3> HIDE DEF those
    <3> QED
      BY <3>1, <3>2
  <2> HIDE DEF those
  <2>4. Cardinality(those) = IF r \in p THEN 1 ELSE 0
    BY <2>3, FS_EmptySet, FS_Singleton
  <2> QED
    BY <2>4 DEF Copies, those
<1> QED
  BY <1>2, <1>3, ChannelAssumption DEF TeamsDisjoint

LEMMA EmptyBoxes == Boxed(NoMessages) /\ NoEdges \in EdgeCounts
BY DEF Boxed, NoMessages, NoEdges, EdgeCounts

\* A count of messages in a mailbox.
LEMMA FromBox ==
  ASSUME NEW box, Boxed(box), NEW r \in Agents, NEW s
  PROVE  From(box[r], s) \in Nat
<1>1. box[r] \in Seq(Mail(r))
  BY DEF Boxed
<1> DEFINE n == Len(box[r])
           those == {i \in 1..n : box[r][i].sender = s}
<1>2. n \in Nat /\ DOMAIN box[r] = 1..n
  BY <1>1, LenProperties
<1>3. IsFiniteSet(1..n)
  BY <1>2, FS_Interval
<1>4. Cardinality(those) \in Nat
  BY <1>3, FS_Subset, FS_CardinalityType
<1> QED
  BY <1>2, <1>4 DEF From

\* What send_messages() does, message by message.
Delivered(m, p) ==
  /\ queue' = [r \in Agents |->
                 IF r \in p THEN Append(queue[r], Routed(m, r)) ELSE queue[r]]
  /\ buffer' = [r \in Agents |->
                  IF r \in p THEN Append(buffer[r], Routed(m, r)) ELSE buffer[r]]
  /\ edges' = [edges EXCEPT ![m.sender] =
                 [r \in Agents |-> IF r \in p THEN @[r] + 1 ELSE @[r]]]
  /\ UNCHANGED <<total_edges, steps, read, reported>>

LEMMA OneMore ==
  ASSUME NEW S, NEW seq \in Seq(S), NEW e \in S
  PROVE  /\ seq \o [i \in 1..0 |-> e] = seq
         /\ seq \o [i \in 1..1 |-> e] = Append(seq, e)
<1>1. [i \in 1..0 |-> e] = <<>>
  BY EmptySeq
<1>2. [i \in 1..1 |-> e] = <<e>>
  OBVIOUS
<1> QED
  BY <1>1, <1>2, ConcatEmptySeq, AppendIsConcat

LEMMA DeliverOnce ==
  ASSUME NEW box, Boxed(box),
         NEW s \in Agents, NEW m \in Packed(s), NEW p \in Passing(m)
  PROVE  Deliver(box, m, p) =
           [r \in Agents |-> IF r \in p THEN Append(box[r], Routed(m, r)) ELSE box[r]]
<1>1. ASSUME NEW r \in Agents
      PROVE  box[r] \o [i \in 1..Copies(m, p, r) |-> Routed(m, r)] =
               IF r \in p THEN Append(box[r], Routed(m, r)) ELSE box[r]
  <2>1. box[r] \in Seq(Mail(r) \cup {Routed(m, r)})
    <3>1. box[r] \in Seq(Mail(r))
      BY DEF Boxed
    <3> QED
      BY <3>1, SeqMonotonic
  <2>2. /\ box[r] \o [i \in 1..0 |-> Routed(m, r)] = box[r]
        /\ box[r] \o [i \in 1..1 |-> Routed(m, r)] = Append(box[r], Routed(m, r))
    <3> DEFINE S == Mail(r) \cup {Routed(m, r)}
               e == Routed(m, r)
    <3>1. box[r] \in Seq(S) /\ e \in S
      BY <2>1
    <3> HIDE DEF S, e
    <3>2. box[r] \o [i \in 1..0 |-> e] = box[r] /\ box[r] \o [i \in 1..1 |-> e] = Append(box[r], e)
      BY <3>1, OneMore
    <3> QED
      BY <3>2 DEF e
  <2>3. Copies(m, p, r) = IF r \in p THEN 1 ELSE 0
    BY CopiesOnce
  <2> QED
    BY <2>2, <2>3
<1> QED
  BY <1>1 DEF Deliver

LEMMA SendDelivers ==
  ASSUME ChannelTypeOK,
         NEW s \in Agents, NEW m \in Packed(s), NEW p \in Passing(m), Send(m, p)
  PROVE  Delivered(m, p)
<1>1. Boxed(queue) /\ Boxed(buffer)
  BY DEF ChannelTypeOK
<1>2. /\ queue' = Deliver(queue, m, p) /\ buffer' = Deliver(buffer, m, p)
      /\ edges' = [edges EXCEPT ![m.sender] = [r \in Agents |-> @[r] + Copies(m, p, r)]]
      /\ UNCHANGED <<total_edges, steps, read, reported>>
  BY DEF Send, CountEdges
<1>3. edges' = [edges EXCEPT ![m.sender] =
                  [r \in Agents |-> IF r \in p THEN @[r] + 1 ELSE @[r]]]
  <2>1. \A r \in Agents : edges[m.sender][r] \in Nat
    BY PackedFields DEF ChannelTypeOK, EdgeCounts
  <2>2. \A r \in Agents :
          edges[m.sender][r] + Copies(m, p, r)
            = IF r \in p THEN edges[m.sender][r] + 1 ELSE edges[m.sender][r]
    BY <2>1, CopiesOnce
  <2>3. [r \in Agents |-> edges[m.sender][r] + Copies(m, p, r)]
          = [r \in Agents |-> IF r \in p THEN edges[m.sender][r] + 1 ELSE edges[m.sender][r]]
    BY <2>2
  <2> QED
    BY <1>2, <2>3
<1>4. queue' = [r \in Agents |->
                  IF r \in p THEN Append(queue[r], Routed(m, r)) ELSE queue[r]]
  BY <1>1, <1>2, DeliverOnce
<1>5. buffer' = [r \in Agents |->
                   IF r \in p THEN Append(buffer[r], Routed(m, r)) ELSE buffer[r]]
  BY <1>1, <1>2, DeliverOnce
<1> QED
  BY <1>2, <1>3, <1>4, <1>5 DEF Delivered

-------------------------------------------------------------------------------
(* The invariant, action by action.  The typing alone keeps itself; the       *)
(* counts of the edges need the typing, and the totals need the edges.        *)

ChannelInv ==
  ChannelTypeOK /\ ReadOnceInOrder /\ EdgesCountMessages

LEMMA InitChannel == Init => ChannelInv
<1> SUFFICES ASSUME Init PROVE ChannelInv
  OBVIOUS
<1>1. ChannelTypeOK
  BY EmptyBoxes DEF Init, ChannelTypeOK
<1>2. ReadOnceInOrder
  BY DEF Init, ReadOnceInOrder, NoMessages
<1>3. EdgesCountMessages
  BY FromNothing DEF Init, EdgesCountMessages, NoMessages, NoEdges
<1> QED
  BY <1>1, <1>2, <1>3 DEF ChannelInv

LEMMA SendKeeps ==
  ASSUME ChannelInv,
         NEW s \in Agents, NEW m \in Packed(s), NEW p \in Passing(m), Send(m, p)
  PROVE  ChannelInv'
<1>0. Delivered(m, p)
  BY SendDelivers DEF ChannelInv
<1>1. /\ \A r \in p : Routed(m, r) \in Mail(r) /\ Routed(m, r).sender = s
      /\ m.sender = s
  <2>1. m.sender = s
    BY DEF Packed
  <2> QED
    BY <2>1, RoutedIsMail
<1>2. ChannelTypeOK'
  <2>0. Boxed(queue) /\ Boxed(buffer)
    BY DEF ChannelInv, ChannelTypeOK
  <2>1. Boxed(queue') /\ Boxed(buffer')
    <3>1. DOMAIN queue' = Agents /\ DOMAIN buffer' = Agents
      BY <1>0 DEF Delivered
    <3>2. ASSUME NEW r \in Agents
          PROVE  queue'[r] \in Seq(Mail(r)) /\ buffer'[r] \in Seq(Mail(r))
      <4>1. queue[r] \in Seq(Mail(r)) /\ buffer[r] \in Seq(Mail(r))
        BY <2>0 DEF Boxed
      <4>2. CASE r \in p
        <5>1. Routed(m, r) \in Mail(r)
          BY <1>1, <4>2
        <5>2. /\ Append(queue[r], Routed(m, r)) \in Seq(Mail(r))
              /\ Append(buffer[r], Routed(m, r)) \in Seq(Mail(r))
          BY <4>1, <5>1, AppendProperties
        <5>3. /\ queue'[r] = Append(queue[r], Routed(m, r))
              /\ buffer'[r] = Append(buffer[r], Routed(m, r))
          BY <4>2, <1>0 DEF Delivered
        <5> QED
          BY <5>2, <5>3
      <4>3. CASE r \notin p
        BY <4>1, <4>3, <1>0 DEF Delivered
      <4> QED
        BY <4>2, <4>3
    <3> QED
      BY <3>1, <3>2 DEF Boxed
  <2>2. edges' \in EdgeCounts
    <3>1. edges \in [Agents -> [Agents -> Nat]] /\ edges[s] \in [Agents -> Nat]
      BY DEF ChannelInv, ChannelTypeOK, EdgeCounts
    <3>2. [r \in Agents |-> IF r \in p THEN edges[s][r] + 1 ELSE edges[s][r]]
            \in [Agents -> Nat]
      BY <3>1
    <3>3. edges' = [edges EXCEPT ![s] =
                      [r \in Agents |-> IF r \in p THEN edges[s][r] + 1 ELSE edges[s][r]]]
      BY <1>1, <1>0 DEF Delivered
    <3> QED
      BY <3>1, <3>2, <3>3 DEF EdgeCounts
  <2> QED
    BY <1>0, <2>1, <2>2 DEF ChannelInv, ChannelTypeOK, Delivered
<1>3. ReadOnceInOrder'
  <2> SUFFICES ASSUME NEW a \in Agents PROVE read'[a] \o queue'[a] = buffer'[a]
    BY DEF ReadOnceInOrder
  <2>1. /\ read[a] \in Seq(Mail(a)) /\ queue[a] \in Seq(Mail(a))
        /\ read[a] \o queue[a] = buffer[a]
    BY DEF ChannelInv, ChannelTypeOK, Boxed, ReadOnceInOrder
  <2>2. read'[a] = read[a]
    BY <1>0 DEF Delivered
  <2>3. CASE a \in p
    <3>1. Routed(m, a) \in Mail(a)
      BY <1>1, <2>3
    <3> DEFINE q == queue[a]
               done == read[a]
               e == Routed(m, a)
               S == Mail(a)
    <3>2. done \o Append(q, e) = Append(done \o q, e)
      <4>1. done \in Seq(S) /\ q \in Seq(S) /\ e \in S
        BY <2>1, <3>1
      <4> HIDE DEF q, done, e, S
      <4> QED
        BY <4>1, AppendUnread
    <3>3. queue'[a] = Append(queue[a], Routed(m, a))
      BY <2>3, <1>0 DEF Delivered
    <3>4. buffer'[a] = Append(buffer[a], Routed(m, a))
      BY <2>3, <1>0 DEF Delivered
    <3> QED
      BY <2>1, <2>2, <3>2, <3>3, <3>4
  <2>4. CASE a \notin p
    BY <2>1, <2>2, <2>4, <1>0 DEF Delivered
  <2> QED
    BY <2>3, <2>4
<1>4. ASSUME NEW x \in Agents, NEW r \in Agents
      PROVE  edges'[x][r] = From(buffer'[r], x)
  <2>1. /\ buffer[r] \in Seq(Mail(r)) /\ edges[x][r] = From(buffer[r], x)
        /\ edges \in [Agents -> [Agents -> Nat]]
    BY DEF ChannelInv, ChannelTypeOK, Boxed, EdgesCountMessages, EdgeCounts
  <2>2. edges'[x][r] = IF x = s /\ r \in p THEN edges[x][r] + 1 ELSE edges[x][r]
    <3>1. edges' = [edges EXCEPT ![s] =
                      [y \in Agents |-> IF y \in p THEN edges[s][y] + 1 ELSE edges[s][y]]]
      BY <1>1, <1>0 DEF Delivered
    <3> QED
      BY <2>1, <3>1
  <2>3. CASE r \in p
    <3>1. buffer'[r] = Append(buffer[r], Routed(m, r))
      BY <2>3, <1>0 DEF Delivered
    <3>2. Routed(m, r) \in Mail(r) /\ Routed(m, r).sender = s
      BY <1>1, <2>3
    <3>3. From(Append(buffer[r], Routed(m, r)), x)
            = From(buffer[r], x) + (IF Routed(m, r).sender = x THEN 1 ELSE 0)
      BY <2>1, <3>2, FromAppend
    <3>4. From(buffer'[r], x) = From(buffer[r], x) + (IF s = x THEN 1 ELSE 0)
      BY <3>1, <3>2, <3>3
    <3>5. edges[x][r] \in Nat
      BY <2>1
    <3>6. CASE s = x
      BY <2>1, <2>2, <2>3, <3>4, <3>6
    <3>7. CASE s # x
      BY <2>1, <2>2, <2>3, <3>4, <3>5, <3>7
    <3> QED
      BY <3>6, <3>7
  <2>4. CASE r \notin p
    BY <2>1, <2>2, <2>4, <1>0 DEF Delivered
  <2> QED
    BY <2>3, <2>4
<1>5. EdgesCountMessages'
  BY <1>0, <1>4 DEF ChannelInv, EdgesCountMessages, Delivered
<1> QED
  BY <1>2, <1>3, <1>5 DEF ChannelInv

LEMMA ReceiveKeeps ==
  ASSUME ChannelInv, NEW who, Receive(who)
  PROVE  ChannelInv'
<1>1. ChannelTypeOK'
  <2>1. Boxed(read) /\ Boxed(queue)
    BY DEF ChannelInv, ChannelTypeOK
  <2>2. Boxed(read')
    <3>1. DOMAIN read' = Agents
      BY DEF Receive
    <3>2. ASSUME NEW a \in Agents PROVE read'[a] \in Seq(Mail(a))
      <4>1. read[a] \in Seq(Mail(a)) /\ queue[a] \in Seq(Mail(a))
        BY <2>1 DEF Boxed
      <4>2. read[a] \o queue[a] \in Seq(Mail(a))
        BY <4>1, ConcatProperties
      <4>3. read'[a] = read[a] \o queue[a] \/ read'[a] = read[a]
        BY DEF Receive
      <4> QED
        BY <4>1, <4>2, <4>3
    <3> QED
      BY <3>1, <3>2 DEF Boxed
  <2>3. Boxed(queue')
    <3>1. \A a \in Agents : queue'[a] = IF a \in who THEN <<>> ELSE queue[a]
      BY DEF Receive
    <3> QED
      BY <2>1, <3>1 DEF Boxed, Receive
  <2> QED
    BY <2>2, <2>3 DEF ChannelInv, ChannelTypeOK, Receive
<1>2. ReadOnceInOrder'
  <2> SUFFICES ASSUME NEW a \in Agents PROVE read'[a] \o queue'[a] = buffer'[a]
    BY DEF ReadOnceInOrder
  <2>1. /\ read[a] \in Seq(Mail(a)) /\ queue[a] \in Seq(Mail(a))
        /\ read[a] \o queue[a] = buffer[a]
    BY DEF ChannelInv, ChannelTypeOK, Boxed, ReadOnceInOrder
  <2>2. read[a] \o queue[a] \in Seq(Mail(a))
    BY <2>1, ConcatProperties
  <2>3. (read[a] \o queue[a]) \o <<>> = read[a] \o queue[a]
    BY <2>2, ConcatEmptySeq
  <2>4. CASE a \in who
    BY <2>1, <2>3, <2>4 DEF Receive
  <2>5. CASE a \notin who
    BY <2>1, <2>5 DEF Receive
  <2> QED
    BY <2>4, <2>5
<1>3. EdgesCountMessages'
  BY DEF ChannelInv, EdgesCountMessages, Receive
<1> QED
  BY <1>1, <1>2, <1>3 DEF ChannelInv

LEMMA EnvStepKeeps ==
  ASSUME ChannelInv, EnvStep
  PROVE  ChannelInv'
<1>1. \A s, r \in Agents : edges[s][r] = From(buffer[r], s) /\ From(buffer[r], s) \in Nat
  BY FromBox DEF ChannelInv, ChannelTypeOK, EdgesCountMessages
<1>2. ChannelTypeOK'
  <2>1. Boxed(queue') /\ Boxed(buffer') /\ Boxed(read') /\ edges' \in EdgeCounts
    BY EmptyBoxes DEF EnvStep, ClearedQueue
  <2>2. total_edges' \in EdgeCounts /\ reported' \in EdgeCounts
    BY <1>1 DEF ChannelInv, ChannelTypeOK, EnvStep, EdgeCounts
  <2> QED
    BY <2>1, <2>2 DEF ChannelInv, ChannelTypeOK, EnvStep
<1>3. ReadOnceInOrder'
  BY DEF ReadOnceInOrder, EnvStep, ClearedQueue, NoMessages
<1>4. \A s, r \in Agents : edges'[s][r] = From(buffer'[r], s)
  BY FromNothing DEF EnvStep, NoMessages, NoEdges
<1>5. total_edges' = reported'
  BY <1>1 DEF ChannelInv, EdgesCountMessages, EnvStep
<1>6. EdgesCountMessages'
  BY <1>4, <1>5 DEF EdgesCountMessages
<1> QED
  BY <1>2, <1>3, <1>6 DEF ChannelInv

LEMMA EnvResetKeeps ==
  ASSUME ChannelInv, EnvReset
  PROVE  ChannelInv'
<1>1. ChannelTypeOK'
  BY EmptyBoxes DEF ChannelTypeOK, EnvReset, ClearedTotals
<1>2. ReadOnceInOrder'
  BY DEF ReadOnceInOrder, EnvReset, NoMessages
<1>3. EdgesCountMessages'
  BY FromNothing DEF EdgesCountMessages, EnvReset, NoMessages, NoEdges, ClearedTotals
<1> QED
  BY <1>1, <1>2, <1>3 DEF ChannelInv

LEMMA NextChannel == ChannelInv /\ [Next]_channel_vars => ChannelInv'
<1> SUFFICES ASSUME ChannelInv, [Next]_channel_vars PROVE ChannelInv'
  OBVIOUS
<1>1. CASE SendMessage
  BY <1>1, SendKeeps DEF SendMessage
<1>2. CASE ReceiveOne
  BY <1>2, ReceiveKeeps DEF ReceiveOne
<1>3. CASE ReceiveAll
  BY <1>3, ReceiveKeeps DEF ReceiveAll
<1>4. CASE EnvStep
  BY <1>4, EnvStepKeeps
<1>5. CASE EnvReset
  BY <1>5, EnvResetKeeps
<1>6. CASE UNCHANGED channel_vars
  BY <1>6 DEF channel_vars, ChannelInv, ChannelTypeOK, ReadOnceInOrder, EdgesCountMessages
<1> QED
  BY <1>1, <1>2, <1>3, <1>4, <1>5, <1>6 DEF Next

-------------------------------------------------------------------------------
(* Broadcasts.  A message adds one to what a recipient has heard, at the end,  *)
(* and leaves the broadcasts before it in their places.                       *)

LEMMA HeardIsFinite ==
  ASSUME ChannelTypeOK, NEW x \in Agents
  PROVE  /\ Len(buffer[x]) \in Nat /\ buffer[x] \in Seq(Mail(x))
         /\ IsFiniteSet(AllHeard(x)) /\ Cardinality(AllHeard(x)) \in Nat
         /\ AllHeard(x) \subseteq 1..Len(buffer[x])
<1>1. buffer[x] \in Seq(Mail(x)) /\ Len(buffer[x]) \in Nat
  BY LenProperties DEF ChannelTypeOK, Boxed
<1>2. AllHeard(x) \subseteq 1..Len(buffer[x])
  BY DEF AllHeard, Heard
<1>3. IsFiniteSet(1..Len(buffer[x]))
  BY <1>1, FS_Interval
<1>4. IsFiniteSet(AllHeard(x))
  BY <1>2, <1>3, FS_Subset
<1> QED
  BY <1>1, <1>2, <1>4, FS_CardinalityType

LEMMA HeardAfterSend ==
  ASSUME ChannelTypeOK,
         NEW s \in Agents, NEW m \in Packed(s), NEW p \in Passing(m), Send(m, p),
         NEW x \in Agents
  PROVE  /\ \A i \in 1..Len(buffer[x]) :
              buffer'[x][i] = buffer[x][i] /\ Heard(x, i)' = Heard(x, i)
         /\ \A k \in Nat : x \in p /\ m.broadcasting /\ k = Len(buffer[x]) + 1 =>
              /\ AllHeard(x)' = AllHeard(x) \cup {k}
              /\ Heard(x, k)' = AllHeard(x)'
              /\ buffer'[x][k] = Routed(m, x)
         /\ ~(x \in p /\ m.broadcasting) => AllHeard(x)' = AllHeard(x)
<1> DEFINE n == Len(buffer[x])
           e == Routed(m, x)
<1>0. Delivered(m, p)
  BY SendDelivers
<1>1. n \in Nat /\ buffer[x] \in Seq(Mail(x))
  BY HeardIsFinite
<1>2. e.broadcasting = m.broadcasting
  <2>1. m \in Message
    BY PackedFields
  <2> QED
    BY <2>1 DEF Routed, Message
<1>3. CASE x \notin p
  <2>1. buffer'[x] = buffer[x]
    BY <1>3, <1>0 DEF Delivered
  <2> QED
    BY <1>3, <2>1 DEF AllHeard, Heard
<1>4. CASE x \in p
  <2>1. buffer'[x] = Append(buffer[x], e)
    BY <1>4, <1>0 DEF Delivered
  <2>2. e \in Mail(x)
    BY <1>4, RoutedIsMail
  <2>3. /\ Len(buffer'[x]) = n + 1 /\ buffer'[x][n + 1] = e
        /\ \A i \in 1..n : buffer'[x][i] = buffer[x][i]
    BY <1>1, <2>1, <2>2, AppendProperties
  <2>4. ASSUME NEW i \in 1..n PROVE Heard(x, i)' = Heard(x, i)
    <3>1. \A j \in 1..i : buffer'[x][j] = buffer[x][j]
      BY <1>1, <2>3
    <3> QED
      BY <3>1 DEF Heard
  <2>5. ASSUME NEW k \in Nat, k = n + 1
        PROVE  /\ AllHeard(x)' = IF m.broadcasting THEN AllHeard(x) \cup {k} ELSE AllHeard(x)
               /\ Heard(x, k)' = AllHeard(x)'
    <3>1. 1..k = (1..n) \cup {k} /\ k \notin 1..n
      BY <1>1, <2>5
    <3>2. /\ AllHeard(x)' = {i \in 1..k : buffer'[x][i].broadcasting}
          /\ Heard(x, k)' = {i \in 1..k : buffer'[x][i].broadcasting}
      BY <2>3, <2>5 DEF AllHeard, Heard
    <3>3. AllHeard(x) = {i \in 1..n : buffer[x][i].broadcasting}
      BY DEF AllHeard, Heard
    <3> HIDE DEF n, e
    <3> QED
      BY <1>2, <2>3, <2>5, <3>1, <3>2, <3>3
  <2>6. n + 1 \in Nat
    BY <1>1
  <2>7. ~m.broadcasting => AllHeard(x)' = AllHeard(x)
    BY <2>5, <2>6
  <2> QED
    BY <1>4, <2>3, <2>4, <2>5, <2>7
<1> QED
  BY <1>3, <1>4

LEMMA SendReachesTeam ==
  ASSUME ChannelTypeOK, BroadcastsReachTeam,
         NEW s \in Agents, NEW m \in Packed(s), NEW p \in Passing(m), Send(m, p)
  PROVE  BroadcastsReachTeam'
<1> SUFFICES ASSUME ~Filtered, NEW a \in Agents, NEW b \in Team(a)
             PROVE  /\ Cardinality(AllHeard(a))' = Cardinality(AllHeard(b))'
                    /\ \A i \in AllHeard(a)' : \E j \in AllHeard(b)' :
                         /\ Cardinality(Heard(a, i))' = Cardinality(Heard(b, j))'
                         /\ buffer'[b][j] = Routed(buffer'[a][i], b)
  BY DEF BroadcastsReachTeam
<1>1. b \in Agents /\ Team(b) = Team(a)
  BY ChannelAssumption DEF Team, Agents, TeamsDisjoint
<1>2. /\ Cardinality(AllHeard(a)) = Cardinality(AllHeard(b))
      /\ \A i \in AllHeard(a) : \E j \in AllHeard(b) :
           /\ Cardinality(Heard(a, i)) = Cardinality(Heard(b, j))
           /\ buffer[b][j] = Routed(buffer[a][i], b)
  BY DEF BroadcastsReachTeam
<1>3. /\ AllHeard(a) \subseteq 1..Len(buffer[a]) /\ AllHeard(b) \subseteq 1..Len(buffer[b])
      /\ IsFiniteSet(AllHeard(a)) /\ IsFiniteSet(AllHeard(b))
      /\ Len(buffer[a]) \in Nat /\ Len(buffer[b]) \in Nat
  BY <1>1, HeardIsFinite
\* What was heard before is heard still, in the same places.
<1>4. ASSUME NEW i \in AllHeard(a)
      PROVE  \E j \in AllHeard(b) :
               /\ Cardinality(Heard(a, i))' = Cardinality(Heard(b, j))'
               /\ buffer'[b][j] = Routed(buffer'[a][i], b)
  <2>1. PICK j \in AllHeard(b) : /\ Cardinality(Heard(a, i)) = Cardinality(Heard(b, j))
                                 /\ buffer[b][j] = Routed(buffer[a][i], b)
    BY <1>2
  <2>2. i \in 1..Len(buffer[a]) /\ j \in 1..Len(buffer[b])
    BY <1>3
  <2>3. Heard(a, i)' = Heard(a, i) /\ buffer'[a][i] = buffer[a][i]
    BY <2>2, HeardAfterSend
  <2>4. Heard(b, j)' = Heard(b, j) /\ buffer'[b][j] = buffer[b][j]
    BY <1>1, <2>2, HeardAfterSend
  <2> QED
    BY <2>1, <2>3, <2>4
<1>5. CASE a \in p /\ m.broadcasting
  <2>1. b \in p
    <3>1. p = Addressees(m) /\ (m.broadcasting => m.recipient = Everyone) /\ m.sender = s
      BY PackedFields DEF Passing
    <3>2. p = Team(s)
      BY <1>5, <3>1 DEF Addressees
    <3>3. Team(a) = Team(s)
      BY <1>5, <3>2, ChannelAssumption DEF Team, Agents, TeamsDisjoint
    <3> QED
      BY <3>2, <3>3
  <2>0. PICK i \in Nat, j \in Nat : i = Len(buffer[a]) + 1 /\ j = Len(buffer[b]) + 1
    BY <1>3
  <2>2. /\ AllHeard(a)' = AllHeard(a) \cup {i} /\ Heard(a, i)' = AllHeard(a)'
        /\ buffer'[a][i] = Routed(m, a)
    BY <1>5, <2>0, HeardAfterSend
  <2>3. /\ AllHeard(b)' = AllHeard(b) \cup {j} /\ Heard(b, j)' = AllHeard(b)'
        /\ buffer'[b][j] = Routed(m, b)
    BY <1>1, <1>5, <2>0, <2>1, HeardAfterSend
  <2>4. Routed(m, b) = Routed(Routed(m, a), b)
    <3>1. m \in Message
      BY PackedFields
    <3> QED
      BY <3>1 DEF Routed, Message
  <2>5. i \notin AllHeard(a) /\ j \notin AllHeard(b)
    BY <1>3, <2>0
  <2>6. /\ Cardinality(AllHeard(a) \cup {i}) = Cardinality(AllHeard(a)) + 1
        /\ Cardinality(AllHeard(b) \cup {j}) = Cardinality(AllHeard(b)) + 1
    BY <1>3, <2>5, FS_AddElement
  <2>7. Cardinality(AllHeard(a))' = Cardinality(AllHeard(b))'
    BY <1>2, <2>2, <2>3, <2>6
  <2>8. /\ Cardinality(Heard(a, i))' = Cardinality(Heard(b, j))'
        /\ buffer'[b][j] = Routed(buffer'[a][i], b)
    BY <2>2, <2>3, <2>4, <2>7
  <2> QED
    BY <1>4, <2>2, <2>3, <2>7, <2>8
<1>6. CASE ~(a \in p /\ m.broadcasting)
  <2>1. ~(b \in p /\ m.broadcasting)
    <3>1. p = Addressees(m) /\ (m.broadcasting => m.recipient = Everyone) /\ m.sender = s
      BY PackedFields DEF Passing
    <3> SUFFICES ASSUME b \in p, m.broadcasting PROVE a \in p
      BY <1>6
    <3>2. p = Team(s)
      BY <3>1 DEF Addressees
    <3>3. Team(b) = Team(s) /\ a \in Team(a)
      BY <3>2, ChannelAssumption DEF Team, Agents, TeamsDisjoint
    <3> QED
      BY <1>1, <3>2, <3>3
  <2>2. AllHeard(a)' = AllHeard(a)
    BY <1>6, HeardAfterSend
  <2>3. AllHeard(b)' = AllHeard(b)
    BY <1>1, <2>1, HeardAfterSend
  <2> QED
    BY <1>2, <1>4, <2>2, <2>3
<1> QED
  BY <1>5, <1>6

LEMMA NothingHeard == buffer = NoMessages => BroadcastsReachTeam
<1> SUFFICES ASSUME buffer = NoMessages, NEW a \in Agents, NEW b \in Team(a)
             PROVE  AllHeard(a) = {} /\ AllHeard(b) = {}
  BY DEF BroadcastsReachTeam
<1>1. b \in Agents
  BY DEF Team, Agents
<1>2. buffer[a] = <<>> /\ buffer[b] = <<>> /\ Len(<<>>) = 0
  BY <1>1, EmptySeq DEF NoMessages
<1> QED
  BY <1>2 DEF AllHeard, Heard

LEMMA NextReachesTeam ==
  ASSUME ChannelTypeOK, BroadcastsReachTeam, [Next]_channel_vars
  PROVE  BroadcastsReachTeam'
<1>1. CASE SendMessage
  BY <1>1, SendReachesTeam DEF SendMessage
<1>2. CASE UNCHANGED buffer
  <2>1. \A x, k : Heard(x, k)' = Heard(x, k)
    BY <1>2 DEF Heard
  <2>2. \A x : AllHeard(x)' = AllHeard(x)
    BY <1>2, <2>1 DEF AllHeard
  <2> QED
    BY <1>2, <2>1, <2>2 DEF BroadcastsReachTeam
<1>3. CASE buffer' = NoMessages
  <2>1. (buffer = NoMessages => BroadcastsReachTeam)'
    BY NothingHeard, PTL
  <2> QED
    BY <1>3, <2>1
<1> QED
  BY <1>1, <1>2, <1>3
  DEF Next, ReceiveOne, ReceiveAll, Receive, EnvStep, EnvReset, channel_vars

-------------------------------------------------------------------------------
LEMMA ChannelInvariance == Spec => []ChannelInv
BY InitChannel, NextChannel, PTL DEF Spec

\* Every mailbox of send_messages() holds mail for its owner, from its own team.
THEOREM ChannelTypeCorrect == Spec => []ChannelTypeOK
<1>1. ChannelInv => ChannelTypeOK
  BY DEF ChannelInv
<1> QED
  BY <1>1, ChannelInvariance, PTL

\* However send_messages() and receive_messages() alternate, an agent gets in a
\* step each message of its info once and in order.
THEOREM MessagesReadOnce == Spec => []ReadOnceInOrder
<1>1. ChannelInv => ReadOnceInOrder
  BY DEF ChannelInv
<1> QED
  BY <1>1, ChannelInvariance, PTL

\* The edges of send_messages() count the delivered messages, filtered or not, and
\* step() adds to the totals of the episode exactly what its infos report.
THEOREM EdgesExact == Spec => []EdgesCountMessages
<1>1. ChannelInv => EdgesCountMessages
  BY DEF ChannelInv
<1> QED
  BY <1>1, ChannelInvariance, PTL

\* route_messages() twice, in MessageFilter and in send_messages() of the environment,
\* delivers as once.
THEOREM FilterDeliversOnce == Spec => DeliveredOnce
<1>1. ASSUME ChannelTypeOK, NEW s \in Agents, NEW m \in Packed(s), NEW p \in Passing(m),
             Send(m, p), NEW r \in Agents
      PROVE  Len(buffer'[r]) = IF r \in p THEN Len(buffer[r]) + 1 ELSE Len(buffer[r])
  <2>1. Delivered(m, p)
    BY <1>1, SendDelivers
  <2>2. buffer[r] \in Seq(Mail(r))
    BY <1>1 DEF ChannelTypeOK, Boxed
  <2>3. CASE r \in p
    <3>1. Routed(m, r) \in Mail(r)
      BY <2>3, RoutedIsMail
    <3> QED
      BY <2>1, <2>2, <2>3, <3>1, AppendProperties DEF Delivered
  <2>4. CASE r \notin p
    BY <2>1, <2>4 DEF Delivered
  <2> QED
    BY <2>3, <2>4
<1>2. ChannelInv =>
        \A s \in Agents : \A m \in Packed(s) : \A p \in Passing(m) :
          Send(m, p) =>
            \A r \in Agents :
              Len(buffer'[r]) = IF r \in p THEN Len(buffer[r]) + 1 ELSE Len(buffer[r])
  BY <1>1 DEF ChannelInv
<1> QED
  BY <1>2, ChannelInvariance, PTL DEF DeliveredOnce

\* A broadcast of send_messages() that nothing filters reaches the whole team, and
\* all teammates hear the broadcasts of a step in the same order.
THEOREM BroadcastsHeard == Spec => []BroadcastsReachTeam
<1>1. Init => BroadcastsReachTeam
  BY NothingHeard DEF Init
<1>2. ChannelInv /\ BroadcastsReachTeam /\ [Next]_channel_vars => BroadcastsReachTeam'
  BY NextReachesTeam DEF ChannelInv
<1> QED
  BY <1>1, <1>2, ChannelInvariance, PTL DEF Spec
===============================================================================
