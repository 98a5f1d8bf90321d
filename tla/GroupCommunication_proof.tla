------------------------ MODULE GroupCommunication_proof ------------------------
(***************************************************************************)
(* What holds when the callers of the channel keep to the protocol of the  *)
(* agents: around a single team (SingleTeam) and behind delays             *)
(* (DelayedGroup), for teams of every size and any filter.  Both implement *)
(* the channel, so that everything proved of it holds of them; the rest is *)
(* about who has read what at which point of a group's communication.      *)
(***************************************************************************)
EXTENDS SingleTeam, DelayedGroup, MessageChannel_proof

-------------------------------------------------------------------------------
(* The groups of both wrappers *)

\* Who communicates, and who of them has had his turn in the loop that runs.
Speaking == {order[i] : i \in 1..Len(order)}
Served == {order[i] : i \in 1..(cursor - 1)}

Rounds == {"send_requests", "receive_requests", "send_responses", "receive_responses"}

\* A group has members, of one team that has not communicated in this step, and
\* each of them has one place in the order.
GroupOK ==
  /\ round \in Rounds \cup {"none"}
  /\ round # "none" =>
       /\ order \in Seq(Agents) /\ cursor \in 1..Len(order)
       /\ \A i, j \in 1..Len(order) : order[i] = order[j] => i = j
       /\ \A i, j \in 1..Len(order) : Team(order[i]) = Team(order[j])
       /\ \A i \in 1..Len(order) : Team(order[i]) \notin spoke

LEMMA OrderOfGroup ==
  ASSUME NEW group, IsFiniteSet(group), group # {}, NEW o \in Orders(group)
  PROVE  /\ o \in Seq(group) /\ Len(o) \in Nat \ {0}
         /\ {o[i] : i \in 1..Len(o)} = group
         /\ \A i, j \in 1..Len(o) : o[i] = o[j] => i = j
<1> DEFINE n == Cardinality(group)
<1>1. n \in Nat \ {0}
  BY FS_CardinalityType, FS_EmptySet
<1>2. o \in [1..n -> group] /\ \A a \in group : \E i \in DOMAIN o : o[i] = a
  BY DEF Orders
<1> HIDE DEF n
<1>3. o \in Seq(group) /\ Len(o) = n /\ DOMAIN o = 1..n
  BY <1>1, <1>2
<1>4. o \in Surjection(1..n, group)
  BY <1>2, <1>3 DEF Surjection
<1>5. IsFiniteSet(1..n) /\ Cardinality(1..n) = n
  BY <1>1, FS_Interval
<1>6. o \in Injection(1..n, group)
  <2>1. Cardinality(1..n) = Cardinality(group)
    BY <1>5 DEF n
  <2> QED
    BY <1>4, <1>5, <2>1, FS_SurjSameCardinalityImpliesInj
<1>7. \A i, j \in 1..n : o[i] = o[j] => i = j
  BY <1>6 DEF Injection, IsInjective
<1>8. {o[i] : i \in 1..n} = group
  BY <1>2, <1>3
<1> QED
  BY <1>1, <1>3, <1>7, <1>8

LEMMA TeamOf ==
  /\ \A a \in Agents : a \in Team(a) /\ Team(a) \subseteq Agents /\ Team(a) \in {Cameras, Targets}
  /\ \A a \in Cameras : a \in Agents /\ Team(a) = Cameras
  /\ \A a \in Targets : a \in Agents /\ Team(a) = Targets
  /\ \A a \in Agents : \A b \in Team(a) : Team(b) = Team(a)
  /\ IsFiniteSet(Cameras) /\ IsFiniteSet(Targets)
BY ChannelAssumption DEF TeamsDisjoint, Team, Agents

LEMMA BeginGroupOK ==
  ASSUME NEW group, group \subseteq Cameras \/ group \subseteq Targets, BeginGroup(group)
  PROVE  /\ GroupOK' /\ Speaking' = group /\ Served' = {}
         /\ group # {} /\ group \subseteq Agents
         /\ round = "none" /\ round' = "send_requests" /\ spoke' = spoke
<1>1. IsFiniteSet(group) /\ group \subseteq Agents /\ \A a, b \in group : Team(a) = Team(b)
  BY TeamOf, FS_Subset
<1>2. /\ group # {} /\ \A a \in group : Team(a) \notin spoke
      /\ order' \in Orders(group)
      /\ round = "none" /\ round' = "send_requests" /\ cursor' = 1 /\ spoke' = spoke
  BY DEF BeginGroup
<1>3. /\ order' \in Seq(group) /\ Len(order') \in Nat \ {0}
      /\ {order'[i] : i \in 1..Len(order')} = group
      /\ \A i, j \in 1..Len(order') : order'[i] = order'[j] => i = j
  BY <1>1, <1>2, OrderOfGroup
<1>4. \A i \in 1..Len(order') : order'[i] \in group
  BY <1>3
<1>5. order' \in Seq(Agents)
  BY <1>1, <1>3, SeqMonotonic
<1>6. GroupOK'
  <2>1. \A i, j \in 1..Len(order') : Team(order'[i]) = Team(order'[j])
    BY <1>1, <1>4
  <2>2. \A i \in 1..Len(order') : Team(order'[i]) \notin spoke'
    BY <1>2, <1>4
  <2>3. cursor' \in 1..Len(order') /\ round' \in Rounds
    BY <1>2, <1>3 DEF Rounds
  <2> QED
    BY <1>3, <1>5, <2>1, <2>2, <2>3 DEF GroupOK
<1>7. Speaking' = group
  BY <1>3 DEF Speaking
<1>8. Served' = {}
  BY <1>2 DEF Served
<1> QED
  BY <1>1, <1>2, <1>6, <1>7, <1>8

\* Whose turn it is.
LEMMA Speaker ==
  ASSUME GroupOK, round # "none"
  PROVE  /\ Len(order) \in Nat /\ cursor \in 1..Len(order) /\ round \in Rounds
         /\ order[cursor] \in Agents /\ order[cursor] \in Speaking
         /\ order[cursor] \notin Served
         /\ Served \subseteq Speaking
         /\ \A a \in Speaking : /\ a \in Agents /\ Team(a) = Team(order[cursor])
                                /\ Team(a) \notin spoke
<1>1. /\ order \in Seq(Agents) /\ cursor \in 1..Len(order) /\ round \in Rounds
      /\ \A i, j \in 1..Len(order) : order[i] = order[j] => i = j
      /\ \A i, j \in 1..Len(order) : Team(order[i]) = Team(order[j])
      /\ \A i \in 1..Len(order) : Team(order[i]) \notin spoke
  BY DEF GroupOK
<1>2. Len(order) \in Nat /\ \A i \in 1..Len(order) : order[i] \in Agents
  BY <1>1, LenProperties, ElementOfSeq
<1>3. 1..(cursor - 1) \subseteq 1..Len(order) /\ cursor \notin 1..(cursor - 1)
  BY <1>1, <1>2
<1>4. order[cursor] \in Speaking /\ Served \subseteq Speaking /\ order[cursor] \notin Served
  BY <1>1, <1>3 DEF Speaking, Served
<1>5. \A a \in Speaking : /\ a \in Agents /\ Team(a) = Team(order[cursor])
                          /\ Team(a) \notin spoke
  BY <1>1, <1>2 DEF Speaking
<1> QED
  BY <1>1, <1>2, <1>4, <1>5

\* A turn: who has had his, and what happens after the last one.
LEMMA AdvanceOK ==
  ASSUME GroupOK, round # "none", Advance
  PROVE  /\ GroupOK' /\ Speaking' = Speaking
         /\ LastTurn => /\ round' = AfterRound(round)
                        /\ Speaking = Served \cup {order[cursor]}
                        /\ Served' = {}
         /\ ~LastTurn => round' = round /\ Served' = Served \cup {order[cursor]}
         /\ spoke' = IF round' = "none" THEN spoke \cup {Team(order[cursor])} ELSE spoke
<1>1. Len(order) \in Nat /\ cursor \in 1..Len(order) /\ round \in Rounds
  BY Speaker
<1>2. /\ order' = order
      /\ cursor' = IF LastTurn THEN 1 ELSE cursor + 1
      /\ round' = IF LastTurn THEN AfterRound(round) ELSE round
      /\ spoke' = IF round' = "none" THEN spoke \cup {Team(order[cursor])} ELSE spoke
  BY DEF Advance
<1>3. Speaking' = Speaking
  BY <1>2 DEF Speaking
<1>4. AfterRound(round) \in Rounds \cup {"none"}
  BY <1>1 DEF Rounds, AfterRound
<1>5. GroupOK'
  <2>1. round' \in Rounds \cup {"none"}
    BY <1>1, <1>2, <1>4
  <2>2. cursor' \in 1..Len(order)
    BY <1>1, <1>2 DEF LastTurn
  <2>3. CASE round' # "none"
    <3>1. spoke' = spoke
      BY <1>2, <2>3
    <3> QED
      BY <1>2, <2>1, <2>2, <2>3, <3>1 DEF GroupOK
  <2>4. CASE round' = "none"
    BY <2>4 DEF GroupOK
  <2> QED
    BY <2>3, <2>4
<1>6. CASE LastTurn
  <2>1. cursor = Len(order) /\ cursor' = 1 /\ round' = AfterRound(round)
    BY <1>2, <1>6 DEF LastTurn
  <2>2. 1..Len(order) = 1..(cursor - 1) \cup {cursor} /\ 1..(cursor' - 1) = {}
    BY <1>1, <2>1
  <2>3. Speaking = Served \cup {order[cursor]}
    BY <2>2 DEF Speaking, Served
  <2>4. Served' = {}
    BY <2>2 DEF Served
  <2> QED
    BY <1>2, <1>3, <1>5, <1>6, <2>1, <2>3, <2>4
<1>7. CASE ~LastTurn
  <2>1. cursor' = cursor + 1 /\ round' = round
    BY <1>2, <1>7
  <2>2. 1..(cursor' - 1) = 1..(cursor - 1) \cup {cursor}
    BY <1>1, <2>1
  <2>3. Served' = Served \cup {order[cursor]}
    BY <1>2, <2>2 DEF Served
  <2> QED
    BY <1>2, <1>3, <1>5, <1>7, <2>1, <2>3
<1> QED
  BY <1>6, <1>7

LEMMA GroupAtRest ==
  ASSUME GroupOK, UNCHANGED <<round, order, cursor>>, spoke' = spoke \/ round = "none"
  PROVE  GroupOK' /\ Speaking' = Speaking /\ Served' = Served
<1>1. Speaking' = Speaking /\ Served' = Served
  BY DEF Speaking, Served
<1>2. GroupOK'
  BY DEF GroupOK
<1> QED
  BY <1>1, <1>2

-------------------------------------------------------------------------------
(* The wrappers of a single team *)

\* What the wrapper knows of its caller, and when the agents may talk.
WrapperOK ==
  /\ wrapper \in {"multi", "single"} /\ in_step \in BOOLEAN /\ loose \in BOOLEAN
  /\ learners \subseteq Cameras /\ (wrapper = "multi" => learners = Cameras)
  /\ round # "none" =>
       /\ Speaking \subseteq InGroups
       /\ \A a \in Speaking, b \in InGroups : Team(a) = Team(b) => b \in Speaking
       /\ ~in_step => wrapper = "multi" /\ Speaking \subseteq Cameras
  /\ wrapper = "single" /\ Cameras \in spoke => in_step

SeatsOK == GroupOK /\ WrapperOK

\* Inside step() the groups of the agents talk, outside of it the learners'.
Starts(group) ==
  \/ group \in {Teammates, Targets} /\ in_step
  \/ group = learners /\ wrapper = "multi"

LEMMA WrapperBegins ==
  ASSUME SeatsOK, NEW group, BeginGroup(group), UNCHANGED wrapper_vars, Starts(group)
  PROVE  SeatsOK'
<1>1. /\ wrapper' = wrapper /\ learners' = learners /\ in_step' = in_step /\ loose' = loose
      /\ InGroups' = InGroups
  BY DEF wrapper_vars, InGroups
<1>2. group \subseteq Cameras \/ group \subseteq Targets
  BY DEF Starts, SeatsOK, WrapperOK, Teammates
<1>3. /\ GroupOK' /\ Speaking' = group
      /\ group # {} /\ group \subseteq Agents
      /\ round' = "send_requests" /\ spoke' = spoke
  BY <1>2, BeginGroupOK
<1>4. group \subseteq InGroups
  BY <1>3, TeamOf, ChannelAssumption
  DEF Starts, SeatsOK, WrapperOK, Teammates, InGroups, TeamsDisjoint
<1>5. \A a \in group, b \in InGroups : Team(a) = Team(b) => b \in group
  <2> SUFFICES ASSUME NEW a \in group, NEW b \in InGroups, Team(a) = Team(b) PROVE b \in group
    OBVIOUS
  <2>1. a \in Agents /\ b \in Agents /\ b \in Team(a)
    BY <1>3, TeamOf DEF InGroups
  <2>2. CASE a \in Targets
    <3>1. group = Targets
      BY <1>2, <2>2, ChannelAssumption DEF Starts, SeatsOK, WrapperOK, Teammates, TeamsDisjoint
    <3> QED
      BY <2>1, <2>2, <3>1, TeamOf
  <2>3. CASE a \in Cameras
    <3>1. b \in Cameras
      BY <2>1, <2>3, TeamOf
    <3>2. group = Teammates \/ group = Cameras
      BY <2>3, ChannelAssumption DEF Starts, SeatsOK, WrapperOK, TeamsDisjoint
    <3> QED
      BY <2>3, <3>1, <3>2 DEF Teammates, InGroups
  <2> QED
    BY <2>1, <2>2, <2>3 DEF Agents
<1>6. ~in_step => wrapper = "multi" /\ group \subseteq Cameras
  BY DEF Starts, SeatsOK, WrapperOK
<1> QED
  BY <1>1, <1>3, <1>4, <1>5, <1>6 DEF SeatsOK, WrapperOK

\* A turn that is not the caller's leaves the wrapper alone.
LEMMA WrapperAdvances ==
  ASSUME SeatsOK, round # "none", Advance, UNCHANGED wrapper_vars
  PROVE  SeatsOK'
<1>1. /\ wrapper' = wrapper /\ learners' = learners /\ in_step' = in_step /\ loose' = loose
      /\ InGroups' = InGroups
  BY DEF wrapper_vars, InGroups
<1>2. /\ GroupOK' /\ Speaking' = Speaking
      /\ spoke' = IF round' = "none" THEN spoke \cup {Team(order[cursor])} ELSE spoke
  BY AdvanceOK DEF SeatsOK
<1>3. wrapper = "single" => in_step
  BY DEF SeatsOK, WrapperOK
<1> QED
  BY <1>1, <1>2, <1>3 DEF SeatsOK, WrapperOK

LEMMA WrapperAtRest ==
  ASSUME SeatsOK, UNCHANGED <<group_vars, wrapper, learners>>, round = "none" \/ in_step' = in_step,
         loose' \in BOOLEAN, in_step' \in BOOLEAN, in_step => in_step'
  PROVE  SeatsOK'
<1>1. GroupOK' /\ Speaking' = Speaking /\ Served' = Served /\ InGroups' = InGroups
  BY GroupAtRest DEF SeatsOK, group_vars, InGroups
<1> QED
  BY <1>1 DEF SeatsOK, WrapperOK, group_vars

LEMMA InitSeats == WrapperInit => SeatsOK
BY DEF WrapperInit, GroupInit, SeatsOK, GroupOK, WrapperOK

LEMMA NextSeats ==
  ASSUME SeatsOK, [WrapperNext]_all_vars
  PROVE  SeatsOK'
<1>1. loose \in BOOLEAN /\ in_step \in BOOLEAN
  BY DEF SeatsOK, WrapperOK
<1>2. CASE LearnerSends
  BY <1>1, <1>2, WrapperAtRest DEF LearnerSends, CallersTurn
<1>3. CASE LearnerReads
  BY <1>1, <1>3, WrapperAtRest DEF LearnerReads, CallersTurn
<1>4. CASE TeamPeeks
  BY <1>1, <1>4, WrapperAtRest DEF TeamPeeks, CallersTurn
<1>5. CASE LearnersTalk
  <2>1. BeginGroup(learners) /\ Starts(learners) /\ UNCHANGED wrapper_vars
    BY <1>5 DEF LearnersTalk, Starts
  <2> QED
    BY <2>1, WrapperBegins
<1>6. CASE CallStep
  BY <1>1, <1>6, WrapperAtRest DEF CallStep, CallersTurn, vars
<1>7. CASE GroupTalks
  <2>1. \E group \in {Teammates, Targets} :
          BeginGroup(group) /\ Starts(group) /\ UNCHANGED wrapper_vars
    BY <1>7 DEF GroupTalks, Starts
  <2> QED
    BY <2>1, WrapperBegins
<1>8. CASE Converse
  <2>1. CASE AgentSends
    BY <1>1, <1>8, <2>1, WrapperAtRest DEF AgentSends, Converse, wrapper_vars
  <2>2. CASE AgentHasSent \/ AgentReadsRequests \/ AgentReadsResponses
    BY <1>8, <2>2, WrapperAdvances
    DEF AgentHasSent, AgentReadsRequests, AgentReadsResponses, Converse
  <2> QED
    BY <1>8, <2>1, <2>2 DEF Converse
<1>9. CASE StepReturns
  <2>1. GroupOK'
    BY <1>9, GroupAtRest DEF StepReturns, StepEnv, SeatsOK
  <2>2. round' = "none" /\ spoke' = {}
    BY <1>9 DEF StepReturns, StepEnv
  <2> QED
    BY <1>9, <2>1, <2>2 DEF StepReturns, SeatsOK, WrapperOK
<1>10. CASE ResetWrapper
  <2>1. GroupOK'
    BY <1>10, GroupAtRest DEF ResetWrapper, ResetEnv, SeatsOK
  <2>2. round' = "none" /\ spoke' = {}
    BY <1>10 DEF ResetWrapper, ResetEnv
  <2>3. learners' \subseteq Cameras /\ (wrapper' = "multi" => learners' = Cameras)
    BY <1>10 DEF ResetWrapper, SeatsOK, WrapperOK
  <2> QED
    BY <1>10, <2>1, <2>2, <2>3 DEF ResetWrapper, SeatsOK, WrapperOK
<1>11. CASE UNCHANGED all_vars
  BY <1>1, <1>11, WrapperAtRest DEF all_vars, vars, wrapper_vars
<1> QED
  BY <1>2, <1>3, <1>4, <1>5, <1>6, <1>7, <1>8, <1>9, <1>10, <1>11 DEF WrapperNext

LEMMA SeatsInvariance == WrapperSpec => []SeatsOK
<1>1. SeatsOK /\ [WrapperNext]_all_vars => SeatsOK'
  BY NextSeats
<1> QED
  BY InitSeats, <1>1, PTL DEF WrapperSpec

\* Inside a group's communication the channel sees a send of one agent or the
\* read of one.
LEMMA ConverseUsesChannel ==
  ASSUME GroupOK, round # "none",
         AgentSends \/ AgentHasSent \/ AgentReadsRequests \/ AgentReadsResponses
  PROVE  [Next]_channel_vars
<1>1. order[cursor] \in Agents
  BY Speaker
<1>2. CASE AgentSends
  BY <1>1, <1>2 DEF AgentSends, Next, SendMessage
<1>3. CASE AgentHasSent
  BY <1>3 DEF AgentHasSent
<1>4. CASE AgentReadsRequests \/ AgentReadsResponses
  BY <1>1, <1>4 DEF AgentReadsRequests, AgentReadsResponses, Next, ReceiveOne
<1> QED
  BY <1>2, <1>3, <1>4

LEMMA WrapperUsesChannel ==
  ASSUME SeatsOK, [WrapperNext]_all_vars
  PROVE  [Next]_channel_vars
<1>1. learners \subseteq Agents
  BY TeamOf DEF SeatsOK, WrapperOK
<1>2. CASE LearnerSends
  BY <1>1, <1>2 DEF LearnerSends, Next, SendMessage
<1>3. CASE LearnerReads
  BY <1>1, <1>3 DEF LearnerReads, Next, ReceiveOne
<1>4. CASE Converse
  <2>1. round # "none"
    BY <1>4 DEF Converse, AgentSends, AgentHasSent, AgentReadsRequests, AgentReadsResponses
  <2> QED
    BY <1>4, <2>1, ConverseUsesChannel DEF Converse, SeatsOK
<1>5. CASE StepReturns \/ ResetWrapper
  BY <1>5 DEF StepReturns, ResetWrapper, StepEnv, ResetEnv, Next
<1>6. CASE TeamPeeks \/ LearnersTalk \/ CallStep \/ GroupTalks \/ UNCHANGED all_vars
  BY <1>6 DEF TeamPeeks, Peek, LearnersTalk, BeginGroup, CallStep, GroupTalks, all_vars, vars,
              channel_vars
<1> QED
  BY <1>2, <1>3, <1>4, <1>5, <1>6 DEF WrapperNext

\* Whatever the wrappers SingleTeamMultiAgent and SingleTeamSingleAgent do with
\* send_messages() and receive_messages() is a use of the environment's channel.
THEOREM WrapperImplementsChannel == WrapperSpec => Spec
<1>1. WrapperInit => Init
  BY DEF WrapperInit, GroupInit
<1>2. SeatsOK /\ [WrapperNext]_all_vars => [Next]_channel_vars
  BY WrapperUsesChannel
<1> QED
  BY <1>1, <1>2, SeatsInvariance, PTL DEF WrapperSpec, Spec

-------------------------------------------------------------------------------
(* What the caller is told, and what was taken out of the queues *)

ToldOK ==
  /\ DOMAIN told = Agents
  /\ in_step => told = ToldNothing
  /\ \A a \in learners :
       /\ told[a] \subseteq Elements(buffer[a])
       /\ Cameras \notin spoke /\ CallersTurn => Elements(read[a]) \subseteq told[a]

LEMMA ElementsOfSeq ==
  /\ Elements(<<>>) = {}
  /\ \A S : \A s \in Seq(S) : Elements(s) = {s[i] : i \in 1..Len(s)} /\ Elements(s) \subseteq S
<1>1. Elements(<<>>) = {}
  BY DEF Elements
<1>2. ASSUME NEW S, NEW s \in Seq(S)
      PROVE  Elements(s) = {s[i] : i \in 1..Len(s)} /\ Elements(s) \subseteq S
  <2>1. DOMAIN s = 1..Len(s) /\ \A i \in 1..Len(s) : s[i] \in S
    BY LenProperties, ElementOfSeq
  <2> QED
    BY <2>1 DEF Elements
<1> QED
  BY <1>1, <1>2

LEMMA ElementsAppend ==
  ASSUME NEW S, NEW s \in Seq(S), NEW e \in S
  PROVE  Elements(Append(s, e)) = Elements(s) \cup {e}
<1> DEFINE u == Append(s, e)
           n == Len(s)
<1>1. /\ u \in Seq(S) /\ Len(u) = n + 1 /\ n \in Nat
      /\ \A i \in 1..n : u[i] = s[i]
      /\ u[n + 1] = e
  BY AppendProperties, LenProperties
<1> HIDE DEF u
<1>2. Elements(u) = {u[i] : i \in 1..(n + 1)}
  BY <1>1, ElementsOfSeq
<1>3. Elements(s) = {s[i] : i \in 1..n}
  BY ElementsOfSeq
<1> HIDE DEF n
<1>4. 1..(n + 1) = 1..n \cup {n + 1}
  BY <1>1
<1>5. Elements(u) = Elements(s) \cup {e}
  BY <1>1, <1>2, <1>3, <1>4
<1> QED
  BY <1>5 DEF u

LEMMA ElementsConcat ==
  ASSUME NEW S, NEW s \in Seq(S), NEW t \in Seq(S)
  PROVE  Elements(s \o t) = Elements(s) \cup Elements(t)
<1> DEFINE u == s \o t
           m == Len(s)
           n == Len(t)
<1>1. m \in Nat /\ n \in Nat
  BY LenProperties
<1>2. /\ u \in Seq(S) /\ Len(u) = m + n
      /\ \A i \in 1..(m + n) : u[i] = IF i <= m THEN s[i] ELSE t[i - m]
  BY ConcatProperties
<1> HIDE DEF u
<1>3. Elements(u) = {u[i] : i \in 1..(m + n)}
  BY <1>2, ElementsOfSeq
<1>4. Elements(s) = {s[i] : i \in 1..m} /\ Elements(t) = {t[i] : i \in 1..n}
  BY ElementsOfSeq
<1> HIDE DEF m, n
<1>5. ASSUME NEW i \in 1..m PROVE s[i] \in Elements(u)
  <2>1. i \in 1..(m + n) /\ i <= m
    BY <1>1
  <2>2. u[i] = s[i]
    BY <1>2, <2>1
  <2> QED
    BY <1>3, <2>1, <2>2
<1>6. ASSUME NEW i \in 1..n PROVE t[i] \in Elements(u)
  <2> DEFINE k == i + m
  <2>1. k \in 1..(m + n) /\ ~(k <= m) /\ k - m = i
    BY <1>1
  <2> HIDE DEF k
  <2>2. u[k] = t[i]
    BY <1>2, <2>1
  <2> QED
    BY <1>3, <2>1, <2>2
<1>7. ASSUME NEW i \in 1..(m + n) PROVE u[i] \in Elements(s) \cup Elements(t)
  <2>1. CASE i <= m
    <3>1. i \in 1..m /\ u[i] = s[i]
      BY <1>1, <1>2, <2>1
    <3> QED
      BY <1>4, <3>1
  <2>2. CASE ~(i <= m)
    <3>1. i - m \in 1..n /\ u[i] = t[i - m]
      BY <1>1, <1>2, <2>2
    <3> QED
      BY <1>4, <3>1
  <2> QED
    BY <2>1, <2>2
<1>8. Elements(u) = Elements(s) \cup Elements(t)
  BY <1>3, <1>4, <1>5, <1>6, <1>7
<1> QED
  BY <1>8 DEF u

\* What is in a buffer was read or is unread.
LEMMA BufferElements ==
  ASSUME ChannelInv, NEW a \in Agents
  PROVE  Elements(buffer[a]) = Elements(read[a]) \cup Elements(queue[a])
<1>1. read[a] \in Seq(Mail(a)) /\ queue[a] \in Seq(Mail(a))
  BY DEF ChannelInv, ChannelTypeOK, Boxed
<1>2. buffer[a] = read[a] \o queue[a]
  BY DEF ChannelInv, ReadOnceInOrder
<1> QED
  BY <1>1, <1>2, ElementsConcat

\* A message may be added to a buffer, never taken away before the step.
LEMMA SendAddsElements ==
  ASSUME ChannelInv,
         NEW s \in Agents, NEW m \in Packed(s), NEW p \in Passing(m), Send(m, p),
         NEW a \in Agents
  PROVE  /\ Elements(buffer[a]) \subseteq Elements(buffer'[a])
         /\ Elements(queue'[a]) \subseteq Elements(queue[a]) \cup {Routed(m, a)}
         /\ a \notin Team(s) => queue'[a] = queue[a] /\ buffer'[a] = buffer[a]
         /\ read' = read
<1>0. Delivered(m, p)
  BY SendDelivers DEF ChannelInv
<1>1. queue[a] \in Seq(Mail(a)) /\ buffer[a] \in Seq(Mail(a))
  BY DEF ChannelInv, ChannelTypeOK, Boxed
<1>2. read' = read
  BY <1>0 DEF Delivered
<1>3. CASE a \in p
  <2>1. Routed(m, a) \in Mail(a)
    BY <1>3, RoutedIsMail
  <2>2. queue'[a] = Append(queue[a], Routed(m, a)) /\ buffer'[a] = Append(buffer[a], Routed(m, a))
    BY <1>3, <1>0 DEF Delivered
  <2>3. a \in Team(s)
    BY <1>3, PackedFields, TeamOf DEF Passing, Addressees
  <2>4. /\ Elements(queue'[a]) = Elements(queue[a]) \cup {Routed(m, a)}
        /\ Elements(buffer'[a]) = Elements(buffer[a]) \cup {Routed(m, a)}
    BY <1>1, <2>1, <2>2, ElementsAppend
  <2> QED
    BY <1>2, <2>3, <2>4
<1>4. CASE a \notin p
  <2>1. queue'[a] = queue[a] /\ buffer'[a] = buffer[a]
    BY <1>4, <1>0 DEF Delivered
  <2> QED
    BY <1>2, <2>1
<1> QED
  BY <1>3, <1>4

\* What a Receive does to one agent.
LEMMA ReceiveOf ==
  ASSUME NEW who, Receive(who), NEW a \in Agents
  PROVE  /\ buffer' = buffer
         /\ a \in who => read'[a] = read[a] \o queue[a] /\ queue'[a] = <<>>
         /\ a \notin who => read'[a] = read[a] /\ queue'[a] = queue[a]
BY DEF Receive

LEMMA InitTold == WrapperInit => ToldOK
<1> SUFFICES ASSUME WrapperInit PROVE ToldOK
  OBVIOUS
<1>1. told = ToldNothing /\ in_step = FALSE /\ learners \subseteq Agents /\ read = NoMessages
  BY TeamOf DEF WrapperInit, GroupInit, Init
<1>2. \A a \in Agents : told[a] = {} /\ read[a] = <<>>
  BY <1>1 DEF ToldNothing, NoMessages
<1>3. DOMAIN told = Agents
  BY <1>1 DEF ToldNothing
<1> QED
  BY <1>1, <1>2, <1>3, ElementsOfSeq DEF ToldOK

LEMMA NextTold ==
  ASSUME SeatsOK, ChannelInv, ToldOK, [WrapperNext]_all_vars
  PROVE  ToldOK'
<1>1. learners \subseteq Agents /\ learners \subseteq Cameras
  BY TeamOf DEF SeatsOK, WrapperOK
<1>2. /\ DOMAIN told = Agents
      /\ \A a \in learners :
           /\ told[a] \subseteq Elements(buffer[a])
           /\ Cameras \notin spoke /\ CallersTurn => Elements(read[a]) \subseteq told[a]
  BY DEF ToldOK
<1>3. CASE LearnerSends
  <2>1. PICK s \in learners : \E m \in Packed(s) : \E p \in Passing(m) : Send(m, p)
    BY <1>3 DEF LearnerSends
  <2>2. \A a \in learners : Elements(buffer[a]) \subseteq Elements(buffer'[a]) /\ read' = read
    BY <1>1, <2>1, SendAddsElements
  <2>3. /\ CallersTurn /\ ~in_step' /\ spoke' = spoke /\ told' = told /\ learners' = learners
    BY <1>3 DEF LearnerSends, CallersTurn, group_vars
  <2> QED
    BY <1>2, <2>2, <2>3 DEF ToldOK
<1>4. CASE LearnerReads
  <2>1. PICK s \in learners : /\ Receive({s})
                              /\ told' = [told EXCEPT ![s] = @ \cup Elements(queue[s])]
    BY <1>4 DEF LearnerReads
  <2>2. /\ CallersTurn /\ ~in_step' /\ spoke' = spoke /\ learners' = learners
        /\ DOMAIN told' = Agents
    BY <1>2, <1>4, <2>1 DEF LearnerReads, CallersTurn, group_vars
  <2>3. ASSUME NEW a \in learners
        PROVE  /\ told'[a] \subseteq Elements(buffer'[a])
               /\ Cameras \notin spoke => Elements(read'[a]) \subseteq told'[a]
    <3>1. Elements(buffer[a]) = Elements(read[a]) \cup Elements(queue[a])
      BY <1>1, BufferElements
    <3>2. /\ buffer'[a] = buffer[a]
          /\ a = s => read'[a] = read[a] \o queue[a]
          /\ a # s => read'[a] = read[a]
      <4>1. Receive({s}) /\ a \in Agents
        BY <1>1, <2>1
      <4>2. a \in {s} <=> a = s
        OBVIOUS
      <4> QED
        BY <4>1, <4>2, ReceiveOf
    <3>3. told'[a] = IF a = s THEN told[a] \cup Elements(queue[a]) ELSE told[a]
      BY <1>1, <1>2, <2>1
    <3>4. Elements(read[a] \o queue[a]) = Elements(read[a]) \cup Elements(queue[a])
      BY <1>1, ElementsConcat DEF ChannelInv, ChannelTypeOK, Boxed
    <3> QED
      BY <1>2, <2>2, <3>1, <3>2, <3>3, <3>4
  <2> QED
    BY <2>2, <2>3 DEF ToldOK
<1>5. CASE TeamPeeks
  <2>1. /\ CallersTurn /\ ~in_step' /\ spoke' = spoke /\ learners' = learners
        /\ read' = read /\ buffer' = buffer
        /\ told' = [a \in Agents |-> IF a \in learners THEN told[a] \cup Elements(buffer[a])
                                     ELSE told[a]]
    BY <1>5 DEF TeamPeeks, Peek, CallersTurn, group_vars, channel_vars
  <2>2. \A a \in learners : told'[a] = told[a] \cup Elements(buffer[a])
    BY <1>1, <2>1
  <2>3. DOMAIN told' = Agents
    BY <2>1
  <2> QED
    BY <1>2, <2>1, <2>2, <2>3 DEF ToldOK
<1>6. CASE LearnersTalk \/ GroupTalks
  <2>1. /\ round' # "none" /\ in_step' = in_step /\ told' = told /\ learners' = learners
        /\ buffer' = buffer
    BY <1>6 DEF LearnersTalk, GroupTalks, BeginGroup, wrapper_vars, channel_vars
  <2> QED
    BY <1>2, <2>1 DEF ToldOK, CallersTurn
<1>7. CASE CallStep
  <2>1. in_step' /\ told' = ToldNothing /\ learners' = learners
    BY <1>7 DEF CallStep
  <2>2. DOMAIN told' = Agents /\ \A a \in Agents : told'[a] = {}
    BY <2>1 DEF ToldNothing
  <2> QED
    BY <1>1, <2>1, <2>2 DEF ToldOK, CallersTurn
<1>8. CASE Converse
  <2>1. round # "none" /\ UNCHANGED wrapper_vars
    BY <1>8 DEF Converse, AgentSends, AgentHasSent, AgentReadsRequests, AgentReadsResponses
  <2>2. in_step' = in_step /\ told' = told /\ learners' = learners
    BY <2>1 DEF wrapper_vars
  <2>3. order[cursor] \in Agents /\ order[cursor] \in Speaking
    BY <2>1, Speaker DEF SeatsOK
  <2>4. \A a \in learners : Elements(buffer[a]) \subseteq Elements(buffer'[a])
    <3>1. CASE AgentSends
      <4>1. \E m \in Packed(order[cursor]) : \E p \in Passing(m) : Send(m, p)
        BY <3>1 DEF AgentSends
      <4> QED
        BY <1>1, <2>3, <4>1, SendAddsElements
    <3>2. CASE AgentHasSent \/ AgentReadsRequests \/ AgentReadsResponses
      BY <3>2 DEF AgentHasSent, AgentReadsRequests, AgentReadsResponses, Receive, channel_vars
    <3> QED
      BY <1>8, <3>1, <3>2 DEF Converse
  <2>5. round' = "none" /\ ~in_step => Cameras \in spoke'
    <3>1. CASE AgentSends
      BY <2>1, <3>1 DEF AgentSends, group_vars
    <3>2. CASE AgentHasSent \/ AgentReadsRequests \/ AgentReadsResponses
      <4>1. Advance
        BY <3>2 DEF AgentHasSent, AgentReadsRequests, AgentReadsResponses
      <4>2. round' = "none" => Team(order[cursor]) \in spoke'
        BY <2>1, <4>1, AdvanceOK DEF SeatsOK
      <4>3. ~in_step => order[cursor] \in Cameras
        BY <2>1, <2>3 DEF SeatsOK, WrapperOK
      <4> QED
        BY <4>2, <4>3, TeamOf
    <3> QED
      BY <1>8, <3>1, <3>2 DEF Converse
  <2> QED
    BY <1>2, <2>2, <2>4, <2>5 DEF ToldOK, CallersTurn
<1>9. CASE StepReturns
  <2>1. in_step /\ ~in_step' /\ told' = told /\ learners' = learners /\ read' = NoMessages
    BY <1>9 DEF StepReturns, StepEnv, EnvStep
  <2>2. \A a \in Agents : told[a] = {} /\ read'[a] = <<>>
    BY <2>1 DEF ToldOK, ToldNothing, NoMessages
  <2> QED
    BY <1>1, <1>2, <2>1, <2>2, ElementsOfSeq DEF ToldOK
<1>10. CASE ResetWrapper
  <2>1. told' = ToldNothing /\ ~in_step' /\ read' = NoMessages
    BY <1>10 DEF ResetWrapper, ResetEnv, EnvReset, CallersTurn
  <2>2. learners' \subseteq Agents
    BY <1>1, <1>10, TeamOf DEF ResetWrapper
  <2>3. \A a \in Agents : told'[a] = {} /\ read'[a] = <<>>
    BY <2>1 DEF ToldNothing, NoMessages
  <2>4. DOMAIN told' = Agents
    BY <2>1 DEF ToldNothing
  <2> QED
    BY <2>1, <2>2, <2>3, <2>4, ElementsOfSeq DEF ToldOK
<1>11. CASE UNCHANGED all_vars
  BY <1>11 DEF all_vars, vars, channel_vars, group_vars, wrapper_vars, ToldOK, CallersTurn
<1> QED
  BY <1>3, <1>4, <1>5, <1>6, <1>7, <1>8, <1>9, <1>10, <1>11 DEF WrapperNext

LEMMA WrapperChannel == WrapperSpec => []ChannelInv
BY WrapperImplementsChannel, ChannelInvariance, PTL

\* However a caller mixes receive_messages() with an agent and without one, he is
\* told of everything that is taken out of the queues of his learners.
THEOREM NothingMissed == WrapperSpec => []LearnersMissNothing
<1>1. SeatsOK /\ ChannelInv /\ ToldOK => LearnersMissNothing
  <2> SUFFICES ASSUME SeatsOK, ChannelInv, ToldOK, NEW a \in learners
               PROVE  /\ told[a] \subseteq Elements(buffer[a])
                      /\ Cameras \notin spoke /\ CallersTurn =>
                           Elements(buffer[a]) \subseteq told[a] \cup Elements(queue[a])
    BY DEF LearnersMissNothing
  <2>1. a \in Agents
    BY TeamOf DEF SeatsOK, WrapperOK
  <2>2. Elements(buffer[a]) = Elements(read[a]) \cup Elements(queue[a])
    BY <2>1, BufferElements
  <2> QED
    BY <2>2 DEF ToldOK
<1>2. SeatsOK /\ ChannelInv /\ ToldOK /\ [WrapperNext]_all_vars => ToldOK'
  BY NextTold
<1> QED
  BY <1>1, <1>2, InitTold, SeatsInvariance, WrapperChannel, PTL DEF WrapperSpec

-------------------------------------------------------------------------------
(* The stages of an agent's communication in a step: it has read nothing yet,  *)
(* or the requests, or also the responses.                                    *)

Asked(a) ==
  \/ Team(a) \in spoke
  \/ a \in Speaking /\ round \in {"send_responses", "receive_responses"}
  \/ a \in Speaking /\ round = "receive_requests" /\ a \in Served
Answered(a) ==
  \/ Team(a) \in spoke
  \/ a \in Speaking /\ round = "receive_responses" /\ a \in Served

\* Requests may be mixed with what the caller's learners sent before, responses not.
SayRequests(messages, outside) == Says(Of(messages, Agents \ outside), "request")
SayResponses(messages, others) == Says(Elements(messages), "response") /\ Of(messages, others) = {}
Outside == IF loose THEN learners ELSE {}
OutOfGroups == IF wrapper = "single" THEN learners ELSE {}
Undisturbed(a) == a \in learners => ~loose

\* What may be in the queue of an agent, and what it has read, at each of the stages.
StageOK(a) ==
  /\ ~Asked(a) => /\ SayRequests(queue[a], Outside)
                  /\ Undisturbed(a) => read[a] = <<>>
  /\ Asked(a) => SayRequests(last_requests[a], Outside)
  /\ Asked(a) /\ ~Answered(a) => /\ SayResponses(queue[a], OutOfGroups)
                                 /\ Undisturbed(a) => read[a] = last_requests[a]
  /\ Answered(a) => /\ SayResponses(last_responses[a], OutOfGroups)
                    /\ Undisturbed(a) => /\ read[a] = last_requests[a] \o last_responses[a]
                                         /\ queue[a] = <<>>
StagesOK ==
  /\ Boxed(last_requests) /\ Boxed(last_responses)
  /\ \A a \in InGroups : StageOK(a)

LEMMA SayNothing ==
  ASSUME NEW o
  PROVE  SayRequests(<<>>, o) /\ SayResponses(<<>>, o)
BY ElementsOfSeq DEF SayRequests, SayResponses, Says, Of

LEMMA SayOneMore ==
  ASSUME NEW s, NEW t, NEW e, Elements(t) \subseteq Elements(s) \cup {e}, NEW o
  PROVE  /\ SayRequests(s, o) /\ (e.sender \in o \/ e.content = "request") => SayRequests(t, o)
         /\ SayResponses(s, o) /\ e.content = "response" /\ e.sender \notin o => SayResponses(t, o)
BY DEF SayRequests, SayResponses, Says, Of

LEMMA SayFewer ==
  ASSUME NEW s, NEW o, NEW more, o \subseteq more, SayRequests(s, o)
  PROVE  SayRequests(s, more)
BY DEF SayRequests, Says, Of

LEMMA RoutedFields ==
  ASSUME NEW s \in Agents, NEW m \in Packed(s), NEW r
  PROVE  Routed(m, r).sender = s /\ Routed(m, r).content = m.content
<1>1. m \in Message /\ m.sender = s
  BY PackedFields
<1> QED
  BY <1>1 DEF Routed, Message

\* The turn of an agent is what changes its stage, and nothing else does.
LEMMA AdvanceStages ==
  ASSUME SeatsOK, round # "none", Advance, NEW a \in InGroups
  PROVE  /\ Asked(a)' <=> Asked(a) \/ (round = "receive_requests" /\ a = order[cursor])
         /\ Answered(a)' <=> Answered(a) \/ (round = "receive_responses" /\ a = order[cursor])
<1>1. /\ Speaking' = Speaking
      /\ LastTurn => /\ round' = AfterRound(round)
                     /\ Speaking = Served \cup {order[cursor]}
                     /\ Served' = {}
      /\ ~LastTurn => round' = round /\ Served' = Served \cup {order[cursor]}
      /\ spoke' = IF round' = "none" THEN spoke \cup {Team(order[cursor])} ELSE spoke
  BY AdvanceOK DEF SeatsOK
<1>2. round \in Rounds /\ order[cursor] \in Speaking
  BY Speaker DEF SeatsOK
<1>3. a \in Speaking <=> Team(a) = Team(order[cursor])
  BY <1>2, Speaker DEF SeatsOK, WrapperOK
<1>4. CASE ~LastTurn
  <2>1. round' = round /\ Served' = Served \cup {order[cursor]} /\ spoke' = spoke
    BY <1>1, <1>4
  <2> QED
    BY <1>1, <1>2, <2>1 DEF Asked, Answered
<1>5. CASE LastTurn
  <2>1. /\ round' = AfterRound(round) /\ Speaking = Served \cup {order[cursor]}
        /\ Served' = {} /\ Speaking' = Speaking
    BY <1>1, <1>5
  <2>2. CASE round = "send_requests"
    <3>1. round' = "receive_requests" /\ spoke' = spoke
      BY <1>1, <2>1, <2>2 DEF AfterRound
    <3> QED
      BY <2>1, <2>2, <3>1 DEF Asked, Answered
  <2>3. CASE round = "receive_requests"
    <3>1. round' = "send_responses" /\ spoke' = spoke
      BY <1>1, <2>1, <2>3 DEF AfterRound
    <3> QED
      BY <2>1, <2>3, <3>1 DEF Asked, Answered
  <2>4. CASE round = "send_responses"
    <3>1. round' = "receive_responses" /\ spoke' = spoke
      BY <1>1, <2>1, <2>4 DEF AfterRound
    <3> QED
      BY <2>1, <2>4, <3>1 DEF Asked, Answered
  <2>5. CASE round = "receive_responses"
    <3>1. round' = "none" /\ spoke' = spoke \cup {Team(order[cursor])}
      BY <1>1, <2>1, <2>5 DEF AfterRound
    <3> QED
      BY <1>3, <2>1, <2>5, <3>1 DEF Asked, Answered
  <2> QED
    BY <1>2, <2>2, <2>3, <2>4, <2>5 DEF Rounds
<1> QED
  BY <1>4, <1>5

LEMMA StagesAtRest ==
  ASSUME UNCHANGED <<round, order, cursor, spoke>>, NEW a
  PROVE  (Asked(a)' <=> Asked(a)) /\ (Answered(a)' <=> Answered(a))
<1>1. Speaking' = Speaking /\ Served' = Served
  BY DEF Speaking, Served
<1> QED
  BY <1>1 DEF Asked, Answered

\* Between two groups a stage is a matter of the team.
LEMMA StagesBetween ==
  ASSUME round = "none", NEW a
  PROVE  (Asked(a) <=> Team(a) \in spoke) /\ (Answered(a) <=> Team(a) \in spoke)
BY DEF Asked, Answered

\* An agent whose mailbox no one touches; the caller may do something on his own.
LEMMA StageKept ==
  ASSUME NEW a \in InGroups, StageOK(a),
         Asked(a)' <=> Asked(a), Answered(a)' <=> Answered(a),
         queue'[a] = queue[a], read'[a] = read[a],
         last_requests'[a] = last_requests[a], last_responses'[a] = last_responses[a],
         wrapper' = wrapper, learners' = learners, loose => loose'
  PROVE  StageOK(a)'
<1>1. OutOfGroups' = OutOfGroups /\ Outside \subseteq Outside'
  BY DEF OutOfGroups, Outside
<1>2. \A s : SayRequests(s, Outside) => SayRequests(s, Outside')
  BY <1>1, SayFewer
<1>3. Undisturbed(a)' => Undisturbed(a)
  BY DEF Undisturbed
<1> QED
  BY <1>1, <1>2, <1>3 DEF StageOK

LEMMA StagesLearnerSends ==
  ASSUME SeatsOK, ChannelInv, StagesOK, LearnerSends, NEW a \in InGroups
  PROVE  StageOK(a)'
<1>1. PICK s \in learners : \E m \in Packed(s) : \E p \in Passing(m) : Send(m, p)
  BY DEF LearnerSends
<1>2. PICK m \in Packed(s) : \E p \in Passing(m) : Send(m, p)
  BY <1>1
<1>3. /\ round = "none" /\ ~in_step /\ loose' = TRUE
      /\ wrapper' = wrapper /\ learners' = learners
      /\ UNCHANGED <<round, order, cursor, spoke, last_requests, last_responses>>
  BY DEF LearnerSends, CallersTurn, group_vars, agent_vars
<1>4. s \in Agents /\ Team(s) = Cameras /\ a \in Agents
  BY TeamOf DEF SeatsOK, WrapperOK, InGroups
<1>5. /\ Elements(queue'[a]) \subseteq Elements(queue[a]) \cup {Routed(m, a)}
      /\ a \notin Team(s) => queue'[a] = queue[a]
      /\ read' = read
  BY <1>2, <1>4, SendAddsElements
<1>6. Routed(m, a).sender = s
  BY <1>4, RoutedFields
<1>7. (Asked(a)' <=> Asked(a)) /\ (Answered(a)' <=> Answered(a)) /\ (Asked(a) <=> Answered(a))
  BY <1>3, StagesAtRest, StagesBetween
<1>8. StageOK(a)
  BY DEF StagesOK
<1>9. CASE a \notin Cameras
  BY <1>3, <1>4, <1>5, <1>7, <1>8, <1>9, StageKept
<1>10. CASE a \in Cameras
  <2>1. Outside \subseteq learners /\ Outside' = learners /\ OutOfGroups' = OutOfGroups
    BY <1>3 DEF Outside, OutOfGroups
  <2>2. Undisturbed(a)' => a \notin learners
    BY <1>3 DEF Undisturbed
  <2>3. CASE Asked(a)
    <3>1. Team(a) = Cameras /\ Cameras \in spoke
      BY <1>3, <1>10, <2>3, TeamOf, StagesBetween
    <3>2. a \in learners
      BY <1>3, <1>10, <3>1 DEF SeatsOK, WrapperOK
    <3>3. SayRequests(last_requests[a], learners) /\ SayResponses(last_responses[a], OutOfGroups)
      BY <1>7, <1>8, <2>1, <2>3, SayFewer DEF StageOK
    <3> QED
      BY <1>3, <1>7, <2>1, <2>2, <2>3, <3>2, <3>3 DEF StageOK
  <2>4. CASE ~Asked(a)
    <3>1. SayRequests(queue[a], learners) /\ (a \notin learners => read[a] = <<>>)
      BY <1>8, <2>1, <2>4, SayFewer DEF StageOK, Undisturbed
    <3>2. SayRequests(queue'[a], learners)
      BY <1>5, <1>6, <3>1, SayOneMore
    <3> QED
      BY <1>5, <1>7, <2>1, <2>2, <2>4, <3>1, <3>2 DEF StageOK
  <2> QED
    BY <2>3, <2>4
<1> QED
  BY <1>9, <1>10

LEMMA StagesLearnerReads ==
  ASSUME SeatsOK, ChannelInv, StagesOK, LearnerReads, NEW a \in InGroups
  PROVE  StageOK(a)'
<1>1. PICK s \in learners : Receive({s})
  BY DEF LearnerReads
<1>2. /\ round = "none" /\ loose' = TRUE
      /\ wrapper' = wrapper /\ learners' = learners
      /\ UNCHANGED <<round, order, cursor, spoke, last_requests, last_responses>>
  BY DEF LearnerReads, CallersTurn, group_vars, agent_vars
<1>3. a \in Agents /\ (a = s <=> a \in {s})
  BY DEF InGroups
<1>4. (Asked(a)' <=> Asked(a)) /\ (Answered(a)' <=> Answered(a)) /\ (Asked(a) <=> Answered(a))
  BY <1>2, StagesAtRest, StagesBetween
<1>5. StageOK(a)
  BY DEF StagesOK
<1>6. CASE a # s
  <2>1. queue'[a] = queue[a] /\ read'[a] = read[a]
    BY <1>1, <1>3, <1>6, ReceiveOf
  <2> QED
    BY <1>2, <1>4, <1>5, <2>1, StageKept
<1>7. CASE a = s
  <2>1. queue'[a] = <<>>
    BY <1>1, <1>3, <1>7, ReceiveOf
  <2>2. ~Undisturbed(a)'
    BY <1>2, <1>7 DEF Undisturbed
  <2>3. OutOfGroups' = OutOfGroups /\ Outside \subseteq Outside'
    BY <1>2 DEF OutOfGroups, Outside
  <2>4. SayRequests(last_requests[a], Outside) => SayRequests(last_requests[a], Outside')
    BY <2>3, SayFewer
  <2> QED
    BY <1>2, <1>4, <1>5, <2>1, <2>2, <2>3, <2>4, SayNothing DEF StageOK
<1> QED
  BY <1>6, <1>7

LEMMA StagesAgentSends ==
  ASSUME SeatsOK, ChannelInv, StagesOK, AgentSends, UNCHANGED wrapper_vars, NEW a \in InGroups
  PROVE  StageOK(a)'
<1> DEFINE s == order[cursor]
<1>1. PICK m \in Packed(s) : m.content = ContentOf(round) /\ \E p \in Passing(m) : Send(m, p)
  BY DEF AgentSends
<1>2. /\ round \in {"send_requests", "send_responses"}
      /\ wrapper' = wrapper /\ learners' = learners /\ loose' = loose
      /\ UNCHANGED <<round, order, cursor, spoke, last_requests, last_responses>>
  BY DEF AgentSends, group_vars, agent_vars, wrapper_vars
<1>3. /\ s \in Agents /\ s \in Speaking /\ a \in Agents
      /\ \A b \in Speaking : Team(b) \notin spoke
  BY <1>2, Speaker DEF SeatsOK, InGroups
<1>4. s \in InGroups /\ (Team(a) = Team(s) => a \in Speaking)
  BY <1>2, <1>3 DEF SeatsOK, WrapperOK
<1>5. StageOK(a) /\ (Asked(a)' <=> Asked(a)) /\ (Answered(a)' <=> Answered(a))
  BY <1>2, StagesAtRest DEF StagesOK
<1> HIDE DEF s
<1>6. /\ Elements(queue'[a]) \subseteq Elements(queue[a]) \cup {Routed(m, a)}
      /\ a \notin Team(s) => queue'[a] = queue[a]
      /\ read' = read
  BY <1>1, <1>3, SendAddsElements
<1>7. Routed(m, a).sender = s /\ Routed(m, a).content = m.content
  BY <1>3, RoutedFields
<1>8. CASE a \notin Team(s)
  BY <1>2, <1>5, <1>6, <1>8, StageKept
<1>9. CASE a \in Team(s)
  <2>1. a \in Speaking /\ Team(a) \notin spoke
    BY <1>3, <1>4, <1>9, TeamOf
  <2>2. Outside' = Outside /\ OutOfGroups' = OutOfGroups /\ (Undisturbed(a)' <=> Undisturbed(a))
    BY <1>2 DEF Outside, OutOfGroups, Undisturbed
  <2>3. CASE round = "send_requests"
    <3>1. ~Asked(a) /\ ~Answered(a)
      BY <2>1, <2>3 DEF Asked, Answered
    <3>2. m.content = "request"
      BY <1>1, <2>3 DEF ContentOf
    <3>3. SayRequests(queue'[a], Outside)
      BY <1>5, <1>6, <1>7, <3>1, <3>2, SayOneMore DEF StageOK
    <3> QED
      BY <1>5, <1>6, <2>2, <3>1, <3>3 DEF StageOK
  <2>4. CASE round = "send_responses"
    <3>1. Asked(a) /\ ~Answered(a)
      BY <2>1, <2>4 DEF Asked, Answered
    <3>2. m.content = "response" /\ s \notin OutOfGroups
      BY <1>1, <1>4, <2>4 DEF ContentOf, InGroups, OutOfGroups
    <3>3. SayResponses(queue'[a], OutOfGroups)
      BY <1>5, <1>6, <1>7, <3>1, <3>2, SayOneMore DEF StageOK
    <3> QED
      BY <1>2, <1>5, <1>6, <2>2, <3>1, <3>3 DEF StageOK
  <2> QED
    BY <1>2, <2>3, <2>4
<1> QED
  BY <1>8, <1>9

LEMMA StagesAgentReadsRequests ==
  ASSUME SeatsOK, ChannelInv, StagesOK, AgentReadsRequests, UNCHANGED wrapper_vars,
         NEW a \in InGroups
  PROVE  StageOK(a)'
<1> DEFINE s == order[cursor]
<1>1. /\ Receive({s}) /\ last_requests' = [last_requests EXCEPT ![s] = queue[s]]
      /\ Advance /\ last_responses' = last_responses
      /\ round = "receive_requests"
  BY DEF AgentReadsRequests
<1>2. wrapper' = wrapper /\ learners' = learners /\ loose' = loose
  BY DEF wrapper_vars
<1>3. /\ s \in Speaking /\ s \notin Served /\ Team(s) \notin spoke /\ a \in Agents
      /\ s \in Agents /\ DOMAIN last_requests = Agents
  BY <1>1, Speaker DEF SeatsOK, InGroups, StagesOK, Boxed
<1>4. /\ StageOK(a) /\ (Answered(a)' <=> Answered(a))
      /\ Asked(a)' <=> Asked(a) \/ a = s
  BY <1>1, AdvanceStages DEF StagesOK
<1>5. a = s => ~Asked(a) /\ ~Answered(a)
  BY <1>1, <1>3 DEF Asked, Answered
<1> HIDE DEF s
<1>6. CASE a # s
  <2>1. a \notin {s}
    BY <1>6
  <2>2. queue'[a] = queue[a] /\ read'[a] = read[a] /\ last_requests'[a] = last_requests[a]
    BY <1>1, <1>3, <1>6, <2>1, ReceiveOf
  <2> QED
    BY <1>1, <1>2, <1>4, <1>6, <2>2, StageKept
<1>7. CASE a = s
  <2>1. queue'[a] = <<>> /\ read'[a] = read[a] \o queue[a] /\ last_requests'[a] = queue[a]
    BY <1>1, <1>3, <1>7, ReceiveOf
  <2>2. SayRequests(queue[a], Outside) /\ (Undisturbed(a) => read[a] = <<>>)
    BY <1>4, <1>5, <1>7 DEF StageOK
  <2>3. <<>> \o queue[a] = queue[a]
    BY <1>3, ConcatEmptySeq DEF ChannelInv, ChannelTypeOK, Boxed
  <2>4. Outside' = Outside /\ OutOfGroups' = OutOfGroups /\ (Undisturbed(a)' <=> Undisturbed(a))
    BY <1>2 DEF Outside, OutOfGroups, Undisturbed
  <2>5. Undisturbed(a) => read'[a] = last_requests'[a]
    BY <2>1, <2>2, <2>3
  <2>6. Asked(a)' /\ ~Answered(a)'
    BY <1>4, <1>5, <1>7
  <2> QED
    BY <2>1, <2>2, <2>4, <2>5, <2>6, SayNothing DEF StageOK
<1> QED
  BY <1>6, <1>7

LEMMA StagesAgentReadsResponses ==
  ASSUME SeatsOK, ChannelInv, StagesOK, AgentReadsResponses, UNCHANGED wrapper_vars,
         NEW a \in InGroups
  PROVE  StageOK(a)'
<1> DEFINE s == order[cursor]
<1>1. /\ Receive({s}) /\ last_responses' = [last_responses EXCEPT ![s] = queue[s]]
      /\ Advance /\ last_requests' = last_requests
      /\ round = "receive_responses"
  BY DEF AgentReadsResponses
<1>2. wrapper' = wrapper /\ learners' = learners /\ loose' = loose
  BY DEF wrapper_vars
<1>3. /\ s \in Speaking /\ s \notin Served /\ Team(s) \notin spoke /\ a \in Agents
      /\ s \in Agents /\ DOMAIN last_responses = Agents
  BY <1>1, Speaker DEF SeatsOK, InGroups, StagesOK, Boxed
<1>4. /\ StageOK(a) /\ (Asked(a)' <=> Asked(a))
      /\ Answered(a)' <=> Answered(a) \/ a = s
  BY <1>1, AdvanceStages DEF StagesOK
<1>5. a = s => Asked(a) /\ ~Answered(a)
  BY <1>1, <1>3 DEF Asked, Answered
<1> HIDE DEF s
<1>6. CASE a # s
  <2>1. a \notin {s}
    BY <1>6
  <2>2. queue'[a] = queue[a] /\ read'[a] = read[a] /\ last_responses'[a] = last_responses[a]
    BY <1>1, <1>3, <1>6, <2>1, ReceiveOf
  <2> QED
    BY <1>1, <1>2, <1>4, <1>6, <2>2, StageKept
<1>7. CASE a = s
  <2>1. queue'[a] = <<>> /\ read'[a] = read[a] \o queue[a] /\ last_responses'[a] = queue[a]
    BY <1>1, <1>3, <1>7, ReceiveOf
  <2>2. /\ SayRequests(last_requests[a], Outside) /\ SayResponses(queue[a], OutOfGroups)
        /\ Undisturbed(a) => read[a] = last_requests[a]
    BY <1>4, <1>5, <1>7 DEF StageOK
  <2>3. Outside' = Outside /\ OutOfGroups' = OutOfGroups /\ (Undisturbed(a)' <=> Undisturbed(a))
    BY <1>2 DEF Outside, OutOfGroups, Undisturbed
  <2>4. Undisturbed(a) => read'[a] = last_requests[a] \o last_responses'[a]
    BY <2>1, <2>2
  <2>5. Asked(a)' /\ Answered(a)'
    BY <1>4, <1>5, <1>7
  <2> QED
    BY <1>1, <2>1, <2>2, <2>3, <2>4, <2>5 DEF StageOK
<1> QED
  BY <1>6, <1>7

\* At the beginning of a step nobody has read anything.
LEMMA StagesFresh ==
  ASSUME round = "none", spoke = {}, queue = NoMessages, read = NoMessages, NEW a \in InGroups
  PROVE  StageOK(a)
<1>1. ~Asked(a) /\ ~Answered(a)
  BY StagesBetween
<1>2. queue[a] = <<>> /\ read[a] = <<>>
  BY DEF NoMessages, InGroups
<1> QED
  BY <1>1, <1>2, SayNothing DEF StageOK

LEMMA InitStages == WrapperInit => StagesOK
<1> SUFFICES ASSUME WrapperInit PROVE StagesOK
  OBVIOUS
<1>1. Boxed(last_requests) /\ Boxed(last_responses)
  BY EmptyBoxes DEF WrapperInit, GroupInit
<1> QED
  BY <1>1, StagesFresh DEF WrapperInit, GroupInit, Init, StagesOK

LEMMA NextStages ==
  ASSUME SeatsOK, ChannelInv, StagesOK, [WrapperNext]_all_vars
  PROVE  StagesOK'
<1>1. Boxed(last_requests') /\ Boxed(last_responses')
  <2>1. Boxed(last_requests) /\ Boxed(last_responses) /\ Boxed(queue)
    BY DEF StagesOK, ChannelInv, ChannelTypeOK
  <2>2. \A s \in Agents : /\ Boxed([last_requests EXCEPT ![s] = queue[s]])
                          /\ Boxed([last_responses EXCEPT ![s] = queue[s]])
    BY <2>1 DEF Boxed
  <2>3. CASE AgentReadsRequests \/ AgentReadsResponses
    <3>1. order[cursor] \in Agents
      BY <2>3, Speaker DEF SeatsOK, AgentReadsRequests, AgentReadsResponses
    <3> QED
      BY <2>1, <2>2, <2>3, <3>1 DEF AgentReadsRequests, AgentReadsResponses
  <2>4. CASE ResetWrapper
    BY <2>4, EmptyBoxes DEF ResetWrapper, ResetEnv
  <2>5. CASE ~(AgentReadsRequests \/ AgentReadsResponses \/ ResetWrapper)
    <3>1. last_requests' = last_requests /\ last_responses' = last_responses
      BY <2>5 DEF WrapperNext, LearnerSends, LearnerReads, TeamPeeks, LearnersTalk, CallStep,
                  GroupTalks, BeginGroup, Converse, AgentSends, AgentHasSent, StepReturns,
                  StepEnv, all_vars, vars, agent_vars
    <3> QED
      BY <2>1, <3>1
  <2> QED
    BY <2>3, <2>4, <2>5
<1>2. ASSUME NEW a \in InGroups', ~ResetWrapper, ~StepReturns PROVE StageOK(a)'
  <2>1. wrapper' = wrapper /\ learners' = learners /\ InGroups' = InGroups
    <3>1. wrapper' = wrapper /\ learners' = learners
      BY <1>2 DEF WrapperNext, LearnerSends, LearnerReads, TeamPeeks, LearnersTalk, CallStep,
                  GroupTalks, Converse, all_vars, wrapper_vars
    <3> QED
      BY <3>1 DEF InGroups
  <2>2. a \in InGroups /\ StageOK(a)
    BY <1>2, <2>1 DEF StagesOK
  <2>3. CASE LearnerSends
    BY <2>2, <2>3, StagesLearnerSends
  <2>4. CASE LearnerReads
    BY <2>2, <2>4, StagesLearnerReads
  <2>5. CASE LearnersTalk \/ GroupTalks
    <3>1. PICK group : BeginGroup(group)
      BY <2>5 DEF LearnersTalk, GroupTalks
    <3>2. /\ round = "none" /\ round' = "send_requests" /\ spoke' = spoke
          /\ queue' = queue /\ read' = read
          /\ last_requests' = last_requests /\ last_responses' = last_responses
      BY <3>1 DEF BeginGroup, channel_vars, agent_vars
    <3>3. loose' = loose
      BY <2>5 DEF LearnersTalk, GroupTalks, wrapper_vars
    <3>4. (Asked(a)' <=> Asked(a)) /\ (Answered(a)' <=> Answered(a))
      BY <3>2 DEF Asked, Answered
    <3> QED
      BY <2>1, <2>2, <3>2, <3>3, <3>4, StageKept
  <2>6. CASE TeamPeeks \/ CallStep \/ UNCHANGED all_vars
    <3>1. /\ UNCHANGED <<round, order, cursor, spoke>>
          /\ queue' = queue /\ read' = read /\ loose' = loose
          /\ last_requests' = last_requests /\ last_responses' = last_responses
      BY <2>6 DEF TeamPeeks, Peek, CallStep, all_vars, vars, channel_vars, group_vars, agent_vars,
                  wrapper_vars
    <3>2. (Asked(a)' <=> Asked(a)) /\ (Answered(a)' <=> Answered(a))
      BY <3>1, StagesAtRest
    <3> QED
      BY <2>1, <2>2, <3>1, <3>2, StageKept
  <2>7. CASE Converse
    <3>1. UNCHANGED wrapper_vars
      BY <2>7 DEF Converse
    <3>2. CASE AgentSends
      BY <2>2, <3>1, <3>2, StagesAgentSends
    <3>3. CASE AgentHasSent
      <4>1. /\ round \in {"send_requests", "send_responses"} /\ Advance
            /\ queue' = queue /\ read' = read /\ loose' = loose
            /\ last_requests' = last_requests /\ last_responses' = last_responses
        BY <3>1, <3>3 DEF AgentHasSent, channel_vars, agent_vars, wrapper_vars
      <4>2. (Asked(a)' <=> Asked(a)) /\ (Answered(a)' <=> Answered(a))
        BY <2>2, <4>1, AdvanceStages
      <4> QED
        BY <2>1, <2>2, <4>1, <4>2, StageKept
    <3>4. CASE AgentReadsRequests
      BY <2>2, <3>1, <3>4, StagesAgentReadsRequests
    <3>5. CASE AgentReadsResponses
      BY <2>2, <3>1, <3>5, StagesAgentReadsResponses
    <3> QED
      BY <2>7, <3>2, <3>3, <3>4, <3>5 DEF Converse
  <2> QED
    BY <1>2, <2>3, <2>4, <2>5, <2>6, <2>7 DEF WrapperNext
<1>3. ASSUME NEW a \in InGroups', ResetWrapper \/ StepReturns PROVE StageOK(a)'
  <2>1. round' = "none" /\ spoke' = {} /\ queue' = NoMessages /\ read' = NoMessages
    BY <1>3 DEF ResetWrapper, ResetEnv, EnvReset, StepReturns, StepEnv, EnvStep, ClearedQueue
  <2>2. ~Asked(a)' /\ ~Answered(a)'
    BY <2>1 DEF Asked, Answered
  <2>3. queue'[a] = <<>> /\ read'[a] = <<>>
    BY <1>3, <2>1 DEF NoMessages, InGroups
  <2> QED
    BY <2>2, <2>3, SayNothing DEF StageOK
<1>4. \A a \in InGroups' : StageOK(a)'
  BY <1>2, <1>3
<1> QED
  BY <1>1, <1>4 DEF StagesOK

LEMMA StagesInvariance == WrapperSpec => []StagesOK
<1>1. SeatsOK /\ ChannelInv /\ StagesOK /\ [WrapperNext]_all_vars => StagesOK'
  BY NextStages
<1> QED
  BY <1>1, InitStages, SeatsInvariance, WrapperChannel, PTL DEF WrapperSpec

\* group_communicate() never takes a request for a response, nor a message of the
\* single learner for a response of the group.
THEOREM RequestsThenResponses == WrapperSpec => []RequestsBeforeResponses
<1>1. StagesOK => RequestsBeforeResponses
  <2> SUFFICES ASSUME StagesOK, NEW a \in InGroups, Team(a) \in spoke
               PROVE  LET outside == IF loose THEN learners ELSE {}
                      IN  /\ Says(Elements(last_responses[a]), "response")
                          /\ Says(Of(last_requests[a], Agents \ outside), "request")
                          /\ wrapper = "single" => Of(last_responses[a], learners) = {}
    BY DEF RequestsBeforeResponses
  <2>1. Asked(a) /\ Answered(a)
    BY DEF Asked, Answered
  <2>2. SayRequests(last_requests[a], Outside) /\ SayResponses(last_responses[a], OutOfGroups)
    BY <2>1 DEF StagesOK, StageOK
  <2> QED
    BY <2>2 DEF SayRequests, SayResponses, Outside, OutOfGroups
<1> QED
  BY <1>1, StagesInvariance, PTL

\* What the agents keep of receive_requests() and receive_responses() is what the
\* infos of step() will report to them: step() drops nothing unread.
THEOREM ReportedWasRead == WrapperSpec => []ReportedIsWhatWasRead
<1>1. StagesOK /\ ChannelInv => ReportedIsWhatWasRead
  <2> SUFFICES ASSUME StagesOK, ChannelInv, NEW a \in InGroups,
                      Team(a) \in spoke, a \in learners => ~loose
               PROVE  buffer[a] = last_requests[a] \o last_responses[a]
    BY DEF ReportedIsWhatWasRead
  <2>1. Answered(a) /\ Undisturbed(a) /\ a \in Agents
    BY DEF Answered, Undisturbed, InGroups
  <2>2. read[a] = last_requests[a] \o last_responses[a] /\ queue[a] = <<>>
    BY <2>1 DEF StagesOK, StageOK
  <2>3. buffer[a] = read[a] \o queue[a] /\ read[a] \in Seq(Mail(a))
    BY <2>1 DEF ChannelInv, ChannelTypeOK, Boxed, ReadOnceInOrder
  <2>4. read[a] \o <<>> = read[a]
    BY <2>3, ConcatEmptySeq
  <2> QED
    BY <2>2, <2>3, <2>4
<1> QED
  BY <1>1, StagesInvariance, WrapperChannel, PTL

\* A broadcast of an agent or of the caller reaches the whole team.
THEOREM BroadcastsHeardByTeams == WrapperSpec => []BroadcastsReachTeam
BY WrapperImplementsChannel, BroadcastsHeard, PTL

-------------------------------------------------------------------------------
(* Delayed communication *)

\* What is on the heap, and when it is emptied.
HeapOK ==
  /\ pushed \in Nat /\ steps \in Nat
  /\ flushing => Running /\ Sending
  /\ \A e \in heap :
       e.no \in 1..pushed /\ e.due \in Nat /\ e.msg.sender \in Agents /\ e.msg \in Packed(e.msg.sender)
  /\ \A e, f \in heap : e.no = f.no => e = f

\* With a constant delay the order of sending is the order of the due steps.
InSendOrder ==
  (\A c, d \in Delays : c = d) =>
    /\ \A e \in heap, d \in Delays : e.due <= steps + d
    /\ \A e, f \in heap : e.no < f.no => e.due <= f.due

\* Once the messages of a loop are handed over, nothing due is left.
NothingDue == Running /\ ~Sending /\ (round # "none" \/ spoke # {}) => Due(heap) = {}

DelayedInv == GroupOK /\ HeapOK /\ ArriveOnce /\ InSendOrder /\ NoOvertaking /\ NothingDue

\* The least number of a set.
LEMMA LeastNumber ==
  ASSUME NEW S, S \subseteq Nat, S # {}
  PROVE  \E n \in S : \A m \in S : n <= m
<1> DEFINE T == {0..n : n \in S}
<1>1. T \subseteq FiniteSubsetsOf(Nat) /\ T # {}
  <2>1. \A n \in S : 0..n \subseteq Nat /\ IsFiniteSet(0..n)
    BY FS_Interval
  <2> QED
    BY <2>1 DEF FiniteSubsetsOf
<1>2. PICK U \in T : \A V \in T : ~ (<<V, U>> \in StrictSubsetOrdering(Nat))
  <2> HIDE DEF T
  <2> QED
    BY <1>1, FS_StrictSubsetOrderingWellFounded, WFMin
<1>3. PICK n \in S : U = 0..n
  OBVIOUS
<1>4. ASSUME NEW m \in S PROVE n <= m
  <2>1. 0..m \in T /\ ~ (<<0..m, U>> \in StrictSubsetOrdering(Nat))
    BY <1>2
  <2>2. ~ (0..m \subseteq U /\ 0..m # U)
    BY <2>1, <1>3 DEF StrictSubsetOrdering
  <2>3. m < n => 0..m \subseteq 0..n /\ n \in 0..n /\ n \notin 0..m
    OBVIOUS
  <2> QED
    BY <1>3, <2>2, <2>3
<1> QED
  BY <1>4

\* heappop() finds the earliest entry.
LEMMA EarliestFound ==
  ASSUME NEW h, h # {}, \A e \in h : e.due \in Nat /\ e.no \in Nat
  PROVE  /\ Earliest(h) \in h
         /\ \A f \in h : \/ Earliest(h).due < f.due
                         \/ Earliest(h).due = f.due /\ Earliest(h).no <= f.no
<1> DEFINE D == {e.due : e \in h}
<1>1. PICK d \in D : \A x \in D : d <= x
  <2>1. D \subseteq Nat /\ D # {}
    OBVIOUS
  <2> HIDE DEF D
  <2> QED
    BY <2>1, LeastNumber
<1> DEFINE N == {e.no : e \in {f \in h : f.due = d}}
<1>2. PICK n \in N : \A x \in N : n <= x
  <2>1. N \subseteq Nat /\ N # {}
    BY <1>1
  <2> HIDE DEF N
  <2> QED
    BY <2>1, LeastNumber
<1>3. PICK e \in h : e.due = d /\ e.no = n
  BY <1>2
<1>4. ASSUME NEW f \in h
      PROVE  e.due < f.due \/ (e.due = f.due /\ e.no <= f.no)
  <2>1. f.due \in D /\ (f.due = d => f.no \in N)
    OBVIOUS
  <2>2. d <= f.due /\ (f.due = d => n <= f.no)
    BY <2>1, <1>1, <1>2
  <2>3. d \in Nat /\ f.due \in Nat
    BY <1>1
  <2> HIDE DEF D, N
  <2> QED
    BY <1>3, <2>2, <2>3
<1>5. \E x \in h : \A f \in h : x.due < f.due \/ (x.due = f.due /\ x.no <= f.no)
  BY <1>3, <1>4
<1> QED
  BY <1>5 DEF Earliest

LEMMA InitDelayed == DelayedInit => DelayedInv
<1> SUFFICES ASSUME DelayedInit PROVE DelayedInv
  OBVIOUS
<1>1. GroupOK
  BY DEF DelayedInit, GroupInit, GroupOK
<1>2. HeapOK
  BY DEF DelayedInit, GroupInit, Init, HeapOK, Running
<1>3. ArriveOnce /\ NoOvertaking
  BY DEF DelayedInit, ArriveOnce, OnTheWay, NoOvertaking
<1>4. InSendOrder /\ NothingDue
  BY DEF DelayedInit, InSendOrder, NothingDue, Due
<1> QED
  BY <1>1, <1>2, <1>3, <1>4 DEF DelayedInv

LEMMA PushDelayed ==
  ASSUME DelayedInv, AgentPushes
  PROVE  DelayedInv'
<1> DEFINE s == order[cursor]
<1>1. /\ Running /\ Sending /\ ~flushing /\ pushed' = pushed + 1
      /\ UNCHANGED <<round, order, cursor, spoke, steps, flushing, arrived>>
  BY DEF AgentPushes, vars, group_vars, channel_vars
<1>2. s \in Agents /\ round # "none"
  BY <1>1, Speaker DEF DelayedInv, Sending
<1>3. PICK m \in Packed(s), d \in Delays :
        heap' = heap \cup {[due |-> steps + d, no |-> pushed + 1, msg |-> m]}
  BY DEF AgentPushes
<1> DEFINE e == [due |-> steps + d, no |-> pushed + 1, msg |-> m]
<1>4. /\ pushed \in Nat /\ steps \in Nat /\ d \in Nat
      /\ \A f \in heap : f.no \in 1..pushed /\ f.due \in Nat
  BY DelayAssumption DEF DelayedInv, HeapOK
<1>5. e.no = pushed + 1 /\ e.due = steps + d /\ e.msg = m
  OBVIOUS
<1>6. m.sender = s
  BY <1>2, PackedFields
<1> HIDE DEF e, s
<1>7. GroupOK'
  BY <1>1, GroupAtRest DEF DelayedInv
<1>8. HeapOK'
  <2>1. \A f \in heap' : f = e \/ f \in heap
    BY <1>3 DEF e
  <2>2. e.no \in 1..pushed' /\ e.due \in Nat /\ e.msg.sender \in Agents /\ e.msg \in Packed(e.msg.sender)
    BY <1>1, <1>2, <1>4, <1>5, <1>6
  <2>3. \A f \in heap : f.no \in 1..pushed' /\ f.no # e.no
    BY <1>1, <1>4, <1>5
  <2>4. \A f \in heap' :
          f.no \in 1..pushed' /\ f.due \in Nat /\ f.msg.sender \in Agents /\ f.msg \in Packed(f.msg.sender)
    BY <2>1, <2>2, <2>3 DEF DelayedInv, HeapOK
  <2>5. \A f, g \in heap' : f.no = g.no => f = g
    BY <2>1, <2>3 DEF DelayedInv, HeapOK
  <2>6. ~flushing' /\ pushed' \in Nat /\ steps' \in Nat
    BY <1>1, <1>4
  <2> QED
    BY <2>4, <2>5, <2>6 DEF HeapOK
<1>9. ArriveOnce'
  <2>1. OnTheWay' = OnTheWay \cup {pushed + 1}
    BY <1>3, <1>5 DEF OnTheWay, e
  <2>2. 1..pushed' = 1..pushed \cup {pushed + 1} /\ pushed + 1 \notin 1..pushed
    BY <1>1, <1>4
  <2> QED
    BY <1>1, <2>1, <2>2 DEF DelayedInv, ArriveOnce
<1>10. ASSUME \A c, x \in Delays : c = x PROVE InSendOrder'
  <2>1. /\ \A f \in heap, x \in Delays : f.due <= steps + x
        /\ \A f, g \in heap : f.no < g.no => f.due <= g.due
    BY <1>10 DEF DelayedInv, InSendOrder
  <2>2. \A x \in Delays : x = d
    BY <1>10
  <2>3. \A f \in heap' : f = e \/ f \in heap
    BY <1>3 DEF e
  <2>4. \A f \in heap', x \in Delays : f.due <= steps + x
    BY <1>4, <1>5, <2>1, <2>2, <2>3
  <2>5. \A f \in heap : f.due <= e.due /\ ~(e.no < f.no)
    BY <1>4, <1>5, <2>1
  <2>6. ~(e.no < e.no)
    BY <1>4, <1>5
  <2>7. \A f, g \in heap' : f.no < g.no => f.due <= g.due
    BY <2>1, <2>3, <2>5, <2>6
  <2> QED
    BY <1>1, <2>4, <2>7 DEF InSendOrder
<1>11. InSendOrder'
  BY <1>10 DEF InSendOrder
<1>12. NoOvertaking'
  <2> SUFFICES ASSUME \A c, x \in Delays : c = x, NEW f \in heap', NEW n \in arrived'
               PROVE  n < f.no
    BY DEF NoOvertaking
  <2>1. n \in arrived /\ n \in 1..pushed
    BY <1>1 DEF DelayedInv, ArriveOnce
  <2>2. CASE f \in heap
    BY <2>1, <2>2 DEF DelayedInv, NoOvertaking
  <2>3. CASE f = e
    BY <1>4, <1>5, <2>1, <2>3
  <2> QED
    BY <1>3, <2>2, <2>3 DEF e
<1>13. NothingDue'
  BY <1>1 DEF NothingDue, Sending
<1> QED
  BY <1>7, <1>8, <1>9, <1>11, <1>12, <1>13 DEF DelayedInv

LEMMA HandOverDelayed ==
  ASSUME DelayedInv, HandOver
  PROVE  DelayedInv'
<1> DEFINE e == Earliest(Due(heap))
<1>1. /\ flushing /\ Due(heap) # {}
      /\ heap' = heap \ {e} /\ arrived' = arrived \cup {e.no}
      /\ UNCHANGED <<round, order, cursor, spoke, steps, flushing, raised, pushed>>
  BY DEF HandOver, group_vars, Send
<1>2. /\ pushed \in Nat /\ steps \in Nat
      /\ \A f \in heap : f.no \in 1..pushed /\ f.due \in Nat
      /\ \A f, g \in heap : f.no = g.no => f = g
  BY DEF DelayedInv, HeapOK
<1>3. /\ e \in heap /\ e.due <= steps
      /\ \A f \in heap : f.due <= steps =>
           e.due < f.due \/ (e.due = f.due /\ e.no <= f.no)
  <2>1. \A f \in Due(heap) : f.due \in Nat /\ f.no \in Nat
    BY <1>2 DEF Due
  <2>2. /\ e \in Due(heap)
        /\ \A f \in Due(heap) : e.due < f.due \/ (e.due = f.due /\ e.no <= f.no)
    <3> DEFINE h == Due(heap)
    <3>1. h # {} /\ \A f \in h : f.due \in Nat /\ f.no \in Nat
      BY <1>1, <2>1
    <3> HIDE DEF h
    <3>2. /\ Earliest(h) \in h
          /\ \A f \in h : \/ Earliest(h).due < f.due
                          \/ Earliest(h).due = f.due /\ Earliest(h).no <= f.no
      BY <3>1, EarliestFound
    <3> QED
      BY <3>2 DEF h
  <2> HIDE DEF e
  <2> QED
    BY <2>2 DEF Due
<1> HIDE DEF e
<1>4. GroupOK'
  BY <1>1, GroupAtRest DEF DelayedInv
<1>5. HeapOK'
  BY <1>1 DEF DelayedInv, HeapOK, Running, Sending
<1>6. ArriveOnce'
  <2>1. OnTheWay = {f.no : f \in heap} /\ OnTheWay' = {f.no : f \in heap \ {e}}
    BY <1>1 DEF OnTheWay
  <2>2. OnTheWay' = OnTheWay \ {e.no}
    BY <1>2, <1>3, <2>1
  <2>3. e.no \in OnTheWay
    BY <1>3, <2>1
  <2> QED
    BY <1>1, <2>2, <2>3 DEF DelayedInv, HeapOK, ArriveOnce
<1>7. InSendOrder'
  BY <1>1 DEF DelayedInv, InSendOrder
<1>8. NoOvertaking'
  <2> SUFFICES ASSUME \A c, d \in Delays : c = d, NEW f \in heap', NEW n \in arrived'
               PROVE  n < f.no
    BY DEF NoOvertaking
  <2>1. f \in heap /\ f # e
    BY <1>1
  <2>2. CASE n \in arrived
    BY <2>1, <2>2 DEF DelayedInv, NoOvertaking
  <2>3. CASE n = e.no
    <3>1. f.no # e.no /\ f.no \in Nat /\ e.no \in Nat /\ f.due \in Nat /\ e.due \in Nat
      BY <1>2, <1>3, <2>1
    <3>2. f.no < e.no => f.due <= e.due
      BY <1>3, <2>1 DEF DelayedInv, InSendOrder
    <3>3. f.no < e.no => f.due <= steps
      BY <1>2, <1>3, <3>1, <3>2
    <3> QED
      BY <1>3, <2>1, <2>3, <3>1, <3>2, <3>3
  <2> QED
    BY <1>1, <2>2, <2>3
<1>9. NothingDue'
  BY <1>1 DEF DelayedInv, HeapOK, NothingDue, Sending
<1> QED
  BY <1>4, <1>5, <1>6, <1>7, <1>8, <1>9 DEF DelayedInv

\* The steps that neither push nor hand over.  Only an exception takes anything off
\* the heap in them.
LEMMA HeapAtRest ==
  ASSUME DelayedInv, UNCHANGED <<pushed, arrived>>, GroupOK', NothingDue',
         heap' \subseteq heap, Running' => Running /\ heap' = heap,
         steps' \in Nat, steps' >= steps, flushing' => Running' /\ Sending'
  PROVE  DelayedInv'
<1>1. HeapOK'
  BY DEF DelayedInv, HeapOK
<1>2. InSendOrder'
  <2> SUFFICES ASSUME \A c, d \in Delays : c = d
               PROVE  /\ \A e \in heap', d \in Delays : e.due <= steps' + d
                      /\ \A e, f \in heap' : e.no < f.no => e.due <= f.due
    BY DEF InSendOrder
  <2>1. /\ \A e \in heap, d \in Delays : e.due <= steps + d
        /\ \A e, f \in heap : e.no < f.no => e.due <= f.due
    BY DEF DelayedInv, InSendOrder
  <2>2. \A e \in heap, d \in Delays : e.due \in Nat /\ d \in Nat /\ steps \in Nat
    BY DelayAssumption DEF DelayedInv, HeapOK
  <2>3. ASSUME NEW e \in heap, NEW d \in Delays PROVE e.due <= steps' + d
    BY <2>1, <2>2
  <2> QED
    BY <2>1, <2>3
<1>3. ArriveOnce'
  BY DEF DelayedInv, ArriveOnce, OnTheWay
<1>4. NoOvertaking'
  BY DEF DelayedInv, NoOvertaking
<1> QED
  BY <1>1, <1>2, <1>3, <1>4 DEF DelayedInv

LEMMA NextDelayed ==
  ASSUME DelayedInv, [DelayedNext]_delayed_vars
  PROVE  DelayedInv'
<1>1. steps \in Nat /\ steps >= steps /\ (flushing => Running /\ Sending) /\ GroupOK
  BY DEF DelayedInv, HeapOK
<1>2. CASE AgentPushes
  BY <1>2, PushDelayed
<1>3. CASE HandOver
  BY <1>3, HandOverDelayed
<1>4. CASE BeginFlush
  <2>1. /\ UNCHANGED <<round, order, cursor, spoke, steps, pushed, arrived>>
        /\ Running /\ Sending /\ (flushing' => raised' = raised)
        /\ heap' \subseteq heap /\ (Running' => heap' = heap)
    BY <1>4 DEF BeginFlush, vars, group_vars, channel_vars, Running
  <2>2. GroupOK' /\ NothingDue' /\ (flushing' => Running' /\ Sending')
    BY <1>1, <2>1, GroupAtRest DEF NothingDue, Sending, Running
  <2> QED
    BY <1>1, <2>1, <2>2, HeapAtRest
<1>5. CASE EndFlush
  <2>1. /\ Due(heap) = {} /\ flushing' = FALSE /\ Advance /\ steps' = steps /\ round # "none"
        /\ UNCHANGED <<heap, raised, pushed, arrived>>
    BY <1>5 DEF EndFlush, AgentHasSent, channel_vars
  <2>2. GroupOK'
    BY <1>1, <2>1, AdvanceOK
  <2>3. Due(heap)' = {}
    BY <2>1 DEF Due
  <2> QED
    BY <1>1, <2>1, <2>2, <2>3, HeapAtRest DEF NothingDue, Running
<1>6. CASE PassThrough
  <2>1. UNCHANGED <<heap, flushing, raised, pushed, arrived>> /\ Running
    BY <1>6 DEF PassThrough, delay_vars
  <2>2. CASE \E team \in {Cameras, Targets} : BeginGroup(team)
    <3>1. PICK team \in {Cameras, Targets} : BeginGroup(team)
      BY <2>2
    <3>2. GroupOK' /\ round = "none" /\ round' = "send_requests"
      BY <3>1, BeginGroupOK
    <3>3. steps' = steps
      BY <3>1 DEF BeginGroup, channel_vars
    <3>4. NothingDue' /\ ~flushing'
      BY <1>1, <2>1, <3>2 DEF NothingDue, Sending
    <3> QED
      BY <1>1, <2>1, <3>2, <3>3, <3>4, HeapAtRest
  <2>3. CASE AgentReadsRequests \/ AgentReadsResponses
    <3>1. /\ round \in {"receive_requests", "receive_responses"} /\ Advance /\ steps' = steps
      BY <2>3 DEF AgentReadsRequests, AgentReadsResponses, Receive
    <3>2. GroupOK' /\ ~flushing'
      BY <1>1, <2>1, <3>1, AdvanceOK DEF Sending
    <3>3. Due(heap) = {}
      BY <2>1, <3>1 DEF DelayedInv, NothingDue, Sending
    <3>4. Due(heap)' = {}
      BY <2>1, <3>1, <3>3 DEF Due
    <3> QED
      BY <1>1, <2>1, <3>1, <3>2, <3>4, HeapAtRest DEF NothingDue
  <2>4. CASE StepEnv
    <3>1. /\ round = "none" /\ round' = "none" /\ spoke' = {} /\ steps' = steps + 1
          /\ UNCHANGED <<order, cursor>>
      BY <2>4 DEF StepEnv, EnvStep
    <3>2. GroupOK' /\ NothingDue' /\ ~flushing'
      BY <1>1, <2>1, <3>1, GroupAtRest DEF NothingDue, Sending
    <3> QED
      BY <1>1, <2>1, <3>1, <3>2, HeapAtRest
  <2> QED
    BY <1>6, <2>2, <2>3, <2>4 DEF PassThrough
<1>7. CASE DelayedReset
  <2>1. /\ round = "none" /\ round' = "none" /\ spoke' = {} /\ steps' = 0
        /\ UNCHANGED <<order, cursor, flushing, raised>>
        /\ heap' = {} /\ pushed' = 0 /\ arrived' = {}
    BY <1>7 DEF DelayedReset, ResetEnv, EnvReset, EmptyHeap
  <2>2. GroupOK' /\ ~flushing'
    BY <1>1, <2>1, GroupAtRest DEF Sending
  <2>3. HeapOK' /\ ArriveOnce' /\ InSendOrder' /\ NoOvertaking'
    BY <2>1, <2>2 DEF HeapOK, ArriveOnce, OnTheWay, InSendOrder, NoOvertaking
  <2>4. NothingDue'
    BY <2>1 DEF NothingDue
  <2> QED
    BY <2>2, <2>3, <2>4 DEF DelayedInv
<1>8. CASE UNCHANGED delayed_vars
  <2>1. UNCHANGED <<round, order, cursor, spoke, steps, heap, flushing, raised, pushed, arrived>>
    BY <1>8 DEF delayed_vars, delay_vars, vars, group_vars, channel_vars
  <2>2. GroupOK' /\ NothingDue' /\ (flushing' => Running' /\ Sending')
    BY <1>1, <2>1, GroupAtRest DEF DelayedInv, NothingDue, Due, Sending, Running
  <2> QED
    BY <1>1, <2>1, <2>2, HeapAtRest DEF Running
<1> QED
  BY <1>2, <1>3, <1>4, <1>5, <1>6, <1>7, <1>8 DEF DelayedNext

LEMMA DelayedInvariance == DelayedSpec => []DelayedInv
<1>1. DelayedInv /\ [DelayedNext]_delayed_vars => DelayedInv'
  BY NextDelayed
<1> QED
  BY <1>1, InitDelayed, PTL DEF DelayedSpec

\* Every message sent through ExtraCommunicationDelays in an episode is on the heap
\* or has arrived, once.
THEOREM DelayedArriveOnce == DelayedSpec => []ArriveOnce
<1>1. DelayedInv => ArriveOnce
  BY DEF DelayedInv
<1> QED
  BY <1>1, DelayedInvariance, PTL

\* With a constant delay the wrapper keeps the order of the messages.
THEOREM DelayedInOrder == DelayedSpec => []NoOvertaking
<1>1. DelayedInv => NoOvertaking
  BY DEF DelayedInv
<1> QED
  BY <1>1, DelayedInvariance, PTL

\* A send_messages() hands over whatever is due, so that nothing due is on the heap
\* when a team has communicated, also if it was the other team that sent it.
THEOREM DelayedHandsOver == DelayedSpec => []NothingHeldBack
<1>1. DelayedInv => NothingHeldBack
  <2> SUFFICES ASSUME DelayedInv, Running, round = "none", spoke # {}, NEW e \in heap
               PROVE  e.due > steps
    BY DEF NothingHeldBack
  <2>1. Due(heap) = {}
    BY DEF DelayedInv, NothingDue, Sending
  <2>2. e.due \in Nat /\ steps \in Nat
    BY DEF DelayedInv, HeapOK
  <2> QED
    BY <2>1, <2>2 DEF Due
<1> QED
  BY <1>1, DelayedInvariance, PTL

\* Nothing that is delayed by a step or more is due after the first turn of a loop
\* of requests, and who has read then has nothing left to read.
Opening == round = "none" \/ (round = "send_requests" /\ cursor = 1)
HaveRead ==
  IF round = "receive_requests" THEN Served
  ELSE IF round \in {"send_responses", "receive_responses"} THEN Speaking ELSE {}
LateInv ==
  /\ last_responses = NoMessages
  /\ Opening \/ Due(heap) = {}
  /\ \A a \in HaveRead : queue[a] = <<>>

LEMMA NextLate ==
  ASSUME DelayedInv, LateInv, 0 \notin Delays, [DelayedNext]_delayed_vars
  PROVE  LateInv'
<1>1. GroupOK /\ HeapOK
  BY DEF DelayedInv
<1>2. CASE AgentPushes
  <2>1. UNCHANGED <<round, order, cursor, steps, queue, last_responses>>
    BY <1>2 DEF AgentPushes, vars, group_vars, channel_vars, agent_vars
  <2>2. PICK m \in Packed(order[cursor]), d \in Delays :
          heap' = heap \cup {[due |-> steps + d, no |-> pushed + 1, msg |-> m]}
    BY <1>2 DEF AgentPushes
  <2>3. ~(steps + d <= steps)
    BY <1>1, DelayAssumption DEF HeapOK
  <2>4. Due(heap)' = Due(heap)
    BY <2>1, <2>2, <2>3 DEF Due
  <2> QED
    BY <2>1, <2>4 DEF LateInv, Opening, HaveRead, Served, Speaking
<1>3. CASE BeginFlush
  <2>1. UNCHANGED <<round, order, cursor, steps, queue, last_responses>> /\ heap' \subseteq heap
    BY <1>3 DEF BeginFlush, vars, group_vars, channel_vars, agent_vars
  <2>2. Due(heap)' \subseteq Due(heap)
    BY <2>1 DEF Due
  <2> QED
    BY <2>1, <2>2 DEF LateInv, Opening, HaveRead, Served, Speaking
<1>4. CASE HandOver
  <2>1. Due(heap) # {} /\ Sending /\ UNCHANGED <<round, order, cursor, last_responses>>
    BY <1>1, <1>4 DEF HandOver, HeapOK, group_vars, agent_vars
  <2>2. round = "send_requests" /\ cursor = 1
    BY <2>1 DEF LateInv, Opening, Sending
  <2> QED
    BY <2>1, <2>2 DEF LateInv, Opening, HaveRead
<1>5. CASE EndFlush
  <2>1. /\ Due(heap) = {} /\ Advance /\ round \in {"send_requests", "send_responses"}
        /\ UNCHANGED <<heap, steps, queue, last_responses>>
    BY <1>5 DEF EndFlush, AgentHasSent, channel_vars, agent_vars
  <2>2. Due(heap)' = {}
    BY <2>1 DEF Due
  <2>3. /\ Speaking' = Speaking
        /\ LastTurn => round' = AfterRound(round) /\ Served' = {}
        /\ ~LastTurn => round' = round
    BY <1>1, <2>1, AdvanceOK
  <2>4. HaveRead' \subseteq HaveRead
    BY <2>1, <2>3 DEF HaveRead, AfterRound
  <2> QED
    BY <2>1, <2>2, <2>4 DEF LateInv
<1>6. CASE PassThrough
  <2>1. heap' = heap
    BY <1>6 DEF PassThrough, delay_vars
  <2>2. CASE \E team \in {Cameras, Targets} : BeginGroup(team)
    <3>1. round' = "send_requests" /\ cursor' = 1 /\ last_responses' = last_responses
      BY <2>2 DEF BeginGroup, agent_vars
    <3> QED
      BY <3>1 DEF LateInv, Opening, HaveRead
  <2>3. CASE AgentReadsRequests
    <3> DEFINE a == order[cursor]
    <3>1. /\ round = "receive_requests" /\ Advance
          /\ last_responses' = last_responses /\ steps' = steps
          /\ queue' = [x \in Agents |-> IF x \in {a} THEN <<>> ELSE queue[x]]
      BY <2>3 DEF AgentReadsRequests, Receive
    <3>2. Due(heap)' = {}
      BY <2>1, <3>1 DEF LateInv, Opening, Due
    <3>3. /\ Served \cup {a} \subseteq Agents
          /\ \A x \in Served : queue[x] = <<>>
      BY <1>1, <3>1, Speaker DEF LateInv, HaveRead
    <3>4. HaveRead' \subseteq Served \cup {a}
      BY <1>1, <3>1, AdvanceOK DEF HaveRead, AfterRound
    <3> HIDE DEF a
    <3>5. \A x \in HaveRead' : queue'[x] = <<>>
      BY <3>1, <3>3, <3>4
    <3> QED
      BY <3>1, <3>2, <3>5 DEF LateInv
  <2>4. CASE AgentReadsResponses
    <3> DEFINE a == order[cursor]
    <3>1. /\ round = "receive_responses" /\ Advance /\ steps' = steps
          /\ last_responses' = [last_responses EXCEPT ![a] = queue[a]]
          /\ queue' = [x \in Agents |-> IF x \in {a} THEN <<>> ELSE queue[x]]
      BY <2>4 DEF AgentReadsResponses, Receive
    <3>2. Due(heap)' = {}
      BY <2>1, <3>1 DEF LateInv, Opening, Due
    <3>3. /\ Speaking \subseteq Agents /\ a \in Speaking
          /\ \A x \in Speaking : queue[x] = <<>>
      BY <1>1, <3>1, Speaker DEF LateInv, HaveRead
    <3>4. HaveRead' \subseteq Speaking
      BY <1>1, <3>1, AdvanceOK DEF HaveRead, AfterRound
    <3> HIDE DEF a
    <3>5. \A x \in HaveRead' : queue'[x] = <<>>
      BY <3>1, <3>3, <3>4
    <3>6. last_responses' = NoMessages
      BY <3>1, <3>3 DEF LateInv, NoMessages
    <3> QED
      BY <3>2, <3>5, <3>6 DEF LateInv
  <2>5. CASE StepEnv
    <3>1. round' = "none" /\ last_responses' = last_responses
      BY <2>5 DEF StepEnv, agent_vars
    <3> QED
      BY <3>1 DEF LateInv, Opening, HaveRead
  <2> QED
    BY <1>6, <2>2, <2>3, <2>4, <2>5 DEF PassThrough
<1>7. CASE DelayedReset
  <2>1. round' = "none" /\ last_responses' = NoMessages
    BY <1>7 DEF DelayedReset, ResetEnv
  <2> QED
    BY <2>1 DEF LateInv, Opening, HaveRead
<1>8. CASE UNCHANGED delayed_vars
  <2>1. UNCHANGED <<round, order, cursor, steps, queue, heap, last_responses>>
    BY <1>8 DEF delayed_vars, delay_vars, vars, group_vars, channel_vars, agent_vars
  <2> QED
    BY <2>1 DEF LateInv, Opening, HaveRead, Served, Speaking, Due
<1> QED
  BY <1>2, <1>3, <1>4, <1>5, <1>6, <1>7, <1>8 DEF DelayedNext

\* Behind a delay of a step or more group_communicate() reads every message as a
\* request, whatever the delays are and whichever team sends: no agent's
\* receive_responses() gets one.
THEOREM DelayedReadLate == DelayedSpec => []LateMailComesAsRequests
<1>1. CASE 0 \in Delays
  <2>1. LateMailComesAsRequests
    BY <1>1 DEF LateMailComesAsRequests
  <2> QED
    BY <2>1, PTL
<1>2. CASE 0 \notin Delays
  <2>1. DelayedInit => LateInv
    BY DEF DelayedInit, GroupInit, LateInv, Opening, HaveRead
  <2>2. DelayedInv /\ LateInv /\ [DelayedNext]_delayed_vars => LateInv'
    BY <1>2, NextLate
  <2>3. LateInv => LateMailComesAsRequests
    BY DEF LateInv, LateMailComesAsRequests
  <2> QED
    BY <2>1, <2>2, <2>3, DelayedInvariance, PTL DEF DelayedSpec
<1> QED
  BY <1>1, <1>2

LEMMA DelayedUsesChannel ==
  ASSUME DelayedInv, [DelayedNext]_delayed_vars
  PROVE  [Next]_channel_vars
<1>1. CASE HandOver
  <2>1. \A f \in Due(heap) : f.due \in Nat /\ f.no \in Nat
    BY DEF Due, DelayedInv, HeapOK
  <2>2. Due(heap) # {} /\ \E p \in Passing(Earliest(Due(heap)).msg) : Send(Earliest(Due(heap)).msg, p)
    BY <1>1 DEF HandOver
  <2>3. Earliest(Due(heap)) \in heap
    BY <2>1, <2>2, EarliestFound DEF Due
  <2>4. PICK e \in heap : \E p \in Passing(e.msg) : Send(e.msg, p)
    BY <2>2, <2>3
  <2>5. e.msg.sender \in Agents /\ e.msg \in Packed(e.msg.sender)
    BY DEF DelayedInv, HeapOK
  <2> QED
    BY <2>4, <2>5 DEF Next, SendMessage
<1>2. CASE AgentPushes \/ BeginFlush \/ EndFlush \/ UNCHANGED delayed_vars
  BY <1>2 DEF AgentPushes, BeginFlush, EndFlush, AgentHasSent, delayed_vars, vars
<1>3. CASE DelayedReset
  BY <1>3 DEF DelayedReset, ResetEnv, Next
<1>4. CASE PassThrough
  <2>1. CASE \E team \in {Cameras, Targets} : BeginGroup(team)
    BY <2>1 DEF BeginGroup
  <2>2. CASE AgentReadsRequests \/ AgentReadsResponses
    <3>1. round # "none"
      BY <2>2 DEF AgentReadsRequests, AgentReadsResponses
    <3> QED
      BY <2>2, <3>1, ConverseUsesChannel DEF DelayedInv
  <2>3. CASE StepEnv
    BY <2>3 DEF StepEnv, Next
  <2> QED
    BY <1>4, <2>1, <2>2, <2>3 DEF PassThrough
<1> QED
  BY <1>1, <1>2, <1>3, <1>4 DEF DelayedNext

\* Behind ExtraCommunicationDelays the environment's channel is used as without it:
\* what is proved of the channel holds of delayed messages, too.
THEOREM DelaysImplementChannel == DelayedSpec => Spec
<1>1. DelayedInit => Init
  BY DEF DelayedInit, GroupInit
<1>2. DelayedInv /\ [DelayedNext]_delayed_vars => [Next]_channel_vars
  BY DelayedUsesChannel
<1> QED
  BY <1>1, <1>2, DelayedInvariance, PTL DEF DelayedSpec, Spec
===============================================================================
