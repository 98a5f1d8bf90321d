-------------------------- MODULE CameraMemory_proof --------------------------
(***************************************************************************)
(* What GreedyCameraAgent remembers, whom it knows and when it shares, for *)
(* any set of cameras, any memory period and episodes of any length.       *)
(***************************************************************************)
EXTENDS CameraMemory, TLAPS

\* How many steps knowledge of step m is still good for at step n.
Left(m, n) == IF m = Never \/ m + Period < n THEN 0 ELSE m + Period - n

\* MemoryAge at each stage: at "observe" the count is still the one of the step before.
AgeInv ==
  /\ stage \in {"respond", "hear", "act"} =>
       \A c \in Cameras : time2forget[c] = Left(memory[c], steps)
  /\ stage = "observe" =>
       \A c \in Cameras \ tracked : Less(time2forget[c]) = Left(memory[c], steps)

\* What is about to be sent, and what has been sent, was seen in this step: the
\* message box is empty between the turns.
Fresh(list) == \A o \in list : o.at = steps
BoxInv ==
  /\ stage \in {"observe", "hear", "act"} => \A c \in Cameras : message2send[c].target_states = {}
  /\ stage = "respond" => \A c \in Cameras : Fresh(message2send[c].target_states)
  /\ stage = "hear" => \A m \in mail : Fresh(m.content.target_states)

\* All cameras introduce themselves in the first step, and only then.
Introduction ==
  /\ stage = "reset" => steps = 0
  /\ stage \in {"observe", "respond"} /\ steps = 0 =>
       \A c \in Cameras :
         /\ message2send[c].state /\ neighbors[c] = {}
         /\ \A d \in Cameras : communication_delay[c][d] = 0
  /\ stage \in {"observe", "respond"} /\ steps # 0 =>
       \A c \in Cameras : ~message2send[c].state
  /\ stage \in {"hear", "act"} => \A c \in Cameras : message2send[c] = Nothing
Introduced(c) == {m.from : m \in {n \in To(c) : n.content.state}}
KnownTo(c) == {d \in Teammates(c) : <<d, c>> \notin missed}
Acquainted ==
  /\ (stage = "act" \/ (stage \in {"observe", "respond", "hear"} /\ steps # 0)) =>
       \A c \in Cameras : neighbors[c] = KnownTo(c)
  /\ stage = "hear" /\ steps = 0 =>
       \A c \in Cameras :
         /\ neighbors[c] = {}
         /\ KnownTo(c) = Introduced(c)
  /\ stage = "hear" /\ steps # 0 => \A n \in mail : ~n.content.state

\* A camera is silent only while its pause lasts.
SilenceInv ==
  /\ stage = "respond" => \A c \in tracked :
       \E o \in message2send[c].target_states : o.near = in_range
  /\ \A c \in Cameras : \A d \in Teammates(c) :
       /\ silent[c][d] \in Nat
       /\ silent[c][d] + communication_delay[c][d] <= 2 * Period - 1
       /\ silent[c][d] > 0 => communication_delay[c][d] > 0

-------------------------------------------------------------------------------
LEMMA LessFacts ==
  /\ \A n \in Nat : Less(n) \in Nat /\ Less(n) <= n /\ (n = 0 => Less(n) = 0)
  /\ \A n \in Nat : Less(n) # 0 => Less(n) = n - 1 /\ n > 0
BY DEF Less

LEMMA PeriodFacts ==
  /\ Period \in 0..Period /\ 0 \in 0..Period
  /\ Pauses \subseteq 0..(2 * Period - 1) /\ 0 \in 0..(2 * Period - 1)
<1>1. Period \in Nat /\ Period > 0 /\ Period \div 4 \in Nat
  BY MemoryAssumption
<1> QED
  BY <1>1 DEF Pauses

\* One step later, one step less.
LEMMA LeftAfterStep ==
  ASSUME NEW m \in Nat \cup {Never}, NEW n \in Nat
  PROVE  Less(Left(m, n)) = Left(m, n + 1)
<1>1. Period \in Nat /\ Never \notin Nat
  BY MemoryAssumption
<1>2. CASE m = Never
  BY <1>2 DEF Left, Less
<1>3. CASE m \in Nat
  <2>1. m # Never
    BY <1>1, <1>3
  <2>2. CASE m + Period < n
    <3>1. m + Period < n + 1
      BY <1>1, <1>3, <2>2
    <3> QED
      BY <2>1, <2>2, <3>1 DEF Left, Less
  <2>3. CASE ~(m + Period < n) /\ m + Period < n + 1
    <3>1. m + Period - n = 0
      BY <1>1, <1>3, <2>3
    <3> QED
      BY <2>1, <2>3, <3>1 DEF Left, Less
  <2>4. CASE ~(m + Period < n + 1)
    <3>1. ~(m + Period < n) /\ m + Period - n > 0 /\ m + Period - n - 1 = m + Period - (n + 1)
      BY <1>1, <1>3, <2>4
    <3>2. Left(m, n) = m + Period - n /\ Left(m, n + 1) = m + Period - (n + 1)
      BY <2>1, <2>4, <3>1 DEF Left
    <3>3. Less(m + Period - n) = m + Period - n - 1
      BY <1>1, <1>3, <3>1 DEF Less
    <3> QED
      BY <3>1, <3>2, <3>3
  <2> QED
    BY <2>2, <2>3, <2>4
<1> QED
  BY <1>2, <1>3

\* What has just been learnt is good for a period.
LEMMA LeftNow ==
  ASSUME NEW n \in Nat
  PROVE  Left(n, n) = Period /\ Left(Never, n) = 0
<1>1. Period \in Nat /\ Never \notin Nat
  BY MemoryAssumption
<1>2. n # Never /\ ~(n + Period < n) /\ n + Period - n = Period
  BY <1>1
<1> QED
  BY <1>2 DEF Left

-------------------------------------------------------------------------------
\* Knowledge of this step is as new as it can be.
LEMMA NewestFresh ==
  ASSUME NEW list, list # {}, \A o \in list : o.at = steps, steps \in Nat
  PROVE  Newest(list) = steps
<1> DEFINE last == CHOOSE o \in list : \A p \in list : p.at <= o.at
<1>1. \E o \in list : \A p \in list : p.at <= o.at
  OBVIOUS
<1>2. last \in list
  BY <1>1
<1> QED
  BY <1>2 DEF Newest

LEMMA ContentFacts ==
  ASSUME NEW c \in Cameras, NEW d \in Cameras, message2send \in [Cameras -> Contents]
  PROVE  /\ Content(c, d) \in Contents
         /\ Content(c, d).state = message2send[c].state
         /\ Content(c, d).target_states = Shared(c, d)
         /\ Shared(c, d) \subseteq message2send[c].target_states
         /\ message2send[c].state \/ Shared(c, d) # {} => Content(c, d) # Nothing
<1>1. message2send[c] \in [state : BOOLEAN, target_states : SUBSET Observations]
  BY DEF Contents
<1>2. Shared(c, d) \subseteq message2send[c].target_states
  BY DEF Shared
<1>3. Content(c, d) = [state |-> message2send[c].state, target_states |-> Shared(c, d)]
  BY <1>1 DEF Content
<1>4. Content(c, d) \in Contents
  BY <1>1, <1>2, <1>3 DEF Contents
<1>5. Nothing.state = FALSE /\ Nothing.target_states = {}
  BY DEF Nothing
<1> QED
  BY <1>2, <1>3, <1>4, <1>5

LEMMA EmptyBox == Nothing \in Contents /\ [Nothing EXCEPT !.state = TRUE] \in Contents
                  /\ [Nothing EXCEPT !.state = TRUE].state
                  /\ [Nothing EXCEPT !.state = TRUE].target_states = {}
                  /\ ~Nothing.state /\ Nothing.target_states = {}
BY DEF Nothing, Contents

\* process_messages() adds this step's observation, and nothing else.
LEMMA ObserveBox ==
  ASSUME MemoryTypeOK, Observe
  PROVE  \A c \in Cameras :
           /\ message2send'[c] \in Contents
           /\ message2send'[c].state = message2send[c].state
           /\ message2send'[c].target_states =
                message2send[c].target_states \cup {o \in {Sighting} : c \in tracked}
<1> TAKE c \in Cameras
<1>1. message2send[c] \in [state : BOOLEAN, target_states : SUBSET Observations]
  BY DEF Contents, MemoryTypeOK
<1>2. Sighting \in Observations
  BY DEF Sighting, Observations, MemoryTypeOK
<1>3. message2send'[c] = [message2send[c] EXCEPT !.target_states =
        @ \cup {o \in {Sighting} : c \in tracked}]
  BY DEF Observe
<1>4. message2send'[c] = [state |-> message2send[c].state,
        target_states |-> message2send[c].target_states \cup {o \in {Sighting} : c \in tracked}]
  BY <1>1, <1>3
<1> QED
  BY <1>1, <1>2, <1>4 DEF Contents

\* Every message is between two cameras, and is what is left of the box.
LEMMA SentMail ==
  ASSUME MemoryTypeOK, SendResponses
  PROVE  \A m \in mail' :
           /\ <<m.from, m.to>> \in Pairs /\ m.content \in Contents
           /\ m.content = Content(m.from, m.to)
           /\ m.content.target_states \subseteq message2send[m.from].target_states
<1>1. PICK dropped \in Drops :
        mail' = {[from |-> p[1], to |-> p[2], content |-> Content(p[1], p[2])] :
                   p \in Speakers \ dropped}
  BY DEF SendResponses
<1> TAKE m \in mail'
<1>2. PICK p \in Speakers : m = [from |-> p[1], to |-> p[2], content |-> Content(p[1], p[2])]
  BY <1>1
<1>3. p \in Pairs /\ p[1] \in Cameras /\ p[2] \in Cameras /\ <<p[1], p[2]>> \in Pairs
  BY DEF Speakers, Pairs
<1> QED
  BY <1>2, <1>3, ContentFacts DEF MemoryTypeOK

\* What is heard is stored as it is: an observation of this step.
LEMMA HeardNow ==
  ASSUME MemoryTypeOK, BoxInv, ReceiveResponses
  PROVE  \A c \in Cameras :
           \/ memory'[c] = steps /\ time2forget'[c] = Period
           \/ memory'[c] = memory[c] /\ time2forget'[c] = time2forget[c]
<1> DEFINE told == {c \in Cameras : Reports(c) # {}}
<1>1. PICK last \in [told -> mail] :
        /\ \A c \in told : last[c] \in Reports(c)
        /\ memory' = [c \in Cameras |->
             IF c \in told THEN Newest(last[c].content.target_states) ELSE memory[c]]
  BY DEF ReceiveResponses
<1>2. time2forget' = [c \in Cameras |-> IF c \in told THEN Period ELSE time2forget[c]]
  BY DEF ReceiveResponses
<1>3. ASSUME NEW c \in told PROVE Newest(last[c].content.target_states) = steps
  <2>1. last[c] \in mail /\ last[c].content.target_states # {}
    BY <1>1 DEF Reports, To
  <2>2. \A o \in last[c].content.target_states : o.at = steps
    BY <2>1 DEF BoxInv, Fresh, ReceiveResponses
  <2> QED
    BY <2>1, <2>2, NewestFresh DEF MemoryTypeOK
<1> HIDE DEF told
<1> QED
  BY <1>1, <1>2, <1>3

-------------------------------------------------------------------------------
LEMMA MemoryInitial == Init => MemoryTypeOK /\ BoxInv
<1>1. SUFFICES ASSUME Init PROVE MemoryTypeOK /\ BoxInv
  OBVIOUS
<1>2. [c \in Cameras |-> [d \in Cameras |-> 0]] \in Counts(2 * Period - 1)
  BY PeriodFacts DEF Counts
<1>3. [c \in Cameras |-> 0] \in [Cameras -> 0..Period]
  BY PeriodFacts
<1>4. message2send \in [Cameras -> Contents] /\ mail = {}
  BY <1>1, EmptyBox DEF Init
<1>5. MemoryTypeOK
  BY <1>1, <1>2, <1>3, <1>4 DEF Init, MemoryTypeOK
<1>6. BoxInv
  BY <1>1 DEF Init, BoxInv
<1> QED
  BY <1>5, <1>6

\* Types, method by method.
LEMMA MemoryTypes == MemoryTypeOK /\ BoxInv /\ [Next]_vars => MemoryTypeOK'
<1>0. SUFFICES ASSUME MemoryTypeOK, BoxInv, [Next]_vars PROVE MemoryTypeOK'
  OBVIOUS
<1> USE DEF MemoryTypeOK
<1>1. CASE ResetAgents
  <2>1. communication_delay' \in Counts(2 * Period - 1)
    BY <1>1, PeriodFacts DEF ResetAgents, NoPauses, Counts
  <2>2. time2forget' \in [Cameras -> 0..Period]
    BY <1>1, PeriodFacts DEF ResetAgents
  <2>3. memory' \in [Cameras -> Nat \cup {Never}]
    BY <1>0, <1>1 DEF ResetAgents
  <2>4. message2send' \in [Cameras -> Contents]
    BY <1>1, EmptyBox DEF ResetAgents
  <2> QED
    BY <1>0, <1>1, <2>1, <2>2, <2>3, <2>4 DEF ResetAgents
<1>2. CASE Observe
  <2>1. \A c \in Cameras : Remaining(c) \in 0..Period
    <3>1. \A n \in 0..Period : Less(n) \in 0..Period
      BY MemoryAssumption DEF Less
    <3> QED
      BY <1>0, <3>1 DEF Remaining
  <2>2. time2forget' \in [Cameras -> 0..Period]
    BY <1>2, <2>1, PeriodFacts DEF Observe
  <2>3. memory' \in [Cameras -> Nat \cup {Never}]
    BY <1>0, <1>2 DEF Observe
  <2>4. message2send' \in [Cameras -> Contents]
    <3>1. \A c \in Cameras : message2send'[c] \in Contents
      BY <1>0, <1>2, ObserveBox
    <3>2. message2send' = [c \in Cameras |-> message2send'[c]]
      BY <1>2 DEF Observe
    <3> QED
      BY <3>1, <3>2
  <2> QED
    BY <1>0, <1>2, <2>2, <2>3, <2>4 DEF Observe
<1>3. CASE SendResponses
  <2>1. PICK pause \in [Speakers -> Pauses] :
          communication_delay' = [c \in Cameras |-> [d \in Cameras |->
            IF <<c, d>> \in Speakers THEN pause[<<c, d>>] ELSE Less(communication_delay[c][d])]]
    BY <1>3 DEF SendResponses
  <2>2. \A n \in 0..(2 * Period - 1) : Less(n) \in 0..(2 * Period - 1)
    BY MemoryAssumption DEF Less
  <2>3. \A c, d \in Cameras : communication_delay[c][d] \in 0..(2 * Period - 1)
    BY <1>0 DEF Counts
  <2>4. \A p \in Speakers : pause[p] \in 0..(2 * Period - 1)
    BY PeriodFacts
  <2>5. communication_delay' \in Counts(2 * Period - 1)
    BY <2>1, <2>2, <2>3, <2>4 DEF Counts
  <2>6. missed' \subseteq Pairs
    <3>1. PICK dropped \in Drops : missed' = IF steps = 0 THEN dropped ELSE missed
      BY <1>3 DEF SendResponses
    <3>2. dropped \subseteq Pairs
      BY DEF Drops, Speakers
    <3> QED
      BY <1>0, <3>1, <3>2
  <2>7. message2send' \in [Cameras -> Contents]
    BY <1>3, EmptyBox DEF SendResponses, Cleared
  <2>8. \A m \in mail' : <<m.from, m.to>> \in Pairs /\ m.content \in Contents
    BY <1>0, <1>3, SentMail
  <2> QED
    BY <1>0, <1>3, <2>5, <2>6, <2>7, <2>8 DEF SendResponses
<1>4. CASE ReceiveResponses
  <2>1. \A c \in Cameras : Introduced(c) \subseteq Teammates(c)
    BY <1>0 DEF Introduced, To, Pairs, Teammates
  <2>2. \A c \in Cameras : neighbors'[c] = neighbors[c] \cup Introduced(c)
    BY <1>4 DEF ReceiveResponses, Introduced
  <2>3. neighbors' \in [Cameras -> SUBSET Cameras] /\ \A c \in Cameras : c \notin neighbors'[c]
    <3>1. \A c \in Cameras : neighbors'[c] \subseteq Cameras /\ c \notin neighbors'[c]
      BY <1>0, <2>1, <2>2 DEF Teammates
    <3>2. neighbors' = [c \in Cameras |-> neighbors'[c]]
      BY <1>4 DEF ReceiveResponses
    <3> QED
      BY <3>1, <3>2
  <2>4. memory' \in [Cameras -> Nat \cup {Never}]
    <3>1. \A c \in Cameras : memory'[c] \in Nat \cup {Never}
      <4>1. \A c \in Cameras : memory'[c] = steps \/ memory'[c] = memory[c]
        BY <1>0, <1>4, HeardNow
      <4> QED
        BY <1>0, <4>1
    <3>2. memory' = [c \in Cameras |-> memory'[c]]
      BY <1>4 DEF ReceiveResponses
    <3> QED
      BY <3>1, <3>2
  <2>5. time2forget' \in [Cameras -> 0..Period]
    BY <1>0, <1>4, PeriodFacts DEF ReceiveResponses
  <2>6. mail' = {}
    BY <1>4 DEF ReceiveResponses
  <2> QED
    BY <1>0, <1>4, <2>3, <2>4, <2>5, <2>6 DEF ReceiveResponses
<1>5. CASE Step
  BY <1>0, <1>5 DEF Step, Sights
<1>6. CASE ResetEnv
  BY <1>0, <1>6 DEF ResetEnv, Sights
<1>7. CASE UNCHANGED vars
  BY <1>0, <1>7 DEF vars
<1> QED
  BY <1>0, <1>1, <1>2, <1>3, <1>4, <1>5, <1>6, <1>7 DEF Next

\* Nothing seen in an earlier step is in a box, or on its way.
LEMMA BoxStep == MemoryTypeOK /\ BoxInv /\ [Next]_vars => BoxInv'
<1>0. SUFFICES ASSUME MemoryTypeOK, BoxInv, [Next]_vars PROVE BoxInv'
  OBVIOUS
<1>1. CASE ResetAgents
  <2>1. \A c \in Cameras : message2send'[c].target_states = {}
    BY <1>1, EmptyBox DEF ResetAgents
  <2> QED
    BY <1>1, <2>1 DEF ResetAgents, BoxInv
<1>2. CASE Observe
  <2>1. stage = "observe" /\ stage' = "respond" /\ steps' = steps
    BY <1>2 DEF Observe
  <2>2. ASSUME NEW c \in Cameras, NEW o \in message2send'[c].target_states PROVE o.at = steps
    <3>1. o = Sighting
      BY <1>0, <1>2, <2>1, <2>2, ObserveBox DEF BoxInv
    <3> QED
      BY <3>1 DEF Sighting
  <2> QED
    BY <2>1, <2>2 DEF BoxInv, Fresh
<1>3. CASE SendResponses
  <2>1. stage = "respond" /\ stage' = "hear" /\ steps' = steps
    BY <1>3 DEF SendResponses
  <2>2. \A c \in Cameras : message2send'[c].target_states = {}
    BY <1>3, EmptyBox DEF SendResponses, Cleared
  <2>3. \A m \in mail' : m.from \in Cameras
          /\ m.content.target_states \subseteq message2send[m.from].target_states
    BY <1>0, <1>3, SentMail DEF Pairs
  <2>4. \A m \in mail' : \A o \in m.content.target_states : o.at = steps
    BY <1>0, <2>1, <2>3 DEF BoxInv, Fresh
  <2> QED
    BY <2>1, <2>2, <2>4 DEF BoxInv, Fresh
<1>4. CASE ReceiveResponses
  BY <1>0, <1>4 DEF ReceiveResponses, BoxInv
<1>5. CASE Step
  BY <1>0, <1>5 DEF Step, BoxInv
<1>6. CASE ResetEnv
  BY <1>6 DEF ResetEnv, BoxInv
<1>7. CASE UNCHANGED vars
  BY <1>0, <1>7 DEF vars, BoxInv, Fresh
<1> QED
  BY <1>0, <1>1, <1>2, <1>3, <1>4, <1>5, <1>6, <1>7 DEF Next

-------------------------------------------------------------------------------
\* MemoryAge, method by method: a step of the environment is the only one that
\* leaves the counts behind, and process_messages() brings them up to date.
LEMMA AgeStep == MemoryTypeOK /\ BoxInv /\ AgeInv /\ [Next]_vars => AgeInv'
<1>0. SUFFICES ASSUME MemoryTypeOK, BoxInv, AgeInv, [Next]_vars PROVE AgeInv'
  OBVIOUS
<1>t. /\ steps \in Nat /\ Period \in Nat
      /\ \A c \in Cameras : memory[c] \in Nat \cup {Never} /\ time2forget[c] \in Nat
  BY <1>0, MemoryAssumption DEF MemoryTypeOK
<1>1. CASE ResetAgents
  <2>1. stage' = "observe" /\ steps' = steps /\ tracked' = tracked
    BY <1>1 DEF ResetAgents
  <2>2. \A c \in Cameras \ tracked : memory'[c] = Never /\ time2forget'[c] = 0
    BY <1>1 DEF ResetAgents
  <2>3. Less(0) = 0 /\ Left(Never, steps) = 0
    BY <1>t, LessFacts, LeftNow
  <2> QED
    BY <2>1, <2>2, <2>3 DEF AgeInv
<1>2. CASE Observe
  <2>1. stage = "observe" /\ stage' = "respond" /\ steps' = steps
    BY <1>2 DEF Observe
  <2>2. \A c \in Cameras \ tracked :
          memory'[c] = memory[c] /\ time2forget'[c] = Less(time2forget[c])
    BY <1>2 DEF Observe, Remaining
  <2>3. \A c \in tracked : c \in Cameras => memory'[c] = steps /\ time2forget'[c] = Period
    BY <1>2 DEF Observe
  <2>4. \A c \in Cameras : time2forget'[c] = Left(memory'[c], steps)
    BY <1>0, <1>t, <2>1, <2>2, <2>3, LeftNow DEF AgeInv
  <2> QED
    BY <2>1, <2>4 DEF AgeInv
<1>3. CASE SendResponses
  BY <1>0, <1>3 DEF SendResponses, AgeInv
<1>4. CASE ReceiveResponses
  <2>1. stage = "hear" /\ stage' = "act" /\ steps' = steps
    BY <1>4 DEF ReceiveResponses
  <2>2. \A c \in Cameras :
          \/ memory'[c] = steps /\ time2forget'[c] = Period
          \/ memory'[c] = memory[c] /\ time2forget'[c] = time2forget[c]
    BY <1>0, <1>4, HeardNow
  <2>3. \A c \in Cameras : time2forget'[c] = Left(memory'[c], steps)
    BY <1>0, <1>t, <2>1, <2>2, LeftNow DEF AgeInv
  <2> QED
    BY <2>1, <2>3 DEF AgeInv
<1>5. CASE Step
  <2>1. stage = "act" /\ stage' = "observe" /\ steps' = steps + 1
        /\ memory' = memory /\ time2forget' = time2forget
    BY <1>5 DEF Step
  <2>2. \A c \in Cameras : Less(time2forget[c]) = Left(memory[c], steps + 1)
    BY <1>0, <1>t, <2>1, LeftAfterStep DEF AgeInv
  <2> QED
    BY <2>1, <2>2 DEF AgeInv
<1>6. CASE ResetEnv
  BY <1>6 DEF ResetEnv, AgeInv
<1>7. CASE UNCHANGED vars
  BY <1>0, <1>7 DEF vars, AgeInv
<1> QED
  BY <1>0, <1>1, <1>2, <1>3, <1>4, <1>5, <1>6, <1>7 DEF Next

-------------------------------------------------------------------------------
\* "state" is to be sent from the reset to the first send_responses().
LEMMA IntroductionStep == MemoryTypeOK /\ Introduction /\ [Next]_vars => Introduction'
<1>0. SUFFICES ASSUME MemoryTypeOK, Introduction, [Next]_vars PROVE Introduction'
  OBVIOUS
<1>1. CASE ResetAgents
  BY <1>0, <1>1, EmptyBox DEF ResetAgents, NoPauses, Introduction
<1>2. CASE Observe
  <2>1. \A c \in Cameras : message2send'[c].state = message2send[c].state
    BY <1>0, <1>2, ObserveBox
  <2> QED
    BY <1>0, <1>2, <2>1 DEF Observe, Introduction
<1>3. CASE SendResponses
  BY <1>0, <1>3 DEF SendResponses, Cleared, Introduction
<1>4. CASE ReceiveResponses
  BY <1>0, <1>4 DEF ReceiveResponses, Introduction
<1>5. CASE Step
  <2>1. steps' # 0 /\ stage' = "observe" /\ message2send' = message2send /\ stage = "act"
    BY <1>0, <1>5 DEF Step, MemoryTypeOK
  <2> QED
    BY <1>0, <2>1, EmptyBox DEF Introduction
<1>6. CASE ResetEnv
  BY <1>0, <1>6 DEF ResetEnv, Introduction
<1>7. CASE UNCHANGED vars
  BY <1>0, <1>7 DEF vars, Introduction
<1> QED
  BY <1>0, <1>1, <1>2, <1>3, <1>4, <1>5, <1>6, <1>7 DEF Next

\* In the first step every camera speaks to every other one.
LEMMA AllSpeakFirst ==
  MemoryTypeOK /\ Introduction /\ stage = "respond" /\ steps = 0 =>
    Speakers = Pairs /\ \A c, d \in Cameras : Content(c, d).state
<1>0. SUFFICES ASSUME MemoryTypeOK, Introduction, stage = "respond", steps = 0
               PROVE  Speakers = Pairs /\ \A c, d \in Cameras : Content(c, d).state
  OBVIOUS
<1>1. \A c, d \in Cameras : Content(c, d).state /\ Content(c, d) # Nothing
  BY <1>0, ContentFacts DEF Introduction, MemoryTypeOK
<1>2. \A c, d \in Cameras : Rested(c, d)
  BY <1>0, LessFacts DEF Introduction, Rested
<1>3. \A p \in Pairs : p[1] \in Cameras /\ p[2] \in Cameras /\ p[1] # p[2]
  BY DEF Pairs
<1>4. \A p \in Pairs : Speaks(p[1], p[2])
  BY <1>1, <1>2, <1>3 DEF Speaks
<1> QED
  BY <1>1, <1>4 DEF Speakers

LEMMA AcquaintedStep ==
  MemoryTypeOK /\ Introduction /\ Acquainted /\ [Next]_vars => Acquainted'
<1>0. SUFFICES ASSUME MemoryTypeOK, Introduction, Acquainted, [Next]_vars PROVE Acquainted'
  OBVIOUS
<1>1. CASE ResetAgents
  BY <1>0, <1>1 DEF ResetAgents, Introduction, Acquainted
<1>2. CASE Observe
  BY <1>0, <1>2 DEF Observe, Acquainted, KnownTo
<1>3. CASE SendResponses
  <2>1. PICK dropped \in Drops :
          /\ mail' = {[from |-> p[1], to |-> p[2], content |-> Content(p[1], p[2])] :
                        p \in Speakers \ dropped}
          /\ missed' = IF steps = 0 THEN dropped ELSE missed
    BY <1>3 DEF SendResponses
  <2>2. stage = "respond" /\ stage' = "hear" /\ steps' = steps /\ neighbors' = neighbors
    BY <1>3 DEF SendResponses
  <2>3. CASE steps = 0
    <3>1. Speakers = Pairs /\ \A c, d \in Cameras : Content(c, d).state
      BY <1>0, <2>2, <2>3, AllSpeakFirst
    <3>2. ASSUME NEW c \in Cameras
          PROVE  KnownTo(c)' = Introduced(c)'
      <4>1. ASSUME NEW d \in KnownTo(c)'
            PROVE  d \in Introduced(c)'
        <5> DEFINE m == [from |-> d, to |-> c, content |-> Content(d, c)]
        <5>1. d \in Cameras /\ d # c /\ <<d, c>> \notin dropped
          BY <2>1, <2>3, <4>1 DEF KnownTo, Teammates
        <5>2. <<d, c>> \in Speakers \ dropped
          BY <3>1, <3>2, <5>1 DEF Pairs
        <5>3. m \in mail'
          BY <2>1, <5>2
        <5>4. m.content.state /\ m.to = c /\ m.from = d
          BY <3>1, <3>2, <5>1
        <5> QED
          BY <5>3, <5>4 DEF Introduced, To
      <4>2. ASSUME NEW m \in mail', m.to = c
            PROVE  m.from \in KnownTo(c)'
        <5>1. PICK p \in Speakers \ dropped :
                m = [from |-> p[1], to |-> p[2], content |-> Content(p[1], p[2])]
          BY <2>1, <4>2
        <5>2. p \in Pairs /\ m.from = p[1] /\ c = p[2]
          BY <3>1, <4>2, <5>1
        <5>3. p = <<p[1], c>> /\ p[1] \in Cameras /\ p[1] # c
          BY <5>2 DEF Pairs
        <5>4. <<p[1], c>> \notin missed'
          BY <2>1, <2>3, <5>1, <5>3
        <5> QED
          BY <5>2, <5>3, <5>4 DEF KnownTo, Teammates
      <4> QED
        BY <4>1, <4>2 DEF Introduced, To
    <3>3. \A c \in Cameras : neighbors'[c] = {}
      BY <1>0, <2>2, <2>3 DEF Introduction
    <3> QED
      BY <2>2, <2>3, <3>2, <3>3 DEF Acquainted
  <2>4. CASE steps # 0
    <3>1. \A c, d \in Cameras : ~Content(c, d).state
      BY <1>0, <2>2, <2>4, ContentFacts DEF Introduction, MemoryTypeOK
    <3>2. \A n \in mail' : ~n.content.state
      BY <1>0, <1>3, <3>1, SentMail DEF Pairs
    <3>3. \A c \in Cameras : neighbors'[c] = KnownTo(c)'
      BY <1>0, <2>1, <2>2, <2>4 DEF Acquainted, KnownTo
    <3> QED
      BY <2>2, <2>4, <3>2, <3>3 DEF Acquainted
  <2> QED
    BY <2>3, <2>4
<1>4. CASE ReceiveResponses
  <2>1. /\ stage = "hear" /\ stage' = "act" /\ missed' = missed /\ steps' = steps
        /\ \A c \in Cameras :
             neighbors'[c] = neighbors[c] \cup Introduced(c)
    BY <1>4 DEF ReceiveResponses, Introduced
  <2>2. CASE steps = 0
    BY <1>0, <2>1, <2>2 DEF Acquainted, KnownTo
  <2>3. CASE steps # 0
    <3>1. \A n \in mail : ~n.content.state
      BY <1>0, <2>1, <2>3 DEF Acquainted
    <3>2. \A c \in Cameras : neighbors'[c] = neighbors[c]
      <4>1. \A c \in Cameras : Introduced(c) = {}
        BY <3>1 DEF Introduced, To
      <4> QED
        BY <2>1, <4>1
    <3>3. \A c \in Cameras : neighbors[c] = KnownTo(c)
      BY <1>0, <2>1, <2>3 DEF Acquainted
    <3>4. \A c \in Cameras : KnownTo(c)' = KnownTo(c)
      BY <2>1 DEF KnownTo
    <3> QED
      BY <2>1, <2>3, <3>2, <3>3, <3>4 DEF Acquainted
  <2> QED
    BY <2>2, <2>3
<1>5. CASE Step
  BY <1>0, <1>5 DEF Step, Acquainted, KnownTo
<1>6. CASE ResetEnv
  BY <1>0, <1>6 DEF ResetEnv, Acquainted
<1>7. CASE UNCHANGED vars
  BY <1>0, <1>7 DEF vars, Acquainted, KnownTo, Introduced, To
<1> QED
  BY <1>0, <1>1, <1>2, <1>3, <1>4, <1>5, <1>6, <1>7 DEF Next

-------------------------------------------------------------------------------
\* The silence of a pair and what is left of its pause add up to at most the
\* longest pause.
LEMMA SilenceStep ==
  ASSUME FilterRange
  PROVE  MemoryTypeOK /\ SilenceInv /\ [Next]_vars => SilenceInv'
<1>0. SUFFICES ASSUME MemoryTypeOK, SilenceInv, [Next]_vars PROVE SilenceInv'
  OBVIOUS
<1>1. CASE ResetAgents
  <2>1. \A c \in Cameras : \A d \in Teammates(c) :
          silent'[c][d] = 0 /\ communication_delay'[c][d] = 0
    BY <1>1 DEF ResetAgents, NoPauses, Teammates
  <2>2. 0 \in Nat /\ 0 + 0 <= 2 * Period - 1 /\ ~(0 > 0)
    BY MemoryAssumption
  <2>3. stage' # "respond"
    BY <1>1 DEF ResetAgents
  <2> QED
    BY <2>1, <2>2, <2>3 DEF SilenceInv
<1>2. CASE Observe
  <2>1. ASSUME NEW c \in tracked'
        PROVE  \E o \in message2send'[c].target_states : o.near = in_range'
    <3>1. c \in Cameras /\ c \in tracked /\ in_range' = in_range
      BY <1>0, <1>2, <2>1 DEF Observe, MemoryTypeOK
    <3>2. Sighting \in message2send'[c].target_states
      BY <1>0, <1>2, <3>1, ObserveBox
    <3>3. Sighting.near = in_range
      BY DEF Sighting
    <3> QED
      BY <3>1, <3>2, <3>3
  <2>2. UNCHANGED <<silent, communication_delay>>
    BY <1>2 DEF Observe
  <2> QED
    BY <1>0, <2>1, <2>2 DEF SilenceInv
<1>3. CASE SendResponses
  <2>1. PICK pause \in [Speakers -> Pauses] :
          communication_delay' = [c \in Cameras |-> [d \in Cameras |->
            IF <<c, d>> \in Speakers THEN pause[<<c, d>>] ELSE Less(communication_delay[c][d])]]
    BY <1>3 DEF SendResponses
  <2>2. stage = "respond" /\ stage' = "hear"
    BY <1>3 DEF SendResponses
  <2>3. SUFFICES ASSUME NEW c \in Cameras, NEW d \in Teammates(c)
                 PROVE  /\ silent'[c][d] \in Nat
                        /\ silent'[c][d] + communication_delay'[c][d] <= 2 * Period - 1
                        /\ silent'[c][d] > 0 => communication_delay'[c][d] > 0
    BY <2>2 DEF SilenceInv
  <2>4. d \in Cameras /\ c # d
    BY <2>3 DEF Teammates
  <2>5. /\ silent[c][d] \in Nat /\ communication_delay[c][d] \in Nat
        /\ silent[c][d] + communication_delay[c][d] <= 2 * Period - 1
        /\ Period \in Nat
    BY <1>0, <2>3, <2>4, MemoryAssumption DEF SilenceInv, MemoryTypeOK, Counts
  <2>6. CASE <<c, d>> \in Speakers
    <3>1. Speaks(c, d)
      BY <2>6 DEF Speakers
    <3>2. silent'[c][d] = 0
      BY <1>3, <2>3, <2>4, <3>1 DEF SendResponses
    <3>3. communication_delay'[c][d] \in 0..(2 * Period - 1)
      BY <2>1, <2>3, <2>4, <2>6, PeriodFacts
    <3> QED
      BY <2>5, <3>2, <3>3
  <2>7. CASE <<c, d>> \notin Speakers
    <3>1. ~Speaks(c, d)
      BY <2>4, <2>7 DEF Speakers, Pairs
    <3>2. communication_delay'[c][d] = Less(communication_delay[c][d])
      BY <2>1, <2>3, <2>4, <2>7
    <3>3. CASE c \in tracked /\ d \in neighbors[c] /\ d \in in_range
      <4>1. silent'[c][d] = silent[c][d] + 1
        BY <1>3, <2>3, <2>4, <3>1, <3>3 DEF SendResponses
      <4>2. PICK o \in message2send[c].target_states : o.near = in_range
        BY <1>0, <2>2, <3>3 DEF SilenceInv
      <4>3. Content(c, d) # Nothing
        <5>1. Shared(c, d) # {}
          BY <3>3, <4>2 DEF Shared
        <5> QED
          BY <1>0, <2>4, <5>1, ContentFacts DEF MemoryTypeOK
      <4>4. Less(communication_delay[c][d]) # 0
        BY <2>4, <3>1, <4>3 DEF Speaks, Rested
      <4>5. /\ Less(communication_delay[c][d]) = communication_delay[c][d] - 1
            /\ Less(communication_delay[c][d]) \in Nat
        BY <2>5, <4>4, LessFacts
      <4> QED
        BY <2>5, <3>2, <4>1, <4>4, <4>5
    <3>4. CASE ~(c \in tracked /\ d \in neighbors[c] /\ d \in in_range)
      <4>1. silent'[c][d] = 0
        BY <1>3, <2>3, <2>4, <3>4 DEF SendResponses
      <4>2. /\ Less(communication_delay[c][d]) \in Nat
            /\ Less(communication_delay[c][d]) <= communication_delay[c][d]
        BY <2>5, LessFacts
      <4> QED
        BY <2>5, <3>2, <4>1, <4>2
    <3> QED
      BY <3>3, <3>4
  <2> QED
    BY <2>6, <2>7
<1>4. CASE ReceiveResponses
  BY <1>0, <1>4 DEF ReceiveResponses, SilenceInv
<1>5. CASE Step
  BY <1>0, <1>5 DEF Step, SilenceInv
<1>6. CASE ResetEnv
  BY <1>0, <1>6 DEF ResetEnv, SilenceInv
<1>7. CASE UNCHANGED vars
  BY <1>0, <1>7 DEF vars, SilenceInv
<1> QED
  BY <1>0, <1>1, <1>2, <1>3, <1>4, <1>5, <1>6, <1>7 DEF Next

-------------------------------------------------------------------------------
LEMMA MemoryInvariant == Spec => []MemoryTypeOK /\ []BoxInv
<1>1. MemoryTypeOK /\ BoxInv /\ [Next]_vars => (MemoryTypeOK /\ BoxInv)'
  BY MemoryTypes, BoxStep
<1> QED
  BY MemoryInitial, <1>1, PTL DEF Spec

\* Types of what the cameras keep; a pause and a memory are always in range.
THEOREM MemoryTypeCorrect == Spec => []MemoryTypeOK
BY MemoryInvariant, PTL

\* A camera acts on a target exactly while the observation it has of it is less
\* than a memory period old, whoever made it: every report that is heard was made
\* in the step in which it is heard.
THEOREM MemoryAgeCorrect == Spec => []MemoryAge
<1>1. Init => AgeInv
  BY DEF Init, AgeInv
<1>2. AgeInv => MemoryAge
  BY DEF AgeInv, MemoryAge, Left
<1> QED
  BY <1>1, <1>2, AgeStep, MemoryInvariant, PTL DEF Spec

\* A camera knows exactly the teammates whose first message was not dropped, and
\* none of an earlier episode.
THEOREM KnownCorrect == Spec => []KnownFromFirstStep
<1>1. Init => Introduction /\ Acquainted
  BY DEF Init, Introduction, Acquainted
<1>2. Acquainted => KnownFromFirstStep
  BY DEF Acquainted, KnownFromFirstStep, KnownTo
<1>3. MemoryTypeOK /\ (Introduction /\ Acquainted) /\ [Next]_vars => (Introduction /\ Acquainted)'
  BY IntroductionStep, AcquaintedStep
<1> QED
  BY <1>1, <1>2, <1>3, MemoryInvariant, PTL DEF Spec

\* With filterout_beyond_range a camera that sees a target is never silent to a
\* teammate in range for two memory periods.
THEOREM SharesCorrect ==
  ASSUME FilterRange
  PROVE  Spec => []SharesInTime
<1>1. Init => SilenceInv
  <2>1. 0 \in Nat /\ 0 + 0 <= 2 * Period - 1 /\ ~(0 > 0)
    BY MemoryAssumption
  <2> QED
    BY <2>1 DEF Init, SilenceInv, Teammates
<1>2. MemoryTypeOK /\ SilenceInv => SharesInTime
  <2>1. SUFFICES ASSUME MemoryTypeOK, SilenceInv, NEW c \in Cameras, NEW d \in Teammates(c)
                 PROVE  silent[c][d] < 2 * Period - 1
    BY DEF SharesInTime
  <2>2. /\ silent[c][d] \in Nat /\ communication_delay[c][d] \in Nat
        /\ silent[c][d] + communication_delay[c][d] <= 2 * Period - 1
        /\ silent[c][d] > 0 => communication_delay[c][d] > 0
    BY <2>1 DEF SilenceInv, MemoryTypeOK, Counts, Teammates
  <2> QED
    BY <2>2, MemoryAssumption
<1>3. MemoryTypeOK /\ SilenceInv /\ [Next]_vars => SilenceInv'
  BY SilenceStep
<1> QED
  BY <1>1, <1>2, <1>3, MemoryInvariant, PTL DEF Spec
===============================================================================
