----------------------------- MODULE CameraMemory -----------------------------
(***************************************************************************)
(* GreedyCameraAgent (mate/agents/greedy.py): a camera remembers a target  *)
(* for a while after it has lost sight of it, and tells the teammates it   *)
(* has heard of what it sees, to each with a random pause in between.  The *)
(* state of a camera, by which it becomes known, is sent once an episode.  *)
(*                                                                         *)
(* The cameras run their methods in loops that nothing interrupts          *)
(* (group_step(), see GroupCommunication), so that each loop is one action *)
(* here.  A filter around the environment may drop any message.            *)
(*                                                                         *)
(* There is one target here: what is remembered of one does not depend on  *)
(* the others, and a message about another one starts the same pause.  The *)
(* environment decides who sees it and in whose range it is; who sees it is *)
(* near enough to be told of it, too.  A target state that is sent carries *)
(* the step it was observed at and where the target was then: a report may  *)
(* be older than the step in which it is heard.                             *)
(* never_loaded, which only narrows down what is acted on, is left out.    *)
(***************************************************************************)
EXTENDS Integers, FiniteSets

CONSTANTS
  Cameras,          \* the cameras of the team
  Period,           \* memory_period
  FilterRange,      \* filterout_beyond_range
  Never,            \* a target that has not been seen
  MaxSteps          \* BOUND: steps of an episode

ASSUME MemoryAssumption ==
  /\ IsFiniteSet(Cameras) /\ Period \in Nat \ {0} /\ FilterRange \in BOOLEAN
  /\ Never \notin Nat /\ MaxSteps \in Nat

VARIABLES
  stage,                  \* the method of the agents that runs next
  steps,                  \* episode_step of the environment
  tracked,                \* the cameras whose observation shows the target
  in_range,               \* the cameras that are near enough to be told of it
  memory,                 \* memory[t] of each camera: the step it was observed at
  time2forget,
  neighbors,              \* neighboring_teammate_states: whom a camera has heard of
  message2send,           \* a dict: is 'state' a key of it? the list 'target_states'
  communication_delay,
  mail,                   \* the messages on the way in this step
  filtered,               \* is there a message filter?
  missed,                 \* HISTORY: first messages of the episode that were dropped
  silent                  \* HISTORY: [c][d] how long c has had news for d and sent none

vars == <<stage, steps, tracked, in_range, memory, time2forget, neighbors, message2send,
          communication_delay, mail, filtered, missed, silent>>

-------------------------------------------------------------------------------
(* Helpers *)

Teammates(c) == Cameras \ {c}
Pairs == {p \in Cameras \X Cameras : p[1] # p[2]}
Less(n) == IF n > 0 THEN n - 1 ELSE 0      \* np.maximum(n - 1, 0)

\* randint(memory_period // 4, 2 * memory_period)
Pauses == (Period \div 4)..(2 * Period - 1)

\* A target state: the step of the observation, and the cameras the target was near.
\* A list of them is in the order of their steps; without any there is no key.
Observations == [at : Nat, near : SUBSET Cameras]
Sighting == [at |-> steps, near |-> in_range]
Newest(list) == (CHOOSE o \in list : \A p \in list : p.at <= o.at).at

Contents == [state : BOOLEAN, target_states : SUBSET Observations]
Nothing == [state |-> FALSE, target_states |-> {}]

\* What is left of content['target_states'] for d: what is in the range of d.
Shared(c, d) ==
  {o \in message2send[c].target_states : d \in neighbors[c] /\ FilterRange /\ d \in o.near}

Content(c, d) == [message2send[c] EXCEPT !.target_states = Shared(c, d)]

\* Is the pause of c for d over, after its count has gone down?
RestedBefore(c, d) == communication_delay[c][d] = 0    \* mutant: counted down afterwards
Rested(c, d) == Less(communication_delay[c][d]) = 0
Speaks(c, d) == c # d /\ Rested(c, d) /\ Content(c, d) # Nothing

KeptPauses == communication_delay     \* mutant: reset() lets the pauses go on
NoPauses == [c \in Cameras |-> [d \in Cameras |-> 0]]

Speakers == {p \in Pairs : Speaks(p[1], p[2])}

Unforgetting(c) == time2forget[c]    \* mutant: only what is in sight is counted
Remaining(c) == Less(time2forget[c])

\* message2send.clear(), whether anything was sent or not
KeptUnsent(c) ==                    \* mutant: cleared where a message is sent
  IF \E d \in Teammates(c) : Speaks(c, d) THEN Nothing ELSE message2send[c]
Cleared(c) == Nothing

Drops == IF filtered THEN SUBSET Speakers ELSE {{}}

-------------------------------------------------------------------------------
\* What the environment lets the cameras see; who sees a target is near it.
Sights(seen, near) == seen \subseteq near /\ tracked' = seen /\ in_range' = near

Init ==
  /\ stage = "reset" /\ steps = 0
  /\ in_range \in SUBSET Cameras /\ tracked \in SUBSET in_range
  /\ memory = [c \in Cameras |-> Never] /\ time2forget = [c \in Cameras |-> 0]
  /\ neighbors = [c \in Cameras |-> {}] /\ message2send = [c \in Cameras |-> Nothing]
  /\ communication_delay = [c \in Cameras |-> [d \in Cameras |-> 0]]
  /\ mail = {} /\ filtered \in BOOLEAN /\ missed = {}
  /\ silent = [c \in Cameras |-> [d \in Cameras |-> 0]]

\* reset() of each agent
ResetAgents ==
  /\ stage = "reset"
  /\ memory' = [c \in Cameras |-> IF c \in tracked THEN steps ELSE Never]
  /\ time2forget' = [c \in Cameras |-> IF c \in tracked THEN Period ELSE 0]
  /\ neighbors' = [c \in Cameras |-> {}]
  /\ message2send' = [c \in Cameras |-> [Nothing EXCEPT !.state = TRUE]]
  /\ communication_delay' = NoPauses
  /\ missed' = {} /\ silent' = [c \in Cameras |-> [d \in Cameras |-> 0]]
  /\ stage' = "observe"
  /\ UNCHANGED <<steps, tracked, in_range, mail, filtered>>

\* observe(): process_messages()
Observe ==
  /\ stage = "observe"
  /\ time2forget' = [c \in Cameras |-> IF c \in tracked THEN Period ELSE Remaining(c)]
  /\ memory' = [c \in Cameras |-> IF c \in tracked THEN steps ELSE memory[c]]
  /\ message2send' = [c \in Cameras |-> [message2send[c] EXCEPT !.target_states =
       @ \cup {o \in {Sighting} : c \in tracked}]]
  /\ stage' = "respond"
  /\ UNCHANGED <<steps, tracked, in_range, neighbors, communication_delay, mail, filtered,
                 missed, silent>>

\* send_responses(): what is not sent now is forgotten.
SendResponses ==
  /\ stage = "respond"
  /\ \E dropped \in Drops :
       /\ mail' = {[from |-> p[1], to |-> p[2], content |-> Content(p[1], p[2])] :
                     p \in Speakers \ dropped}
       /\ missed' = IF steps = 0 THEN dropped ELSE missed
  /\ \E pause \in [Speakers -> Pauses] :
       communication_delay' = [c \in Cameras |-> [d \in Cameras |->
         IF <<c, d>> \in Speakers THEN pause[<<c, d>>] ELSE Less(communication_delay[c][d])]]
  /\ message2send' = [c \in Cameras |-> Cleared(c)]
  /\ silent' = [c \in Cameras |-> [d \in Cameras |->
       IF c # d /\ c \in tracked /\ d \in neighbors[c] /\ d \in in_range /\ ~Speaks(c, d)
       THEN silent[c][d] + 1 ELSE 0]]
  /\ stage' = "hear"
  /\ UNCHANGED <<steps, tracked, in_range, memory, time2forget, neighbors, filtered>>

\* receive_responses(); a neighbour that is too far away is deleted, and stored
\* again by the next statement.  Of several messages the last one read is kept,
\* whatever the steps of its observations.
To(c) == {m \in mail : m.to = c}
Reports(c) == {m \in To(c) : m.content.target_states # {}}

ReceiveResponses ==
  /\ stage = "hear"
  /\ neighbors' = [c \in Cameras |->
       neighbors[c] \cup {m.from : m \in {n \in To(c) : n.content.state}}]
  /\ LET told == {c \in Cameras : Reports(c) # {}}
     IN  /\ \E last \in [told -> mail] :
              /\ \A c \in told : last[c] \in Reports(c)
              /\ memory' = [c \in Cameras |->
                   IF c \in told THEN Newest(last[c].content.target_states) ELSE memory[c]]
         /\ time2forget' = [c \in Cameras |-> IF c \in told THEN Period ELSE time2forget[c]]
  /\ mail' = {}
  /\ stage' = "act"
  /\ UNCHANGED <<steps, tracked, in_range, message2send, communication_delay, filtered,
                 missed, silent>>

\* act() and the step of the environment
Step ==
  /\ stage = "act" /\ steps < MaxSteps
  /\ steps' = steps + 1
  /\ \E near \in SUBSET Cameras : \E seen \in SUBSET near : Sights(seen, near)
  /\ stage' = "observe"
  /\ UNCHANGED <<memory, time2forget, neighbors, message2send, communication_delay, mail,
                 filtered, missed, silent>>

\* The environment is reset; the agents follow.
ResetEnv ==
  /\ stage = "act"
  /\ steps' = 0
  /\ \E near \in SUBSET Cameras : \E seen \in SUBSET near : Sights(seen, near)
  /\ stage' = "reset"
  /\ UNCHANGED <<memory, time2forget, neighbors, message2send, communication_delay, mail,
                 filtered, missed, silent>>

Next == ResetAgents \/ Observe \/ SendResponses \/ ReceiveResponses \/ Step \/ ResetEnv

Spec == Init /\ [][Next]_vars

-------------------------------------------------------------------------------
(* Properties *)

Counts(n) == [Cameras -> [Cameras -> 0..n]]
MemoryTypeOK ==
  /\ stage \in {"reset", "observe", "respond", "hear", "act"} /\ steps \in Nat
  /\ tracked \subseteq in_range /\ in_range \subseteq Cameras
  /\ memory \in [Cameras -> Nat \cup {Never}] /\ time2forget \in [Cameras -> 0..Period]
  /\ neighbors \in [Cameras -> SUBSET Cameras] /\ \A c \in Cameras : c \notin neighbors[c]
  /\ message2send \in [Cameras -> Contents]
  /\ \A m \in mail : <<m.from, m.to>> \in Pairs /\ m.content \in Contents
  /\ communication_delay \in Counts(2 * Period - 1)
  /\ filtered \in BOOLEAN /\ missed \subseteq Pairs

\* A camera acts on a target exactly as long as the observation it has of it, its
\* own or a teammate's, is less than a period old.  time2forget starts again with
\* every report, so this rests on no report being old: what was not sent in the
\* step it was seen in is never sent.
MemoryAge ==
  stage = "act" =>
    \A c \in Cameras :
      time2forget[c] =
        IF memory[c] = Never \/ memory[c] + Period < steps THEN 0 ELSE memory[c] + Period - steps

\* Cameras know of each other from the first step to the end of an episode: those
\* whose first message was not dropped, and none from an earlier episode.  A
\* camera whose first message was dropped stays unknown.
KnownFromFirstStep ==
  stage = "act" =>
    \A c \in Cameras : neighbors[c] = {d \in Teammates(c) : <<d, c>> \notin missed}

\* greedy.py:162 "Send the newest target states to teammates if necessary": a
\* camera that sees a target sends it to a known teammate in whose range it is,
\* with pauses of less than two memory periods.
SharesInTime == \A c \in Cameras : \A d \in Teammates(c) : silent[c][d] < 2 * Period - 1
===============================================================================
