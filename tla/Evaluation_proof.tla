--------------------------- MODULE Evaluation_proof ---------------------------
(***************************************************************************)
(* evaluate() with its team of targets, for any number of warehouses,      *)
(* targets and steps.  Evaluation only adds variables to CargoTransport,   *)
(* so that what has been proved of the environment holds here, too.        *)
(***************************************************************************)
EXTENDS Evaluation, CargoTransport_proof

LEMMA LastStepTypes ==
  MaxSteps \in Nat /\ MaxSteps # 0 /\ None \notin Warehouses
BY ConfigAssumption DEF ValidConfig

-------------------------------------------------------------------------------
\* Every action of evaluate() is one of the environment or leaves it alone.
LEMMA TransportStep == [EvalNext]_all_vars => [Next]_vars
<1>0. SUFFICES ASSUME [EvalNext]_all_vars PROVE [Next]_vars
  OBVIOUS
<1>1. CASE StartEvaluation
  BY <1>1 DEF StartEvaluation, Next
<1>2. CASE EnvWorks
  BY <1>2 DEF EnvWorks, Next
<1>3. CASE GroupReset
  BY <1>3 DEF GroupReset, ResetAgents
<1>4. CASE PlayAgents
  BY <1>4 DEF PlayAgents, GroupStep, Observe, SendResponses, ReceiveResponses, Act
<1>5. CASE PlayStep
  BY <1>5 DEF PlayStep, Next
<1>6. CASE StepReturns
  BY <1>6 DEF StepReturns, Next
<1>7. CASE TimeIsUp
  BY <1>7 DEF TimeIsUp
<1>8. CASE UNCHANGED all_vars
  BY <1>8 DEF all_vars
<1> QED
  BY <1>0, <1>1, <1>2, <1>3, <1>4, <1>5, <1>6, <1>7, <1>8 DEF EvalNext

\* evaluate() drives the environment as any caller of reset() and step() may.
THEOREM EvaluationTransports == EvalSpec => Spec
<1>1. EvalInit => Init
  BY DEF EvalInit
<1> QED
  BY <1>1, TransportStep, PTL DEF EvalSpec, Spec

-------------------------------------------------------------------------------
\* Where the environment, the agents and the clock are at each place of evaluate().
Loop ==
  /\ loop \in {"idle", "reset", "agents", "while", "step", "returned"}
  /\ loop \in {"idle", "reset", "agents"} <=> stage = "reset"
  /\ loop = "idle" => phase = "constructed"
  /\ loop = "reset" => phase \in {"reset_assign", "start_cargo"}
  /\ loop \in {"agents", "while"} => phase = "running"
  /\ loop = "step" => phase = "step_assign" /\ stage = "moved"
  /\ loop = "returned" => phase \in {"running", "done"}
Clock ==
  /\ loop = "agents" => episode_step = 0
  /\ loop = "while" => episode_step <= MaxSteps
  /\ loop = "while" /\ stage # "observe" => episode_step < MaxSteps
  /\ loop = "step" => episode_step < MaxSteps

LEMMA LoopStep == Loop /\ [EvalNext]_all_vars => Loop'
<1>0. SUFFICES ASSUME Loop, [EvalNext]_all_vars PROVE Loop'
  OBVIOUS
<1> USE DEF Loop
<1>1. CASE StartEvaluation
  BY <1>1 DEF StartEvaluation, BeginReset
<1>2. CASE EnvWorks
  BY <1>0, <1>2 DEF EnvWorks, belief_vars, EndResetAssign, StartCargo, AssignTarget,
                    InAssignLoop, EndReset
<1>3. CASE GroupReset
  BY <1>0, <1>3 DEF GroupReset, ResetAgents, vars
<1>4. CASE PlayAgents
  BY <1>0, <1>4 DEF PlayAgents, GroupStep, Observe, SendResponses, ReceiveResponses, Act,
                    vars, eval_vars
<1>5. CASE PlayStep
  BY <1>0, <1>5 DEF PlayStep, Step, BeginStep, belief_vars
<1>6. CASE StepReturns
  BY <1>0, <1>6 DEF StepReturns, EndStep
<1>7. CASE TimeIsUp
  BY <1>0, <1>7 DEF TimeIsUp, belief_vars, vars
<1>8. CASE UNCHANGED all_vars
  BY <1>0, <1>8 DEF all_vars, belief_vars, eval_vars, vars
<1> QED
  BY <1>0, <1>1, <1>2, <1>3, <1>4, <1>5, <1>6, <1>7, <1>8 DEF EvalNext

LEMMA ClockStep == TypeOK /\ Loop /\ Clock /\ [EvalNext]_all_vars => Clock'
<1>0. SUFFICES ASSUME TypeOK, Loop, Clock, [EvalNext]_all_vars PROVE Clock'
  OBVIOUS
<1> USE DEF Clock
<1>t. MaxSteps \in Nat \ {0} /\ episode_step \in Nat
  BY <1>0, ConfigFacts, LastStepTypes DEF TypeOK
<1>1. CASE StartEvaluation
  BY <1>1 DEF StartEvaluation
<1>2. CASE EnvWorks
  <2>1. CASE EndReset
    BY <1>2, <2>1 DEF EnvWorks, EndReset
  <2>2. CASE EndResetAssign \/ StartCargo \/ AssignTarget
    <3>1. phase' # "running" /\ episode_step' = episode_step
      BY <2>2 DEF EndResetAssign, StartCargo, AssignTarget, InAssignLoop, counters
    <3>2. loop' = loop /\ stage' = stage
      BY <1>2, <3>1 DEF EnvWorks, belief_vars
    <3> QED
      BY <1>0, <3>1, <3>2
  <2> QED
    BY <1>2, <2>1, <2>2 DEF EnvWorks
<1>3. CASE GroupReset
  <2>1. loop' = "while" /\ stage' = "observe" /\ episode_step' = 0
    BY <1>0, <1>3 DEF GroupReset, ResetAgents, vars, counters
  <2>2. 0 <= MaxSteps
    BY <1>t
  <2> QED
    BY <2>1, <2>2
<1>4. CASE PlayAgents
  BY <1>0, <1>4 DEF PlayAgents, InTime, GroupStep, Observe, SendResponses, ReceiveResponses, Act,
                    vars, counters, eval_vars
<1>5. CASE PlayStep
  BY <1>0, <1>5 DEF PlayStep, Step, BeginStep, belief_vars, counters
<1>6. CASE StepReturns
  <2>1. stage' = "observe" /\ loop' \in {"returned", "while"} /\ episode_step' = Tick
    BY <1>6 DEF StepReturns, EndStep
  <2>2. loop' = "while" => ~Done
    BY <1>6 DEF StepReturns, EndStep
  <2>3. loop' = "while" => Tick <= MaxSteps
    BY <2>2 DEF Done
  <2> QED
    BY <2>1, <2>3
<1>7. CASE TimeIsUp
  BY <1>7 DEF TimeIsUp
<1>8. CASE UNCHANGED all_vars
  BY <1>0, <1>8 DEF all_vars, belief_vars, eval_vars, vars, counters
<1> QED
  BY <1>0, <1>1, <1>2, <1>3, <1>4, <1>5, <1>6, <1>7, <1>8 DEF EvalNext

-------------------------------------------------------------------------------
\* Types of the agents' beliefs, method by method.
LEMMA BeliefTypes == TypeOK /\ BeliefTypeOK /\ [EvalNext]_all_vars => BeliefTypeOK'
<1>0. SUFFICES ASSUME TypeOK, BeliefTypeOK, [EvalNext]_all_vars PROVE BeliefTypeOK'
  OBVIOUS
<1> USE DEF BeliefTypeOK
<1>1. CASE StartEvaluation
  BY <1>0, <1>1 DEF StartEvaluation
<1>2. CASE EnvWorks
  BY <1>0, <1>2 DEF EnvWorks, belief_vars
<1>3. CASE GroupReset
  BY <1>0, <1>3 DEF GroupReset, ResetAgents, FreshBeliefs, TypeOK
<1>4. CASE PlayAgents
  <2>1. CASE Observe
    BY <1>0, <2>1 DEF Observe, NewlySeen
  <2>2. CASE SendResponses
    <3>1. mail' \in [Targets -> SUBSET SUBSET Warehouses]
      <4>1. PICK dropped \in Drops :
              mail' = [t \in Targets |->
                {non_empty[s] :
                   s \in {u \in Targets : need_communication[u] /\ <<u, t>> \notin dropped}}]
        BY <2>2 DEF SendResponses
      <4>2. \A s \in Targets : non_empty[s] \in SUBSET Warehouses
        BY <1>0
      <4> QED
        BY <4>1, <4>2
    <3> QED
      BY <1>0, <2>2, <3>1 DEF SendResponses
  <2>3. CASE ReceiveResponses
    BY <1>0, <2>3 DEF ReceiveResponses, Heard
  <2>4. CASE Act
    BY <1>0, <2>4 DEF Act
  <2> QED
    BY <1>4, <2>1, <2>2, <2>3, <2>4 DEF PlayAgents, GroupStep
<1>5. CASE PlayStep
  BY <1>0, <1>5 DEF PlayStep, belief_vars
<1>6. CASE StepReturns
  BY <1>0, <1>6 DEF StepReturns
<1>7. CASE TimeIsUp
  BY <1>0, <1>7 DEF TimeIsUp, belief_vars
<1>8. CASE UNCHANGED all_vars
  BY <1>0, <1>8 DEF all_vars, belief_vars
<1> QED
  BY <1>0, <1>1, <1>2, <1>3, <1>4, <1>5, <1>6, <1>7, <1>8 DEF EvalNext

-------------------------------------------------------------------------------
\* Loading never fills a store, so that an empty one stays empty.
NoneFills ==
  \A s, r \in Warehouses : remaining_cargoes'[s][r] > 0 => remaining_cargoes[s][r] > 0

LEMMA NoneIsFilled ==
  ASSUME TypeOK, EnvWorks \/ PlayStep \/ StepReturns
  PROVE  NoneFills
<1>1. [Next]_vars
  BY DEF EnvWorks, PlayStep, StepReturns, Next
<1>2. ~BeginReset
  BY DEF BeginReset, EnvWorks, EndResetAssign, StartCargo, AssignTarget, InAssignLoop, EndReset,
         PlayStep, Step, BeginStep, StepReturns, EndStep
<1>3. ASSUME NEW s \in Warehouses, NEW r \in Warehouses
      PROVE  remaining_cargoes'[s][r] > 0 => remaining_cargoes[s][r] > 0
  <2>1. remaining_cargoes'[s][r] \in 0..remaining_cargoes[s][r] /\ remaining_cargoes[s][r] \in Nat
    BY <1>1, <1>2, StoresShrink, UnitTypes
  <2> QED
    BY <2>1
<1> QED
  BY <1>3 DEF NoneFills

-------------------------------------------------------------------------------
\* The beliefs, and the beliefs on their way.
Emptied(w) == Recipients(w) = {}
SoundInv ==
  /\ stage # "reset" => \A t \in Targets : \A w \in Warehouses \ non_empty[t] : Emptied(w)
  /\ stage = "hear" =>
       \A t \in Targets : \A set \in mail[t] : \A w \in Warehouses \ set : Emptied(w)

LEMMA SoundStep ==
  TypeOK /\ EmptyBitsSound /\ Loop /\ SoundInv /\ [EvalNext]_all_vars => SoundInv'
<1>0. SUFFICES ASSUME TypeOK, EmptyBitsSound, Loop, SoundInv, [EvalNext]_all_vars
               PROVE  SoundInv'
  OBVIOUS
<1>a. ASSUME UNCHANGED remaining_cargoes PROVE \A w \in Warehouses : Emptied(w)' <=> Emptied(w)
  BY <1>a DEF Emptied, Recipients
<1>b. ASSUME EnvWorks \/ PlayStep \/ StepReturns
      PROVE  \A w \in Warehouses : Emptied(w) => Emptied(w)'
  BY <1>0, <1>b, NoneIsFilled DEF Emptied, Recipients, NoneFills
<1>1. CASE StartEvaluation
  BY <1>1 DEF StartEvaluation, SoundInv
<1>2. CASE EnvWorks
  BY <1>0, <1>2, <1>b DEF EnvWorks, belief_vars, SoundInv
<1>3. CASE GroupReset
  BY <1>3 DEF GroupReset, ResetAgents, FreshBeliefs, SoundInv
<1>4. CASE PlayAgents
  <2>0. UNCHANGED remaining_cargoes
    BY <1>4 DEF PlayAgents, GroupStep, Observe, SendResponses, ReceiveResponses, Act, vars, stock
  <2>1. CASE Observe
    <3>1. \A t \in Targets : \A w \in SeenEmpty(t) : Emptied(w)
      BY <1>0 DEF SeenEmpty, EmptyBitsSound, Emptied
    <3> QED
      BY <1>0, <1>a, <2>0, <2>1, <3>1 DEF Observe, SoundInv
  <2>2. CASE SendResponses
    <3>1. \A t \in Targets : \A set \in mail'[t] : \E s \in Targets : set = non_empty[s]
      <4>1. PICK dropped \in Drops :
              mail' = [t \in Targets |->
                {non_empty[s] :
                   s \in {u \in Targets : need_communication[u] /\ <<u, t>> \notin dropped}}]
        BY <2>2 DEF SendResponses
      <4> QED
        BY <4>1
    <3>2. stage' = "hear" /\ stage = "respond" /\ non_empty' = non_empty
      BY <2>2 DEF SendResponses
    <3>3. \A t \in Targets : \A w \in Warehouses \ non_empty[t] : Emptied(w)
      BY <1>0, <3>2 DEF SoundInv
    <3>4. \A t \in Targets : \A set \in mail'[t] : \A w \in Warehouses \ set : Emptied(w)
      BY <3>1, <3>3
    <3>5. \A w \in Warehouses : Emptied(w) => Emptied(w)'
      BY <1>a, <2>0
    <3> QED
      BY <3>2, <3>3, <3>4, <3>5 DEF SoundInv
  <2>3. CASE ReceiveResponses
    BY <1>0, <1>a, <2>0, <2>3 DEF ReceiveResponses, Heard, SoundInv
  <2>4. CASE Act
    BY <1>0, <1>a, <2>0, <2>4 DEF Act, SoundInv
  <2> QED
    BY <1>4, <2>1, <2>2, <2>3, <2>4 DEF PlayAgents, GroupStep
<1>5. CASE PlayStep
  BY <1>0, <1>5, <1>b DEF PlayStep, belief_vars, SoundInv
<1>6. CASE StepReturns
  BY <1>0, <1>6, <1>b DEF StepReturns, EndStep, Loop, SoundInv
<1>7. CASE TimeIsUp
  BY <1>0, <1>7, <1>a DEF TimeIsUp, belief_vars, vars, stock, SoundInv
<1>8. CASE UNCHANGED all_vars
  BY <1>0, <1>8, <1>a DEF all_vars, belief_vars, vars, stock, SoundInv
<1> QED
  BY <1>0, <1>1, <1>2, <1>3, <1>4, <1>5, <1>6, <1>7, <1>8 DEF EvalNext

-------------------------------------------------------------------------------
\* An agent without a destination has no cargo, and there is none to get.
LEMMA NobodyStep ==
  TypeOK /\ Loop /\ BeliefTypeOK /\ SoundInv /\ NobodyGivesUp /\ [EvalNext]_all_vars
    => NobodyGivesUp'
<1>0. SUFFICES ASSUME TypeOK, Loop, BeliefTypeOK, SoundInv, NobodyGivesUp, [EvalNext]_all_vars
               PROVE  NobodyGivesUp'
  OBVIOUS
<1>a. ASSUME UNCHANGED <<stage, destination, target_goals, remaining_cargoes>>
      PROVE  NobodyGivesUp'
  BY <1>0, <1>a DEF NobodyGivesUp, Recipients
<1>1. CASE StartEvaluation
  BY <1>1 DEF StartEvaluation, NobodyGivesUp
<1>2. CASE EnvWorks
  <2>0. SUFFICES ASSUME stage = "moved", NEW t \in Targets, destination[t] = None
                 PROVE  target_goals'[t] = None /\ \A w \in Warehouses : Recipients(w)' = {}
    BY <1>2 DEF EnvWorks, belief_vars, NobodyGivesUp
  <2>1. target_goals[t] = None /\ \A w \in Warehouses : Recipients(w) = {}
    BY <1>0, <2>0 DEF NobodyGivesUp
  <2>2. \A w \in Warehouses : Recipients(w)' = {}
    BY <1>0, <1>2, <2>1, NoneIsFilled DEF Recipients, NoneFills
  <2>3. target_goals'[t] = None
    <3>1. CASE target_goals' = target_goals
      BY <2>1, <3>1
    <3>2. CASE AssignTarget
      <4>1. CASE \E place \in Warehouses \cup {None} : PassBy(cursor, place)
        BY <3>1, <4>1 DEF PassBy, carried
      <4>2. CASE \E w \in Warehouses : Serve(cursor, w)
        <5>1. LeaveEmpty(cursor)
          BY <2>1, <4>2 DEF Serve
        <5> QED
          BY <1>0, <2>1, <5>1 DEF LeaveEmpty, TypeOK
      <4> QED
        BY <3>2, <4>1, <4>2 DEF AssignTarget
    <3>3. CASE StartCargo
      BY <2>1, <3>1, <3>3 DEF StartCargo, TakeFromAnyStore, carried
    <3>4. CASE EndResetAssign \/ EndReset
      BY <3>1, <3>4 DEF EndResetAssign, EndReset, carried
    <3> QED
      BY <1>2, <3>2, <3>3, <3>4 DEF EnvWorks
  <2> QED
    BY <2>2, <2>3
<1>3. CASE GroupReset
  BY <1>3 DEF GroupReset, ResetAgents, NobodyGivesUp
<1>4. CASE PlayAgents
  <2>1. CASE Observe \/ SendResponses \/ ReceiveResponses
    BY <2>1 DEF Observe, SendResponses, ReceiveResponses, NobodyGivesUp
  <2>2. CASE Act
    <3>0. SUFFICES ASSUME NEW t \in Targets, destination'[t] = None
                   PROVE  target_goals[t] = None /\ \A w \in Warehouses : Recipients(w) = {}
      BY <2>2 DEF Act, NobodyGivesUp, vars, carried, stock, Recipients
    <3>1. None \in Destinations(t)
      BY <2>2, <3>0 DEF Act
    <3>2. target_goals[t] = None /\ non_empty[t] = {}
      <4>1. None \notin non_empty[t]
        BY <1>0, LastStepTypes DEF BeliefTypeOK
      <4> QED
        BY <3>1, <4>1 DEF Destinations
    <3>3. \A w \in Warehouses : Emptied(w)
      BY <1>0, <2>2, <3>2 DEF Act, SoundInv
    <3> QED
      BY <3>2, <3>3 DEF Emptied
  <2> QED
    BY <1>4, <2>1, <2>2 DEF PlayAgents, GroupStep
<1>5. CASE PlayStep
  BY <1>a, <1>5 DEF PlayStep, Step, BeginStep, belief_vars, stock
<1>6. CASE StepReturns
  BY <1>6 DEF StepReturns, NobodyGivesUp
<1>7. CASE TimeIsUp
  BY <1>a, <1>7 DEF TimeIsUp, belief_vars, vars, stock, carried
<1>8. CASE UNCHANGED all_vars
  BY <1>a, <1>8 DEF all_vars, belief_vars, vars, stock, carried
<1> QED
  BY <1>0, <1>1, <1>2, <1>3, <1>4, <1>5, <1>6, <1>7, <1>8 DEF EvalNext

-------------------------------------------------------------------------------
\* Without a filter all agents start a step with the same beliefs, `common', and
\* end its communication with the intersection of what those with news believe.
Shared(common) ==
  /\ stage \in {"respond", "hear"} => \A t \in Targets : non_empty[t] \subseteq common
  /\ stage = "respond" =>
       \A t \in Targets : need_communication[t] \/ non_empty[t] = common
  /\ stage = "hear" =>
       \A t, u \in Targets :
         /\ mail[t] = mail[u] /\ (non_empty[t] \in mail[u] \/ non_empty[t] = common)
         /\ \A set \in mail[t] : set \subseteq common
TeamInv ==
  ~filtered =>
    /\ stage \in {"observe", "act", "moved"} => \A t, u \in Targets : non_empty[t] = non_empty[u]
    /\ stage \in {"observe", "hear", "act", "moved"} => \A t \in Targets : ~need_communication[t]
    /\ stage \in {"respond", "hear"} => \E common \in SUBSET Warehouses : Shared(common)

\* One of them, as a representative: there is at least one target.
LEMMA ATarget == 1 \in Targets
BY ConfigFacts DEF Targets

LEMMA TeamStep == Loop /\ BeliefTypeOK /\ TeamInv /\ [EvalNext]_all_vars => TeamInv'
<1>0. SUFFICES ASSUME Loop, BeliefTypeOK, TeamInv, [EvalNext]_all_vars PROVE TeamInv'
  OBVIOUS
<1>a. ASSUME UNCHANGED belief_vars PROVE TeamInv'
  BY <1>0, <1>a DEF TeamInv, Shared, belief_vars
<1>1. CASE StartEvaluation
  BY <1>1 DEF StartEvaluation, TeamInv
<1>2. CASE EnvWorks
  BY <1>2, <1>a DEF EnvWorks
<1>3. CASE GroupReset
  BY <1>3 DEF GroupReset, ResetAgents, FreshBeliefs, TeamInv
<1>4. CASE PlayAgents
  <2>0. SUFFICES ASSUME ~filtered PROVE TeamInv'
    BY <1>4 DEF PlayAgents, GroupStep, Observe, SendResponses, ReceiveResponses, Act, TeamInv
  <2>1. CASE Observe
    <3>1. PICK common \in SUBSET Warehouses : common = non_empty[1]
      BY <1>0, ATarget DEF BeliefTypeOK
    <3>2. \A t \in Targets : non_empty[t] = common /\ ~need_communication[t]
      BY <1>0, <2>0, <2>1, <3>1, ATarget DEF Observe, TeamInv
    <3>3. stage' = "respond"
      BY <2>1 DEF Observe
    <3>4. ASSUME NEW t \in Targets
          PROVE  /\ non_empty'[t] \subseteq common
                 /\ need_communication'[t] \/ non_empty'[t] = common
      <4>1. non_empty'[t] = common \ SeenEmpty(t)
        BY <2>1, <3>2 DEF Observe
      <4>2. need_communication'[t] = (need_communication[t] \/ NewlySeen(t))
        BY <2>1 DEF Observe
      <4>3. NewlySeen(t) <=> SeenEmpty(t) \cap common # {}
        BY <3>2 DEF NewlySeen
      <4> QED
        BY <4>1, <4>2, <4>3
    <3>5. Shared(common)'
      BY <3>3, <3>4 DEF Shared
    <3> QED
      BY <3>1, <3>3, <3>5 DEF TeamInv
  <2>2. CASE SendResponses
    <3>1. PICK common \in SUBSET Warehouses : Shared(common)
      BY <1>0, <2>0, <2>2 DEF SendResponses, TeamInv
    <3>2. Drops = {{}}
      BY <2>0 DEF Drops
    <3>3. /\ stage = "respond" /\ stage' = "hear" /\ non_empty' = non_empty
          /\ \A t \in Targets : ~need_communication'[t]
      BY <2>2 DEF SendResponses
    <3>4. \A t \in Targets :
            mail'[t] = {non_empty[s] : s \in {u \in Targets : need_communication[u]}}
      BY <2>2, <3>2 DEF SendResponses
    <3>5. \A t \in Targets : non_empty[t] \subseteq common
      BY <3>1, <3>3 DEF Shared
    <3>6. \A t, u \in Targets : non_empty[t] \in mail'[u] \/ non_empty[t] = common
      BY <3>1, <3>3, <3>4 DEF Shared
    <3>7. \A t \in Targets : \A set \in mail'[t] : set \subseteq common
      BY <3>4, <3>5
    <3>8. Shared(common)'
      BY <3>3, <3>4, <3>5, <3>6, <3>7 DEF Shared
    <3> QED
      BY <3>3, <3>8 DEF TeamInv
  <2>3. CASE ReceiveResponses
    <3>1. PICK common \in SUBSET Warehouses : Shared(common)
      BY <1>0, <2>0, <2>3 DEF ReceiveResponses, TeamInv
    <3>2. /\ stage = "hear" /\ stage' = "act"
          /\ \A t \in Targets : non_empty'[t] = Heard(t)
      BY <2>3 DEF ReceiveResponses
    <3>3. \A t \in Targets : ~need_communication'[t]
      BY <1>0, <2>0, <2>3 DEF ReceiveResponses, TeamInv
    <3>4. ASSUME NEW t \in Targets, NEW u \in Targets
          PROVE  Heard(t) \subseteq Heard(u)
      <4>1. ASSUME NEW w \in Heard(t) PROVE w \in Heard(u)
        <5>1. w \in non_empty[t] /\ \A set \in mail[t] : w \in set
          BY <4>1 DEF Heard
        <5>2. mail[t] = mail[u] /\ (non_empty[u] \in mail[t] \/ non_empty[u] = common)
          BY <3>1, <3>2, <3>4 DEF Shared
        <5>3. w \in common
          BY <3>1, <3>2, <3>4, <5>1 DEF Shared
        <5>4. w \in non_empty[u]
          BY <5>1, <5>2, <5>3
        <5> QED
          BY <5>1, <5>2, <5>4 DEF Heard
      <4> QED
        BY <4>1
    <3>5. \A t, u \in Targets : non_empty'[t] = non_empty'[u]
      BY <3>2, <3>4
    <3> QED
      BY <3>2, <3>3, <3>5 DEF TeamInv
  <2>4. CASE Act
    BY <1>0, <2>0, <2>4 DEF Act, TeamInv
  <2> QED
    BY <1>4, <2>1, <2>2, <2>3, <2>4 DEF PlayAgents, GroupStep
<1>5. CASE PlayStep
  BY <1>5, <1>a DEF PlayStep
<1>6. CASE StepReturns
  BY <1>0, <1>6 DEF StepReturns, Loop, TeamInv
<1>7. CASE TimeIsUp
  BY <1>7, <1>a DEF TimeIsUp
<1>8. CASE UNCHANGED all_vars
  BY <1>8, <1>a DEF all_vars
<1> QED
  BY <1>0, <1>1, <1>2, <1>3, <1>4, <1>5, <1>6, <1>7, <1>8 DEF EvalNext

-------------------------------------------------------------------------------
\* The row of the last step, and what is delivered while no row has been written.
LastRow ==
  /\ loop = "reset" => status = {} /\ (phase = "start_cargo" => num_delivered_cargoes = 0)
  /\ loop = "agents" => status = {} /\ num_delivered_cargoes = 0
  /\ loop \in {"while", "returned"} =>
       status = {Row} \/ (status = {} /\ num_delivered_cargoes = 0)
  /\ loop \in {"while", "step"} /\ num_delivered_cargoes = 0 => status = {}
  /\ loop = "returned" => episode_step \in 1..MaxSteps

LEMMA DeliveredGrows ==
  TypeOK /\ AssignTarget =>
    num_delivered_cargoes' \in Nat /\ num_delivered_cargoes' >= num_delivered_cargoes
<1>0. SUFFICES ASSUME TypeOK, AssignTarget
               PROVE  num_delivered_cargoes' \in Nat
                      /\ num_delivered_cargoes' >= num_delivered_cargoes
  OBVIOUS
<1>t. num_delivered_cargoes \in Nat
  BY <1>0 DEF TypeOK
<1>1. CASE num_delivered_cargoes' = num_delivered_cargoes
  BY <1>1, <1>t
<1>2. ASSUME NEW w \in Warehouses, Deliver(cursor, w)
      PROVE  num_delivered_cargoes' \in Nat /\ num_delivered_cargoes' >= num_delivered_cargoes
  <2>1. target_goal_bits[cursor][w] \in Nat
    BY <1>0 DEF TypeOK, AssignTarget, InAssignLoop
  <2>2. num_delivered_cargoes' = num_delivered_cargoes + target_goal_bits[cursor][w]
    BY <1>2 DEF Deliver
  <2> QED
    BY <1>t, <2>1, <2>2
<1> QED
  BY <1>0, <1>1, <1>2 DEF AssignTarget, PassBy, Serve

LEMMA LastRowStep ==
  TypeOK /\ TypeOK' /\ Loop /\ Clock /\ LastRow /\ [EvalNext]_all_vars => LastRow'
<1>0. SUFFICES ASSUME TypeOK, TypeOK', Loop, Clock, LastRow, [EvalNext]_all_vars PROVE LastRow'
  OBVIOUS
<1>a. ASSUME UNCHANGED <<vars, status>>
      PROVE  Row' = Row /\ num_delivered_cargoes' = num_delivered_cargoes
             /\ status' = status /\ episode_step' = episode_step /\ phase' = phase
  BY <1>a DEF vars, counters, totals, Row
<1>t. /\ num_delivered_cargoes \in Nat /\ num_delivered_cargoes' \in Nat
      /\ MaxSteps \in Nat /\ episode_step \in Nat
  BY <1>0, LastStepTypes DEF TypeOK
<1>1. CASE StartEvaluation
  BY <1>1 DEF StartEvaluation, BeginReset, LastRow
<1>2. CASE EnvWorks
  <2>1. CASE EndResetAssign
    BY <1>0, <1>2, <2>1 DEF EnvWorks, EndResetAssign, Loop, LastRow
  <2>2. CASE StartCargo
    <3>1. phase = "start_cargo" /\ phase' = phase /\ num_delivered_cargoes' = num_delivered_cargoes
      BY <2>2 DEF StartCargo, totals
    <3>2. loop = "reset" /\ loop' = loop /\ status' = status
      BY <1>0, <1>2, <3>1 DEF EnvWorks, Loop
    <3> QED
      BY <1>0, <3>1, <3>2 DEF LastRow
  <2>3. CASE EndReset
    <3>1. /\ phase = "start_cargo" /\ phase' = "running"
          /\ num_delivered_cargoes' = num_delivered_cargoes
      BY <2>3 DEF EndReset, totals
    <3>2. loop = "reset" /\ loop' = "agents" /\ status' = status
      BY <1>0, <1>2, <3>1 DEF EnvWorks, Loop
    <3> QED
      BY <1>0, <3>1, <3>2 DEF LastRow
  <2>4. CASE AssignTarget
    <3>1. phase \in {"reset_assign", "step_assign"} /\ phase' = phase
      BY <2>4 DEF AssignTarget, InAssignLoop
    <3>2. loop \in {"reset", "step"} /\ loop' = loop /\ status' = status
      BY <1>0, <1>2, <3>1 DEF EnvWorks, Loop
    <3>3. num_delivered_cargoes' = 0 => num_delivered_cargoes = 0
      BY <1>0, <1>t, <2>4, DeliveredGrows
    <3>4. loop = "reset" => phase = "reset_assign"
      BY <1>0, <3>1 DEF Loop
    <3> QED
      BY <1>0, <3>1, <3>2, <3>3, <3>4 DEF LastRow
  <2> QED
    BY <1>2, <2>1, <2>2, <2>3, <2>4 DEF EnvWorks
<1>3. CASE GroupReset
  <2>1. loop = "agents" /\ loop' = "while" /\ UNCHANGED <<vars, status>>
    BY <1>3 DEF GroupReset, ResetAgents
  <2> QED
    BY <1>0, <1>a, <2>1 DEF LastRow
<1>4. CASE PlayAgents
  <2>1. loop = "while" /\ loop' = loop /\ UNCHANGED <<vars, status>>
    BY <1>4 DEF PlayAgents, GroupStep, Observe, SendResponses, ReceiveResponses, Act, eval_vars
  <2> QED
    BY <1>0, <1>a, <2>1 DEF LastRow
<1>5. CASE PlayStep
  BY <1>0, <1>5 DEF PlayStep, Step, BeginStep, totals, LastRow
<1>6. CASE StepReturns
  <2>1. /\ loop = "step" /\ loop' \in {"returned", "while"}
        /\ phase' = "done" <=> loop' = "returned"
        /\ num_delivered_cargoes' = num_delivered_cargoes
        /\ episode_step' = episode_step + 1
        /\ status' = IF Writes THEN {Row'} ELSE status
    BY <1>6 DEF StepReturns, EndStep, Tick
  <2>2. status' = {Row'} \/ (status' = {} /\ num_delivered_cargoes' = 0)
    <3>1. CASE Writes
      BY <2>1, <3>1
    <3>2. CASE ~Writes
      <4>1. ~(num_delivered_cargoes' > 0)
        BY <3>2 DEF Writes
      <4>2. num_delivered_cargoes = 0 /\ num_delivered_cargoes' = 0
        BY <1>t, <2>1, <4>1
      <4> QED
        BY <1>0, <2>1, <3>2, <4>2 DEF LastRow
    <3> QED
      BY <3>1, <3>2
  <2>3. loop' = "while" /\ num_delivered_cargoes' = 0 => status' = {}
    <3>1. ~(0 > 0)
      OBVIOUS
    <3>2. loop' = "while" /\ num_delivered_cargoes' = 0 => ~Writes
      BY <2>1, <3>1 DEF Writes
    <3> QED
      BY <1>0, <2>1, <3>2 DEF LastRow
  <2>4. episode_step' \in 1..MaxSteps
    <3>1. episode_step < MaxSteps
      BY <1>0, <2>1 DEF Clock
    <3> QED
      BY <1>t, <2>1, <3>1
  <2> QED
    BY <2>1, <2>2, <2>3, <2>4 DEF LastRow
<1>7. CASE TimeIsUp
  <2>1. loop = "while" /\ loop' = "returned" /\ UNCHANGED <<vars, status>>
    BY <1>7 DEF TimeIsUp
  <2>2. episode_step <= MaxSteps /\ ~(episode_step < MaxSteps)
    BY <1>0, <1>7, <2>1 DEF TimeIsUp, InTime, Clock
  <2>3. episode_step \in 1..MaxSteps
    BY <1>t, <2>2, LastStepTypes
  <2> QED
    BY <1>0, <1>a, <2>1, <2>3 DEF LastRow
<1>8. CASE UNCHANGED all_vars
  <2>1. loop' = loop /\ UNCHANGED <<vars, status>>
    BY <1>8 DEF all_vars, eval_vars
  <2> QED
    BY <1>0, <1>a, <2>1 DEF LastRow
<1> QED
  BY <1>0, <1>1, <1>2, <1>3, <1>4, <1>5, <1>6, <1>7, <1>8 DEF EvalNext

-------------------------------------------------------------------------------
EvalInv ==
  /\ Loop /\ Clock /\ BeliefTypeOK
  /\ SoundInv /\ NobodyGivesUp /\ TeamInv /\ LastRow

LEMMA EvalInvariant == EvalSpec => []EvalInv
<1>1. EvalInit => EvalInv
  <2>0. SUFFICES ASSUME EvalInit PROVE EvalInv
    OBVIOUS
  <2>1. stage = "reset" /\ loop = "idle" /\ phase = "constructed" /\ status = {}
    BY <2>0 DEF EvalInit, BeliefInit, Init
  <2>2. BeliefTypeOK
    BY <2>0 DEF EvalInit, BeliefInit, BeliefTypeOK
  <2>3. Loop /\ Clock /\ SoundInv /\ NobodyGivesUp /\ TeamInv /\ LastRow
    BY <2>1 DEF Loop, Clock, SoundInv, NobodyGivesUp, TeamInv, LastRow
  <2> QED
    BY <2>2, <2>3 DEF EvalInv
<1>2. EvalSpec => []TypeOK /\ []EmptyBitsSound
  BY EvaluationTransports, TypeCorrect, EmptyBitsAlwaysSound, PTL
<1>3. EvalInv /\ TypeOK /\ TypeOK' /\ EmptyBitsSound /\ [EvalNext]_all_vars => EvalInv'
  BY LoopStep, ClockStep, BeliefTypes, SoundStep, NobodyStep, TeamStep, LastRowStep DEF EvalInv
<1> QED
  BY <1>1, <1>2, <1>3, PTL DEF EvalSpec

\* Types of the agents' beliefs and of what they send.
THEOREM BeliefTypeCorrect == EvalSpec => []BeliefTypeOK
<1>1. EvalInv => BeliefTypeOK
  BY DEF EvalInv
<1> QED
  BY EvalInvariant, <1>1, PTL

\* No agent ever gives up a warehouse that has cargo, whatever a filter drops.
THEOREM BeliefsAlwaysSound == EvalSpec => []BeliefsSound
<1>1. EvalInv => BeliefsSound
  BY DEF EvalInv, SoundInv, Emptied, BeliefsSound
<1> QED
  BY EvalInvariant, <1>1, PTL

\* A target that has nowhere to run to has no cargo, and there is none left.
THEOREM NobodyGivesUpCorrect == EvalSpec => []NobodyGivesUp
<1>1. EvalInv => NobodyGivesUp
  BY DEF EvalInv
<1> QED
  BY EvalInvariant, <1>1, PTL

\* Without a filter the team believes the same when it has communicated, also if
\* several agents had different news.
THEOREM TeamAlwaysAgrees == EvalSpec => []TeamAgrees
<1>1. EvalInv => TeamAgrees
  BY DEF EvalInv, TeamInv, TeamAgrees
<1> QED
  BY EvalInvariant, <1>1, PTL

\* evaluate() returns after one to max_episode_steps steps, with the row of the
\* last one or with nothing if nothing was delivered.
THEOREM ReturnsLastStepCorrect == EvalSpec => []ReturnsLastStep
<1>1. EvalInv => ReturnsLastStep
  BY DEF EvalInv, LastRow, ReturnsLastStep
<1> QED
  BY EvalInvariant, <1>1, PTL
===============================================================================
