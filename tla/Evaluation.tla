------------------------------ MODULE Evaluation ------------------------------
(***************************************************************************)
(* evaluate() (mate/evaluate.py): one call plays one episode on the        *)
(* environment and returns a status table, which main() averages over the  *)
(* episodes.  The loop has a time limit of its own next to the one of      *)
(* step(), and writes the status after a step only if cargo has been       *)
(* delivered or the episode is done.                                       *)
(*                                                                         *)
(* Before every step the team of targets communicates and acts             *)
(* (TargetBeliefs).  Rendering and belief diagnostics are left out, and    *)
(* the status is abstracted to the numbers of the environment it copies.   *)
(***************************************************************************)
EXTENDS TargetBeliefs

VARIABLES
  loop,      \* where evaluate() is
  status     \* {} or the one row that evaluate() will return

eval_vars == <<loop, status>>
all_vars == <<vars, belief_vars, eval_vars>>

-------------------------------------------------------------------------------
(* What status copies from the environment *)
Row == [step |-> episode_step, num_cargoes |-> num_delivered_cargoes,
        delayed |-> rewards.delayed]

\* Is the row of this step written?
WritesOnDelivery == \E t \in Targets : target_dones'[t]    \* mutant: only after a delivery
Writes == num_delivered_cargoes' > 0 \/ phase' = "done"

InTime == episode_step < MaxSteps

EvalInit == Init /\ BeliefInit /\ loop = "idle" /\ status = {}

\* A call of evaluate(): env.reset() starts.
StartEvaluation ==
  /\ loop \in {"idle", "returned"}
  /\ BeginReset
  /\ loop' = "reset" /\ status' = {} /\ stage' = "reset"
  /\ UNCHANGED <<non_empty, need_communication, mail, destination, filtered>>

\* reset() or the body of step() goes on.
EnvWorks ==
  /\ \/ EndResetAssign \/ StartCargo \/ AssignTarget
     \/ EndReset
  /\ loop' = IF phase' = "running" THEN "agents" ELSE loop
  /\ UNCHANGED <<status, belief_vars>>

GroupReset ==
  /\ loop = "agents"
  /\ ResetAgents
  /\ loop' = "while"
  /\ UNCHANGED status

\* group_step() of the targets, one of its loops.
PlayAgents ==
  /\ loop = "while" /\ InTime
  /\ GroupStep
  /\ UNCHANGED eval_vars

\* env.step(joint_action)
PlayStep ==
  /\ loop = "while" /\ stage = "moved"
  /\ Step
  /\ loop' = "step"
  /\ UNCHANGED <<status, belief_vars>>

\* step() returns: the row is written, and a done episode leaves the loop.
StepReturns ==
  /\ loop = "step"
  /\ EndStep
  /\ status' = IF Writes THEN {Row'} ELSE status
  /\ loop' = IF phase' = "done" THEN "returned" ELSE "while"
  /\ stage' = "observe"
  /\ UNCHANGED <<non_empty, need_communication, mail, destination, filtered>>

\* The time limit of the loop: evaluate() returns what it has.
TimeIsUp ==
  /\ loop = "while" /\ ~InTime
  /\ loop' = "returned"
  /\ UNCHANGED <<vars, status, belief_vars>>

EvalNext ==
  StartEvaluation \/ EnvWorks \/ GroupReset \/ PlayAgents \/ PlayStep \/ StepReturns \/ TimeIsUp

EvalFairness ==
  /\ WF_all_vars(EnvWorks) /\ WF_all_vars(GroupReset) /\ WF_all_vars(PlayAgents)
  /\ WF_all_vars(PlayStep) /\ WF_all_vars(StepReturns) /\ WF_all_vars(TimeIsUp)

EvalSpec == EvalInit /\ [][EvalNext]_all_vars
FairEvalSpec == EvalSpec /\ EvalFairness

-------------------------------------------------------------------------------
(* Properties *)

\* What evaluate() has done when it returns: it has played between one and
\* max_episode_steps steps (step() would allow one more), and it reports the last
\* of them, or nothing at all if nothing was delivered.
ReturnsLastStep ==
  loop = "returned" =>
    /\ episode_step \in 1..MaxSteps
    /\ status = {Row} \/ (status = {} /\ num_delivered_cargoes = 0)

\* A call of evaluate() returns.
EvaluationReturns == loop = "reset" ~> loop = "returned"

(* What the caller relies on, and evaluate() does not promise *)

\* mate/evaluate.py:739 "('FPS', status['FPS'])": main() reads the row of every
\* evaluated episode.
EveryEpisodeReported == loop = "returned" => status # {}
===============================================================================
