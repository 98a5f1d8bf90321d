--------------------------------- MODULE Psro ---------------------------------
(***************************************************************************)
(* Population-based training (examples/psro): in every iteration the       *)
(* driver trains one new agent per player against a mixture of all agents  *)
(* of the other player, measures the payoffs of the pairs it does not know *)
(* yet, and solves the meta-game for the next mixtures.                    *)
(*                                                                         *)
(* Trainers and evaluators are Ray actors: they run beside the driver and  *)
(* finish in any order.  When one of them fails, ray.get() raises and the  *)
(* driver ends with all its actors; a new driver finds the checkpoints     *)
(* recorded so far and nothing else.                                       *)
(***************************************************************************)
EXTENDS Integers, Sequences, FiniteSets, SequencesExt

CONSTANTS
  Iterations,    \* --iterations
  NumEpisodes,   \* --num-evaluation-episodes
  NumWorkers,    \* evaluators at a time
  None,          \* no agent
  MaxStarts      \* BOUND: drivers started on one local directory

Players == {"camera", "target"}
Other(p) == IF p = "camera" THEN "target" ELSE "camera"
Rounds == 0..Iterations

\* An agent is told by the iteration that made it and by how often that
\* iteration has been trained.  Iteration 0 is the bootstrap agent.
Agent == [iteration : Rounds, version : Nat]
Bootstrap == [iteration |-> 0, version |-> 0]

ASSUME PsroAssumption ==
  /\ Iterations \in Nat /\ NumEpisodes \in Nat \ {0} /\ NumWorkers \in Nat \ {0}
  /\ MaxStarts \in Nat /\ None \notin Agent

VARIABLES
  recorded,   \* checkpoint_path.txt of each player and iteration
  trained,    \* HISTORY: versions each player and iteration has been trained to
  origin,     \* HISTORY: what the recorded agents were trained from and against
  pc, i,      \* where the driver is in train(), and its iteration
  pool,       \* agent_pool (and agent_specs) of each player
  sigma,      \* for how many agents the mixture of each player has weights
  trainer,    \* the PlayerTrainer of each player
  not_ready,  \* players whose result ray.wait() has not returned
  payoff,     \* payoff_matrices: the results behind each known entry
  pending,    \* episodes to start an evaluator for
  running,    \* evaluators, in the order they were started
  results,    \* what evaluators have returned
  starts      \* BOUND counter: drivers started

vars == <<recorded, trained, origin, pc, i, pool, sigma, trainer, not_ready, payoff,
          pending, running, results, starts>>

disk_vars == <<recorded, trained, origin>>
eval_vars == <<payoff, pending, running, results>>

-------------------------------------------------------------------------------
(* Helpers *)

\* payoff_matrices after expand_size(): one entry for every pair.
Entries == (1..Len(pool["camera"])) \X (1..Len(pool["target"]))

RowOnly == {e \in Entries : e[1] = Len(pool["camera"]) /\ e \notin DOMAIN payoff}   \* mutant
Missing == Entries \ DOMAIN payoff

\* The agents an evaluator is given.
Pair(e) == <<pool["camera"][e[1]], pool["target"][e[2]]>>

\* Mutant: results are taken to come in the order of the starts.
CreditedInOrder(x) == [Head(running) EXCEPT !.pair = x.pair]
Credited(x) == x      \* every result carries its identifier

Existing(p) == recorded[p][i]

AllAtOnce(p) == {}            \* mutant: the first result ends the wait
WaitsAgain(p) == not_ready    \* mutant: a result that was taken is waited for again
StillWaiting(p) == not_ready \ {p}

ColdStart(p) == Bootstrap     \* mutant: from_checkpoint is the first agent for ever
LastAgent(p) == IF i = 1 THEN None ELSE Last(pool[p])

LastRound == i = Iterations

Idle == [status |-> "none", from |-> None, against |-> <<>>, weights |-> 0, agent |-> None]

-------------------------------------------------------------------------------
NoneRecorded == [p \in Players |-> [k \in Rounds |-> None]]

Init ==
  /\ recorded = NoneRecorded /\ trained = [p \in Players |-> [k \in Rounds |-> 0]]
  /\ origin = NoneRecorded
  /\ pc = "down" /\ i = 0
  /\ pool = [p \in Players |-> <<>>] /\ sigma = [p \in Players |-> 0]
  /\ trainer = [p \in Players |-> Idle] /\ not_ready = {}
  /\ payoff = <<>> /\ pending = {} /\ running = <<>> /\ results = {}
  /\ starts = 0

\* train() up to its loop: only bootstrap agents, no payoffs.
StartDriver ==
  /\ pc \in {"down", "done"} /\ starts < MaxStarts
  /\ starts' = starts + 1
  /\ pc' = "evaluate" /\ i' = 0
  /\ pool' = [p \in Players |-> <<Bootstrap>>] /\ sigma' = [p \in Players |-> 0]
  /\ trainer' = [p \in Players |-> Idle] /\ not_ready' = {}
  /\ payoff' = <<>> /\ pending' = {} /\ running' = <<>> /\ results' = {}
  /\ UNCHANGED disk_vars

\* Both trainers get copies of the pools before either pool grows.
StartTrainers ==
  /\ pc = "train"
  /\ trainer' = [p \in Players |->
       [status |-> "training", from |-> LastAgent(p), against |-> pool[Other(p)],
        weights |-> sigma[Other(p)], agent |-> None]]
  /\ not_ready' = Players
  /\ pc' = "wait"
  /\ UNCHANGED <<disk_vars, i, pool, sigma, eval_vars, starts>>

\* PlayerTrainer.result(), at any time: a recorded agent is taken as it is.
TrainerReturns(p) ==
  /\ trainer[p].status = "training"
  /\ LET new == [iteration |-> i, version |-> trained[p][i] + 1]
     IN  IF Existing(p) # None
           THEN /\ trainer' = [trainer EXCEPT ![p].status = "ready", ![p].agent = Existing(p)]
                /\ UNCHANGED trained
           ELSE /\ trainer' = [trainer EXCEPT ![p].status = "ready", ![p].agent = new]
                /\ trained' = [trained EXCEPT ![p][i] = new.version]
  /\ UNCHANGED <<recorded, origin, pc, i, pool, sigma, not_ready, eval_vars, starts>>

\* ray.wait() returns one ready trainer; its agent joins the pool and is recorded.
\* (After a timeout evaluate() finds nothing missing, and the driver waits again.)
TakeAgent(p) ==
  /\ pc = "wait" /\ p \in not_ready /\ trainer[p].status = "ready"
  /\ LET t == trainer[p]
     IN  /\ pool' = [pool EXCEPT ![p] = Append(@, t.agent)]
         /\ recorded' = [recorded EXCEPT ![p][i] = t.agent]
         /\ origin' = IF recorded[p][i] = t.agent THEN origin
                      ELSE [origin EXCEPT ![p][i] = [from |-> t.from, against |-> t.against]]
  /\ trainer' = [trainer EXCEPT ![p] = Idle]    \* ray.kill()
  /\ not_ready' = StillWaiting(p)
  /\ pc' = "evaluate"
  /\ UNCHANGED <<trained, i, sigma, eval_vars, starts>>

-------------------------------------------------------------------------------
(* evaluate() *)

BeginEvaluate ==
  /\ pc = "evaluate"
  /\ pending' =
       {[entry |-> e, episode |-> k, pair |-> Pair(e)] : e \in Missing, k \in 1..NumEpisodes}
  /\ results' = {}
  /\ pc' = "measure"
  /\ UNCHANGED <<disk_vars, i, pool, sigma, trainer, not_ready, payoff, running, starts>>

StartEvaluator ==
  /\ pc = "measure" /\ Len(running) < NumWorkers
  /\ \E x \in pending : pending' = pending \ {x} /\ running' = Append(running, x)
  /\ UNCHANGED <<disk_vars, pc, i, pool, sigma, trainer, not_ready, payoff, results, starts>>

\* ray.wait() on a full set of evaluators returns one of them.
TakeResult ==
  /\ pc = "measure" /\ (Len(running) = NumWorkers \/ pending = {})
  /\ \E n \in DOMAIN running :
       /\ results' = results \cup {Credited(running[n])}
       /\ running' = RemoveAt(running, n)
  /\ UNCHANGED <<disk_vars, pc, i, pool, sigma, trainer, not_ready, payoff, pending, starts>>

\* The means are filled in; train() waits for the other trainer, or goes on.
EndEvaluate ==
  /\ pc = "measure" /\ pending = {} /\ running = <<>>
  /\ LET new == {x.entry : x \in results}
     IN  payoff' = [e \in DOMAIN payoff \cup new |->
                      IF e \in new THEN {x \in results : x.entry = e} ELSE payoff[e]]
  /\ pc' = IF not_ready = {} THEN "solve" ELSE "wait"
  /\ UNCHANGED <<disk_vars, i, pool, sigma, trainer, not_ready, pending, running, results, starts>>

\* calculate_exploitability() with the old mixtures, then meta_solver().solve().
Solve ==
  /\ pc = "solve"
  /\ sigma' = [p \in Players |-> Len(pool[p])]
  /\ pc' = IF LastRound THEN "done" ELSE "train"
  /\ i' = IF LastRound THEN i ELSE i + 1
  /\ UNCHANGED <<disk_vars, pool, trainer, not_ready, eval_vars, starts>>

\* An actor fails, or the driver: max_task_retries is 0, so that a restarted
\* actor does not run the lost call again and ray.get() raises.
Fail ==
  /\ pc \notin {"down", "done"}
  /\ pc' = "down" /\ trainer' = [p \in Players |-> Idle]
  /\ pending' = {} /\ running' = <<>>
  /\ UNCHANGED <<disk_vars, i, pool, sigma, not_ready, payoff, results, starts>>

-------------------------------------------------------------------------------
Driver ==
  \/ StartTrainers \/ (\E p \in Players : TakeAgent(p))
  \/ BeginEvaluate \/ StartEvaluator \/ TakeResult \/ EndEvaluate \/ Solve

Next == StartDriver \/ Driver \/ (\E p \in Players : TrainerReturns(p)) \/ Fail

Spec == Init /\ [][Next]_vars

\* A driver works on, and training ends by its number of environment steps.
FairSpec == Spec /\ WF_vars(Driver) /\ \A p \in Players : WF_vars(TrainerReturns(p))

-------------------------------------------------------------------------------
(* Properties *)

MaybeAgent == Agent \cup {None}
Origin == [from : MaybeAgent, against : Seq(Agent)]
PlayerTrainer ==
  [status : {"none", "training", "ready"}, from : MaybeAgent, against : Seq(Agent),
   weights : Nat, agent : MaybeAgent]
Work == [entry : (Nat \ {0}) \X (Nat \ {0}), episode : 1..NumEpisodes, pair : Agent \X Agent]

\* Types.  Of `payoff' only the domain matters, which SolvesFullGame tells.
PsroTypeOK ==
  /\ recorded \in [Players -> [Rounds -> MaybeAgent]]
  /\ trained \in [Players -> [Rounds -> Nat]]
  /\ origin \in [Players -> [Rounds -> Origin \cup {None}]]
  /\ pc \in {"down", "train", "wait", "evaluate", "measure", "solve", "done"} /\ i \in Rounds
  /\ pool \in [Players -> Seq(Agent)] /\ sigma \in [Players -> Nat]
  /\ trainer \in [Players -> PlayerTrainer] /\ not_ready \subseteq Players
  /\ pending \subseteq Work /\ results \subseteq Work /\ running \in Seq(Work)
  /\ starts \in Nat

\* Both players of an iteration train against the same generation: all agents
\* of the iterations before, with a weight for each, whichever trainer is first.
SameGeneration ==
  \A p \in Players :
    trainer[p].status # "none" =>
      /\ Len(trainer[p].against) = i /\ trainer[p].weights = i
      /\ \A k \in DOMAIN trainer[p].against : trainer[p].against[k].iteration = k - 1

\* The meta-game is solved on a full matrix: every pair of the pools has been
\* measured, the pairs of two new agents included.
SolvesFullGame == pc = "solve" => DOMAIN payoff = Entries /\ \A p \in Players : Len(pool[p]) = i + 1

\* An entry is the mean over each episode once, played by the agents of its row
\* and its column, in whatever order the evaluators returned.
PayoffsOfPairs ==
  pc # "down" =>
    \A e \in DOMAIN payoff :
      payoff[e] = {[entry |-> e, episode |-> k, pair |-> Pair(e)] : k \in 1..NumEpisodes}

\* However often the driver fails and is started again, the recorded agents are
\* one population: each was trained from the recorded one before it, against all
\* recorded opponents before it.
RecordedAt(p, k) == IF k = 0 THEN Bootstrap ELSE recorded[p][k]
OnePopulation ==
  \A p \in Players : \A k \in 1..Iterations :
    recorded[p][k] # None =>
      /\ origin[p][k].from = (IF k = 1 THEN None ELSE recorded[p][k - 1])
      /\ origin[p][k].against = [n \in 1..k |-> RecordedAt(Other(p), n - 1)]

\* A driver that does not fail finishes.
DriverEnds == pc = "evaluate" ~> pc \in {"down", "done"}
===============================================================================
