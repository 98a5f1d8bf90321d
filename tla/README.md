# Specifications of MATE, the Multi-Agent Tracking Environment

MATE is a cooperative game of two teams on a square terrain. *Targets* carry
cargo between warehouses; *cameras* turn and zoom to keep targets in sight and
so reduce what a delivery pays. The environment is a single-threaded Python
object (`mate/environment.py`) behind a stack of wrappers; rule-based agents
talk through it before each step; scripts run the training of learned agents
as operating-system processes.

This directory holds TLA+ modules for the discrete part of that system, TLC
configurations that check them on small instances, and proofs, checked by
TLAPS, of all their safety properties for all values of the parameters.

Paths in this file are relative to the repository (`src/` in `PROJECT.json`).
"External" code (gym, numpy, ray, torch) is not modelled by itself.

## 1. Inventory of the system

### 1.1 Cargo transport and episodes: `mate/environment.py`, `mate/entities.py`

*State.* `remaining_cargoes[w1, w2]` (units in the store of `w1` for `w2`),
`awaiting_cargo_counts[w]`, per target a goal (`target_goals`), the weight it
carries (`target_goal_bits`, and a second copy `goal_bits` in the `Target`
entity, which is what the agent observes), its pay (`freights`, `bounties`) and
the warehouses it saw empty (`empty_bits`); two reward accumulators; the step
counter; the cached global state `_state`.

*Operations.* `reset()`, `step()`, `state()`, and `_assign_goals()`, the loop
over targets that `reset()` and `step()` share. `load_config()` and `close()`
replace or drop the whole object.

*Hard behaviour.* Three arrays account for the same units of cargo and are
updated in different branches and different calls; the dense reward charges a
tracked target at once, the delayed one at delivery; `step()` infers deliveries
from goals that changed; the clock is advanced before it is compared; a cache
is dropped by hand.

*Correct when* no unit of cargo is lost or made; the two
records of a load agree; a warehouse remembered as empty is empty; the two
rewards can be reconciled; an episode that ends early has delivered everything
and every episode ends; the global state is never an old one.

### 1.2 Messages: `mate/environment.py`, `mate/utils.py`, `mate/wrappers/message_filter.py`

*State.* Per agent a queue (`message_queues`, emptied by `receive_messages()`)
and a buffer (`message_buffers`, kept for the infos of the step); the
communication edges of the step and of the episode.

*Operations.* `send_messages()`, `route_messages()`, `receive_messages()` with
and without an agent, and the communication parts of `step()` and `reset()`.
Filters (`RandomMessageDropout`, `RestrictedCommunicationRange`,
`NoCommunication`) stand in front of `send_messages()` and drop routed copies.

*Hard behaviour.* One message is recorded in three places that are emptied by
different calls; a broadcast is expanded and may pass the expansion again;
sends, reads, steps and resets may come in any order.

*Correct when* each delivered message is read once and in order, edges count
what arrived and not what was sent, totals are the sum of what was reported, and
an unfiltered broadcast reaches the team.

### 1.3 Group communication and single-team wrappers: `mate/wrappers/single_team.py`, `mate/agents/base.py`

*State.* `last_requests` and `last_responses` of each agent; which agents are
the caller's (all of a team, or one that `reset()` draws) and which are played
by the wrapper.
*Operations.* `group_reset()`, `group_communicate()` (four loops: send
requests, read, send responses, read), `group_step()`; `reset()`, `step()`,
`send_messages()` and `receive_messages()` of `SingleTeamMultiAgent` and
`SingleTeamSingleAgent`.
*Hard behaviour.* Requests and responses share a queue and differ only by when
they are read; what is not read in the last loop is dropped by `step()`.
`receive_messages()` without an agent returns buffers and leaves queues alone,
with an agent it empties a queue, and callers may mix the two. The teammates of
a single learner talk inside `step()`, after the learner's last chance to read.
*Correct when* nobody is handed a response as a request, what the agents read is
what the infos report, and a learner can get everything that reached its queue.

### 1.4 Evaluation: `mate/evaluate.py`

*State.* The returned `status` table. *Operation.* `evaluate()`: one episode
with a time limit of its own. *Hard behaviour.* Two limits compared
differently; a status row that is written on some steps only. *Correct when*
it returns, and reports the last step it played.

### 1.5 Delayed communication: `mate/wrappers/extra_communication_delays.py`

*State.* A heap of (due step, message), shared by the two teams.
*Operations.* `send_messages()` pushes, flushes what is due and hands it to the
environment; `step()` and `reset()`. *Hard behaviour.* Ordering of equal due
steps, messages of both teams in one flush, resets with messages on the way.
*Correct when* each message arrives once, at its due step, or is dropped by a
reset; and no other team's messages make a send fail.

### 1.6 Rule-based agents: `mate/agents/`

*State.* A greedy target believes some warehouses to be non-empty and has a
destination. A greedy camera remembers targets for `memory_period` steps, knows
the teammates it has heard of, and waits for a random pause before it writes
to the same one again.
*Operations.* `reset`, `observe`, `send_responses`, `receive_responses`, `act`.
*Hard behaviour.* Beliefs and acquaintances spread by messages that are sent
once and may be lost; memory is refreshed by hearsay as well as by sight.
*Correct when* no belief excludes a warehouse that has cargo, nobody stops while
there is cargo, knowledge is as old as it seems, and what a camera sees reaches
the teammates in time.

The naive, random, heuristic and mixed agents keep nothing about others.

### 1.7 Supervisors of training jobs: `scripts/`

*State.* `run_focus_paper_queue.py`: a status per job in `queue_state.json`,
read at start and replaced as a whole. `run_value_factorization_2m_priority_queue.py`:
states and attempts in memory, written to `status.json` and never read back;
the current process; a flag set by a signal handler.
*Operations.* Start a job, wait, record its result, retry, stop on a signal,
resume after a crash.
*Hard behaviour.* Signals and kills between any two statements, jobs that
survive their queue, jobs that answer a signal with exit code 0, two queues on
one file. *Correct when* one job runs at a time unless a queue was killed, what is
recorded has happened, nothing recorded is run again, and a signal ends it all.

`run_value_factorization_2m_supervisor.py` (jobs in parallel, no retries) and
`watch_value_factorization.py` (a read-only display) belong here, too.

### 1.8 Population-based training: `examples/psro/`

*State.* Per player a pool of agents and a mixture over the other pool; a matrix of
payoffs with holes; per player and iteration a recorded checkpoint.
*Operations.* `train()` starts a trainer per player, takes their agents as they
finish, fills the holes with the results of evaluators that run beside each other,
solves the meta-game, goes on.
*Hard behaviour.* Two trainers and many evaluators finish in any order; a failure
ends the driver, and the next one finds only what was recorded.
*Correct when* both trainers of an iteration face the same generation, each entry of
the matrix is the mean over its own pair's episodes, the game that is solved is
complete, and the recorded agents are one population over all restarts.

### 1.9 The rest

Observation, action and reward wrappers are stateless transformations of
floating-point arrays; the other parts of `examples/` and the vendored Ray tree
are learning algorithms; `scripts/summarize_ray_results.py` and its kin read result
files. None keeps state whose order of change matters; none is modelled.

## 2. Modules

| Module | Models | Extends |
|---|---|---|
| `Totals` | sums of functions of natural numbers, as cardinalities | |
| `CargoTransport` | 1.1 | `Totals` |
| `MCCargoTransport` | symmetry set for TLC | `CargoTransport` |
| `CargoTransport_proof` | theorems about 1.1, the refinement among them | `CargoTransport` |
| `CargoLedger` | what an episode promises about cargo (abstract) | |
| `MessageChannel` | 1.2 | |
| `MCMessageChannel` | symmetry set for TLC | `MessageChannel` |
| `MessageChannel_proof` | theorems about 1.2 | `MessageChannel` |
| `GroupCommunication` | 1.3, the agents' protocol over the channel | `MessageChannel` |
| `SingleTeam` | 1.3, learners and groups behind the two wrappers | `GroupCommunication` |
| `MCSingleTeam` | symmetry set and view for TLC | `SingleTeam` |
| `DelayedGroup` | 1.5, the delaying wrapper under the groups | `GroupCommunication` |
| `MCDelayedGroup` | symmetry set for TLC | `DelayedGroup` |
| `GroupCommunication_proof` | theorems about 1.3 and 1.5 | `SingleTeam`, `DelayedGroup`, `MessageChannel_proof` |
| `TargetBeliefs` | 1.6, greedy targets in the environment | `CargoTransport` |
| `Evaluation` | 1.4, the caller of environment and targets | `TargetBeliefs` |
| `Evaluation_proof` | theorems about the greedy targets and 1.4 | `Evaluation`, `CargoTransport_proof` |
| `CameraMemory`, `CameraMemory_proof` | 1.6, greedy cameras | |
| `PriorityQueue`, `PriorityQueue_proof` | 1.7, the queue with retries and signals | |
| `FocusQueue`, `FocusQueue_proof` | 1.7, the resumable queue | |
| `Psro`, `Psro_proof` | 1.8 | |

The variables carry the names of the attributes they stand for. Comments in the
modules name the code of each action, and `PROJECT.json` its lines.

### 2.1 `CargoTransport`

`reset()` is `BeginReset`, then one `AssignTarget` per target, `EndResetAssign`,
one `StartCargo` per target, `EndReset`. `step()` is `BeginStep`, one
`AssignTarget` per target, `EndStep`. `state()` is `ReadState`. The variable
`phase` is the program counter and `cursor` the loop index. Splitting the calls
at their loops does not add behaviour (the environment is single-threaded and
nothing else is enabled during a call); it makes every iteration's intermediate
state visible to the invariants.

`AssignTarget` has the three outcomes of the loop body: `PassBy` (at no
warehouse, or with cargo for another one), and `Serve`, which delivers if the
cargo is for this warehouse and then loads again (`Load`) or leaves with nothing
(`LeaveEmpty`). `empty_bits` is computed after loading, as in the code.

What is abstracted:

* *Where a target is.* Each iteration chooses a warehouse or none. The four
  warehouse squares lie in the corners and are disjoint, so a target is at one
  at most. Movement constraints would only remove behaviours.
* *Who is tracked.* Any subset of the targets, chosen once per step.
* *Random draws.* The filling loop of `reset()` is a sequence of pairs of
  distinct warehouses in whole batches, up to the first batch after which no
  store is empty; a loaded target's recipient is any of the store's.
* *Capacities.* One or two units, with `num_high_capacity_targets` of the
  latter, as in the code; the shuffle of the entities only renames targets.
* *Left out.* Diagnostics (`target_steps`, `tracked_steps`, coverage and
  transport rates in the infos), orientations, obstacles, the choice of sparse
  or dense team reward (both accumulators are kept all the time).

`CargoLedger` is the abstract specification. It knows units stored for a
warehouse (in any store), what each target carries and where to, units
delivered, and whether an episode is open. `CargoTransport` instantiates it as
`Ledger` with the refinement mapping: `stored` is the column sum of
`remaining_cargoes`, `loads` the goal and its goal bit, `open` any phase but
`constructed` and `done`. `delivered` is `num_delivered_cargoes`, except while
the loop of `reset()` runs: the counter is zeroed only after it, so the mapping
says zero there, and the refinement then demands that this loop delivers
nothing. `BeginReset` implements `NewEpisode`; `StartCargo` and the loading part
of `Serve` implement `PickUp`; a `Serve` that delivers, and perhaps loads again,
implements `Deliver`; an `EndStep` that is done implements `Close`; all else
stutters.

### 2.2 `MessageChannel`

`send_messages()` treats its list message by message and has no state that
spans them, so a list is a run of `Send` steps. A list that mixes teams raises
before anything is sent, and is therefore no step at all. A recipient index outside
the team would raise at the array of edges, after the message and those before it in
the list have been put into queues and buffers; `pack_message()` addresses teammates
only, and the case is left out. `Routed` and `Addressees` are `route_messages()`.
A filter is a choice of the copies that pass: every filter of the repository refines
it. It routes before it chooses, and the environment routes what it is handed
(`HandedOn`) once more; `Copies` counts what comes out of the second routing.
`Receive` is `receive_messages()`; `EnvStep` and `EnvReset` are the
communication parts of `step()` and `reset()`. The infos are represented by the
buffers at the moment of `EnvStep`; `reported` adds them up over an episode
(history), and `read` collects what the agent got in this step (history).

### 2.3 `GroupCommunication` and `SingleTeam`

`Next` of the channel lets callers use it in any order. `GroupCommunication`
gives the actions of `group_communicate()`: `round` is the loop that runs, `order`
the agents of the group (any permutation), `cursor` the agent whose turn it is. An
agent may send any number of messages in its turn, to one teammate or to all.
`spoke` names the teams whose group has communicated in this step.

`SingleTeam` puts the two wrappers on top. The caller drives `learners`, all
agents of a team or one of them, and may send (`LearnerSends`), read
(`LearnerReads`, `TeamPeeks`) or let the whole team communicate (`LearnersTalk`,
what `evaluate()` does) in any order. Inside `step()` (`CallStep` to
`StepReturns`) the teammates of a single learner talk, then the opponents; then
the environment steps and clears the queues. `told` collects what
`receive_messages()` returned (history), and `loose` remembers that learners used
the channel outside of a group, which is what weakens the groups' guarantees:
a request of theirs may be of any kind. Learners may be told twice of a message
(by a peek and a read), never of one from an earlier step.

### 2.4 `DelayedGroup`

The delaying wrapper takes the place of the environment under
`GroupCommunication`: an agent's turn is a number of `AgentPushes` (the list it
sends), `BeginFlush` (what is due is popped), one `HandOver` per popped message,
which is the channel's `Send`, and `EndFlush`. A flush also happens when the
list is empty. Reads, steps and the start of a group pass through.

The layout of the heap is abstracted: the heap is a set, popped by due step.
`heapq` compares two entries with equal due steps by their messages, and
`Message` is a dataclass with `==` but without `<`; whether two entries meet in a
comparison depends on the layout, so the model lets any two of a push or a pop
raise, or not, and demands it where it is certain, at a push next to one other
entry. After an exception nothing happens any more (nobody in the repository
catches it), which is why deadlock checking is off in its two runs.

What has been popped when an exception comes is off the heap and lost.

Late responses come as requests: what is delayed by a step or more is handed over
by the first send of a later step, which belongs to a loop of requests, and is read
by `receive_requests()`; `receive_responses()` never gets anything
(`LateMailComesAsRequests`). `RequestsBeforeResponses` is therefore a property of the
undelayed channel only. The greedy agents of the repository override
`receive_responses()` and not `receive_requests()` (`greedy.py:196`, `:355`): behind
the wrapper's default delay of 3 they hear nothing of each other. No document
promises otherwise, so this is a property of the code and not a finding.

### 2.5 `TargetBeliefs` and `Evaluation`

`TargetBeliefs` adds the greedy targets to the environment. The loops of
`group_step()` run without interruption, so each is one action: `Observe`,
`SendResponses`, `ReceiveResponses`, `Act`. A filter may drop any copy of a
broadcast, that to the sender included. Only the destination is kept of `act()`:
noise may lead a target to any warehouse or to none.

`evaluate()` drives both: its actions are conjunctions of the environment's and
the agents' with the loop's own state. The status is the row of numbers it
copies from the environment.

### 2.6 `CameraMemory`

One target and a team of cameras; who sees the target and who is near it changes
freely with each step (a camera that sees it is near it: sight ranges do not
exceed `max_sight_range`). A target state is the step of its observation and the
cameras it was near then; lists of them go from `message2send` into messages and from
there into `memory`, which holds the step of the observation that was stored last,
own or heard, whatever came before it. That a box which is not cleared, or a message
that is late, would make a report older than its restarted `time2forget` says is
therefore a possibility of the model, which `MemoryAge` excludes. `missed` (history) the first messages of an episode that were
dropped, `silent` (history) for how many turns a camera has had news for a known
teammate in range and not written. The deletion of a neighbour that has moved away
(`greedy.py:219`) is undone by the next statement and has no effect.

### 2.7 `PriorityQueue` and `FocusQueue`

Labels (`pc`) separate the statements between which a signal or a kill matters.
In `PriorityQueue` the handler `StopCurrent` may run between any two of them;
`tracked` says whether `current` already names the process that runs. A job may
end at any time with either kind of exit code, signalled or not; `killpg` is
taken to reach it, and a signalled job to end. A supervisor that is killed leaves
its job to run in a session of its own, and the next one starts from scratch.

In `FocusQueue` several queues work on one file. `state` is what a queue has in
memory and `file` what is on disk; `save_state()` replaces the file in one step. The
code writes a temporary file of a fixed name first, which two queues share: one may
find it gone, which ends it with an exception as a `Kill` does, or move what the other
has written, which is the other's save and its own end. That a queue moves a file the
other is still writing, and a third loads it, is left out. Ctrl-C is recorded as
`interrupted` inside the `try`, while the log is opened and while the job runs
(`Interrupt`), and ends the program elsewhere as a signal does (`Kill`).
`subprocess.run()` kills its process when Ctrl-C interrupts it, whereas a killed queue
leaves the job running: an orphan, whose end nobody records. Histories let the
properties say what is lost in which case: `overlapped` and `deserted`, and
`beside[j]`, the queues that were running when job `j` was recorded as complete. They
have loaded an older file and may write it back; that is the price of two queues on
one directory, and `CompleteIsFinal` says that nobody else can set the job back.
Nothing in the code keeps a job from being started beside its orphan.

### 2.8 `Psro`

An agent is its iteration and how often that iteration has been trained, so that
a training that is repeated after a failure gives another agent. `trainer` keeps
what a trainer was started with; `TrainerReturns` may come at any time, before or
after the other's, during evaluations or while nobody waits. `evaluate()` is
`BeginEvaluate` (the holes of the matrix), `StartEvaluator` and `TakeResult` (in
any order), `EndEvaluate`. `Fail` is any exception in the driver or an actor:
actors restart, but a lost call is not repeated (`max_task_retries` is 0), so
`ray.get()` raises and the driver ends with all its actors. `Solve` keeps the number
of weights of the mixtures. A timeout of `ray.wait()` runs an evaluation with
nothing to do and is left out.

### 2.9 `Totals`

The properties speak of sums over warehouses and targets. `Total(f)` is the
cardinality of the set of pairs `<<x, i>>`, `1 <= i <= f[x]`: the units
themselves, as a set. For functions into the natural numbers this is the sum,
and it can be reasoned about with the library's theorems on finite sets, whereas
a recursive sum would need induction over its domain.

## 3. Runs

All `pass` runs end without error. Distinct states are rounded.

| Run | Instance | States | Question |
|---|---|---|---|
| `cargo_two` | 2 warehouses, 2 targets (capacities 1 and 2), one or two batches of 2 or 4 units, bounty above freight, up to 3 steps, any resets | 737k | Do cargo, records, rewards, empty bits, end of episode and cache stay consistent while two targets compete for stores, and is the ledger implemented? |
| `channel_filtered` | a team of 2, 2 messages per mailbox, 2 steps, any copies dropped | 426k | Do queue, buffer, edges and totals agree in every order of calls, and is a copy that is routed twice delivered once? |
| `single_team` | one or two learners in a team of 2, one opponent, 2 messages per mailbox, 1 step | 1.9M | Are requests and responses kept apart, is nothing left unread, and does a learner get everything, however it reads? |
| `delayed_teams` | teams of 2 and 1, delay 1, 3 messages in an episode of 2 steps | 179k | Does every message arrive once, in order, when it is due and somebody sends, also with resets in between, and in which loop is it read? |
| `eval_two` | the cargo instance of 2 and 2, unloaded at start, 2 steps, greedy targets, with and without a filter | 316k | Are beliefs true, do they spread and drive targets on; does `evaluate()` return, within its limit, with the last row? |
| `camera_memory` | 2 cameras, 1 target, memory of 4 steps, 8 steps, any messages dropped | 1.4M | Is what is remembered, seen or heard, as old as it seems, do cameras know each other, do news arrive in time? |
| `priority_queue` | 3 jobs, 1 retry, 2 supervisors | 28k | One job at a time, true final states and an end after a signal, whenever it comes? |
| `focus_queue` | 2 jobs, 2 queues, 3 starts | 675k | Is what was completed safe over kills, interrupts, restarts and a second queue, is one record all that is lost, and does one job run at a time? |
| `psro` | 2 iterations, 2 episodes, 2 evaluators, 2 drivers | 20k | Full games of one generation, payoffs of the right pairs, one population, and an end? |

Three runs are expected to find a violation; each is a place where the program
does not do what its documentation, or its caller, says:

| Run | What is said | What the run finds |
|---|---|---|
| `delayed_raises` | the wrapper implements channels with random delays, or a constant one (`docs/source/wrappers.rst:580-584`) | two different messages with one due step are compared and raise a `TypeError`; messages of both teams in one flush fail the environment's assertion |
| `eval_unreported` | every episode is evaluated; `main()` reads `status['FPS']` (`mate/evaluate.py:739`) | `evaluate()` leaves one step before `done` and writes rows only after a delivery or at `done`: an episode without deliveries returns an empty status |
| `camera_shares` | `send_responses()` sends "the newest target states to teammates if necessary" (`mate/agents/greedy.py:162`) | with `filterout_beyond_range=False` the `else` branch that should skip the filter deletes the states: none is ever sent |

Two more remarks on the code that no run is spent on. `step()` increments
`episode_step` and then compares with `<=`, so that an episode may take
`max_episode_steps + 1` steps, one more than "maximum number of episode steps"
(`docs/source/getting-started.rst:172`) says; `Done` models it. With a bounty
factor above 1, which `validate_config()` accepts, a delivery may be worth less
than nothing, and the mean transport rate (`auxiliary_target_rewards.py:33`,
"range in [0, 1]") may be negative; `DelayedRewardBounds` has the true bounds.

### Bounds

| Bound | Where | Why it is enough |
|---|---|---|
| two warehouses | constants | the loop treats warehouses alike; two give competition for a store. That a store holds cargo for several recipients takes three, which the theorems of section 4 cover for any number |
| two targets | constants | the loop's iterations interact through the stores only, and two already take from one store in one call |
| `MaxSteps` 2 or 3 | constants | load, carry past a warehouse, deliver, reload and the time limit all occur in the three or four steps of an episode; resets continue without bound |
| `MaxSteps` 8 (cameras) | guard of `Step` | longer than the longest pause of `2 * Period - 1` = 7 turns, and twice the memory |
| `MaxBatches` 1 or 2 | guard of `Loads` | a second batch is drawn when the first leaves a store empty. The loop of the program ends with probability one and has no bound; nothing in the model depends on the number of batches |
| `MaxBuffer` 2 or 3 | guard of `Send` | two messages per mailbox give two senders, order, and a read between two sends |
| `MaxEpisode` 1 or 2 | guard of `EnvStep` | two steps accumulate totals; resets continue without bound |
| `MaxPushed` 2 or 3 | guard of `AgentPushes` | two messages may tie, a third one overtake; `MaxBuffer` is as large, so a hand-over is never blocked |
| freights and bounties of 1 or 2 | constants | a bounty equal to and above the freight; the program's are integers by `np.ceil` |
| `MaxStarts` 2 or 3 | guards of `Start`, `StartSupervisor`, `StartDriver` | a process that has failed, or runs on, meets a later one on the same directory; three starts give a queue both an overlap and a restart |
| `NumJobs` 2 or 3, `MaxRetries` 1 | constants | a job before and one after the one that runs |
| `Iterations` 2, `NumWorkers` 2, `NumEpisodes` 2 | constants | the second iteration trains from an agent of the first; two evaluators of one entry and of two |

`CargoesPerTarget` is at least the number of warehouses, as `validate_config()`
demands. Symmetry is taken over warehouses in `cargo_two` and over cameras in the safety
runs of the channel, the groups and the delays; no property names one of them.
`single_team` also uses a VIEW that leaves out the message counts and what agents
keep of an earlier step: no action and none of its invariants depends on them.
`Everyone`, `None` and `Never` are model values. The modules with
theorems have a type invariant each, which is proved, as is the inductive invariant
around it, and no run is spent on either. The groups, the wrappers and the delays
have theirs (`GroupOK`, `WrapperOK`, `HeapOK`) in `GroupCommunication_proof`.

Deadlock checking is on where the program can always go on: after `done` an
environment can be reset, a channel can always be used, a returned `evaluate()`
can be called again. It is off with delays (after an exception nothing happens
any more) and in the three models of processes, which really end when all
starts are used up.

### Fairness

Nothing is fair in `CargoTransport` by itself: an environment that nobody steps
stands still. `FairEvalSpec` assumes weak fairness of the actions of `evaluate()`,
of the loops of the agents it calls and of the environment's actions inside a call
(a Python call that runs goes on), and none for being called. There is no
fairness for deliveries: the loop ends by the clock.

The models of processes assume that a Python program that is not killed goes on
(`Works`, `Driver`) and that the other side ends where the code makes it: a
trainer by `timesteps_total`, a process of the supervisor only when it has been
sent a signal. The resumable queue is checked for safety only. There is no
fairness for signals, kills or restarts.

## 4. Proofs

Everything is proved for all values of the constants that satisfy the named
assumptions: `ValidConfig` (what `validate_config()` accepts), `TeamsDisjoint`, and
for the other modules that numbers are numbers, teams finite and `None` not an agent;
TLC evaluates these assumptions in the runs.

| Module | Theorem | States |
|---|---|---|
| `CargoTransport_proof` | `TypeCorrect` | `Spec => []TypeOK` |
| | `CargoIsConserved` | `Spec => []CargoConserved` |
| | `RecordsAlwaysAgree` | `Spec => []CargoRecordsAgree` |
| | `StateCacheCorrect` | `Spec => []StateCacheFresh` |
| | `DelayedRewardBounded` | `Spec => []DelayedRewardBounds` |
| | `LedgerImplemented` | `Spec => KeepsLedger`, the refinement |
| | `EmptyBitsAlwaysSound` | `Spec => []EmptyBitsSound` |
| | `GoalsChangeAtDelivery` | `Spec => GoalChangesAtDelivery`, an action property |
| | `EndsCorrect` | `Spec => []EndsWhenAllDelivered` |
| | `RewardsAlwaysReconcile` | `Spec => []RewardsReconcile` |
| | `EveryoneStartsLoaded` | `Spec => []StartsLoaded` |
| `MessageChannel_proof` | `ChannelTypeCorrect` | `Spec => []ChannelTypeOK` |
| | `MessagesReadOnce` | `Spec => []ReadOnceInOrder` |
| | `EdgesExact` | `Spec => []EdgesCountMessages` |
| | `FilterDeliversOnce` | `Spec => DeliveredOnce`, an action property |
| | `BroadcastsHeard` | `Spec => []BroadcastsReachTeam` |
| `GroupCommunication_proof` | `WrapperImplementsChannel` | `WrapperSpec => Spec` |
| | `NothingMissed` | `WrapperSpec => []LearnersMissNothing` |
| | `RequestsThenResponses` | `WrapperSpec => []RequestsBeforeResponses` |
| | `ReportedWasRead` | `WrapperSpec => []ReportedIsWhatWasRead` |
| | `BroadcastsHeardByTeams` | `WrapperSpec => []BroadcastsReachTeam` |
| | `DelaysImplementChannel` | `DelayedSpec => Spec` |
| | `DelayedArriveOnce` | `DelayedSpec => []ArriveOnce` |
| | `DelayedInOrder` | `DelayedSpec => []NoOvertaking` |
| | `DelayedHandsOver` | `DelayedSpec => []NothingHeldBack` |
| | `DelayedReadLate` | `DelayedSpec => []LateMailComesAsRequests` |
| `Evaluation_proof` | `EvaluationTransports` | `EvalSpec => Spec` |
| | `BeliefTypeCorrect` | `EvalSpec => []BeliefTypeOK` |
| | `BeliefsAlwaysSound` | `EvalSpec => []BeliefsSound` |
| | `NobodyGivesUpCorrect` | `EvalSpec => []NobodyGivesUp` |
| | `TeamAlwaysAgrees` | `EvalSpec => []TeamAgrees` |
| | `ReturnsLastStepCorrect` | `EvalSpec => []ReturnsLastStep` |
| `CameraMemory_proof` | `MemoryTypeCorrect` | `Spec => []MemoryTypeOK` |
| | `MemoryAgeCorrect` | `Spec => []MemoryAge` |
| | `KnownCorrect` | `Spec => []KnownFromFirstStep` |
| | `SharesCorrect` | `Spec => []SharesInTime`, if `FilterRange` |
| `PriorityQueue_proof` | `SupervisorTypeCorrect` | `Spec => []SupervisorTypeOK` |
| | `OneAtATime` | `Spec => []NoneLeftRunning` |
| | `FinalStatesCorrect` | `Spec => []FinalStatesTrue` |
| | `StatusFileCorrect` | `Spec => []StatusFileSound` |
| | `StopsStartingCorrect` | `Spec => []StopsStarting` |
| `FocusQueue_proof` | `QueueTypeCorrect` | `Spec => []QueueTypeOK` |
| | `EndMeansRecordedCorrect` | `Spec => []EndMeansRecorded` |
| | `KillLosesOneCorrect` | `Spec => []KillLosesOne` |
| | `JobsSequentialCorrect` | `Spec => []JobsSequential` |
| | `CompleteIsFinalCorrect` | `Spec => CompleteIsFinal`, an action property |
| `Psro_proof` | `PsroTypeCorrect` | `Spec => []PsroTypeOK` |
| | `SameGenerationCorrect` | `Spec => []SameGeneration` |
| | `SolvesFullGameCorrect` | `Spec => []SolvesFullGame` |
| | `PayoffsCorrect` | `Spec => []PayoffsOfPairs` |
| | `OnePopulationCorrect` | `Spec => []OnePopulation` |

*Cargo.* The type invariant is inductive by itself: a load takes no more than
the store has and no more than the capacity, so nothing falls below zero
(`awaiting_cargo_counts` may, as far as types go: that it does not follows from
conservation). `CargoInv` adds conservation and the agreement of records.
Conservation alone is not inductive: `Deliver` subtracts the weight of the
goal's bit, and `Load` overwrites the whole row of bits, so it must be known
that the row holds nothing but the goal's weight, which is what
`CargoRecordsAgree` says. The arithmetic is in lemmas on `Total`: changing one
value changes the sum by the difference. They are proved from unions and products of
finite sets of units, not by induction. `BeginReset` establishes conservation from
scratch, since the awaited counts are the column sums of the stores and no
target carries anything.

*Ledger.* `LedgerInv` adds to `CargoInv` that no store holds cargo for its own
warehouse (from the draws of distinct pairs), that the loop of `reset()` meets
every target unloaded (true of all targets from `cursor` on, and each is met
once), and `EmptyBitsSound`, which is inductive since between two resets no
entry of a store grows (`StoresShrink`). `LoadTakes` shows that a load is the
ledger's `Take` of an amount the stores have; `NextKeepsLedger` maps each action
to its abstract one or to a stutter. That a delivery and a reload never aim at
the same warehouse, in the ledger and in `GoalsChangeAtDelivery`, is where the
distinct pairs are needed.

*End of an episode.* `EndInv` says when something is awaited: from the end of the
filling loop, which leaves no store empty, to a step that is done. That awaited
means stored or carried is conservation (`NothingAwaited`), and that it is then in
a store's row or behind a goal is the agreement of records.

*State cache and rewards.* `CacheInv` says that a cached state exists between
calls only; all that it shows changes within calls. `PayInv` bounds the delayed
reward with the rewards of the running call added, with the bounds of every bounty
from `CargoRecordsAgree`. `RewardInv` is `RewardsReconcile` at every point of a call:
what has been charged and not yet paid is `Total(LostBounty)`, the charge of a
step adds the same to both sides, and a delivery takes the loser's share out of the
sum.

*Every target starts loaded.* `StartInv` says that at least one batch is awaited until
`reset()` returns: nothing is delivered before, since its first loop meets every target
unloaded. Draws and carried units are counted with one lemma, `SizesAddUp`: disjoint
finite sets, side by side, have the sum of their sizes. Each draw is a unit awaited by
its recipient (`DrawsAreAwaited`). Were all stores empty and a target unloaded, all
that is awaited would be carried by the others, two units each and each for one goal,
which is less than a batch: `num_cargoes_per_target` is at least the number of
warehouses, hence two (`CarriedIsLess`).

*Channel.* `ChannelInv` is typing together with `ReadOnceInOrder` and
`EdgesCountMessages`. `CopiesOnce` shows that routing a copy again gives the copy, so
that a `Send` appends one message per recipient (`SendDelivers`), with a filter or
without; that is `DeliveredOnce`, and all else about sending rests on it. The edges
need the typing of mailboxes (every message in `a`'s buffer is for `a`), and the
totals need the edges: at `EnvStep` the totals grow by the edges and the history
by what the buffers hold, and they stay equal because edges count buffers.
`BroadcastsReachTeam` is inductive given the types: an unfiltered broadcast adds one
to the count of every teammate, so it is the last of each.

*Groups and wrappers.* `GroupOK` says that a group is of one team that has not
communicated in this step and that each member has one place in its order, `WrapperOK`
that the agents talk inside `step()`, all of a team or none, and that outside of it
only a whole team of learners does. With them every step is one of the channel or
leaves it alone (`WrapperImplementsChannel`), and `ChannelInv` is known of
`WrapperSpec`. `StagesOK` follows an agent through a step: it has read nothing, or the
requests (`Asked`), or also the responses (`Answered`); for each stage it says what may
be in its queue and what it has read. The properties speak of the last stage only; that
no response is in a queue when requests are read is a fact about the first one, and it
holds because no member sends a response before every member has read, for which
`Speaking` must contain all of the team that is in a group. Messages of the caller are excepted as long as he
has used the channel loosely. `ToldOK` states `LearnersMissNothing` of what has been
read; with `ReadOnceInOrder` that gives what is still in a queue.

*Delays.* `DelayedInv` adds to the properties that entries of the heap are told apart by
their number (`HeapOK`), that with a constant delay the order of numbers is the order of
due steps (`InSendOrder`), and that nothing due is left between the loops in which
something is sent (`NothingDue`). `NoOvertaking` needs that `Earliest`, a choice of the
least entry by due step and number, exists in every set of due entries: least numbers
come from the library's theorem that the strict subsets of a finite set are well
founded (`LeastNumber`), which takes no operator as a parameter.

`LateInv` says that after the first turn of a loop of requests nothing is due until the
next step, since what is pushed is due later, and that who has read then has an empty
queue.

*Greedy targets and evaluation.* `EvaluationTransports` makes every invariant of
the environment one of `EvalSpec`. `EvalInv` adds the program counter and the clock,
the soundness of beliefs, of mail that is on its way and of what is about to be
told, and what the team has in common: without a filter all start a step from the
same beliefs, an agent's own are part of them, and whoever believes less says so in
a message that everyone gets (`Shared`). Soundness rests on `EmptyBitsAlwaysSound` and on stores that only
shrink between two resets (`NoneFills`).

*Greedy cameras.* `AgeInv` relates the counter to the age of the knowledge at each
stage (before the observation it is the one of the step before). It needs `BoxInv`: what
is in a message box or on its way was observed in this step, because a turn empties
the box and mail is read in the step it is sent in; then the newest of a heard list is
of this step, too (`HeardNow`), which is what the restarted counter claims. `Introduction` and
`Acquainted` follow the one message by which a camera becomes known. `SilenceInv`
bounds silence plus what is left of the pause, which the pause alone does not give:
the sum is what stays constant. `SharesCorrect` assumes `FilterRange`; the run
`camera_shares` shows that it has to.

*Supervisors.* `SupervisorInv` divides the jobs into those dealt with, the one at
hand and those not yet touched, and says of the one at hand what its state, its
attempts and its process are at each label, with `stopping` set at any time. In
`QueueInv`, `Memory` says that a queue which was not running when a job was recorded as
complete has the job complete in memory, which is why it neither starts it nor writes
anything else back; `Alone` and `UpToDate` hold as long as no two queues have met.

*Population-based training.* `PsroInv` says that pools, the opponents of a running
trainer and those of a recorded agent are all prefixes of one sequence, the
recorded agents (`Chain`), which an agent joins in the order of iterations
(`Recorded`); and that results, running evaluators and pending tasks together
are exactly the episodes of the missing entries (`Measured`). None of the
properties is inductive alone: that a restarted driver continues the same
population needs that agents are recorded for both players before the next
iteration, although each player records on its own.

*Only model-checked.* Liveness (`EvaluationReturns`, `SignalStopsAll`, `DriverEnds`),
which is beyond the prover. What a run checks of safety is proved.

## 5. Not modelled, and why

* Geometry (movement, collisions, fields of view, orientation) is
  floating-point; the models take its outcome as a choice.
* Probabilities: a random draw is a choice.
* `load_config()`, `close()`, `render()`, videos and tables: no state of the
  properties changes in them, or all of it is replaced.
* Modification of message contents by a filter; the contents are opaque here.
* The parallel supervisor and the watcher of section 1.7; the first would be a
  smaller `PriorityQueue`, the second changes nothing.
* `Target.OBSTACLES`, shared by the environments of a process: its effect is
  geometric.
* Learning code, vendored Ray, result files, documentation. They are most of the
  repository's Python by far (the vendored Ray tree alone holds over nine tenths
  of its lines), and what they do is numerical or not this program's own. The
  lines the modules stand for are therefore a small share of all lines, though
  they cover the discrete logic of `mate/`, of two of the supervisors and of
  `examples/psro`.

## 6. Plan

Done: the cargo with its ledger, its callers and the greedy targets; the channel,
the groups, the delays and the single-team wrappers; the greedy cameras; two
supervisors; population-based training; theorems about all of them, for every safety
property that a run checks.

Next, in this order:

1. The cameras on `MessageChannel` instead of a mail set of their own.
2. Two environments in a process and the obstacles they share.
