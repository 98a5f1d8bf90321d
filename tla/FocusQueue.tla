------------------------------ MODULE FocusQueue ------------------------------
(***************************************************************************)
(* scripts/run_focus_paper_queue.py: a queue runs the training jobs of a   *)
(* tier one after the other and keeps a status of each in                  *)
(* queue_state.json, so that a later queue resumes where this one stopped. *)
(*                                                                         *)
(* A queue may end early, be interrupted (Ctrl-C), or be killed between    *)
(* any two steps, and its job survives a kill.  Nothing keeps a user from  *)
(* starting a second queue on the same file while one runs.                *)
(***************************************************************************)
EXTENDS Integers, FiniteSets

CONSTANTS
  NumJobs,     \* make_jobs() yields jobs 1..NumJobs in this order
  Queues,      \* processes that may run the script
  MaxStarts    \* BOUND: how often the script is started

ASSUME QueueAssumption == NumJobs \in Nat \ {0} /\ IsFiniteSet(Queues) /\ MaxStarts \in Nat

Jobs == 1..NumJobs
Statuses == {"absent", "running", "complete", "failed", "interrupted"}

VARIABLES
  file,        \* state["jobs"] as in queue_state.json
  state,       \* state["jobs"] in the memory of each queue
  pc, at,      \* where each queue is in main(), and at which job
  rerun,       \* --rerun-failed
  child,       \* the process in subprocess.run(): "none", "running", or its result
  orphans,     \* processes of each job that have lost their queue
  starts,      \* BOUND counter: starts of the script so far
  beside,      \* HISTORY: queues already running when the record of a job became complete
  overlapped,  \* HISTORY: have two queues ever run at once?
  deserted     \* HISTORY: jobs whose queue was killed while they ran

vars == <<file, state, pc, at, rerun, child, orphans, starts, beside, overlapped, deserted>>

-------------------------------------------------------------------------------
(* Helpers *)

SkipsFailedOnly(status, rerunFailed) == status = "failed" /\ ~rerunFailed   \* mutant

\* Jobs that main() passes over.
Skips(status, rerunFailed) == status = "complete" \/ (status = "failed" /\ ~rerunFailed)

Recorded(result) == IF result = "succeeded" THEN "complete" ELSE "failed"

\* Mutant: the result of a job is written together with the next start.
WrittenLater(q) == IF pc[q] = "save_end" THEN file ELSE state[q]
Written(q) == state[q]

SurvivesInterrupt(q) == child[q] = "running"    \* mutant: the process outlives Ctrl-C
InterruptSpares(q) == FALSE   \* subprocess.run() kills its process before it re-raises

NextJob(i) == i + 1

Live(j) == orphans[j] + Cardinality({q \in Queues : at[q] = j /\ child[q] = "running"})

-------------------------------------------------------------------------------
Init ==
  /\ file = [j \in Jobs |-> "absent"] /\ state = [q \in Queues |-> file]
  /\ pc = [q \in Queues |-> "down"] /\ at = [q \in Queues |-> 1]
  /\ rerun = [q \in Queues |-> FALSE]
  /\ child = [q \in Queues |-> "none"] /\ orphans = [j \in Jobs |-> 0]
  /\ starts = 0 /\ beside = [j \in Jobs |-> {}] /\ overlapped = FALSE /\ deserted = {}

Goto(q, label) == pc' = [pc EXCEPT ![q] = label]

\* load_state()
Start(q) ==
  /\ pc[q] = "down" /\ starts < MaxStarts
  /\ starts' = starts + 1
  /\ state' = [state EXCEPT ![q] = file]
  /\ at' = [at EXCEPT ![q] = 1]
  /\ \E r \in BOOLEAN : rerun' = [rerun EXCEPT ![q] = r]
  /\ overlapped' = (overlapped \/ \E p \in Queues : pc[p] # "down")
  /\ beside' = [j \in Jobs |-> beside[j] \ {q}]
  /\ Goto(q, "save_load")
  /\ UNCHANGED <<file, child, orphans, deserted>>

\* save_state() replaces the whole file; what follows depends on where it is called.
Save(q) ==
  /\ pc[q] \in {"save_load", "save_start", "save_end", "save_interrupt"}
  /\ file' = Written(q)
  /\ at' = [at EXCEPT ![q] = IF pc[q] = "save_end" THEN NextJob(@) ELSE @]
  /\ Goto(q, CASE pc[q] = "save_start"     -> "launch"
               [] pc[q] = "save_interrupt" -> "down"
               [] OTHER                    -> "check")
  /\ beside' = [j \in Jobs |->
       IF file[j] # "complete" /\ file'[j] = "complete"
       THEN {p \in Queues \ {q} : pc[p] # "down"} ELSE beside[j]]
  /\ UNCHANGED <<state, rerun, child, orphans, starts, overlapped, deserted>>

Skip(q) ==
  /\ pc[q] = "check" /\ at[q] \in Jobs /\ Skips(state[q][at[q]], rerun[q])
  /\ at' = [at EXCEPT ![q] = @ + 1]
  /\ UNCHANGED <<file, state, pc, rerun, child, orphans, starts, beside, overlapped, deserted>>

\* The deadline has passed or too little memory is available.
StopEarly(q) ==
  /\ pc[q] = "check" /\ at[q] \in Jobs /\ ~Skips(state[q][at[q]], rerun[q])
  /\ Goto(q, "down")
  /\ UNCHANGED <<file, state, at, rerun, child, orphans, starts, beside, overlapped, deserted>>

MarkRunning(q) ==
  /\ pc[q] = "check" /\ at[q] \in Jobs /\ ~Skips(state[q][at[q]], rerun[q])
  /\ state' = [state EXCEPT ![q][at[q]] = "running"]
  /\ Goto(q, "save_start")
  /\ UNCHANGED <<file, at, rerun, child, orphans, starts, beside, overlapped, deserted>>

Launch(q) ==
  /\ pc[q] = "launch"
  /\ child' = [child EXCEPT ![q] = "running"]
  /\ Goto(q, "wait")
  /\ UNCHANGED <<file, state, at, rerun, orphans, starts, beside, overlapped, deserted>>

\* subprocess.run() returns.
JobReturns(q) ==
  /\ pc[q] = "wait" /\ child[q] \in {"succeeded", "failed"}
  /\ state' = [state EXCEPT ![q][at[q]] = Recorded(child[q])]
  /\ child' = [child EXCEPT ![q] = "none"]
  /\ Goto(q, "save_end")
  /\ UNCHANGED <<file, at, rerun, orphans, starts, beside, overlapped, deserted>>

\* Ctrl-C inside the try: while the log is opened, or during subprocess.run().
Interrupt(q) ==
  /\ pc[q] \in {"launch", "wait"}
  /\ state' = [state EXCEPT ![q][at[q]] = "interrupted"]
  /\ child' = [child EXCEPT ![q] = "none"]
  /\ orphans' = [orphans EXCEPT ![at[q]] = IF InterruptSpares(q) THEN @ + 1 ELSE @]
  /\ Goto(q, "save_interrupt")
  /\ UNCHANGED <<file, at, rerun, starts, beside, overlapped, deserted>>

Finish(q) ==
  /\ pc[q] = "check" /\ at[q] > NumJobs
  /\ Goto(q, "down")
  /\ UNCHANGED <<file, state, at, rerun, child, orphans, starts, beside, overlapped, deserted>>

\* SIGTERM or SIGKILL, anywhere; Ctrl-C outside the try: there is no handler.
Kill(q) ==
  /\ pc[q] # "down"
  /\ Goto(q, "down")
  /\ child' = [child EXCEPT ![q] = "none"]
  /\ IF child[q] = "running"
       THEN /\ orphans' = [orphans EXCEPT ![at[q]] = @ + 1]
            /\ deserted' = deserted \cup {at[q]}
       ELSE UNCHANGED <<orphans, deserted>>
  /\ UNCHANGED <<file, state, at, rerun, starts, beside, overlapped>>

\* A training process ends, with its queue or without it.
JobEnds(q) ==
  /\ child[q] = "running"
  /\ \E result \in {"succeeded", "failed"} :
       child' = [child EXCEPT ![q] = result]
  /\ UNCHANGED <<file, state, pc, at, rerun, orphans, starts, beside, overlapped, deserted>>

OrphanEnds(j) ==
  /\ orphans[j] > 0
  /\ orphans' = [orphans EXCEPT ![j] = @ - 1]
  /\ UNCHANGED <<file, state, pc, at, rerun, child, starts, beside, overlapped, deserted>>

-------------------------------------------------------------------------------
Works(q) ==
  \/ Save(q) \/ Skip(q) \/ StopEarly(q) \/ MarkRunning(q) \/ Launch(q)
  \/ JobReturns(q) \/ Finish(q)

Next ==
  \/ \E q \in Queues : Start(q) \/ Works(q) \/ JobEnds(q) \/ Interrupt(q) \/ Kill(q)
  \/ \E j \in Jobs : OrphanEnds(j)

Spec == Init /\ [][Next]_vars

-------------------------------------------------------------------------------
(* Properties *)

Table == [Jobs -> Statuses]
Labels == {"down", "save_load", "check", "save_start", "launch", "wait", "save_end",
           "save_interrupt"}
QueueTypeOK ==
  /\ file \in Table /\ state \in [Queues -> Table]
  /\ pc \in [Queues -> Labels] /\ at \in [Queues -> 1..(NumJobs + 1)]
  /\ rerun \in [Queues -> BOOLEAN]
  /\ child \in [Queues -> {"none", "running", "succeeded", "failed"}]
  /\ orphans \in [Jobs -> Nat] /\ starts \in 0..MaxStarts
  /\ beside \in [Jobs -> SUBSET Queues]
  /\ overlapped \in BOOLEAN /\ deserted \subseteq Jobs

\* A complete job stays complete and none of its processes is started again, over
\* all restarts and also beside other queues: save_state() writes back what a queue
\* has loaded, so only a queue that was already running when the record was written
\* can set it back, and once these have ended none can.
CompleteIsFinal ==
  [][\A j \in Jobs :
       file[j] = "complete" /\ (\A q \in beside[j] : pc[q] = "down") =>
         file'[j] = "complete" /\ Live(j)' <= Live(j)]_vars

\* While one queue runs at a time, a kill costs the record of the current job
\* at most: the file is up to date for all others.
KillLosesOne ==
  \A q \in Queues :
    pc[q] # "down" /\ ~overlapped => \A j \in Jobs \ {at[q]} : file[j] = state[q][j]

\* A queue that gets to its end has dealt with every job, those included that
\* an earlier queue left "running" or "interrupted".
EndMeansRecorded ==
  \A q \in Queues :
    at[q] > NumJobs /\ pc[q] = "check" =>
      \A j \in Jobs : state[q][j] \in {"complete", "failed"}

\* "Jobs are deliberately sequential": two processes run at once only if a queue
\* was killed beside its job, or two queues have run at once; and one of them is
\* then the deserted job.
JobsSequential ==
  \A i, j \in Jobs :
    Live(i) > (IF i = j THEN 1 ELSE 0) /\ Live(j) > 0 =>
      overlapped \/ i \in deserted \/ j \in deserted

===============================================================================
