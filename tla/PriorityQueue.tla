---------------------------- MODULE PriorityQueue ----------------------------
(***************************************************************************)
(* scripts/run_value_factorization_2m_priority_queue.py: a supervisor runs *)
(* training jobs one at a time, retries the ones that fail, and stops      *)
(* when it gets SIGTERM or SIGINT.  The handler runs between any two       *)
(* steps of the main program.  SIGKILL ends the supervisor at any time;    *)
(* its job, in a session of its own, goes on.                              *)
(*                                                                         *)
(* A label is a place where the handler can come between two statements    *)
(* that read or write the same thing.                                      *)
(***************************************************************************)
EXTENDS Integers

CONSTANTS
  NumJobs,      \* args.algorithms is 1..NumJobs
  MaxRetries,   \* --max-retries
  MaxStarts     \* BOUND: supervisors started on one output directory

ASSUME SupervisorAssumption == NumJobs \in Nat \ {0} /\ MaxRetries \in Nat /\ MaxStarts \in Nat

Jobs == 1..NumJobs

VARIABLES
  pc,         \* where main() is; "down": killed or not started, "ended": has returned
  index,      \* the job of the outer loop
  states,     \* states[name]["state"]
  attempts,   \* states[name]["attempts"]
  stopping,   \* set by the handler
  process,    \* the latest process: "none", "running", or its result
  tracked,    \* is `current' this process?
  signalled,  \* has this process been sent a signal?
  status,     \* the states in status.json
  starts,     \* BOUND counter: supervisors started
  succeeded,  \* HISTORY: jobs a process of which has ever exited with 0
  last_exit,  \* HISTORY: how the last process of each job ended, in this run
  late        \* HISTORY: attempts started after the handler had run

vars == <<pc, index, states, attempts, stopping, process, tracked, signalled, status,
          starts, succeeded, last_exit, late>>

-------------------------------------------------------------------------------
(* Helpers *)

Goto(label) == pc' = label

Watching == process = "running" /\ ~stopping

NoReaction == FALSE                                      \* mutant: the handler alone kills
TerminatesNow == stopping /\ process = "running"

TriesAgain == attempts[index] <= MaxRetries /\ ~stopping

\* Mutant: the return code is polled once and not waited for.
HasNoWait == stopping \/ process # "running"
HasExited == process # "running"

CompletedOnExit == IF stopping THEN "stopped" ELSE "completed"    \* mutant
StoppedFirst ==    \* mutant: a stopped job that has exited with 0 is not completed
  IF stopping THEN "stopped" ELSE IF process = "exit 0" THEN "completed" ELSE "retrying"
Settled ==
  IF process = "exit 0" THEN "completed" ELSE IF stopping THEN "stopped" ELSE "retrying"

AfterAttempts(state) == IF state = "retrying" THEN "failed" ELSE state

-------------------------------------------------------------------------------
Fresh ==
  /\ index' = 1
  /\ states' = [j \in Jobs |-> "queued"] /\ attempts' = [j \in Jobs |-> 0]
  /\ stopping' = FALSE /\ process' = "none" /\ tracked' = FALSE /\ signalled' = FALSE
  /\ last_exit' = [j \in Jobs |-> "none"] /\ late' = 0

Init ==
  /\ pc = "down" /\ index = 1
  /\ states = [j \in Jobs |-> "queued"] /\ attempts = [j \in Jobs |-> 0]
  /\ stopping = FALSE /\ process = "none" /\ tracked = FALSE /\ signalled = FALSE
  /\ status = [j \in Jobs |-> "absent"] /\ starts = 0
  /\ succeeded = {} /\ last_exit = [j \in Jobs |-> "none"] /\ late = 0

\* main() up to the loop: nothing is read back from an earlier status.json, and
\* a process that a killed supervisor has left is nobody's any more.
StartSupervisor ==
  /\ pc \in {"down", "ended"} /\ starts < MaxStarts
  /\ starts' = starts + 1
  /\ Fresh
  /\ Goto("next")
  /\ UNCHANGED <<status, succeeded>>

NextAlgorithm ==
  /\ pc = "next"
  /\ Goto(IF stopping \/ index > NumJobs THEN "final" ELSE "attempt")
  /\ UNCHANGED <<index, states, attempts, stopping, process, tracked, signalled, status,
                 starts, succeeded, last_exit, late>>

NextAttempt ==
  /\ pc = "attempt"
  /\ Goto(IF TriesAgain THEN "spawn" ELSE "after")
  /\ UNCHANGED <<index, states, attempts, stopping, process, tracked, signalled, status,
                 starts, succeeded, last_exit, late>>

\* Popen(): `current' still names the process before.
Spawn ==
  /\ pc = "spawn"
  /\ process' = "running" /\ tracked' = FALSE /\ signalled' = FALSE
  /\ late' = IF stopping THEN late + 1 ELSE late
  /\ Goto("assign")
  /\ UNCHANGED <<index, states, attempts, stopping, status, starts, succeeded, last_exit>>

Assign ==
  /\ pc = "assign"
  /\ tracked' = TRUE
  /\ states' = [states EXCEPT ![index] = "running"]
  /\ attempts' = [attempts EXCEPT ![index] = @ + 1]
  /\ Goto("watch")
  /\ UNCHANGED <<index, stopping, process, signalled, status, starts, succeeded, last_exit, late>>

\* One turn of the loop with its snapshot and sleep, or its end.
Watch ==
  /\ pc = "watch"
  /\ IF Watching
       THEN status' = states /\ UNCHANGED pc
       ELSE Goto("leave") /\ UNCHANGED status
  /\ UNCHANGED <<index, states, attempts, stopping, process, tracked, signalled, starts,
                 succeeded, last_exit, late>>

Leave ==
  /\ pc = "leave"
  /\ signalled' = (signalled \/ TerminatesNow)
  /\ Goto("reap")
  /\ UNCHANGED <<index, states, attempts, stopping, process, tracked, status, starts,
                 succeeded, last_exit, late>>

\* process.wait() or process.poll()
Reap ==
  /\ pc = "reap" /\ HasExited
  /\ Goto("settle")
  /\ UNCHANGED <<index, states, attempts, stopping, process, tracked, signalled, status,
                 starts, succeeded, last_exit, late>>

Settle ==
  /\ pc = "settle"
  /\ states' = [states EXCEPT ![index] = Settled]
  /\ status' = IF Settled = "completed" THEN status ELSE states'
  /\ Goto(IF Settled = "completed" THEN "after" ELSE "attempt")
  /\ UNCHANGED <<index, attempts, stopping, process, tracked, signalled, starts, succeeded,
                 last_exit, late>>

AfterJob ==
  /\ pc = "after"
  /\ states' = [states EXCEPT ![index] = AfterAttempts(@)]
  /\ status' = states' /\ tracked' = FALSE
  /\ index' = index + 1
  /\ Goto("next")
  /\ UNCHANGED <<attempts, stopping, process, signalled, starts, succeeded, last_exit, late>>

\* snapshot(final=True) and return
Final ==
  /\ pc = "final"
  /\ status' = states
  /\ Goto("ended")
  /\ UNCHANGED <<index, states, attempts, stopping, process, tracked, signalled, starts,
                 succeeded, last_exit, late>>

\* stop_current(): the signal handler.
StopCurrent ==
  /\ pc \notin {"down", "ended"}
  /\ stopping' = TRUE
  /\ signalled' = (signalled \/ (tracked /\ process = "running"))
  /\ UNCHANGED <<pc, index, states, attempts, process, tracked, status, starts, succeeded,
                 last_exit, late>>

Crash ==
  /\ pc \notin {"down", "ended"}
  /\ Goto("down")
  /\ UNCHANGED <<index, states, attempts, stopping, process, tracked, signalled, status,
                 starts, succeeded, last_exit, late>>

\* A job may answer a signal with any exit code, 0 included.
ProcessExits ==
  /\ process = "running"
  /\ \E result \in {"exit 0", "exit 1"} :
       /\ process' = result
       /\ last_exit' = [last_exit EXCEPT ![index] = result]
       /\ succeeded' = IF result = "exit 0" THEN succeeded \cup {index} ELSE succeeded
  /\ UNCHANGED <<pc, index, states, attempts, stopping, tracked, signalled, status, starts, late>>

-------------------------------------------------------------------------------
Works ==
  \/ NextAlgorithm \/ NextAttempt \/ Spawn \/ Assign \/ Watch \/ Leave \/ Reap \/ Settle
  \/ AfterJob \/ Final

Next == StartSupervisor \/ Works \/ StopCurrent \/ Crash \/ ProcessExits

Spec == Init /\ [][Next]_vars

\* main() goes on, and a process that has been sent a signal ends; one that has
\* not may run for ever.
FairSpec == Spec /\ WF_vars(Works) /\ WF_vars(signalled /\ ProcessExits)

-------------------------------------------------------------------------------
(* Properties *)

States == {"queued", "running", "retrying", "stopped", "completed", "failed"}
Finished == {"queued", "stopped", "completed", "failed"}
Labels == {"down", "next", "attempt", "spawn", "assign", "watch", "leave", "reap",
           "settle", "after", "final", "ended"}
SupervisorTypeOK ==
  /\ pc \in Labels /\ index \in 1..(NumJobs + 1)
  /\ (pc \in Labels \ {"down", "next", "final", "ended"} => index \in Jobs)
  /\ states \in [Jobs -> States] /\ attempts \in [Jobs -> 0..(MaxRetries + 1)]
  /\ stopping \in BOOLEAN /\ tracked \in BOOLEAN /\ signalled \in BOOLEAN
  /\ process \in {"none", "running", "exit 0", "exit 1"}
  /\ status \in [Jobs -> States \cup {"absent"}] /\ starts \in 0..MaxStarts
  /\ succeeded \subseteq Jobs
  /\ last_exit \in [Jobs -> {"none", "exit 0", "exit 1"}] /\ late \in Nat

\* "One at a time": main() never moves on while a process of its own runs, so
\* that no other is started beside it and none is left when main() returns,
\* whenever the handler ran.  Only a killed supervisor leaves its job behind.
NoneLeftRunning ==
  process = "running" => pc \in {"assign", "watch", "leave", "reap", "down"}

\* After a signal at most one attempt is still started: one whose check of
\* `stopping' had already been made.
StopsStarting == late <= 1

\* What main() returns with.  A job is "completed" exactly if its last process
\* exited with 0, also when that was an answer to a signal; without a signal no
\* job is left out, and a failed one has used all its retries.
FinalStatesTrue ==
  pc = "ended" =>
    \A j \in Jobs :
      /\ states[j] \in Finished /\ status[j] = states[j]
      /\ (states[j] = "completed") <=> (last_exit[j] = "exit 0")
      /\ states[j] = "queued" <=> attempts[j] = 0
      /\ ~stopping =>
           states[j] = "completed" \/ (states[j] = "failed" /\ attempts[j] = MaxRetries + 1)

\* status.json may be old, but across all supervisors that wrote it, killed or
\* not, it never shows a job as completed that has not succeeded.
StatusFileSound == \A j \in Jobs : status[j] = "completed" => j \in succeeded

\* A signal ends the supervisor and its job, wherever it comes: when the handler
\* misses a process that has just been started, main() terminates it.
SignalStopsAll == stopping ~> (pc = "down" \/ (pc = "ended" /\ process # "running"))

===============================================================================
