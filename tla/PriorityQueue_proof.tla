-------------------------- MODULE PriorityQueue_proof --------------------------
(***************************************************************************)
(* Safety of PriorityQueue for any number of jobs, retries and             *)
(* supervisors.  The invariant says of each job whether main() has dealt   *)
(* with it, has not come to it yet, or is at it, and then at which place.  *)
(***************************************************************************)
EXTENDS PriorityQueue, TLAPS

Untouched(j) == states[j] = "queued" /\ attempts[j] = 0 /\ last_exit[j] = "none"

Dealt(j) ==
  /\ states[j] \in Finished
  /\ (states[j] = "completed") <=> (last_exit[j] = "exit 0")
  /\ (states[j] = "queued") <=> (attempts[j] = 0)
  /\ ~stopping =>
       states[j] = "completed" \/ (states[j] = "failed" /\ attempts[j] = MaxRetries + 1)

\* Before an attempt, while its process is main()'s business, and after the last one.
Before ==
  /\ states[index] \in {"queued", "retrying", "stopped"}
  /\ (states[index] = "queued") <=> (attempts[index] = 0)
  /\ states[index] = "stopped" => stopping
Attended ==
  /\ process # "none"
  /\ process = "running" => last_exit[index] # "exit 0"
  /\ process # "running" => last_exit[index] = process
  /\ process = "exit 0" => index \in succeeded
After ==
  /\ states[index] \in {"queued", "retrying", "stopped", "completed"}
  /\ (states[index] = "completed") <=> (last_exit[index] = "exit 0")
  /\ (states[index] = "queued") <=> (attempts[index] = 0)
  /\ states[index] = "stopped" => stopping
  /\ states[index] \in {"queued", "retrying"} /\ ~stopping => attempts[index] = MaxRetries + 1

\* Also of a process that a killed supervisor has left.
RunningJob == process = "running" => index \in Jobs

CurrentJob ==
  /\ pc \in {"attempt", "spawn", "assign"} => Before
  /\ pc \in {"spawn", "assign"} => attempts[index] <= MaxRetries
  /\ pc \in {"attempt", "spawn"} => last_exit[index] # "exit 0"
  /\ pc \in {"watch", "leave", "reap",
      "settle"} => states[index] = "running" /\ attempts[index] > 0
  /\ pc \in {"assign", "watch", "leave", "reap", "settle"} => Attended
  /\ pc = "after" => After

AllJobs ==
  pc # "down" =>
    \A j \in Jobs :
      /\ j < index => Dealt(j)
      /\ j > index \/ (j = index /\ pc \in {"next", "final", "ended"}) => Untouched(j)

AtTheEnd ==
  /\ pc \in {"final", "ended"} => index > NumJobs \/ stopping
  /\ pc = "ended" => status = states

Recorded ==
  \A j \in Jobs :
    /\ states[j] = "completed" => j \in succeeded
    /\ status[j] = "completed" => j \in succeeded

LateStart == late <= 1 /\ (late > 0 => stopping /\ pc # "spawn")

SupervisorInv ==
  /\ SupervisorTypeOK /\ NoneLeftRunning
  /\ RunningJob /\ CurrentJob /\ AllJobs /\ AtTheEnd /\ Recorded /\ LateStart


-------------------------------------------------------------------------------
\* The order of the jobs, apart from any state.
LEMMA JobOrder ==
  \A i \in 1..(NumJobs + 1), j \in Jobs :
    /\ (j < i => j # i) /\ (j > i => j # i)
    /\ (i \in Jobs => i + 1 \in 1..(NumJobs + 1))
    /\ (~(i > NumJobs) => i \in Jobs)
    /\ (j < i + 1 => j < i \/ j = i)
    /\ (j > i + 1 => j > i /\ j # i)
    /\ (j = i + 1 => j > i /\ j # i)
BY SupervisorAssumption, SMT DEF Jobs

LEMMA FirstJob == 1 \in Jobs /\ 1 \in 1..(NumJobs + 1) /\ (\A j \in Jobs : ~(j < 1))
BY SupervisorAssumption, SMT DEF Jobs

\* The count of attempts of one job: it stays within 1 + MaxRetries.
LEMMA AttemptOrder ==
  \A a \in 0..(MaxRetries + 1) :
    /\ (a <= MaxRetries => a + 1 \in 0..(MaxRetries + 1))
    /\ a + 1 # 0 /\ a + 1 > 0
    /\ (~(a <= MaxRetries) => a = MaxRetries + 1)
    /\ (a = MaxRetries + 1 => a # 0)
    /\ (a > 0 => a # 0)
BY SupervisorAssumption, SMT

LEMMA NothingYet ==
  0 \in 0..(MaxRetries + 1) /\ 0 \in 0..MaxStarts /\ 0 \in Nat /\ 0 <= 1 /\ ~(0 > 0)
BY SupervisorAssumption, SMT

LEMMA SupervisorInitial == Init => SupervisorInv
<1>0. SUFFICES ASSUME Init PROVE SupervisorInv
  OBVIOUS
<1>1. SupervisorTypeOK
  BY <1>0, FirstJob, NothingYet DEF Init, SupervisorTypeOK, States, Labels
<1>2. NoneLeftRunning /\ RunningJob /\ CurrentJob /\ AllJobs /\ AtTheEnd /\ Recorded
  BY <1>0 DEF Init, NoneLeftRunning, RunningJob, CurrentJob, AllJobs, AtTheEnd, Recorded
<1>3. LateStart
  BY <1>0, NothingYet DEF Init, LateStart
<1> QED
  BY <1>1, <1>2, <1>3 DEF SupervisorInv

\* SupervisorTypeOK, action by action.
LEMMA SupervisorTypes == SupervisorInv /\ [Next]_vars => SupervisorTypeOK'
<1>0. SUFFICES ASSUME SupervisorInv, [Next]_vars PROVE SupervisorTypeOK'
  OBVIOUS
<1> USE SupervisorAssumption DEF SupervisorInv, CurrentJob, SupervisorTypeOK, Jobs, States,
    Labels, Goto
<1>1. CASE StartSupervisor
  <2>1. starts' \in 0..MaxStarts
    <3>1. starts \in 0..MaxStarts /\ starts < MaxStarts /\ starts' = starts + 1
      BY <1>0, <1>1 DEF StartSupervisor
    <3> QED
      BY <3>1
  <2> QED
    BY <1>0, <1>1, <2>1, FirstJob, NothingYet DEF StartSupervisor, Fresh
<1>2. CASE NextAlgorithm
  <2>1. pc' = "attempt" => index \in Jobs
    BY <1>0, <1>2, JobOrder, FirstJob DEF NextAlgorithm
  <2>2. pc' \in {"attempt", "final"} /\ UNCHANGED index
    BY <1>2 DEF NextAlgorithm
  <2> QED
    BY <1>0, <1>2, <2>1, <2>2 DEF NextAlgorithm
<1>3. CASE NextAttempt
  BY <1>0, <1>3 DEF NextAttempt, TriesAgain
<1>4. CASE Spawn
  <2>1. late' \in Nat
    <3>1. late \in Nat /\ (late' = late + 1 \/ late' = late)
      BY <1>0, <1>4 DEF Spawn
    <3> QED
      BY <3>1
  <2> QED
    BY <1>0, <1>4, <2>1 DEF Spawn
<1>5. CASE Assign
  <2>1. index \in Jobs /\ attempts[index] + 1 \in 0..(MaxRetries + 1)
    BY <1>0, <1>5, AttemptOrder DEF Assign
  <2>2. attempts' \in [Jobs -> 0..(MaxRetries + 1)]
    BY <1>0, <1>5, <2>1 DEF Assign
  <2> QED
    BY <1>0, <1>5, <2>1, <2>2 DEF Assign
<1>6. CASE Watch
  BY <1>0, <1>6 DEF Watch, Watching
<1>7. CASE Leave
  BY <1>0, <1>7 DEF Leave, TerminatesNow
<1>8. CASE Reap
  BY <1>0, <1>8 DEF Reap, HasExited
<1>9. CASE Settle
  BY <1>0, <1>9 DEF Settle, Settled
<1>10. CASE AfterJob
  <2>1. index \in Jobs /\ index' = index + 1 /\ index + 1 \in 1..(NumJobs + 1)
    BY <1>0, <1>10, JobOrder DEF AfterJob
  <2>2. AfterAttempts(states[index]) \in States
    BY <1>0, <2>1 DEF AfterAttempts
  <2>3. states' \in [Jobs -> States]
    BY <1>0, <1>10, <2>1, <2>2 DEF AfterJob
  <2> QED
    BY <1>0, <1>10, <2>1, <2>3 DEF AfterJob
<1>11. CASE Final
  BY <1>0, <1>11 DEF Final
<1>12. CASE StopCurrent
  BY <1>0, <1>12 DEF StopCurrent
<1>13. CASE Crash
  BY <1>0, <1>13 DEF Crash
<1>14. CASE ProcessExits
  <2>1. PICK result \in {"exit 0", "exit 1"} :
          /\ process' = result
          /\ last_exit' = [last_exit EXCEPT ![index] = result]
          /\ succeeded' = IF result = "exit 0" THEN succeeded \cup {index} ELSE succeeded
    BY <1>14 DEF ProcessExits
  <2>2. last_exit' \in [Jobs -> {"none", "exit 0", "exit 1"}]
    BY <1>0, <2>1
  <2>3. index \in Jobs
    BY <1>0, <1>14 DEF ProcessExits, RunningJob
  <2>4. succeeded' \subseteq Jobs
    BY <1>0, <2>1, <2>3
  <2> QED
    BY <1>0, <1>14, <2>1, <2>2, <2>4 DEF ProcessExits
<1>15. CASE UNCHANGED vars
  BY <1>0, <1>15 DEF vars
<1> QED
  BY <1>0, <1>1, <1>2, <1>3, <1>4, <1>5, <1>6, <1>7, <1>8, <1>9, <1>10, <1>11, <1>12, <1>13,
      <1>14,
     <1>15 DEF Next, Works

\* A process always belongs to some job, also one that was left behind.
LEMMA SupervisorOwns == SupervisorInv /\ [Next]_vars => RunningJob'
<1>0. SUFFICES ASSUME SupervisorInv, [Next]_vars PROVE RunningJob'
  OBVIOUS
<1> USE SupervisorAssumption DEF SupervisorInv, RunningJob, CurrentJob, NoneLeftRunning,
    SupervisorTypeOK, Jobs, States, Labels, Goto
<1>1. CASE StartSupervisor
  BY <1>0, <1>1 DEF StartSupervisor, Fresh
<1>2. CASE NextAlgorithm
  BY <1>0, <1>2 DEF NextAlgorithm
<1>3. CASE NextAttempt
  BY <1>0, <1>3 DEF NextAttempt, TriesAgain
<1>4. CASE Spawn
  BY <1>0, <1>4 DEF Spawn
<1>5. CASE Assign
  BY <1>0, <1>5 DEF Assign
<1>6. CASE Watch
  BY <1>0, <1>6 DEF Watch, Watching
<1>7. CASE Leave
  BY <1>0, <1>7 DEF Leave, TerminatesNow
<1>8. CASE Reap
  BY <1>0, <1>8 DEF Reap, HasExited
<1>9. CASE Settle
  BY <1>0, <1>9 DEF Settle, Settled
<1>10. CASE AfterJob
  BY <1>0, <1>10 DEF AfterJob, AfterAttempts
<1>11. CASE Final
  BY <1>0, <1>11 DEF Final
<1>12. CASE StopCurrent
  BY <1>0, <1>12 DEF StopCurrent
<1>13. CASE Crash
  BY <1>0, <1>13 DEF Crash
<1>14. CASE ProcessExits
  BY <1>0, <1>14 DEF ProcessExits
<1>15. CASE UNCHANGED vars
  BY <1>0, <1>15 DEF vars
<1> QED
  BY <1>0, <1>1, <1>2, <1>3, <1>4, <1>5, <1>6, <1>7, <1>8, <1>9, <1>10, <1>11, <1>12, <1>13,
      <1>14,
     <1>15 DEF Next, Works

\* main() passes wait() or poll() before it goes on.
LEMMA SupervisorReaps == SupervisorInv /\ [Next]_vars => NoneLeftRunning'
<1>0. SUFFICES ASSUME SupervisorInv, [Next]_vars PROVE NoneLeftRunning'
  OBVIOUS
<1> USE SupervisorAssumption DEF SupervisorInv, CurrentJob, NoneLeftRunning, SupervisorTypeOK,
    Jobs, States, Labels, Goto
<1>1. CASE StartSupervisor
  BY <1>0, <1>1 DEF StartSupervisor, Fresh
<1>2. CASE NextAlgorithm
  BY <1>0, <1>2 DEF NextAlgorithm
<1>3. CASE NextAttempt
  BY <1>0, <1>3 DEF NextAttempt, TriesAgain
<1>4. CASE Spawn
  BY <1>0, <1>4 DEF Spawn
<1>5. CASE Assign
  BY <1>0, <1>5 DEF Assign
<1>6. CASE Watch
  BY <1>0, <1>6 DEF Watch, Watching
<1>7. CASE Leave
  BY <1>0, <1>7 DEF Leave, TerminatesNow
<1>8. CASE Reap
  BY <1>0, <1>8 DEF Reap, HasExited
<1>9. CASE Settle
  BY <1>0, <1>9 DEF Settle, Settled
<1>10. CASE AfterJob
  BY <1>0, <1>10 DEF AfterJob, AfterAttempts
<1>11. CASE Final
  BY <1>0, <1>11 DEF Final
<1>12. CASE StopCurrent
  BY <1>0, <1>12 DEF StopCurrent
<1>13. CASE Crash
  BY <1>0, <1>13 DEF Crash
<1>14. CASE ProcessExits
  BY <1>0, <1>14 DEF ProcessExits
<1>15. CASE UNCHANGED vars
  BY <1>0, <1>15 DEF vars
<1> QED
  BY <1>0, <1>1, <1>2, <1>3, <1>4, <1>5, <1>6, <1>7, <1>8, <1>9, <1>10, <1>11, <1>12, <1>13,
      <1>14,
     <1>15 DEF Next, Works

\* The job of the outer loop, place by place.
LEMMA SupervisorAtWork == SupervisorInv /\ [Next]_vars => CurrentJob'
<1>0. SUFFICES ASSUME SupervisorInv, [Next]_vars PROVE CurrentJob'
  OBVIOUS
<1> USE SupervisorAssumption DEF SupervisorInv, CurrentJob, NoneLeftRunning, AllJobs,
    Untouched, Before, Attended, After, SupervisorTypeOK, Jobs, States, Labels, Goto
<1>1. CASE StartSupervisor
  BY <1>0, <1>1 DEF StartSupervisor, Fresh
<1>2. CASE NextAlgorithm
  <2>1. CASE pc' = "final"
    BY <1>2, <2>1 DEF NextAlgorithm
  <2>2. CASE pc' = "attempt"
    <3>1. pc = "next" /\ ~(index > NumJobs) /\ index \in 1..(NumJobs + 1)
      BY <1>0, <1>2, <2>2 DEF NextAlgorithm
    <3>2. index \in Jobs
      BY <3>1, FirstJob, JobOrder
    <3>3. Untouched(index)
      BY <1>0, <3>1, <3>2
    <3>4. UNCHANGED <<index, states, attempts, stopping, last_exit>>
      BY <1>2 DEF NextAlgorithm
    <3> QED
      BY <2>2, <3>3, <3>4
  <2> QED
    BY <1>2, <2>1, <2>2 DEF NextAlgorithm
<1>3. CASE NextAttempt
  <2>1. /\ Before /\ last_exit[index] # "exit 0" /\ attempts[index] \in 0..(MaxRetries + 1)
        /\ UNCHANGED <<index, states, attempts, stopping, last_exit>>
    BY <1>0, <1>3 DEF NextAttempt
  <2>2. CASE TriesAgain
    BY <1>3, <2>1, <2>2 DEF NextAttempt, TriesAgain
  <2>3. CASE ~TriesAgain
    <3>1. attempts[index] <= MaxRetries \/ attempts[index] = MaxRetries + 1
      BY <2>1, AttemptOrder
    <3>2. stopping \/ attempts[index] = MaxRetries + 1
      BY <2>3, <3>1 DEF TriesAgain
    <3>3. pc' = "after"
      BY <1>3, <2>3 DEF NextAttempt
    <3>4. After'
      BY <2>1, <3>2
    <3> QED
      BY <3>3, <3>4
  <2> QED
    BY <2>2, <2>3
<1>4. CASE Spawn
  BY <1>0, <1>4 DEF Spawn
<1>5. CASE Assign
  <2>1. /\ pc = "assign" /\ pc' = "watch" /\ index \in Jobs /\ index' = index
        /\ attempts[index] \in 0..(MaxRetries + 1) /\ Attended
    BY <1>0, <1>5 DEF Assign
  <2>2. states'[index] = "running" /\ attempts'[index] = attempts[index] + 1
    BY <1>0, <1>5, <2>1 DEF Assign
  <2>3. attempts'[index] > 0
    BY <2>1, <2>2, AttemptOrder
  <2>4. Attended'
    BY <1>5, <2>1 DEF Assign
  <2> QED
    BY <2>1, <2>2, <2>3, <2>4
<1>6. CASE Watch
  BY <1>0, <1>6 DEF Watch, Watching
<1>7. CASE Leave
  BY <1>0, <1>7 DEF Leave, TerminatesNow
<1>8. CASE Reap
  BY <1>0, <1>8 DEF Reap, HasExited
<1>9. CASE Settle
  <2>1. /\ index \in Jobs /\ Attended /\ process # "running"
        /\ UNCHANGED <<index, attempts, stopping, process, last_exit>>
    BY <1>0, <1>9 DEF Settle
  <2>0. attempts[index] # 0
    <3>1. attempts[index] > 0 /\ attempts[index] \in 0..(MaxRetries + 1)
      BY <1>0, <1>9, <2>1 DEF Settle
    <3> QED
      BY <3>1, AttemptOrder
  <2>2. states'[index] = Settled /\ Settled \in {"completed", "stopped", "retrying"}
    BY <1>0, <1>9, <2>1 DEF Settle, Settled
  <2>3. CASE process = "exit 0"
    <3>1. Settled = "completed" /\ pc' = "after"
      BY <1>9, <2>3 DEF Settle, Settled
    <3> QED
      BY <2>0, <2>1, <2>2, <2>3, <3>1
  <2>4. CASE process # "exit 0"
    <3>1. pc' = "attempt" /\ Settled # "completed" /\ (Settled = "stopped" => stopping)
      BY <1>9, <2>4 DEF Settle, Settled
    <3>2. last_exit'[index'] # "exit 0"
      BY <2>1, <2>4
    <3>3. Before'
      BY <2>0, <2>1, <2>2, <3>1
    <3> QED
      BY <3>1, <3>2, <3>3
  <2> QED
    BY <2>3, <2>4
<1>10. CASE AfterJob
  BY <1>0, <1>10 DEF AfterJob, AfterAttempts
<1>11. CASE Final
  BY <1>0, <1>11 DEF Final
<1>12. CASE StopCurrent
  BY <1>0, <1>12 DEF StopCurrent
<1>13. CASE Crash
  BY <1>0, <1>13 DEF Crash
<1>14. CASE ProcessExits
  BY <1>0, <1>14 DEF ProcessExits
<1>15. CASE UNCHANGED vars
  BY <1>0, <1>15 DEF vars
<1> QED
  BY <1>0, <1>1, <1>2, <1>3, <1>4, <1>5, <1>6, <1>7, <1>8, <1>9, <1>10, <1>11, <1>12, <1>13,
      <1>14,
     <1>15 DEF Next, Works

\* The jobs before the loop's one are dealt with, those after it untouched.
LEMMA SupervisorDeals == SupervisorInv /\ [Next]_vars => AllJobs'
<1>0. SUFFICES ASSUME SupervisorInv, [Next]_vars PROVE AllJobs'
  OBVIOUS
<1> USE SupervisorAssumption DEF SupervisorInv, AllJobs, NoneLeftRunning, CurrentJob, Dealt,
    Untouched, After, Finished, SupervisorTypeOK, Jobs, States, Labels, Goto
<1>1. CASE StartSupervisor
  <2>1. /\ pc' = "next" /\ index' = 1
        /\ \A j \in Jobs : states'[j] = "queued" /\ attempts'[j] = 0 /\ last_exit'[j] = "none"
    BY <1>0, <1>1 DEF StartSupervisor, Fresh
  <2> QED
    BY <2>1, FirstJob
<1>2. CASE NextAlgorithm
  BY <1>0, <1>2 DEF NextAlgorithm
<1>3. CASE NextAttempt
  BY <1>0, <1>3 DEF NextAttempt, TriesAgain
<1>4. CASE Spawn
  BY <1>0, <1>4 DEF Spawn
<1>5. CASE Assign
  <2>1. /\ pc = "assign" /\ pc' = "watch" /\ index \in Jobs
        /\ UNCHANGED <<index, stopping, last_exit>>
    BY <1>0, <1>5 DEF Assign
  <2>2. \A j \in Jobs : j # index => states'[j] = states[j] /\ attempts'[j] = attempts[j]
    BY <1>0, <1>5 DEF Assign
  <2>3. \A j \in Jobs : j < index \/ j > index => j # index
    BY <1>0, JobOrder
  <2>4. \A j \in Jobs : (j < index => Dealt(j)) /\ (j > index => Untouched(j))
    BY <1>0, <2>1
  <2>5. SUFFICES ASSUME NEW j \in Jobs
                 PROVE (j < index => Dealt(j)') /\ (j > index => Untouched(j)')
    BY <2>1
  <2>6. j < index => Dealt(j)'
    BY <2>1, <2>2, <2>3, <2>4
  <2>7. j > index => Untouched(j)'
    BY <2>1, <2>2, <2>3, <2>4
  <2> QED
    BY <2>6, <2>7
<1>6. CASE Watch
  BY <1>0, <1>6 DEF Watch, Watching
<1>7. CASE Leave
  BY <1>0, <1>7 DEF Leave, TerminatesNow
<1>8. CASE Reap
  BY <1>0, <1>8 DEF Reap, HasExited
<1>9. CASE Settle
  BY <1>0, <1>9 DEF Settle, Settled
<1>10. CASE AfterJob
  <2>1. /\ pc = "after" /\ pc' = "next" /\ index \in Jobs /\ index' = index + 1 /\ After
        /\ UNCHANGED <<attempts, stopping, last_exit>>
    BY <1>0, <1>10 DEF AfterJob
  <2>2. \A j \in Jobs : j # index => states'[j] = states[j]
    BY <1>0, <1>10 DEF AfterJob
  <2>3. states'[index] = AfterAttempts(states[index])
    BY <1>0, <1>10, <2>1 DEF AfterJob
  <2>4. ASSUME NEW i \in Jobs, i = index
        PROVE  Dealt(i)'
    <3>1. attempts[i] \in 0..(MaxRetries + 1)
      BY <1>0
    <3>2. attempts[i] = MaxRetries + 1 => attempts[i] # 0
      BY <3>1, AttemptOrder
    <3>3. /\ states'[i] \in Finished
          /\ (states'[i] = "completed") <=> (last_exit'[i] = "exit 0")
          /\ (states'[i] = "queued") <=> (attempts'[i] = 0)
      BY <2>1, <2>3, <2>4 DEF AfterAttempts
    <3>4. ASSUME ~stopping
          PROVE  \/ states'[i] = "completed"
                 \/ states'[i] = "failed" /\ attempts'[i] = MaxRetries + 1
      BY <2>1, <2>3, <2>4, <3>2, <3>4 DEF AfterAttempts
    <3> QED
      BY <2>1, <3>3, <3>4
  <2>5. \A j \in Jobs : /\ (j < index + 1 => j < index \/ j = index)
                       /\ (j > index + 1 \/ j = index + 1 => j > index /\ j # index)
                       /\ (j < index => j # index)
    BY <1>0, <2>1, JobOrder
  <2>6. \A j \in Jobs : (j < index => Dealt(j)) /\ (j > index => Untouched(j))
    BY <1>0, <2>1
  <2>7. SUFFICES ASSUME NEW j \in Jobs
                 PROVE /\ (j < index + 1 => Dealt(j)')
                       /\ (j > index + 1 \/ j = index + 1 => Untouched(j)')
    BY <2>1
  <2>8. j < index => Dealt(j)'
    BY <2>1, <2>2, <2>5, <2>6
  <2>9. j > index /\ j # index => Untouched(j)'
    BY <2>1, <2>2, <2>6
  <2> QED
    BY <2>4, <2>5, <2>8, <2>9
<1>11. CASE Final
  BY <1>0, <1>11 DEF Final
<1>12. CASE StopCurrent
  BY <1>0, <1>12 DEF StopCurrent
<1>13. CASE Crash
  BY <1>0, <1>13 DEF Crash
<1>14. CASE ProcessExits
  <2>1. CASE pc = "down"
    BY <1>14, <2>1 DEF ProcessExits
  <2>2. CASE pc # "down"
    <3>1. /\ pc \in {"assign", "watch", "leave", "reap"} /\ index \in Jobs
          /\ UNCHANGED <<pc, index, states, attempts, stopping>>
      BY <1>0, <1>14, <2>2 DEF ProcessExits
    <3>2. \A j \in Jobs : j # index => last_exit'[j] = last_exit[j]
      BY <1>0, <1>14 DEF ProcessExits
    <3>3. \A j \in Jobs : j < index \/ j > index => j # index
      BY <1>0, JobOrder
    <3>4. \A j \in Jobs : (j < index => Dealt(j)) /\ (j > index => Untouched(j))
      BY <1>0, <2>2
    <3>5. SUFFICES ASSUME NEW j \in Jobs
                   PROVE (j < index => Dealt(j)') /\ (j > index => Untouched(j)')
      BY <3>1
    <3>6. j < index => Dealt(j)'
      BY <3>1, <3>2, <3>3, <3>4
    <3>7. j > index => Untouched(j)'
      BY <3>1, <3>2, <3>3, <3>4
    <3> QED
      BY <3>6, <3>7
  <2> QED
    BY <2>1, <2>2
<1>15. CASE UNCHANGED vars
  BY <1>0, <1>15 DEF vars
<1> QED
  BY <1>0, <1>1, <1>2, <1>3, <1>4, <1>5, <1>6, <1>7, <1>8, <1>9, <1>10, <1>11, <1>12, <1>13,
      <1>14,
     <1>15 DEF Next, Works

\* main() reaches its end only past the last job or on a signal.
LEMMA SupervisorWrites == SupervisorInv /\ [Next]_vars => AtTheEnd'
<1>0. SUFFICES ASSUME SupervisorInv, [Next]_vars PROVE AtTheEnd'
  OBVIOUS
<1> USE SupervisorAssumption DEF SupervisorInv, AtTheEnd, SupervisorTypeOK, Jobs, States,
    Labels, Goto
<1>1. CASE StartSupervisor
  BY <1>0, <1>1 DEF StartSupervisor, Fresh
<1>2. CASE NextAlgorithm
  BY <1>0, <1>2 DEF NextAlgorithm
<1>3. CASE NextAttempt
  BY <1>0, <1>3 DEF NextAttempt, TriesAgain
<1>4. CASE Spawn
  BY <1>0, <1>4 DEF Spawn
<1>5. CASE Assign
  BY <1>0, <1>5 DEF Assign
<1>6. CASE Watch
  BY <1>0, <1>6 DEF Watch, Watching
<1>7. CASE Leave
  BY <1>0, <1>7 DEF Leave, TerminatesNow
<1>8. CASE Reap
  BY <1>0, <1>8 DEF Reap, HasExited
<1>9. CASE Settle
  BY <1>0, <1>9 DEF Settle, Settled
<1>10. CASE AfterJob
  BY <1>0, <1>10 DEF AfterJob, AfterAttempts
<1>11. CASE Final
  BY <1>0, <1>11 DEF Final
<1>12. CASE StopCurrent
  BY <1>0, <1>12 DEF StopCurrent
<1>13. CASE Crash
  BY <1>0, <1>13 DEF Crash
<1>14. CASE ProcessExits
  BY <1>0, <1>14 DEF ProcessExits
<1>15. CASE UNCHANGED vars
  BY <1>0, <1>15 DEF vars
<1> QED
  BY <1>0, <1>1, <1>2, <1>3, <1>4, <1>5, <1>6, <1>7, <1>8, <1>9, <1>10, <1>11, <1>12, <1>13,
      <1>14,
     <1>15 DEF Next, Works

\* A completed state needs an exit with 0, in memory and in status.json.
LEMMA SupervisorRecords == SupervisorInv /\ [Next]_vars => Recorded'
<1>0. SUFFICES ASSUME SupervisorInv, [Next]_vars PROVE Recorded'
  OBVIOUS
<1> USE SupervisorAssumption DEF SupervisorInv, Recorded, CurrentJob, Attended,
    SupervisorTypeOK, Jobs, States, Labels, Goto
<1>1. CASE StartSupervisor
  BY <1>0, <1>1 DEF StartSupervisor, Fresh
<1>2. CASE NextAlgorithm
  BY <1>0, <1>2 DEF NextAlgorithm
<1>3. CASE NextAttempt
  BY <1>0, <1>3 DEF NextAttempt, TriesAgain
<1>4. CASE Spawn
  BY <1>0, <1>4 DEF Spawn
<1>5. CASE Assign
  BY <1>0, <1>5 DEF Assign
<1>6. CASE Watch
  BY <1>0, <1>6 DEF Watch, Watching
<1>7. CASE Leave
  BY <1>0, <1>7 DEF Leave, TerminatesNow
<1>8. CASE Reap
  BY <1>0, <1>8 DEF Reap, HasExited
<1>9. CASE Settle
  BY <1>0, <1>9 DEF Settle, Settled
<1>10. CASE AfterJob
  BY <1>0, <1>10 DEF AfterJob, AfterAttempts
<1>11. CASE Final
  BY <1>0, <1>11 DEF Final
<1>12. CASE StopCurrent
  BY <1>0, <1>12 DEF StopCurrent
<1>13. CASE Crash
  BY <1>0, <1>13 DEF Crash
<1>14. CASE ProcessExits
  BY <1>0, <1>14 DEF ProcessExits
<1>15. CASE UNCHANGED vars
  BY <1>0, <1>15 DEF vars
<1> QED
  BY <1>0, <1>1, <1>2, <1>3, <1>4, <1>5, <1>6, <1>7, <1>8, <1>9, <1>10, <1>11, <1>12, <1>13,
      <1>14,
     <1>15 DEF Next, Works

\* stopping is read between any two starts.
LEMMA SupervisorStartsOnce == SupervisorInv /\ [Next]_vars => LateStart'
<1>0. SUFFICES ASSUME SupervisorInv, [Next]_vars PROVE LateStart'
  OBVIOUS
<1> USE SupervisorAssumption DEF SupervisorInv, LateStart, SupervisorTypeOK, Jobs, States,
    Labels, Goto
<1>1. CASE StartSupervisor
  <2>1. late' = 0
    BY <1>1 DEF StartSupervisor, Fresh
  <2> QED
    BY <2>1, NothingYet
<1>2. CASE NextAlgorithm
  BY <1>0, <1>2 DEF NextAlgorithm
<1>3. CASE NextAttempt
  BY <1>0, <1>3 DEF NextAttempt, TriesAgain
<1>4. CASE Spawn
  <2>1. ~(late > 0) /\ late \in Nat /\ pc' = "assign"
    BY <1>0, <1>4 DEF Spawn
  <2>2. late = 0
    BY <2>1
  <2>3. CASE stopping
    <3>1. late' = late + 1 /\ stopping' = stopping
      BY <1>4, <2>3 DEF Spawn
    <3>2. late' <= 1
      BY <2>2, <3>1
    <3> QED
      BY <2>1, <2>3, <3>1, <3>2
  <2>4. CASE ~stopping
    <3>1. late' = 0
      BY <1>4, <2>2, <2>4 DEF Spawn
    <3> QED
      BY <3>1, NothingYet
  <2> QED
    BY <2>3, <2>4
<1>5. CASE Assign
  BY <1>0, <1>5 DEF Assign
<1>6. CASE Watch
  BY <1>0, <1>6 DEF Watch, Watching
<1>7. CASE Leave
  BY <1>0, <1>7 DEF Leave, TerminatesNow
<1>8. CASE Reap
  BY <1>0, <1>8 DEF Reap, HasExited
<1>9. CASE Settle
  BY <1>0, <1>9 DEF Settle, Settled
<1>10. CASE AfterJob
  BY <1>0, <1>10 DEF AfterJob, AfterAttempts
<1>11. CASE Final
  BY <1>0, <1>11 DEF Final
<1>12. CASE StopCurrent
  BY <1>0, <1>12 DEF StopCurrent
<1>13. CASE Crash
  BY <1>0, <1>13 DEF Crash
<1>14. CASE ProcessExits
  BY <1>0, <1>14 DEF ProcessExits
<1>15. CASE UNCHANGED vars
  BY <1>0, <1>15 DEF vars
<1> QED
  BY <1>0, <1>1, <1>2, <1>3, <1>4, <1>5, <1>6, <1>7, <1>8, <1>9, <1>10, <1>11, <1>12, <1>13,
      <1>14,
     <1>15 DEF Next, Works

-------------------------------------------------------------------------------
LEMMA SupervisorInvariant == Spec => []SupervisorInv
<1>1. SupervisorInv /\ [Next]_vars => SupervisorInv'
  BY SupervisorTypes, SupervisorOwns, SupervisorReaps, SupervisorAtWork, SupervisorDeals,
      SupervisorWrites,
     SupervisorRecords, SupervisorStartsOnce DEF SupervisorInv
<1> QED
  BY SupervisorInitial, <1>1, PTL DEF Spec

\* Types of the supervisor's variables; an index past the last job is only read
\* by the test that ends the outer loop of main().
THEOREM SupervisorTypeCorrect == Spec => []SupervisorTypeOK
<1>1. SupervisorInv => SupervisorTypeOK
  BY DEF SupervisorInv
<1> QED
  BY SupervisorInvariant, <1>1, PTL

\* main() never moves on while a process of its own runs, whenever stop_current()
\* was run: no job is started beside another one.
THEOREM OneAtATime == Spec => []NoneLeftRunning
<1>1. SupervisorInv => NoneLeftRunning
  BY DEF SupervisorInv
<1> QED
  BY SupervisorInvariant, <1>1, PTL

\* The states main() returns with and has written: a job is "completed" exactly
\* if its last process exited with 0, and without a signal all have been tried.
THEOREM FinalStatesCorrect == Spec => []FinalStatesTrue
<1>1. SupervisorInv => FinalStatesTrue
  <2>0. SUFFICES ASSUME SupervisorInv, pc = "ended", NEW j \in Jobs
                 PROVE Dealt(j) /\ status[j] = states[j]
    BY DEF FinalStatesTrue, Dealt
  <2>1. status[j] = states[j]
    BY <2>0 DEF SupervisorInv, AtTheEnd
  <2>2. index \in 1..(NumJobs + 1)
    BY <2>0 DEF SupervisorInv, SupervisorTypeOK
  <2>3. j < index \/ j > index \/ j = index
    BY <2>2, SupervisorAssumption DEF Jobs
  <2>4. CASE j < index
    BY <2>0, <2>1, <2>4 DEF SupervisorInv, AllJobs
  <2>5. CASE j > index \/ j = index
    <3>1. Untouched(j)
      BY <2>0, <2>5 DEF SupervisorInv, AllJobs
    <3>2. ~(index > NumJobs)
      BY <2>2, <2>5, SupervisorAssumption DEF Jobs
    <3>3. stopping
      BY <2>0, <3>2 DEF SupervisorInv, AtTheEnd
    <3> QED
      BY <2>1, <3>1, <3>3 DEF Dealt, Untouched, Finished
  <2> QED
    BY <2>3, <2>4, <2>5
<1> QED
  BY SupervisorInvariant, <1>1, PTL

\* status.json never shows a job as completed that has not succeeded, whatever
\* supervisors, killed or not, have written it.
THEOREM StatusFileCorrect == Spec => []StatusFileSound
<1>1. SupervisorInv => StatusFileSound
  BY DEF SupervisorInv, Recorded, StatusFileSound
<1> QED
  BY SupervisorInvariant, <1>1, PTL

\* After stop_current() at most one attempt is started, one whose check of
\* `stopping' had already been made.
THEOREM StopsStartingCorrect == Spec => []StopsStarting
<1>1. SupervisorInv => StopsStarting
  BY DEF SupervisorInv, LateStart, StopsStarting
<1> QED
  BY SupervisorInvariant, <1>1, PTL
===============================================================================
