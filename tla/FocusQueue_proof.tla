--------------------------- MODULE FocusQueue_proof ---------------------------
(***************************************************************************)
(* What queue_state.json and a queue's memory may say, for any number of   *)
(* jobs, queues and starts of the script.  The theorems about one queue at *)
(* a time assume nothing: a second queue only sets `overlapped'.           *)
(***************************************************************************)
EXTENDS FocusQueue, FiniteSetTheorems, TLAPS

AtJob == {"save_start", "launch", "wait", "save_end", "save_interrupt"}

Places ==
  \A q \in Queues :
    /\ pc[q] \in AtJob => at[q] \in Jobs
    /\ child[q] # "none" => pc[q] = "wait"

\* A queue knows of every complete job, unless it was already running when the
\* record was written; and the job it is at is not complete for it.
Remembers(q) ==
  /\ pc[q] \in {"save_start", "launch", "wait"} => state[q][at[q]] = "running"
  /\ pc[q] # "down" =>
       \A j \in Jobs : file[j] = "complete" /\ q \notin beside[j] => state[q][j] = "complete"
Memory == \A q \in Queues : Remembers(q)

Over == {"complete", "failed"}
Progress ==
  \A q \in Queues :
    /\ pc[q] # "down" => \A j \in Jobs : j < at[q] => state[q][j] \in Over
    /\ pc[q] = "save_end" => state[q][at[q]] \in Over

\* One queue at a time, and what the file says then.
Alone ==
  ~overlapped => \A p, q \in Queues : pc[p] # "down" /\ pc[q] # "down" => p = q
FileIs(q) ==
  /\ pc[q] \in {"save_load", "check", "launch", "wait"} => file = state[q]
  /\ pc[q] # "down" => \A j \in Jobs \ {at[q]} : file[j] = state[q][j]
  /\ pc[q] \in AtJob => file[at[q]] # "complete"
  /\ pc[q] = "save_start" => state[q][at[q]] # "complete"
UpToDate == ~overlapped => \A q \in Queues : FileIs(q)

LeftBehind == \A j \in Jobs : orphans[j] > 0 => j \in deserted

-------------------------------------------------------------------------------
\* The order of the jobs, apart from any state.
LEMMA JobsInOrder ==
  /\ 1 \in 1..(NumJobs + 1)
  /\ \A j \in Jobs : ~(j < 1)
  /\ \A i \in Jobs : i + 1 \in 1..(NumJobs + 1)
  /\ \A i \in Jobs, j \in Jobs : j < i + 1 => j < i \/ j = i
  /\ \A i \in 1..(NumJobs + 1), j \in Jobs : i > NumJobs => j < i
  /\ \A i \in Jobs : i \in 1..(NumJobs + 1) /\ ~(i > NumJobs)
BY QueueAssumption, SMT DEF Jobs

\* An action of one queue leaves what the others keep alone.
LEMMA Elsewhere ==
  ASSUME QueueTypeOK, NEW q \in Queues,
         Start(q) \/ Works(q) \/ JobEnds(q) \/ Interrupt(q) \/ Kill(q)
  PROVE  \A p \in Queues \ {q} :
           /\ pc'[p] = pc[p] /\ at'[p] = at[p] /\ state'[p] = state[p] /\ child'[p] = child[p]
<1> USE DEF QueueTypeOK
<1>1. CASE Start(q)
  BY <1>1 DEF Start, Goto
<1>2. CASE Works(q)
  BY <1>2 DEF Works, Save, Skip, StopEarly, MarkRunning, Launch, JobReturns, Finish, Goto
<1>3. CASE JobEnds(q)
  BY <1>3 DEF JobEnds
<1>4. CASE Interrupt(q)
  BY <1>4 DEF Interrupt, Goto
<1>5. CASE Kill(q)
  BY <1>5 DEF Kill, Goto
<1> QED
  BY <1>1, <1>2, <1>3, <1>4, <1>5

-------------------------------------------------------------------------------
LEMMA QueueInitial ==
  Init => QueueTypeOK /\ Places /\ Memory /\ Progress /\ Alone /\ UpToDate /\ LeftBehind
<1>0. SUFFICES ASSUME Init
               PROVE  QueueTypeOK /\ Places /\ Memory /\ Progress /\ Alone /\ UpToDate /\ LeftBehind
  OBVIOUS
<1>1. QueueTypeOK
  <2>1. 0 \in 0..MaxStarts
    BY QueueAssumption
  <2> QED
    BY <1>0, <2>1, JobsInOrder DEF Init, QueueTypeOK, Table, Statuses, Labels
<1>2. Places /\ Memory /\ Progress /\ Alone /\ UpToDate
  BY <1>0 DEF Init, Places, Memory, Remembers, Progress, Alone, UpToDate, FileIs, AtJob
<1>3. LeftBehind
  BY <1>0 DEF Init, LeftBehind
<1> QED
  BY <1>1, <1>2, <1>3

\* Types, action by action.
LEMMA QueueTypes == QueueTypeOK /\ Places /\ [Next]_vars => QueueTypeOK'
<1>0. SUFFICES ASSUME QueueTypeOK, Places, [Next]_vars PROVE QueueTypeOK'
  OBVIOUS
<1> USE DEF QueueTypeOK, Table, Statuses, Labels
<1>1. ASSUME NEW q \in Queues, Start(q) PROVE QueueTypeOK'
  <2>1. starts' \in 0..MaxStarts
    <3>1. starts \in 0..MaxStarts /\ starts < MaxStarts /\ starts' = starts + 1
      BY <1>0, <1>1 DEF Start
    <3> QED
      BY <3>1, QueueAssumption
  <2>2. at' \in [Queues -> 1..(NumJobs + 1)]
    BY <1>0, <1>1, JobsInOrder DEF Start
  <2>3. rerun' \in [Queues -> BOOLEAN]
    BY <1>0, <1>1 DEF Start
  <2>4. overlapped' \in BOOLEAN
    BY <1>0, <1>1 DEF Start
  <2>5. beside' \in [Jobs -> SUBSET Queues]
    BY <1>0, <1>1 DEF Start
  <2> QED
    BY <1>0, <1>1, <2>1, <2>2, <2>3, <2>4, <2>5 DEF Start, Goto
<1>2. ASSUME NEW q \in Queues, Save(q) PROVE QueueTypeOK'
  <2>1. at' \in [Queues -> 1..(NumJobs + 1)]
    <3>1. pc[q] = "save_end" => at[q] + 1 \in 1..(NumJobs + 1)
      BY <1>0, JobsInOrder DEF Places, AtJob
    <3> QED
      BY <1>0, <1>2, <3>1 DEF Save, NextJob
  <2>2. pc' \in [Queues -> Labels]
    BY <1>0, <1>2 DEF Save, Goto
  <2>3. file' \in Table
    BY <1>0, <1>2 DEF Save, Written
  <2>4. beside' \in [Jobs -> SUBSET Queues]
    BY <1>0, <1>2 DEF Save
  <2> QED
    BY <1>0, <1>2, <2>1, <2>2, <2>3, <2>4 DEF Save
<1>3. ASSUME NEW q \in Queues, Skip(q) PROVE QueueTypeOK'
  <2>1. at' \in [Queues -> 1..(NumJobs + 1)]
    <3>1. at[q] + 1 \in 1..(NumJobs + 1)
      BY <1>3, JobsInOrder DEF Skip
    <3> QED
      BY <1>0, <1>3, <3>1 DEF Skip
  <2> QED
    BY <1>0, <1>3, <2>1 DEF Skip
<1>4. ASSUME NEW q \in Queues, StopEarly(q) PROVE QueueTypeOK'
  BY <1>0, <1>4 DEF StopEarly, Goto
<1>5. ASSUME NEW q \in Queues, MarkRunning(q) PROVE QueueTypeOK'
  <2>1. state' \in [Queues -> Table]
    BY <1>0, <1>5 DEF MarkRunning
  <2> QED
    BY <1>0, <1>5, <2>1 DEF MarkRunning, Goto
<1>6. ASSUME NEW q \in Queues, Launch(q) PROVE QueueTypeOK'
  BY <1>0, <1>6 DEF Launch, Goto
<1>7. ASSUME NEW q \in Queues, JobReturns(q) PROVE QueueTypeOK'
  <2>1. at[q] \in Jobs /\ Recorded(child[q]) \in Statuses
    BY <1>0, <1>7 DEF JobReturns, Places, AtJob, Recorded
  <2>2. state' \in [Queues -> Table]
    BY <1>0, <1>7, <2>1 DEF JobReturns
  <2> QED
    BY <1>0, <1>7, <2>2 DEF JobReturns, Goto
<1>8. ASSUME NEW q \in Queues, Finish(q) PROVE QueueTypeOK'
  BY <1>0, <1>8 DEF Finish, Goto
<1>9. ASSUME NEW q \in Queues, Interrupt(q) PROVE QueueTypeOK'
  <2>1. at[q] \in Jobs
    BY <1>0, <1>9 DEF Interrupt, Places, AtJob
  <2>2. state' \in [Queues -> Table]
    BY <1>0, <1>9, <2>1 DEF Interrupt
  <2>3. orphans' \in [Jobs -> Nat]
    BY <1>0, <1>9 DEF Interrupt, InterruptSpares
  <2> QED
    BY <1>0, <1>9, <2>2, <2>3 DEF Interrupt, Goto
<1>10. ASSUME NEW q \in Queues, Kill(q) PROVE QueueTypeOK'
  <2>1. child[q] = "running" => at[q] \in Jobs
    BY <1>0 DEF Places, AtJob
  <2>2. orphans' \in [Jobs -> Nat]
    <3>1. \A j \in Jobs : orphans[j] + 1 \in Nat
      BY <1>0
    <3> QED
      BY <1>0, <1>10, <2>1, <3>1 DEF Kill
  <2>3. deserted' \subseteq Jobs
    BY <1>0, <1>10, <2>1 DEF Kill
  <2> QED
    BY <1>0, <1>10, <2>2, <2>3 DEF Kill, Goto
<1>11. ASSUME NEW q \in Queues, JobEnds(q) PROVE QueueTypeOK'
  BY <1>0, <1>11 DEF JobEnds
<1>12. ASSUME NEW k \in Jobs, OrphanEnds(k) PROVE QueueTypeOK'
  <2>1. orphans[k] - 1 \in Nat
    <3>1. orphans[k] \in Nat /\ orphans[k] > 0
      BY <1>0, <1>12 DEF OrphanEnds
    <3> QED
      BY <3>1
  <2>2. orphans' \in [Jobs -> Nat]
    BY <1>0, <1>12, <2>1 DEF OrphanEnds
  <2> QED
    BY <1>0, <1>12, <2>2 DEF OrphanEnds
<1>13. CASE UNCHANGED vars
  BY <1>0, <1>13 DEF vars
<1> QED
  BY <1>0, <1>1, <1>2, <1>3, <1>4, <1>5, <1>6, <1>7, <1>8, <1>9, <1>10, <1>11, <1>12, <1>13
     DEF Next, Works

\* A queue has a process of its own only inside subprocess.run().
LEMMA QueuePlaces == QueueTypeOK /\ Places /\ [Next]_vars => Places'
<1>0. SUFFICES ASSUME QueueTypeOK, Places, [Next]_vars PROVE Places'
  OBVIOUS
<1>1. ASSUME NEW q \in Queues, Start(q) PROVE Places'
  <2>1. /\ pc'[q] \in AtJob => at'[q] \in Jobs
        /\ child'[q] # "none" => pc'[q] = "wait"
    BY <1>0, <1>1, JobsInOrder DEF Start, Goto, QueueTypeOK, Places, AtJob
  <2> QED
    BY <1>0, <1>1, <2>1, Elsewhere DEF Works, Places
<1>2. ASSUME NEW q \in Queues, Save(q) PROVE Places'
  <2>1. /\ pc'[q] \in AtJob => at'[q] \in Jobs
        /\ child'[q] # "none" => pc'[q] = "wait"
    BY <1>0, <1>2, JobsInOrder DEF Save, Goto, QueueTypeOK, Places, AtJob
  <2> QED
    BY <1>0, <1>2, <2>1, Elsewhere DEF Works, Places
<1>3. ASSUME NEW q \in Queues, Skip(q) PROVE Places'
  <2>1. /\ pc'[q] \in AtJob => at'[q] \in Jobs
        /\ child'[q] # "none" => pc'[q] = "wait"
    BY <1>0, <1>3, JobsInOrder DEF Skip, Goto, QueueTypeOK, Places, AtJob
  <2> QED
    BY <1>0, <1>3, <2>1, Elsewhere DEF Works, Places
<1>4. ASSUME NEW q \in Queues, StopEarly(q) PROVE Places'
  <2>1. /\ pc'[q] \in AtJob => at'[q] \in Jobs
        /\ child'[q] # "none" => pc'[q] = "wait"
    BY <1>0, <1>4, JobsInOrder DEF StopEarly, Goto, QueueTypeOK, Places, AtJob
  <2> QED
    BY <1>0, <1>4, <2>1, Elsewhere DEF Works, Places
<1>5. ASSUME NEW q \in Queues, MarkRunning(q) PROVE Places'
  <2>1. /\ pc'[q] \in AtJob => at'[q] \in Jobs
        /\ child'[q] # "none" => pc'[q] = "wait"
    BY <1>0, <1>5, JobsInOrder DEF MarkRunning, Goto, QueueTypeOK, Places, AtJob
  <2> QED
    BY <1>0, <1>5, <2>1, Elsewhere DEF Works, Places
<1>6. ASSUME NEW q \in Queues, Launch(q) PROVE Places'
  <2>1. /\ pc'[q] \in AtJob => at'[q] \in Jobs
        /\ child'[q] # "none" => pc'[q] = "wait"
    BY <1>0, <1>6, JobsInOrder DEF Launch, Goto, QueueTypeOK, Places, AtJob
  <2> QED
    BY <1>0, <1>6, <2>1, Elsewhere DEF Works, Places
<1>7. ASSUME NEW q \in Queues, JobReturns(q) PROVE Places'
  <2>1. /\ pc'[q] \in AtJob => at'[q] \in Jobs
        /\ child'[q] # "none" => pc'[q] = "wait"
    BY <1>0, <1>7, JobsInOrder DEF JobReturns, Goto, QueueTypeOK, Places, AtJob
  <2> QED
    BY <1>0, <1>7, <2>1, Elsewhere DEF Works, Places
<1>8. ASSUME NEW q \in Queues, Finish(q) PROVE Places'
  <2>1. /\ pc'[q] \in AtJob => at'[q] \in Jobs
        /\ child'[q] # "none" => pc'[q] = "wait"
    BY <1>0, <1>8, JobsInOrder DEF Finish, Goto, QueueTypeOK, Places, AtJob
  <2> QED
    BY <1>0, <1>8, <2>1, Elsewhere DEF Works, Places
<1>9. ASSUME NEW q \in Queues, Interrupt(q) PROVE Places'
  <2>1. /\ pc'[q] \in AtJob => at'[q] \in Jobs
        /\ child'[q] # "none" => pc'[q] = "wait"
    BY <1>0, <1>9, JobsInOrder DEF Interrupt, Goto, QueueTypeOK, Places, AtJob
  <2> QED
    BY <1>0, <1>9, <2>1, Elsewhere DEF Works, Places
<1>10. ASSUME NEW q \in Queues, Kill(q) PROVE Places'
  <2>1. /\ pc'[q] \in AtJob => at'[q] \in Jobs
        /\ child'[q] # "none" => pc'[q] = "wait"
    BY <1>0, <1>10, JobsInOrder DEF Kill, Goto, QueueTypeOK, Places, AtJob
  <2> QED
    BY <1>0, <1>10, <2>1, Elsewhere DEF Works, Places
<1>11. ASSUME NEW q \in Queues, JobEnds(q) PROVE Places'
  <2>1. /\ pc'[q] \in AtJob => at'[q] \in Jobs
        /\ child'[q] # "none" => pc'[q] = "wait"
    BY <1>0, <1>11, JobsInOrder DEF JobEnds, Goto, QueueTypeOK, Places, AtJob
  <2> QED
    BY <1>0, <1>11, <2>1, Elsewhere DEF Works, Places
<1>12. ASSUME NEW k \in Jobs, OrphanEnds(k) PROVE Places'
  BY <1>0, <1>12 DEF OrphanEnds, Places
<1>13. CASE UNCHANGED vars
  BY <1>0, <1>13 DEF vars, Places
<1> QED
  BY <1>0, <1>1, <1>2, <1>3, <1>4, <1>5, <1>6, <1>7, <1>8, <1>9, <1>10, <1>11, <1>12, <1>13
     DEF Next, Works

\* save_state() writes what was loaded, or has been learnt since.
LEMMA QueueMemory == QueueTypeOK /\ Places /\ Memory /\ [Next]_vars => Memory'
<1>0. SUFFICES ASSUME QueueTypeOK, Places, Memory, [Next]_vars PROVE Memory'
  OBVIOUS
<1>1. ASSUME NEW q \in Queues, Start(q) PROVE Memory'
  <2>1. file' = file /\ \A j \in Jobs : beside'[j] = beside[j] \ {q}
    BY <1>1 DEF Start
  <2>2. state'[q] = file /\ pc'[q] = "save_load"
    BY <1>0, <1>1 DEF Start, Goto, QueueTypeOK
  <2> QED
    BY <1>0, <1>1, <2>1, <2>2, Elsewhere DEF Memory, Remembers
<1>2. ASSUME NEW q \in Queues, Save(q) PROVE Memory'
  <2>1. /\ file' = state[q] /\ state' = state /\ pc[q] # "down"
        /\ pc[q] = "save_start" => pc'[q] = "launch" /\ at'[q] = at[q]
        /\ pc[q] # "save_start" => pc'[q] \in {"down", "check"}
    BY <1>0, <1>2 DEF Save, Written, Goto, QueueTypeOK
  <2>2. \A j \in Jobs :
          beside'[j] = IF file[j] # "complete" /\ file'[j] = "complete"
                       THEN {p \in Queues \ {q} : pc[p] # "down"} ELSE beside[j]
    BY <1>2 DEF Save
  <2>3. Remembers(q)'
    BY <1>0, <2>1 DEF Memory, Remembers
  <2>4. ASSUME NEW p \in Queues \ {q} PROVE Remembers(p)'
    <3>1. pc'[p] = pc[p] /\ at'[p] = at[p]
      BY <1>0, <1>2, Elsewhere DEF Works
    <3>2. ASSUME NEW j \in Jobs, file'[j] = "complete", p \notin beside'[j], pc[p] # "down"
          PROVE  state[p][j] = "complete"
      <4>1. file[j] = "complete" /\ beside'[j] = beside[j]
        BY <2>2, <3>2
      <4> QED
        BY <1>0, <3>2, <4>1 DEF Memory, Remembers
    <3> QED
      BY <1>0, <2>1, <3>1, <3>2 DEF Memory, Remembers
  <2> QED
    BY <2>3, <2>4 DEF Memory
<1>3. ASSUME NEW q \in Queues, Skip(q) PROVE Memory'
  <2>1. UNCHANGED <<file, beside, state>> /\ pc[q] # "down" /\ pc'[q] = "check"
    BY <1>0, <1>3 DEF Skip, Goto, QueueTypeOK
  <2> QED
    BY <1>0, <1>3, <2>1, Elsewhere DEF Works, Memory, Remembers
<1>4. ASSUME NEW q \in Queues, StopEarly(q) PROVE Memory'
  <2>1. UNCHANGED <<file, beside, state>> /\ pc[q] # "down" /\ pc'[q] = "down"
    BY <1>0, <1>4 DEF StopEarly, Goto, QueueTypeOK
  <2> QED
    BY <1>0, <1>4, <2>1, Elsewhere DEF Works, Memory, Remembers
<1>5. ASSUME NEW q \in Queues, MarkRunning(q) PROVE Memory'
  <2>1. /\ UNCHANGED <<file, beside, at>> /\ pc[q] # "down" /\ at[q] \in Jobs
        /\ state'[q][at[q]] = "running" /\ state[q][at[q]] # "complete"
        /\ \A j \in Jobs \ {at[q]} : state'[q][j] = state[q][j]
    BY <1>0, <1>5 DEF MarkRunning, Goto, QueueTypeOK, Table, Places, AtJob, Memory, Remembers, Skips
  <2> QED
    BY <1>0, <1>5, <2>1, Elsewhere DEF Works, Memory, Remembers
<1>6. ASSUME NEW q \in Queues, Launch(q) PROVE Memory'
  <2>1. UNCHANGED <<file, beside, state>> /\ pc[q] # "down" /\ pc[q] = "launch" /\ pc'[q] = "wait" /\ at' = at
    BY <1>0, <1>6 DEF Launch, Goto, QueueTypeOK
  <2> QED
    BY <1>0, <1>6, <2>1, Elsewhere DEF Works, Memory, Remembers
<1>7. ASSUME NEW q \in Queues, JobReturns(q) PROVE Memory'
  <2>1. /\ UNCHANGED <<file, beside, at>> /\ pc[q] # "down" /\ at[q] \in Jobs
        /\ pc'[q] = "save_end" /\ state[q][at[q]] # "complete"
        /\ \A j \in Jobs \ {at[q]} : state'[q][j] = state[q][j]
    BY <1>0, <1>7 DEF JobReturns, Goto, QueueTypeOK, Table, Places, AtJob, Memory, Remembers
  <2> QED
    BY <1>0, <1>7, <2>1, Elsewhere DEF Works, Memory, Remembers
<1>8. ASSUME NEW q \in Queues, Finish(q) PROVE Memory'
  <2>1. UNCHANGED <<file, beside, state>> /\ pc[q] # "down" /\ pc'[q] = "down"
    BY <1>0, <1>8 DEF Finish, Goto, QueueTypeOK
  <2> QED
    BY <1>0, <1>8, <2>1, Elsewhere DEF Works, Memory, Remembers
<1>9. ASSUME NEW q \in Queues, Interrupt(q) PROVE Memory'
  <2>1. /\ UNCHANGED <<file, beside, at>> /\ pc[q] # "down" /\ at[q] \in Jobs
        /\ pc'[q] = "save_interrupt" /\ state[q][at[q]] # "complete"
        /\ \A j \in Jobs \ {at[q]} : state'[q][j] = state[q][j]
    BY <1>0, <1>9 DEF Interrupt, Goto, QueueTypeOK, Table, Places, AtJob, Memory, Remembers
  <2> QED
    BY <1>0, <1>9, <2>1, Elsewhere DEF Memory, Remembers
<1>10. ASSUME NEW q \in Queues, Kill(q) PROVE Memory'
  <2>1. UNCHANGED <<file, beside, state>> /\ pc[q] # "down" /\ pc'[q] = "down"
    BY <1>0, <1>10 DEF Kill, Goto, QueueTypeOK
  <2> QED
    BY <1>0, <1>10, <2>1, Elsewhere DEF Memory, Remembers
<1>11. ASSUME NEW q \in Queues, JobEnds(q) PROVE Memory'
  <2>1. UNCHANGED <<file, beside, state>> /\ pc' = pc /\ at' = at
    BY <1>0, <1>11 DEF JobEnds, Goto, QueueTypeOK
  <2> QED
    BY <1>0, <1>11, <2>1, Elsewhere DEF Memory, Remembers
<1>12. ASSUME NEW k \in Jobs, OrphanEnds(k) PROVE Memory'
  BY <1>0, <1>12 DEF OrphanEnds, Memory, Remembers
<1>13. CASE UNCHANGED vars
  BY <1>0, <1>13 DEF vars, Memory, Remembers
<1> QED
  BY <1>0, <1>1, <1>2, <1>3, <1>4, <1>5, <1>6, <1>7, <1>8, <1>9, <1>10, <1>11, <1>12, <1>13
     DEF Next, Works

\* A queue leaves a job behind only with its result, or after skipping it.
LEMMA QueueProgress == QueueTypeOK /\ Places /\ Progress /\ [Next]_vars => Progress'
<1>0. SUFFICES ASSUME QueueTypeOK, Places, Progress, [Next]_vars PROVE Progress'
  OBVIOUS
<1>1. ASSUME NEW q \in Queues, Start(q) PROVE Progress'
  <2>1. at'[q] = 1 /\ pc'[q] = "save_load"
    BY <1>0, <1>1 DEF Start, Goto, QueueTypeOK
  <2> QED
    BY <1>0, <1>1, <2>1, Elsewhere, JobsInOrder DEF Progress
<1>2. ASSUME NEW q \in Queues, Save(q) PROVE Progress'
  <2>1. /\ pc[q] # "down" /\ pc'[q] # "save_end" /\ state'[q] = state[q]
        /\ pc[q] = "save_end" => at'[q] = at[q] + 1 /\ state[q][at[q]] \in Over /\ at[q] \in Jobs
        /\ pc[q] # "save_end" => at'[q] = at[q]
    BY <1>0, <1>2 DEF Save, Goto, NextJob, QueueTypeOK, Progress, Places, AtJob
  <2>2. \A j \in Jobs : j < at'[q] => state'[q][j] \in Over
    BY <1>0, <2>1, JobsInOrder DEF Progress
  <2> QED
    BY <1>0, <1>2, <2>1, <2>2, Elsewhere DEF Works, Progress
<1>3. ASSUME NEW q \in Queues, Skip(q) PROVE Progress'
  <2>1. /\ pc[q] = "check" /\ pc'[q] = "check" /\ state'[q] = state[q] /\ at[q] \in Jobs
        /\ at'[q] = at[q] + 1 /\ state[q][at[q]] \in Over
    BY <1>0, <1>3 DEF Skip, Skips, QueueTypeOK, Over
  <2>2. \A j \in Jobs : j < at'[q] => state'[q][j] \in Over
    BY <1>0, <2>1, JobsInOrder DEF Progress
  <2> QED
    BY <1>0, <1>3, <2>1, <2>2, Elsewhere DEF Works, Progress
<1>4. ASSUME NEW q \in Queues, StopEarly(q) PROVE Progress'
  <2>1. /\ pc[q] # "down" /\ at'[q] = at[q] /\ pc'[q] # "save_end"
        /\ \A j \in Jobs : j # at[q] => state'[q][j] = state[q][j]
    BY <1>0, <1>4 DEF StopEarly, Goto, QueueTypeOK, Table, Places
  <2>2. at[q] \in 1..(NumJobs + 1)
    BY <1>0 DEF QueueTypeOK
  <2>3. \A j \in Jobs : j < at[q] => j # at[q]
    BY <2>2
  <2>4. \A j \in Jobs : j < at[q] => state'[q][j] \in Over
    BY <1>0, <2>1, <2>3 DEF Progress
  <2> QED
    BY <1>0, <1>4, <2>1, <2>4, Elsewhere DEF Works, Progress
<1>5. ASSUME NEW q \in Queues, MarkRunning(q) PROVE Progress'
  <2>1. /\ pc[q] # "down" /\ at'[q] = at[q] /\ pc'[q] # "save_end"
        /\ \A j \in Jobs : j # at[q] => state'[q][j] = state[q][j]
    BY <1>0, <1>5 DEF MarkRunning, Goto, QueueTypeOK, Table, Places
  <2>2. at[q] \in 1..(NumJobs + 1)
    BY <1>0 DEF QueueTypeOK
  <2>3. \A j \in Jobs : j < at[q] => j # at[q]
    BY <2>2
  <2>4. \A j \in Jobs : j < at[q] => state'[q][j] \in Over
    BY <1>0, <2>1, <2>3 DEF Progress
  <2> QED
    BY <1>0, <1>5, <2>1, <2>4, Elsewhere DEF Works, Progress
<1>6. ASSUME NEW q \in Queues, Launch(q) PROVE Progress'
  <2>1. /\ pc[q] # "down" /\ at'[q] = at[q] /\ pc'[q] # "save_end"
        /\ \A j \in Jobs : j # at[q] => state'[q][j] = state[q][j]
    BY <1>0, <1>6 DEF Launch, Goto, QueueTypeOK, Table, Places
  <2>2. at[q] \in 1..(NumJobs + 1)
    BY <1>0 DEF QueueTypeOK
  <2>3. \A j \in Jobs : j < at[q] => j # at[q]
    BY <2>2
  <2>4. \A j \in Jobs : j < at[q] => state'[q][j] \in Over
    BY <1>0, <2>1, <2>3 DEF Progress
  <2> QED
    BY <1>0, <1>6, <2>1, <2>4, Elsewhere DEF Works, Progress
<1>7. ASSUME NEW q \in Queues, JobReturns(q) PROVE Progress'
  <2>1. /\ pc[q] # "down" /\ at'[q] = at[q] /\ at[q] \in Jobs
        /\ state'[q][at[q]] = Recorded(child[q])
        /\ \A j \in Jobs : j # at[q] => state'[q][j] = state[q][j]
    BY <1>0, <1>7 DEF JobReturns, QueueTypeOK, Table, Places, AtJob
  <2>2. \A j \in Jobs : j < at[q] => state'[q][j] \in Over
    BY <1>0, <2>1 DEF Progress, Recorded, Over
  <2>3. state'[q][at'[q]] \in Over
    BY <2>1 DEF Recorded, Over
  <2> QED
    BY <1>0, <1>7, <2>1, <2>2, <2>3, Elsewhere DEF Works, Progress
<1>8. ASSUME NEW q \in Queues, Finish(q) PROVE Progress'
  <2>1. /\ pc[q] # "down" /\ at'[q] = at[q] /\ pc'[q] # "save_end"
        /\ \A j \in Jobs : j # at[q] => state'[q][j] = state[q][j]
    BY <1>0, <1>8 DEF Finish, Goto, QueueTypeOK, Table, Places
  <2>2. at[q] \in 1..(NumJobs + 1)
    BY <1>0 DEF QueueTypeOK
  <2>3. \A j \in Jobs : j < at[q] => j # at[q]
    BY <2>2
  <2>4. \A j \in Jobs : j < at[q] => state'[q][j] \in Over
    BY <1>0, <2>1, <2>3 DEF Progress
  <2> QED
    BY <1>0, <1>8, <2>1, <2>4, Elsewhere DEF Works, Progress
<1>9. ASSUME NEW q \in Queues, Interrupt(q) PROVE Progress'
  <2>1. /\ pc[q] # "down" /\ at'[q] = at[q] /\ pc'[q] # "save_end"
        /\ \A j \in Jobs : j # at[q] => state'[q][j] = state[q][j]
    BY <1>0, <1>9 DEF Interrupt, Goto, QueueTypeOK, Table, Places
  <2>2. at[q] \in 1..(NumJobs + 1)
    BY <1>0 DEF QueueTypeOK
  <2>3. \A j \in Jobs : j < at[q] => j # at[q]
    BY <2>2
  <2>4. \A j \in Jobs : j < at[q] => state'[q][j] \in Over
    BY <1>0, <2>1, <2>3 DEF Progress
  <2> QED
    BY <1>0, <1>9, <2>1, <2>4, Elsewhere DEF Works, Progress
<1>10. ASSUME NEW q \in Queues, Kill(q) PROVE Progress'
  <2>1. /\ pc[q] # "down" /\ at'[q] = at[q] /\ pc'[q] # "save_end"
        /\ \A j \in Jobs : j # at[q] => state'[q][j] = state[q][j]
    BY <1>0, <1>10 DEF Kill, Goto, QueueTypeOK, Table, Places
  <2>2. at[q] \in 1..(NumJobs + 1)
    BY <1>0 DEF QueueTypeOK
  <2>3. \A j \in Jobs : j < at[q] => j # at[q]
    BY <2>2
  <2>4. \A j \in Jobs : j < at[q] => state'[q][j] \in Over
    BY <1>0, <2>1, <2>3 DEF Progress
  <2> QED
    BY <1>0, <1>10, <2>1, <2>4, Elsewhere DEF Works, Progress
<1>11. ASSUME NEW q \in Queues, JobEnds(q) PROVE Progress'
  <2>1. UNCHANGED <<state, at, pc>>
    BY <1>11 DEF JobEnds
  <2> QED
    BY <1>0, <2>1 DEF Progress
<1>12. ASSUME NEW k \in Jobs, OrphanEnds(k) PROVE Progress'
  BY <1>0, <1>12 DEF OrphanEnds, Progress
<1>13. CASE UNCHANGED vars
  BY <1>0, <1>13 DEF vars, Progress
<1> QED
  BY <1>0, <1>1, <1>2, <1>3, <1>4, <1>5, <1>6, <1>7, <1>8, <1>9, <1>10, <1>11, <1>12, <1>13
     DEF Next, Works

\* A queue that starts beside another one sets overlapped.
LEMMA QueueAlone == QueueTypeOK /\ Places /\ Alone /\ [Next]_vars => Alone'
<1>0. SUFFICES ASSUME QueueTypeOK, Places, Alone, [Next]_vars PROVE Alone'
  OBVIOUS
<1>1. ASSUME NEW q \in Queues, Start(q) PROVE Alone'
  <2>1. overlapped' = (overlapped \/ \E p \in Queues : pc[p] # "down")
    BY <1>1 DEF Start
  <2> QED
    BY <1>0, <1>1, <2>1, Elsewhere DEF Alone
<1>2. ASSUME NEW q \in Queues, Save(q) PROVE Alone'
  <2>1. pc[q] # "down" /\ overlapped' = overlapped
    BY <1>0, <1>2 DEF Save, Places
  <2> QED
    BY <1>0, <1>2, <2>1, Elsewhere DEF Works, Alone
<1>3. ASSUME NEW q \in Queues, Skip(q) PROVE Alone'
  <2>1. pc[q] # "down" /\ overlapped' = overlapped
    BY <1>0, <1>3 DEF Skip, Places
  <2> QED
    BY <1>0, <1>3, <2>1, Elsewhere DEF Works, Alone
<1>4. ASSUME NEW q \in Queues, StopEarly(q) PROVE Alone'
  <2>1. pc[q] # "down" /\ overlapped' = overlapped
    BY <1>0, <1>4 DEF StopEarly, Places
  <2> QED
    BY <1>0, <1>4, <2>1, Elsewhere DEF Works, Alone
<1>5. ASSUME NEW q \in Queues, MarkRunning(q) PROVE Alone'
  <2>1. pc[q] # "down" /\ overlapped' = overlapped
    BY <1>0, <1>5 DEF MarkRunning, Places
  <2> QED
    BY <1>0, <1>5, <2>1, Elsewhere DEF Works, Alone
<1>6. ASSUME NEW q \in Queues, Launch(q) PROVE Alone'
  <2>1. pc[q] # "down" /\ overlapped' = overlapped
    BY <1>0, <1>6 DEF Launch, Places
  <2> QED
    BY <1>0, <1>6, <2>1, Elsewhere DEF Works, Alone
<1>7. ASSUME NEW q \in Queues, JobReturns(q) PROVE Alone'
  <2>1. pc[q] # "down" /\ overlapped' = overlapped
    BY <1>0, <1>7 DEF JobReturns, Places
  <2> QED
    BY <1>0, <1>7, <2>1, Elsewhere DEF Works, Alone
<1>8. ASSUME NEW q \in Queues, Finish(q) PROVE Alone'
  <2>1. pc[q] # "down" /\ overlapped' = overlapped
    BY <1>0, <1>8 DEF Finish, Places
  <2> QED
    BY <1>0, <1>8, <2>1, Elsewhere DEF Works, Alone
<1>9. ASSUME NEW q \in Queues, Interrupt(q) PROVE Alone'
  <2>1. pc[q] # "down" /\ overlapped' = overlapped
    BY <1>0, <1>9 DEF Interrupt, Places
  <2> QED
    BY <1>0, <1>9, <2>1, Elsewhere DEF Works, Alone
<1>10. ASSUME NEW q \in Queues, Kill(q) PROVE Alone'
  <2>1. pc[q] # "down" /\ overlapped' = overlapped
    BY <1>0, <1>10 DEF Kill, Places
  <2> QED
    BY <1>0, <1>10, <2>1, Elsewhere DEF Works, Alone
<1>11. ASSUME NEW q \in Queues, JobEnds(q) PROVE Alone'
  <2>1. pc[q] # "down" /\ overlapped' = overlapped
    BY <1>0, <1>11 DEF JobEnds, Places
  <2> QED
    BY <1>0, <1>11, <2>1, Elsewhere DEF Works, Alone
<1>12. ASSUME NEW k \in Jobs, OrphanEnds(k) PROVE Alone'
  BY <1>0, <1>12 DEF OrphanEnds, Alone
<1>13. CASE UNCHANGED vars
  BY <1>0, <1>13 DEF vars, Alone
<1> QED
  BY <1>0, <1>1, <1>2, <1>3, <1>4, <1>5, <1>6, <1>7, <1>8, <1>9, <1>10, <1>11, <1>12, <1>13
     DEF Next, Works

\* What save_state() has written, between any two calls of it.
LEMMA QueueUpToDate == QueueTypeOK /\ Places /\ Alone /\ UpToDate /\ [Next]_vars => UpToDate'
<1>0. SUFFICES ASSUME QueueTypeOK, Places, Alone, UpToDate, [Next]_vars PROVE UpToDate'
  OBVIOUS
<1>1. ASSUME NEW q \in Queues, Start(q) PROVE UpToDate'
  <2>1. SUFFICES ASSUME ~overlapped'
                 PROVE  \A p \in Queues : FileIs(p)'
    BY DEF UpToDate
  <2>2. ~overlapped /\ \A p \in Queues \ {q} : pc'[p] = "down"
    BY <1>0, <1>1, <2>1, Elsewhere DEF Works, Start, Alone, Places
  <2>3. FileIs(q)'
    BY <1>0, <1>1, <2>2 DEF UpToDate, FileIs, AtJob, QueueTypeOK, Table, Places, Goto,
           Start
  <2> QED
    BY <2>2, <2>3 DEF FileIs, AtJob
<1>2. ASSUME NEW q \in Queues, Save(q) PROVE UpToDate'
  <2>1. SUFFICES ASSUME ~overlapped'
                 PROVE  \A p \in Queues : FileIs(p)'
    BY DEF UpToDate
  <2>2. ~overlapped /\ pc[q] # "down" /\ \A p \in Queues \ {q} : pc'[p] = "down"
    BY <1>0, <1>2, <2>1, Elsewhere DEF Works, Save, Alone, Places
  <2>3. FileIs(q)'
    BY <1>0, <1>2, <2>2 DEF UpToDate, FileIs, AtJob, QueueTypeOK, Table, Places, Goto,
           Save, Written, NextJob
  <2> QED
    BY <2>2, <2>3 DEF FileIs, AtJob
<1>3. ASSUME NEW q \in Queues, Skip(q) PROVE UpToDate'
  <2>1. SUFFICES ASSUME ~overlapped'
                 PROVE  \A p \in Queues : FileIs(p)'
    BY DEF UpToDate
  <2>2. ~overlapped /\ pc[q] # "down" /\ \A p \in Queues \ {q} : pc'[p] = "down"
    BY <1>0, <1>3, <2>1, Elsewhere DEF Works, Skip, Alone, Places
  <2>3. FileIs(q)'
    BY <1>0, <1>3, <2>2 DEF UpToDate, FileIs, AtJob, QueueTypeOK, Table, Places, Goto,
           Skip
  <2> QED
    BY <2>2, <2>3 DEF FileIs, AtJob
<1>4. ASSUME NEW q \in Queues, StopEarly(q) PROVE UpToDate'
  <2>1. SUFFICES ASSUME ~overlapped'
                 PROVE  \A p \in Queues : FileIs(p)'
    BY DEF UpToDate
  <2>2. ~overlapped /\ pc[q] # "down" /\ \A p \in Queues \ {q} : pc'[p] = "down"
    BY <1>0, <1>4, <2>1, Elsewhere DEF Works, StopEarly, Alone, Places
  <2>3. FileIs(q)'
    BY <1>0, <1>4, <2>2 DEF UpToDate, FileIs, AtJob, QueueTypeOK, Table, Places, Goto,
           StopEarly
  <2> QED
    BY <2>2, <2>3 DEF FileIs, AtJob
<1>5. ASSUME NEW q \in Queues, MarkRunning(q) PROVE UpToDate'
  <2>1. SUFFICES ASSUME ~overlapped'
                 PROVE  \A p \in Queues : FileIs(p)'
    BY DEF UpToDate
  <2>2. ~overlapped /\ pc[q] # "down" /\ \A p \in Queues \ {q} : pc'[p] = "down"
    BY <1>0, <1>5, <2>1, Elsewhere DEF Works, MarkRunning, Alone, Places
  <2>3. FileIs(q)'
    BY <1>0, <1>5, <2>2 DEF UpToDate, FileIs, AtJob, QueueTypeOK, Table, Places, Goto,
           MarkRunning, Skips
  <2> QED
    BY <2>2, <2>3 DEF FileIs, AtJob
<1>6. ASSUME NEW q \in Queues, Launch(q) PROVE UpToDate'
  <2>1. SUFFICES ASSUME ~overlapped'
                 PROVE  \A p \in Queues : FileIs(p)'
    BY DEF UpToDate
  <2>2. ~overlapped /\ pc[q] # "down" /\ \A p \in Queues \ {q} : pc'[p] = "down"
    BY <1>0, <1>6, <2>1, Elsewhere DEF Works, Launch, Alone, Places
  <2>3. FileIs(q)'
    BY <1>0, <1>6, <2>2 DEF UpToDate, FileIs, AtJob, QueueTypeOK, Table, Places, Goto,
           Launch
  <2> QED
    BY <2>2, <2>3 DEF FileIs, AtJob
<1>7. ASSUME NEW q \in Queues, JobReturns(q) PROVE UpToDate'
  <2>1. SUFFICES ASSUME ~overlapped'
                 PROVE  \A p \in Queues : FileIs(p)'
    BY DEF UpToDate
  <2>2. ~overlapped /\ pc[q] # "down" /\ \A p \in Queues \ {q} : pc'[p] = "down"
    <3>1. \A p \in Queues \ {q} : pc'[p] = pc[p]
      BY <1>0, <1>7, Elsewhere DEF Works
    <3>2. pc[q] = "wait" /\ overlapped' = overlapped
      BY <1>7 DEF JobReturns
    <3> QED
      BY <1>0, <2>1, <3>1, <3>2 DEF Alone
  <2>3. FileIs(q)'
    BY <1>0, <1>7, <2>2 DEF UpToDate, FileIs, AtJob, QueueTypeOK, Table, Places, Goto,
           JobReturns
  <2> QED
    BY <2>2, <2>3 DEF FileIs, AtJob
<1>8. ASSUME NEW q \in Queues, Finish(q) PROVE UpToDate'
  <2>1. SUFFICES ASSUME ~overlapped'
                 PROVE  \A p \in Queues : FileIs(p)'
    BY DEF UpToDate
  <2>2. ~overlapped /\ pc[q] # "down" /\ \A p \in Queues \ {q} : pc'[p] = "down"
    BY <1>0, <1>8, <2>1, Elsewhere DEF Works, Finish, Alone, Places
  <2>3. FileIs(q)'
    BY <1>0, <1>8, <2>2 DEF UpToDate, FileIs, AtJob, QueueTypeOK, Table, Places, Goto,
           Finish
  <2> QED
    BY <2>2, <2>3 DEF FileIs, AtJob
<1>9. ASSUME NEW q \in Queues, Interrupt(q) PROVE UpToDate'
  <2>1. SUFFICES ASSUME ~overlapped'
                 PROVE  \A p \in Queues : FileIs(p)'
    BY DEF UpToDate
  <2>2. ~overlapped /\ pc[q] # "down" /\ \A p \in Queues \ {q} : pc'[p] = "down"
    BY <1>0, <1>9, <2>1, Elsewhere DEF Works, Interrupt, Alone, Places
  <2>3. FileIs(q)'
    BY <1>0, <1>9, <2>2 DEF UpToDate, FileIs, AtJob, QueueTypeOK, Table, Places, Goto,
           Interrupt
  <2> QED
    BY <2>2, <2>3 DEF FileIs, AtJob
<1>10. ASSUME NEW q \in Queues, Kill(q) PROVE UpToDate'
  <2>1. SUFFICES ASSUME ~overlapped'
                 PROVE  \A p \in Queues : FileIs(p)'
    BY DEF UpToDate
  <2>2. ~overlapped /\ pc[q] # "down" /\ \A p \in Queues \ {q} : pc'[p] = "down"
    BY <1>0, <1>10, <2>1, Elsewhere DEF Works, Kill, Alone, Places
  <2>3. FileIs(q)'
    BY <1>0, <1>10, <2>2 DEF UpToDate, FileIs, AtJob, QueueTypeOK, Table, Places, Goto,
           Kill
  <2> QED
    BY <2>2, <2>3 DEF FileIs, AtJob
<1>11. ASSUME NEW q \in Queues, JobEnds(q) PROVE UpToDate'
  <2>1. SUFFICES ASSUME ~overlapped'
                 PROVE  \A p \in Queues : FileIs(p)'
    BY DEF UpToDate
  <2>2. ~overlapped /\ pc[q] # "down" /\ \A p \in Queues \ {q} : pc'[p] = "down"
    BY <1>0, <1>11, <2>1, Elsewhere DEF Works, JobEnds, Alone, Places
  <2>3. FileIs(q)'
    BY <1>0, <1>11, <2>2 DEF UpToDate, FileIs, AtJob, QueueTypeOK, Table, Places, Goto,
           JobEnds
  <2> QED
    BY <2>2, <2>3 DEF FileIs, AtJob
<1>12. ASSUME NEW k \in Jobs, OrphanEnds(k) PROVE UpToDate'
  BY <1>0, <1>12 DEF OrphanEnds, UpToDate, FileIs
<1>13. CASE UNCHANGED vars
  BY <1>0, <1>13 DEF vars, UpToDate, FileIs
<1> QED
  BY <1>0, <1>1, <1>2, <1>3, <1>4, <1>5, <1>6, <1>7, <1>8, <1>9, <1>10, <1>11, <1>12, <1>13
     DEF Next, Works

\* Only a kill takes a process from its queue.
LEMMA QueueLeaves == QueueTypeOK /\ LeftBehind /\ [Next]_vars => LeftBehind'
<1>0. SUFFICES ASSUME QueueTypeOK, LeftBehind, [Next]_vars PROVE LeftBehind'
  OBVIOUS
<1>1. ASSUME NEW q \in Queues, Start(q) PROVE LeftBehind'
  BY <1>0, <1>1 DEF Start, LeftBehind
<1>2. ASSUME NEW q \in Queues, Save(q) PROVE LeftBehind'
  BY <1>0, <1>2 DEF Save, LeftBehind
<1>3. ASSUME NEW q \in Queues, Skip(q) PROVE LeftBehind'
  BY <1>0, <1>3 DEF Skip, LeftBehind
<1>4. ASSUME NEW q \in Queues, StopEarly(q) PROVE LeftBehind'
  BY <1>0, <1>4 DEF StopEarly, LeftBehind
<1>5. ASSUME NEW q \in Queues, MarkRunning(q) PROVE LeftBehind'
  BY <1>0, <1>5 DEF MarkRunning, LeftBehind
<1>6. ASSUME NEW q \in Queues, Launch(q) PROVE LeftBehind'
  BY <1>0, <1>6 DEF Launch, LeftBehind
<1>7. ASSUME NEW q \in Queues, JobReturns(q) PROVE LeftBehind'
  BY <1>0, <1>7 DEF JobReturns, LeftBehind
<1>8. ASSUME NEW q \in Queues, Finish(q) PROVE LeftBehind'
  BY <1>0, <1>8 DEF Finish, LeftBehind
<1>9. ASSUME NEW q \in Queues, Interrupt(q) PROVE LeftBehind'
  <2>1. orphans' = orphans
    BY <1>0, <1>9 DEF Interrupt, InterruptSpares, QueueTypeOK
  <2> QED
    BY <1>0, <1>9, <2>1 DEF Interrupt, LeftBehind
<1>10. ASSUME NEW q \in Queues, Kill(q) PROVE LeftBehind'
  BY <1>0, <1>10 DEF Kill, LeftBehind, QueueTypeOK
<1>11. ASSUME NEW q \in Queues, JobEnds(q) PROVE LeftBehind'
  BY <1>0, <1>11 DEF JobEnds, LeftBehind
<1>12. ASSUME NEW k \in Jobs, OrphanEnds(k) PROVE LeftBehind'
  <2>1. \A j \in Jobs : orphans[j] \in Nat /\ (j # k => orphans'[j] = orphans[j])
    BY <1>0, <1>12 DEF OrphanEnds, QueueTypeOK
  <2>2. orphans[k] > 0 /\ deserted' = deserted
    BY <1>12 DEF OrphanEnds
  <2> QED
    BY <1>0, <2>1, <2>2 DEF LeftBehind
<1>13. CASE UNCHANGED vars
  BY <1>0, <1>13 DEF vars, LeftBehind
<1> QED
  BY <1>0, <1>1, <1>2, <1>3, <1>4, <1>5, <1>6, <1>7, <1>8, <1>9, <1>10, <1>11, <1>12, <1>13
     DEF Next, Works

-------------------------------------------------------------------------------
QueueInv ==
  /\ QueueTypeOK /\ Places /\ Memory /\ Progress
  /\ Alone /\ UpToDate /\ LeftBehind

LEMMA QueueInvariant == Spec => []QueueInv
<1>1. Init => QueueInv
  BY QueueInitial DEF QueueInv
<1>2. QueueInv /\ [Next]_vars => QueueInv'
  BY QueueTypes, QueuePlaces, QueueMemory, QueueProgress, QueueAlone, QueueUpToDate, QueueLeaves
     DEF QueueInv
<1> QED
  BY <1>1, <1>2, PTL DEF Spec

\* Types of the files, of the queues' memories and of their processes.
THEOREM QueueTypeCorrect == Spec => []QueueTypeOK
<1>1. QueueInv => QueueTypeOK
  BY DEF QueueInv
<1> QED
  BY QueueInvariant, <1>1, PTL

\* A queue that gets to its end has a result of every job, those included that
\* an earlier queue left "running" or "interrupted".
THEOREM EndMeansRecordedCorrect == Spec => []EndMeansRecorded
<1>1. QueueInv => EndMeansRecorded
  <2>1. SUFFICES ASSUME QueueInv, NEW q \in Queues, at[q] > NumJobs, pc[q] = "check", NEW j \in Jobs
                 PROVE  state[q][j] \in {"complete", "failed"}
    BY DEF EndMeansRecorded
  <2>2. j < at[q]
    BY <2>1, JobsInOrder DEF QueueInv, QueueTypeOK
  <2> QED
    BY <2>1, <2>2 DEF QueueInv, Progress, Over
<1> QED
  BY QueueInvariant, <1>1, PTL

\* While one queue runs at a time, the file is up to date for all jobs but the
\* current one, so that a kill can lose no other record.
THEOREM KillLosesOneCorrect == Spec => []KillLosesOne
<1>1. QueueInv => KillLosesOne
  BY DEF QueueInv, UpToDate, FileIs, KillLosesOne
<1> QED
  BY QueueInvariant, <1>1, PTL

-------------------------------------------------------------------------------
Running(j) == {q \in Queues : at[q] = j /\ child[q] = "running"}

LEMMA RunningFinite == \A j : IsFiniteSet(Running(j)) /\ Cardinality(Running(j)) \in Nat
<1>1. TAKE j
<1>2. Running(j) \subseteq Queues
  BY DEF Running
<1>3. IsFiniteSet(Running(j))
  BY <1>2, QueueAssumption, FS_Subset
<1> QED
  BY <1>3, FS_CardinalityType

\* Two processes at once need two queues at once, or a process left behind.
THEOREM JobsSequentialCorrect == Spec => []JobsSequential
<1>1. QueueInv => JobsSequential
  <2>1. SUFFICES ASSUME QueueInv, ~overlapped, NEW i \in Jobs, NEW j \in Jobs,
                        Live(i) > (IF i = j THEN 1 ELSE 0), Live(j) > 0,
                        i \notin deserted, j \notin deserted
                 PROVE  FALSE
    BY DEF JobsSequential
  <2>2. orphans[i] = 0 /\ orphans[j] = 0
    <3>1. /\ orphans[i] \in Nat /\ orphans[j] \in Nat
          /\ ~(orphans[i] > 0) /\ ~(orphans[j] > 0)
      BY <2>1 DEF QueueInv, LeftBehind, QueueTypeOK
    <3> QED
      BY <3>1
  <2>3. \A n \in Jobs : Live(n) = orphans[n] + Cardinality(Running(n))
    BY DEF Live, Running
  <2>4. /\ Cardinality(Running(j)) > 0
        /\ Cardinality(Running(i)) > (IF i = j THEN 1 ELSE 0)
    BY <2>1, <2>2, <2>3, RunningFinite
  <2>5. PICK p \in Running(j) : TRUE
    <3>1. Cardinality(Running(j)) # 0
      BY <2>4
    <3> QED
      BY <3>1, FS_EmptySet
  <2>6. \A q \in Queues : child[q] = "running" => q = p
    <3>1. \A q \in Queues : child[q] = "running" => pc[q] # "down"
      BY <2>1 DEF QueueInv, Places
    <3>2. p \in Queues /\ child[p] = "running"
      BY <2>5 DEF Running
    <3> QED
      BY <2>1, <3>1, <3>2 DEF QueueInv, Alone
  <2>7. CASE i = j
    <3>1. Running(i) = {p}
      BY <2>5, <2>6, <2>7 DEF Running
    <3>2. Cardinality(Running(i)) = 1
      BY <3>1, FS_Singleton
    <3> QED
      BY <2>4, <2>7, <3>2
  <2>8. CASE i # j
    <3>1. Running(i) = {}
      BY <2>5, <2>6, <2>8 DEF Running
    <3>2. Cardinality(Running(i)) = 0
      BY <3>1, FS_EmptySet
    <3> QED
      BY <2>4, <2>8, <3>2
  <2> QED
    BY <2>7, <2>8
<1> QED
  BY QueueInvariant, <1>1, PTL

-------------------------------------------------------------------------------
\* The processes of a job whose record is final become fewer.
LEMMA FewerRun ==
  ASSUME NEW j \in Jobs, QueueTypeOK, QueueTypeOK',
         Running(j)' \subseteq Running(j), orphans'[j] <= orphans[j]
  PROVE  Live(j)' <= Live(j)
<1>1. Cardinality(Running(j)') <= Cardinality(Running(j))
  BY RunningFinite, FS_Subset
<1>2. IsFiniteSet(Running(j)') /\ Cardinality(Running(j)') \in Nat
  <2>1. IsFiniteSet(Running(j)')
    BY RunningFinite, FS_Subset
  <2> QED
    BY <2>1, FS_CardinalityType
<1>3. Cardinality(Running(j)) \in Nat
  BY RunningFinite
<1>4. orphans[j] \in Nat /\ orphans'[j] \in Nat
  BY DEF QueueTypeOK
<1>5. Live(j) = orphans[j] + Cardinality(Running(j))
  BY DEF Live, Running
<1>6. Live(j)' = orphans'[j] + Cardinality(Running(j)')
  BY DEF Live, Running
<1> QED
  BY <1>1, <1>2, <1>3, <1>4, <1>5, <1>6

\* Once the queues that were running when its record was written have ended, a
\* complete job stays complete and none of its processes is started.
Safe(j) == file[j] = "complete" /\ \A q \in beside[j] : pc[q] = "down"
LEMMA CompleteStep ==
  QueueInv /\ QueueTypeOK' /\ [Next]_vars =>
    \A j \in Jobs : Safe(j) => file'[j] = "complete" /\ Live(j)' <= Live(j)
<1>0. SUFFICES ASSUME QueueInv, QueueTypeOK', [Next]_vars, NEW j \in Jobs, Safe(j)
               PROVE  file'[j] = "complete" /\ Live(j)' <= Live(j)
  OBVIOUS
<1>t. /\ QueueTypeOK /\ Places /\ orphans[j] \in Nat /\ orphans[j] <= orphans[j]
      /\ file[j] = "complete"
  BY <1>0 DEF QueueInv, QueueTypeOK, Safe
<1>k. \A q \in Queues :
        /\ pc[q] # "down" => state[q][j] = "complete"
        /\ pc[q] = "launch" => at[q] # j
  BY <1>0 DEF QueueInv, Memory, Remembers, Safe
<1>1. ASSUME NEW q \in Queues, Start(q) PROVE file'[j] = "complete" /\ Live(j)' <= Live(j)
  <2>1. file' = file /\ orphans'[j] = orphans[j]
    BY <1>t, <1>1 DEF Start, QueueTypeOK
  <2>2. child'[q] # "running" \/ (child'[q] = child[q] /\ at'[q] = at[q])
    BY <1>t, <1>1 DEF Start, Places, QueueTypeOK
  <2>3. Running(j)' \subseteq Running(j)
    BY <1>t, <1>1, <2>1, <2>2, Elsewhere DEF Works, Running
  <2> QED
    BY <1>0, <1>t, <2>1, <2>2, <2>3, FewerRun
<1>2. ASSUME NEW q \in Queues, Save(q) PROVE file'[j] = "complete" /\ Live(j)' <= Live(j)
  <2>1. file' = state[q] /\ orphans' = orphans /\ child' = child /\ child[q] = "none"
    BY <1>t, <1>2 DEF Save, Written, Places, QueueTypeOK
  <2>2. state[q][j] = "complete"
    BY <1>2, <1>k DEF Save
  <2>3. Running(j)' \subseteq Running(j)
    BY <1>t, <1>2, <2>1, <2>2, Elsewhere DEF Works, Running
  <2> QED
    BY <1>0, <1>t, <2>1, <2>2, <2>3, FewerRun
<1>3. ASSUME NEW q \in Queues, Skip(q) PROVE file'[j] = "complete" /\ Live(j)' <= Live(j)
  <2>1. file' = file /\ orphans'[j] = orphans[j]
    BY <1>t, <1>3 DEF Skip, QueueTypeOK
  <2>2. child'[q] # "running" \/ (child'[q] = child[q] /\ at'[q] = at[q])
    BY <1>t, <1>3 DEF Skip, Places, QueueTypeOK
  <2>3. Running(j)' \subseteq Running(j)
    BY <1>t, <1>3, <2>1, <2>2, Elsewhere DEF Works, Running
  <2> QED
    BY <1>0, <1>t, <2>1, <2>2, <2>3, FewerRun
<1>4. ASSUME NEW q \in Queues, StopEarly(q) PROVE file'[j] = "complete" /\ Live(j)' <= Live(j)
  <2>1. file' = file /\ orphans'[j] = orphans[j]
    BY <1>t, <1>4 DEF StopEarly, QueueTypeOK
  <2>2. child'[q] # "running" \/ (child'[q] = child[q] /\ at'[q] = at[q])
    BY <1>t, <1>4 DEF StopEarly, Places, QueueTypeOK
  <2>3. Running(j)' \subseteq Running(j)
    BY <1>t, <1>4, <2>1, <2>2, Elsewhere DEF Works, Running
  <2> QED
    BY <1>0, <1>t, <2>1, <2>2, <2>3, FewerRun
<1>5. ASSUME NEW q \in Queues, MarkRunning(q) PROVE file'[j] = "complete" /\ Live(j)' <= Live(j)
  <2>1. file' = file /\ orphans'[j] = orphans[j]
    BY <1>t, <1>5 DEF MarkRunning, QueueTypeOK
  <2>2. child'[q] # "running" \/ (child'[q] = child[q] /\ at'[q] = at[q])
    BY <1>t, <1>5 DEF MarkRunning, Places, QueueTypeOK
  <2>3. Running(j)' \subseteq Running(j)
    BY <1>t, <1>5, <2>1, <2>2, Elsewhere DEF Works, Running
  <2> QED
    BY <1>0, <1>t, <2>1, <2>2, <2>3, FewerRun
<1>6. ASSUME NEW q \in Queues, Launch(q) PROVE file'[j] = "complete" /\ Live(j)' <= Live(j)
  <2>1. j # at[q] /\ file' = file /\ orphans' = orphans /\ at' = at
    BY <1>6, <1>k DEF Launch
  <2>2. \A p \in Queues \ {q} : child'[p] = child[p]
    BY <1>t, <1>6 DEF Launch, QueueTypeOK
  <2>3. Running(j)' \subseteq Running(j)
    BY <1>t, <1>6, <2>1, <2>2, Elsewhere DEF Works, Running
  <2> QED
    BY <1>0, <1>t, <2>1, <2>2, <2>3, FewerRun
<1>7. ASSUME NEW q \in Queues, JobReturns(q) PROVE file'[j] = "complete" /\ Live(j)' <= Live(j)
  <2>1. file' = file /\ orphans'[j] = orphans[j]
    BY <1>t, <1>7 DEF JobReturns, QueueTypeOK
  <2>2. child'[q] # "running" \/ (child'[q] = child[q] /\ at'[q] = at[q])
    BY <1>t, <1>7 DEF JobReturns, Places, QueueTypeOK
  <2>3. Running(j)' \subseteq Running(j)
    BY <1>t, <1>7, <2>1, <2>2, Elsewhere DEF Works, Running
  <2> QED
    BY <1>0, <1>t, <2>1, <2>2, <2>3, FewerRun
<1>8. ASSUME NEW q \in Queues, Finish(q) PROVE file'[j] = "complete" /\ Live(j)' <= Live(j)
  <2>1. file' = file /\ orphans'[j] = orphans[j]
    BY <1>t, <1>8 DEF Finish, QueueTypeOK
  <2>2. child'[q] # "running" \/ (child'[q] = child[q] /\ at'[q] = at[q])
    BY <1>t, <1>8 DEF Finish, Places, QueueTypeOK
  <2>3. Running(j)' \subseteq Running(j)
    BY <1>t, <1>8, <2>1, <2>2, Elsewhere DEF Works, Running
  <2> QED
    BY <1>0, <1>t, <2>1, <2>2, <2>3, FewerRun
<1>9. ASSUME NEW q \in Queues, Interrupt(q) PROVE file'[j] = "complete" /\ Live(j)' <= Live(j)
  <2>1. file' = file /\ orphans'[j] = orphans[j]
    BY <1>t, <1>9 DEF Interrupt, InterruptSpares, QueueTypeOK
  <2>2. child'[q] # "running" \/ (child'[q] = child[q] /\ at'[q] = at[q])
    BY <1>t, <1>9 DEF Interrupt, InterruptSpares, Places, QueueTypeOK
  <2>3. Running(j)' \subseteq Running(j)
    BY <1>t, <1>9, <2>1, <2>2, Elsewhere DEF Works, Running
  <2> QED
    BY <1>0, <1>t, <2>1, <2>2, <2>3, FewerRun
<1>10. ASSUME NEW q \in Queues, Kill(q) PROVE file'[j] = "complete" /\ Live(j)' <= Live(j)
  <2>1. file' = file /\ at' = at
    BY <1>10 DEF Kill
  <2>2. child'[q] = "none" /\ \A p \in Queues \ {q} : child'[p] = child[p]
    BY <1>t, <1>10 DEF Kill, QueueTypeOK
  <2>3. CASE child[q] = "running" /\ at[q] = j
    <3>1. Running(j)' = Running(j) \ {q} /\ q \in Running(j)
      BY <2>1, <2>2, <2>3 DEF Running
    <3>2. Cardinality(Running(j)') = Cardinality(Running(j)) - 1
      BY <3>1, RunningFinite, FS_RemoveElement
    <3>3. orphans'[j] = orphans[j] + 1
      BY <1>t, <1>10, <2>3 DEF Kill, QueueTypeOK
    <3>4. Live(j) = orphans[j] + Cardinality(Running(j))
      BY DEF Live, Running
    <3>5. Live(j)' = orphans'[j] + Cardinality(Running(j)')
      BY DEF Live, Running
    <3>6. Live(j)' = Live(j) /\ Live(j) \in Nat
      BY <1>t, <3>2, <3>3, <3>4, <3>5, RunningFinite
    <3> QED
      BY <1>t, <2>1, <3>6
  <2>4. CASE ~(child[q] = "running" /\ at[q] = j)
    <3>1. Running(j)' \subseteq Running(j)
      BY <2>1, <2>2 DEF Running
    <3>2. orphans'[j] = orphans[j]
      BY <1>t, <1>10, <2>4 DEF Kill, QueueTypeOK
    <3> QED
      BY <1>0, <1>t, <2>1, <3>1, <3>2, FewerRun
  <2> QED
    BY <2>3, <2>4
<1>11. ASSUME NEW q \in Queues, JobEnds(q) PROVE file'[j] = "complete" /\ Live(j)' <= Live(j)
  <2>1. file' = file /\ orphans'[j] = orphans[j]
    BY <1>t, <1>11 DEF JobEnds, QueueTypeOK
  <2>2. child'[q] # "running" \/ (child'[q] = child[q] /\ at'[q] = at[q])
    BY <1>t, <1>11 DEF JobEnds, Places, QueueTypeOK
  <2>3. Running(j)' \subseteq Running(j)
    BY <1>t, <1>11, <2>1, <2>2, Elsewhere DEF Works, Running
  <2> QED
    BY <1>0, <1>t, <2>1, <2>2, <2>3, FewerRun
<1>12. ASSUME NEW k \in Jobs, OrphanEnds(k) PROVE file'[j] = "complete" /\ Live(j)' <= Live(j)
  <2>1. file' = file /\ at' = at /\ child' = child
    BY <1>12 DEF OrphanEnds
  <2>2. orphans'[j] <= orphans[j]
    BY <1>t, <1>12 DEF OrphanEnds, QueueTypeOK
  <2>3. Running(j)' \subseteq Running(j)
    BY <2>1 DEF Running
  <2> QED
    BY <1>0, <1>t, <2>1, <2>2, <2>3, FewerRun
<1>13. CASE UNCHANGED vars
  <2>1. UNCHANGED <<file, at, child, orphans>>
    BY <1>13 DEF vars
  <2>2. Running(j)' \subseteq Running(j)
    BY <2>1 DEF Running
  <2> QED
    BY <1>0, <1>t, <2>1, <2>2, FewerRun
<1> QED
  BY <1>0, <1>1, <1>2, <1>3, <1>4, <1>5, <1>6, <1>7, <1>8, <1>9, <1>10, <1>11, <1>12, <1>13
     DEF Next, Works

\* A complete job is final over all restarts, for every queue that starts after its
\* record was written, however many run beside each other.
THEOREM CompleteIsFinalCorrect == Spec => CompleteIsFinal
<1>1. QueueInv => QueueTypeOK
  BY DEF QueueInv
<1>2. QueueInv /\ QueueTypeOK' /\ [Next]_vars =>
        [\A j \in Jobs :
           file[j] = "complete" /\ (\A q \in beside[j] : pc[q] = "down") =>
             file'[j] = "complete" /\ Live(j)' <= Live(j)]_vars
  BY CompleteStep DEF Safe
<1> QED
  BY QueueInvariant, <1>1, <1>2, PTL DEF Spec, CompleteIsFinal
===============================================================================
