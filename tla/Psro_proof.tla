------------------------------ MODULE Psro_proof ------------------------------
(***************************************************************************)
(* One population and one full meta-game, for any number of iterations,    *)
(* episodes, evaluators and drivers that fail.                             *)
(***************************************************************************)
EXTENDS Psro, SequenceTheorems, TLAPS

\* s holds the bootstrap agent and the agents of the iterations 1 to k - 1.
Chain(s, agents, k) ==
  /\ Len(s) = k
  /\ \A n \in 1..k : s[n] = IF n = 1 THEN Bootstrap ELSE agents[n - 1]

\* Entries, the agents of one and the episodes to play, with pools `agents'.
EntriesOf(agents) == (1..Len(agents["camera"])) \X (1..Len(agents["target"]))
PairOf(agents, e) == <<agents["camera"][e[1]], agents["target"][e[2]]>>
TasksOf(agents, entries) ==
  {[entry |-> e, episode |-> k, pair |-> PairOf(agents, e)] : e \in entries, k \in 1..NumEpisodes}
EpisodesOf(agents, e) ==
  {[entry |-> e, episode |-> k, pair |-> PairOf(agents, e)] : k \in 1..NumEpisodes}

-------------------------------------------------------------------------------
\* Where the trainers are at each place of train().
Places ==
  /\ pc = "down" => \A p \in Players : trainer[p].status = "none"
  /\ pc # "down" => \A p \in Players : p \in not_ready <=> trainer[p].status # "none"
  /\ pc \in {"train", "solve", "done"} => not_ready = {}
  /\ pc = "train" \/ not_ready # {} => i # 0

\* A player whose agent of this iteration is out has one agent less.
Size(p) == IF pc = "train" \/ p \in not_ready THEN i ELSE i + 1
Pools ==
  pc # "down" =>
    \A p \in Players :
      /\ Chain(pool[p], recorded[p], Size(p))
      /\ \A k \in 1..(Size(p) - 1) : recorded[p][k] # None
Mixtures == pc = "train" => \A p \in Players : sigma[p] = i

\* Agents are recorded in the order of the iterations, those of both players.
Recorded ==
  \A p \in Players : \A k \in Rounds :
    recorded[p][k] # None =>
      /\ recorded[p][k].iteration = k
      /\ \A q \in Players : \A j \in 1..(k - 1) : recorded[q][j] # None
Before(p, k) == IF k = 1 THEN None ELSE recorded[p][k - 1]
Origins ==
  \A p \in Players : \A k \in 1..Iterations :
    recorded[p][k] # None =>
      /\ origin[p][k] \in Origin /\ origin[p][k].from = Before(p, k)
      /\ Chain(origin[p][k].against, recorded[Other(p)], k)
Training ==
  \A p \in Players :
    /\ trainer[p].status # "none" =>
         /\ trainer[p].from = Before(p, i) /\ trainer[p].weights = i
         /\ Chain(trainer[p].against, recorded[Other(p)], i)
    /\ trainer[p].status = "ready" =>
         /\ trainer[p].agent \in Agent /\ trainer[p].agent.iteration = i
         /\ recorded[p][i] \in {None, trainer[p].agent}

\* What is known and what is being measured.
Payoffs ==
  pc # "down" =>
    /\ DOMAIN payoff \subseteq EntriesOf(pool)
    /\ \A e \in DOMAIN payoff : payoff[e] = EpisodesOf(pool, e)
Measured ==
  /\ pc \in {"train", "wait", "solve"} => DOMAIN payoff = EntriesOf(pool)
  /\ pc = "measure" =>
       results \cup Range(running) \cup pending = TasksOf(pool, EntriesOf(pool) \ DOMAIN payoff)
  /\ pc # "measure" => running = <<>> /\ pending = {}

PsroInv ==
  /\ PsroTypeOK /\ Places /\ Pools /\ Mixtures
  /\ Recorded /\ Origins /\ Training /\ Payoffs /\ Measured

-------------------------------------------------------------------------------
LEMMA Constants ==
  /\ Iterations \in Nat /\ NumEpisodes \in Nat \ {0}
  /\ 0 \in Rounds /\ Rounds \subseteq Nat
  /\ \A k \in Rounds : k # Iterations => k + 1 \in Rounds
  /\ None \notin Agent /\ Bootstrap \in Agent /\ Bootstrap.iteration = 0
BY PsroAssumption DEF Rounds, Agent, Bootstrap

LEMMA TwoPlayers ==
  /\ \A p \in Players : Other(p) \in Players /\ Other(p) # p
  /\ \A p, q \in Players : q = p \/ q = Other(p)
  /\ "camera" \in Players /\ "target" \in Players
BY DEF Players, Other

\* A chain is not affected by what is recorded at or after its end.
LEMMA ChainKept ==
  ASSUME NEW s, NEW old, NEW new, NEW k \in Nat, Chain(s, old, k),
         \A j \in 1..(k - 1) : new[j] = old[j]
  PROVE  Chain(s, new, k)
BY DEF Chain

\* The agent of the next iteration makes it longer.
LEMMA ChainGrows ==
  ASSUME NEW s \in Seq(Agent), NEW agents, NEW k \in Nat \ {0}, Chain(s, agents, k),
         agents[k] \in Agent
  PROVE  /\ Append(s, agents[k]) \in Seq(Agent)
         /\ Chain(Append(s, agents[k]), agents, k + 1)
<1>1. /\ Append(s, agents[k]) \in Seq(Agent)
      /\ Len(Append(s, agents[k])) = k + 1
      /\ \A n \in 1..k : Append(s, agents[k])[n] = s[n]
      /\ Append(s, agents[k])[k + 1] = agents[k]
  BY AppendProperties DEF Chain
<1>2. \A n \in 1..(k + 1) : n \in 1..k \/ (n = k + 1 /\ n # 1 /\ n - 1 = k)
  OBVIOUS
<1> QED
  BY <1>1, <1>2 DEF Chain

LEMMA EmptyRange == Range(<<>>) = {}
BY DEF Range

\* Starting an evaluator adds its episode to those that run.
LEMMA RangeAppend ==
  ASSUME NEW S, NEW s \in Seq(S), NEW x \in S
  PROVE  Append(s, x) \in Seq(S) /\ Range(Append(s, x)) = Range(s) \cup {x}
<1>1. Append(s, x) \in Seq(S)
  BY AppendProperties
<1>2. Range(Append(s, x)) = {Append(s, x)[n] : n \in 1..Len(Append(s, x))}
  BY <1>1, RangeEquality
<1>3. Range(s) = {s[n] : n \in 1..Len(s)}
  BY RangeEquality
<1>4. /\ Len(Append(s, x)) = Len(s) + 1 /\ Len(s) \in Nat
      /\ \A n \in 1..Len(s) : Append(s, x)[n] = s[n]
      /\ Append(s, x)[Len(s) + 1] = x
  BY AppendProperties
<1>5. 1..(Len(s) + 1) = (1..Len(s)) \cup {Len(s) + 1}
  BY <1>4
<1> QED
  BY <1>1, <1>2, <1>3, <1>4, <1>5

\* One that returns takes its own episode away, wherever it is in the list.
LEMMA RangeRemoveAt ==
  ASSUME NEW S, NEW s \in Seq(S), NEW n \in DOMAIN s
  PROVE  RemoveAt(s, n) \in Seq(S) /\ Range(s) = Range(RemoveAt(s, n)) \cup {s[n]}
<1> DEFINE a == SubSeq(s, 1, n - 1)
           b == SubSeq(s, n + 1, Len(s))
<1>1. n \in 1..Len(s) /\ Len(s) \in Nat /\ n \in Nat /\ \A m \in 1..Len(s) : s[m] \in S
  BY LenProperties, ElementOfSeq
<1>2. /\ a \in Seq(S) /\ Len(a) = n - 1
      /\ \A m \in 1..(n - 1) : a[m] = s[m]
  <2>1. \A m \in 1..(n - 1) : s[m] \in S
    BY <1>1
  <2>2. /\ a \in Seq(S) /\ Len(a) = (IF 1 <= n - 1 THEN n - 1 - 1 + 1 ELSE 0)
        /\ \A m \in 1..(n - 1 - 1 + 1) : a[m] = s[1 + m - 1]
    BY <1>1, <2>1, SubSeqProperties
  <2>3. /\ n - 1 - 1 + 1 = n - 1 /\ (1 <= n - 1 \/ n - 1 = 0)
        /\ \A m \in 1..(n - 1) : 1 + m - 1 = m
    BY <1>1
  <2> HIDE DEF a
  <2> QED
    BY <2>2, <2>3
<1>3. /\ b \in Seq(S) /\ Len(b) = Len(s) - n
      /\ \A m \in 1..(Len(s) - n) : b[m] = s[n + m]
  <2>1. \A m \in (n + 1)..Len(s) : s[m] \in S
    BY <1>1
  <2>2. /\ b \in Seq(S) /\ Len(b) = (IF n + 1 <= Len(s) THEN Len(s) - (n + 1) + 1 ELSE 0)
        /\ \A m \in 1..(Len(s) - (n + 1) + 1) : b[m] = s[n + 1 + m - 1]
    BY <1>1, <2>1, SubSeqProperties
  <2>3. /\ Len(s) - (n + 1) + 1 = Len(s) - n /\ (n + 1 <= Len(s) \/ Len(s) - n = 0)
        /\ \A m \in 1..(Len(s) - n) : n + 1 + m - 1 = n + m
    BY <1>1
  <2> HIDE DEF b
  <2> QED
    BY <2>2, <2>3
<1>4. RemoveAt(s, n) = a \o b
  BY DEF RemoveAt
<1>5. a \o b \in Seq(S) /\ Range(a \o b) = Range(a) \cup Range(b)
  <2> HIDE DEF a, b
  <2>1. a \in Seq(S) /\ b \in Seq(S)
    BY <1>2, <1>3
  <2> QED
    BY <2>1, ConcatProperties, RangeConcatenation
<1>6. Range(a) = {s[m] : m \in 1..(n - 1)}
  <2>1. Range(a) = {a[m] : m \in 1..(n - 1)}
    BY <1>2, RangeEquality
  <2> QED
    BY <1>2, <2>1
<1>7. Range(b) = {s[m] : m \in (n + 1)..Len(s)}
  <2>1. Range(b) = {b[m] : m \in 1..(Len(s) - n)}
    BY <1>3, RangeEquality
  <2>2. \A m \in (n + 1)..Len(s) : m - n \in 1..(Len(s) - n) /\ n + (m - n) = m
    BY <1>1
  <2>3. \A m \in 1..(Len(s) - n) : n + m \in (n + 1)..Len(s)
    BY <1>1
  <2> HIDE DEF b
  <2>4. ASSUME NEW y \in Range(b) PROVE y \in {s[m] : m \in (n + 1)..Len(s)}
    BY <1>3, <2>1, <2>3, <2>4
  <2>5. ASSUME NEW m \in (n + 1)..Len(s) PROVE s[m] \in Range(b)
    BY <1>3, <2>1, <2>2
  <2> QED
    BY <2>4, <2>5
<1>8. Range(s) = {s[m] : m \in 1..Len(s)}
  BY RangeEquality
<1>9. 1..Len(s) = (1..(n - 1)) \cup {n} \cup ((n + 1)..Len(s))
  BY <1>1
<1> HIDE DEF a, b
<1> QED
  BY <1>4, <1>5, <1>6, <1>7, <1>8, <1>9

-------------------------------------------------------------------------------
\* What each action may touch, for the parts of the invariant it leaves alone.
Measures == BeginEvaluate \/ StartEvaluator \/ TakeResult \/ EndEvaluate

LEMMA MeasuresKeep ==
  Measures => UNCHANGED <<disk_vars, i, pool, sigma, trainer, not_ready, starts>>
BY DEF Measures, BeginEvaluate, StartEvaluator, TakeResult, EndEvaluate

LEMMA PlacesStep == PsroTypeOK /\ Places /\ [Next]_vars => Places'
<1>0. SUFFICES ASSUME PsroTypeOK, Places, [Next]_vars PROVE Places'
  OBVIOUS
<1>t. trainer \in [Players -> PlayerTrainer] /\ i \in Nat /\ not_ready \subseteq Players
  BY <1>0, Constants DEF PsroTypeOK
<1>1. CASE StartDriver
  BY <1>1 DEF StartDriver, Places, Idle
<1>2. CASE StartTrainers
  BY <1>0, <1>2 DEF StartTrainers, Places
<1>3. ASSUME NEW p \in Players, TakeAgent(p) PROVE Places'
  BY <1>0, <1>3, <1>t DEF TakeAgent, Places, Idle, StillWaiting
<1>4. CASE Measures
  <2>1. UNCHANGED <<i, trainer, not_ready>>
    BY <1>4, MeasuresKeep
  <2>2. pc # "down" /\ pc' \in {"measure", "wait", "solve"}
        /\ (pc' = "solve" => not_ready = {})
    BY <1>4 DEF Measures, BeginEvaluate, StartEvaluator, TakeResult, EndEvaluate
  <2> QED
    BY <1>0, <2>1, <2>2 DEF Places
<1>5. CASE Solve
  BY <1>0, <1>5, <1>t DEF Solve, Places
<1>6. ASSUME NEW p \in Players, TrainerReturns(p) PROVE Places'
  <2>1. /\ UNCHANGED <<pc, i, not_ready>> /\ trainer[p].status # "none"
        /\ \A q \in Players : trainer'[q].status # "none" <=> trainer[q].status # "none"
    BY <1>6, <1>t DEF TrainerReturns, PlayerTrainer
  <2>2. pc # "down"
    BY <1>0, <2>1 DEF Places
  <2> QED
    BY <1>0, <2>1, <2>2 DEF Places
<1>7. CASE Fail
  BY <1>0, <1>7 DEF Fail, Places, Idle
<1>8. CASE UNCHANGED vars
  BY <1>0, <1>8 DEF vars, Places
<1> QED
  BY <1>0, <1>1, <1>2, <1>3, <1>4, <1>5, <1>6, <1>7, <1>8 DEF Next, Driver, Measures

-------------------------------------------------------------------------------
\* The agent that is taken, and what its recording changes.
LEMMA TakenAgent ==
  ASSUME PsroInv, NEW p \in Players, TakeAgent(p)
  PROVE  /\ i \in Nat \ {0} /\ i \in Rounds
         /\ trainer[p].agent \in Agent /\ trainer[p].agent.iteration = i
         /\ recorded[p][i] \in {None, trainer[p].agent}
         /\ recorded'[p] \in [Rounds -> MaybeAgent] /\ recorded'[p][i] = trainer[p].agent
         /\ \A k \in Rounds \ {i} : recorded'[p][k] = recorded[p][k]
         /\ recorded'[Other(p)] = recorded[Other(p)]
         /\ Size(p) = i /\ \A q \in Players : \A j \in 1..(i - 1) : recorded[q][j] # None
<1> USE DEF PsroInv, PsroTypeOK
<1>1. pc = "wait" /\ p \in not_ready /\ trainer[p].status = "ready"
  BY DEF TakeAgent
<1>2. i \in Nat \ {0} /\ i \in Rounds
  BY <1>1, Constants DEF Places
<1>3. /\ trainer[p].agent \in Agent /\ trainer[p].agent.iteration = i
      /\ recorded[p][i] \in {None, trainer[p].agent}
  BY <1>1 DEF Training
<1>4. recorded' = [recorded EXCEPT ![p][i] = trainer[p].agent]
  BY DEF TakeAgent
<1>5. /\ recorded'[p] \in [Rounds -> MaybeAgent] /\ recorded'[p][i] = trainer[p].agent
      /\ \A k \in Rounds \ {i} : recorded'[p][k] = recorded[p][k]
      /\ recorded'[Other(p)] = recorded[Other(p)]
  BY <1>2, <1>3, <1>4, TwoPlayers DEF MaybeAgent
<1>6. Size(p) = i
  BY <1>1 DEF Size
<1>7. \A q \in Players : Size(q) \in {i, i + 1}
  BY DEF Size
<1>8. \A q \in Players : \A j \in 1..(i - 1) : recorded[q][j] # None
  <2>1. SUFFICES ASSUME NEW q \in Players, NEW j \in 1..(i - 1) PROVE recorded[q][j] # None
    OBVIOUS
  <2>2. j \in 1..(Size(q) - 1)
    <3>1. CASE Size(q) = i
      BY <2>1, <3>1
    <3>2. CASE Size(q) = i + 1
      BY <1>2, <2>1, <3>2
    <3> QED
      BY <1>7, <3>1, <3>2
  <2> QED
    BY <1>1, <2>2 DEF Pools
<1> QED
  BY <1>2, <1>3, <1>5, <1>6, <1>8

LEMMA TypeStep == PsroInv /\ [Next]_vars => PsroTypeOK'
<1>0. SUFFICES ASSUME PsroInv, [Next]_vars PROVE PsroTypeOK'
  OBVIOUS
<1>t. PsroTypeOK
  BY <1>0 DEF PsroInv
<1>i. Idle \in PlayerTrainer
  BY DEF Idle, PlayerTrainer, MaybeAgent
<1>1. CASE StartDriver
  <2>1. <<>> \in Seq(Work) /\ <<Bootstrap>> \in Seq(Agent)
    BY Constants
  <2> QED
    BY <1>1, <1>t, <1>i, <2>1, Constants DEF StartDriver, disk_vars, PsroTypeOK
<1>2. CASE StartTrainers
  <2>1. \A p \in Players : LastAgent(p) \in MaybeAgent
    <3>1. SUFFICES ASSUME NEW p \in Players, i # 1 PROVE Last(pool[p]) \in Agent
      BY DEF LastAgent, MaybeAgent
    <3>2. i \in Nat /\ i # 0
      BY <1>0, <1>2, <1>t, Constants DEF PsroInv, PsroTypeOK, StartTrainers, Places
    <3>3. Len(pool[p]) = i /\ pool[p] \in Seq(Agent)
      BY <1>0, <1>2, <1>t DEF PsroInv, Pools, Size, Chain, StartTrainers, PsroTypeOK
    <3> QED
      BY <3>2, <3>3, ElementOfSeq DEF Last
  <2>2. \A p \in Players :
          [status |-> "training", from |-> LastAgent(p), against |-> pool[Other(p)],
           weights |-> sigma[Other(p)], agent |-> None] \in PlayerTrainer
    BY <1>t, <2>1, TwoPlayers DEF PsroTypeOK, PlayerTrainer, MaybeAgent
  <2> QED
    BY <1>2, <1>t, <2>2 DEF StartTrainers, PsroTypeOK, disk_vars, eval_vars
<1>3. ASSUME NEW p \in Players, TakeAgent(p) PROVE PsroTypeOK'
  <2>1. trainer[p].agent \in Agent /\ i \in Rounds
    BY <1>0, <1>3, TakenAgent
  <2>2. /\ recorded' = [recorded EXCEPT ![p][i] = trainer[p].agent]
        /\ pool' = [pool EXCEPT ![p] = Append(@, trainer[p].agent)]
    BY <1>3 DEF TakeAgent
  <2>3. recorded' \in [Players -> [Rounds -> MaybeAgent]]
    BY <1>t, <2>1, <2>2 DEF PsroTypeOK, MaybeAgent
  <2>4. pool' \in [Players -> Seq(Agent)]
    BY <1>t, <2>1, <2>2, AppendProperties DEF PsroTypeOK
  <2>5. origin' \in [Players -> [Rounds -> Origin \cup {None}]]
    <3>1. [from |-> trainer[p].from, against |-> trainer[p].against] \in Origin
      BY <1>t DEF PsroTypeOK, PlayerTrainer, Origin
    <3> QED
      BY <1>3, <1>t, <2>1, <3>1 DEF TakeAgent, PsroTypeOK
  <2>6. trainer' \in [Players -> PlayerTrainer]
    BY <1>3, <1>t, <1>i DEF TakeAgent, PsroTypeOK
  <2> QED
    BY <1>3, <1>t, <2>3, <2>4, <2>5, <2>6 DEF TakeAgent, StillWaiting, PsroTypeOK, eval_vars
<1>4. CASE Measures
  <2>0. UNCHANGED <<disk_vars, i, pool, sigma, trainer, not_ready, starts>>
    BY <1>4, MeasuresKeep
  <2>1. pc' \in {"wait", "measure", "solve"}
    BY <1>4 DEF Measures, BeginEvaluate, StartEvaluator, TakeResult, EndEvaluate
  <2>2. pending' \subseteq Work /\ results' \subseteq Work /\ running' \in Seq(Work)
    <3>1. CASE BeginEvaluate
      <4>1. ASSUME NEW e \in Missing, NEW k \in 1..NumEpisodes
            PROVE  [entry |-> e, episode |-> k, pair |-> Pair(e)] \in Work
        <5>1. e[1] \in 1..Len(pool["camera"]) /\ e[2] \in 1..Len(pool["target"])
              /\ e = <<e[1], e[2]>>
          BY DEF Missing, Entries
        <5>2. pool["camera"] \in Seq(Agent) /\ pool["target"] \in Seq(Agent)
          BY <1>t, TwoPlayers DEF PsroTypeOK
        <5>3. pool["camera"][e[1]] \in Agent /\ pool["target"][e[2]] \in Agent
          BY <5>1, <5>2, ElementOfSeq
        <5>4. e[1] \in Nat \ {0} /\ e[2] \in Nat \ {0}
          BY <5>1, <5>2, LenProperties
        <5>5. e \in (Nat \ {0}) \X (Nat \ {0}) /\ Pair(e) \in Agent \X Agent
          BY <5>1, <5>3, <5>4 DEF Pair
        <5> QED
          BY <5>5 DEF Work
      <4> QED
        BY <1>t, <3>1, <4>1 DEF BeginEvaluate, PsroTypeOK
    <3>2. CASE StartEvaluator
      BY <1>t, <3>2, AppendProperties DEF StartEvaluator, PsroTypeOK
    <3>3. CASE TakeResult
      <4>1. PICK n \in DOMAIN running :
              /\ results' = results \cup {running[n]} /\ running' = RemoveAt(running, n)
        BY <3>3 DEF TakeResult, Credited
      <4>2. running[n] \in Work
        BY <1>t, LenProperties, ElementOfSeq DEF PsroTypeOK
      <4> QED
        BY <1>t, <3>3, <4>1, <4>2, RangeRemoveAt DEF TakeResult, PsroTypeOK
    <3>4. CASE EndEvaluate
      BY <1>t, <3>4 DEF EndEvaluate, PsroTypeOK
    <3> QED
      BY <1>4, <3>1, <3>2, <3>3, <3>4 DEF Measures
  <2> QED
    BY <1>t, <2>0, <2>1, <2>2 DEF PsroTypeOK, disk_vars
<1>5. CASE Solve
  <2>1. i' \in Rounds
    BY <1>5, <1>t, Constants DEF Solve, LastRound, PsroTypeOK
  <2>2. sigma' \in [Players -> Nat]
    BY <1>5, <1>t, LenProperties DEF Solve, PsroTypeOK
  <2> QED
    BY <1>5, <1>t, <2>1, <2>2 DEF Solve, PsroTypeOK, disk_vars, eval_vars
<1>6. ASSUME NEW p \in Players, TrainerReturns(p) PROVE PsroTypeOK'
  <2>1. /\ trained[p][i] + 1 \in Nat /\ recorded[p][i] \in MaybeAgent
        /\ [iteration |-> i, version |-> trained[p][i] + 1] \in MaybeAgent
    BY <1>t DEF PsroTypeOK, MaybeAgent, Agent
  <2>2. PICK agent \in MaybeAgent :
          trainer' = [trainer EXCEPT ![p].status = "ready", ![p].agent = agent]
    <3>1. CASE Existing(p) # None
      <4>1. trainer' = [trainer EXCEPT ![p].status = "ready", ![p].agent = Existing(p)]
        BY <1>6, <3>1 DEF TrainerReturns
      <4> QED
        BY <2>1, <4>1 DEF Existing
    <3>2. CASE Existing(p) = None
      <4>1. trainer' = [trainer EXCEPT
              ![p].status = "ready", ![p].agent = [iteration |-> i, version |-> trained[p][i] + 1]]
        BY <1>6, <3>2 DEF TrainerReturns
      <4> QED
        BY <2>1, <4>1
    <3> QED
      BY <3>1, <3>2
  <2>3. trainer' \in [Players -> PlayerTrainer]
    <3>1. trainer \in [Players -> PlayerTrainer]
      BY <1>t DEF PsroTypeOK
    <3>2. [trainer[p] EXCEPT !.status = "ready", !.agent = agent] \in PlayerTrainer
      BY <3>1 DEF PlayerTrainer
    <3>3. trainer' = [trainer EXCEPT ![p] = [trainer[p] EXCEPT !.status = "ready", !.agent = agent]]
      BY <2>2, <3>1
    <3> QED
      BY <3>1, <3>2, <3>3
  <2>4. trained' \in [Players -> [Rounds -> Nat]]
    <3>1. trained' = trained \/ trained' = [trained EXCEPT ![p][i] = trained[p][i] + 1]
      <4>1. CASE Existing(p) # None
        BY <1>6, <4>1 DEF TrainerReturns
      <4>2. CASE Existing(p) = None
        BY <1>6, <4>2 DEF TrainerReturns
      <4> QED
        BY <4>1, <4>2
    <3>2. i \in Rounds /\ trained \in [Players -> [Rounds -> Nat]]
      BY <1>t DEF PsroTypeOK
    <3>3. [trained[p] EXCEPT ![i] = trained[p][i] + 1] \in [Rounds -> Nat]
      BY <2>1, <3>2
    <3> QED
      BY <3>1, <3>2, <3>3
  <2> QED
    BY <1>6, <1>t, <2>3, <2>4 DEF TrainerReturns, PsroTypeOK, eval_vars
<1>7. CASE Fail
  BY <1>7, <1>t, <1>i DEF Fail, PsroTypeOK, disk_vars
<1>8. CASE UNCHANGED vars
  BY <1>8, <1>t DEF vars, PsroTypeOK, disk_vars, eval_vars
<1> QED
  BY <1>0, <1>1, <1>2, <1>3, <1>4, <1>5, <1>6, <1>7, <1>8 DEF Next, Driver, Measures

-------------------------------------------------------------------------------
LEMMA PoolsStep == PsroInv /\ [Next]_vars => Pools'
<1>0. SUFFICES ASSUME PsroInv, [Next]_vars PROVE Pools'
  OBVIOUS
<1>t. PsroTypeOK /\ i \in Nat /\ pool \in [Players -> Seq(Agent)]
  BY <1>0, Constants DEF PsroInv, PsroTypeOK
<1>p. Pools
  BY <1>0 DEF PsroInv
<1>1. CASE StartDriver
  <2>1. SUFFICES ASSUME NEW p \in Players
                 PROVE  /\ Chain(pool'[p], recorded'[p], Size(p)')
                        /\ \A k \in 1..(Size(p)' - 1) : recorded'[p][k] # None
    BY DEF Pools
  <2>2. Size(p)' = 1 /\ pool'[p] = <<Bootstrap>>
    BY <1>1 DEF StartDriver, Size
  <2> QED
    BY <2>2 DEF Chain
<1>2. ASSUME UNCHANGED <<recorded, pool>>, \A p \in Players : Size(p)' = Size(p), pc # "down"
      PROVE  Pools'
  BY <1>2, <1>p DEF Pools
<1>3. CASE StartTrainers
  BY <1>2, <1>3 DEF StartTrainers, Size, disk_vars
<1>4. ASSUME NEW p \in Players, TakeAgent(p) PROVE Pools'
  <2>0. /\ i \in Nat \ {0} /\ i \in Rounds /\ Size(p) = i
        /\ trainer[p].agent \in Agent /\ recorded'[p][i] = trainer[p].agent
        /\ \A k \in Rounds \ {i} : recorded'[p][k] = recorded[p][k]
        /\ recorded'[Other(p)] = recorded[Other(p)]
        /\ \A q \in Players : \A j \in 1..(i - 1) : recorded[q][j] # None
    BY <1>0, <1>4, TakenAgent
  <2>1. /\ pc = "wait" /\ pc' = "evaluate" /\ i' = i /\ not_ready' = not_ready \ {p}
        /\ pool' = [pool EXCEPT ![p] = Append(@, trainer[p].agent)]
    BY <1>4 DEF TakeAgent, StillWaiting
  <2>2. /\ Chain(pool'[p], recorded'[p], i + 1)
        /\ \A k \in 1..i : recorded'[p][k] # None
    <3>1. Chain(pool[p], recorded[p], i)
      BY <1>p, <2>0, <2>1 DEF Pools
    <3>2. \A k \in 1..(i - 1) : k \in Rounds \ {i}
      BY <2>0, Constants DEF Rounds
    <3>3. Chain(pool[p], recorded'[p], i)
      BY <2>0, <3>1, <3>2, ChainKept
    <3>4. pool'[p] = Append(pool[p], recorded'[p][i]) /\ pool[p] \in Seq(Agent)
      BY <1>t, <2>0, <2>1
    <3>5. Chain(pool'[p], recorded'[p], i + 1)
      BY <2>0, <3>3, <3>4, ChainGrows
    <3>6. \A k \in 1..i : k = i \/ k \in 1..(i - 1)
      BY <2>0
    <3> QED
      BY <2>0, <3>2, <3>5, <3>6, Constants
  <2>3. Size(p)' = i + 1
    BY <2>1 DEF Size
  <2>4. Size(Other(p))' = Size(Other(p)) /\ pool'[Other(p)] = pool[Other(p)]
    BY <1>t, <2>1, TwoPlayers DEF Size
  <2>5. /\ Chain(pool'[p], recorded'[p], Size(p)')
        /\ \A k \in 1..(Size(p)' - 1) : recorded'[p][k] # None
    BY <2>0, <2>2, <2>3
  <2>6. /\ Chain(pool'[Other(p)], recorded'[Other(p)], Size(Other(p))')
        /\ \A k \in 1..(Size(Other(p))' - 1) : recorded'[Other(p)][k] # None
    BY <1>p, <2>0, <2>1, <2>4, TwoPlayers DEF Pools
  <2>7. SUFFICES ASSUME NEW q \in Players
                 PROVE  /\ Chain(pool'[q], recorded'[q], Size(q)')
                        /\ \A k \in 1..(Size(q)' - 1) : recorded'[q][k] # None
    BY DEF Pools
  <2>8. CASE q = p
    BY <2>5, <2>8
  <2>9. CASE q = Other(p)
    BY <2>6, <2>9
  <2> QED
    BY <2>8, <2>9, TwoPlayers
<1>5. CASE Measures
  <2>1. pc \notin {"train", "down"} /\ pc' # "train"
    BY <1>5 DEF Measures, BeginEvaluate, StartEvaluator, TakeResult, EndEvaluate
  <2> QED
    BY <1>2, <1>5, <2>1, MeasuresKeep DEF Size, disk_vars
<1>6. CASE Solve
  <2>1. not_ready = {} /\ UNCHANGED <<recorded, pool, not_ready>> /\ pc = "solve"
    BY <1>0, <1>6 DEF Solve, PsroInv, Places, disk_vars
  <2>2. \A p \in Players : Size(p)' = Size(p)
    BY <1>6, <1>t, <2>1 DEF Solve, Size
  <2> QED
    BY <1>2, <2>1, <2>2
<1>7. ASSUME NEW p \in Players, TrainerReturns(p) PROVE Pools'
  <2>1. UNCHANGED <<pc, recorded, pool, i, not_ready>> /\ pc # "down"
    BY <1>0, <1>7 DEF TrainerReturns, PsroInv, Places
  <2> QED
    BY <1>2, <2>1 DEF Size
<1>8. CASE Fail
  BY <1>8 DEF Fail, Pools
<1>9. CASE UNCHANGED vars
  BY <1>9, <1>p DEF vars, disk_vars, Pools, Size
<1> QED
  BY <1>0, <1>1, <1>3, <1>4, <1>5, <1>6, <1>7, <1>8, <1>9 DEF Next, Driver, Measures

LEMMA MixturesStep == PsroInv /\ [Next]_vars => Mixtures'
<1>0. SUFFICES ASSUME PsroInv, [Next]_vars, pc' = "train"
               PROVE  \A p \in Players : sigma'[p] = i'
  BY DEF Mixtures
<1>1. CASE Solve
  <2>1. \A p \in Players : Len(pool[p]) = i + 1
    BY <1>0, <1>1 DEF Solve, PsroInv, Places, Pools, Size, Chain
  <2> QED
    BY <1>0, <1>1, <2>1 DEF Solve
<1>2. CASE UNCHANGED <<pc, i, sigma>>
  BY <1>0, <1>2 DEF PsroInv, Mixtures
<1>3. ASSUME NEW p \in Players, TrainerReturns(p) PROVE UNCHANGED <<pc, i, sigma>>
  BY <1>3 DEF TrainerReturns
<1> QED
  BY <1>0, <1>1, <1>2, <1>3
  DEF Next, Driver, StartDriver, StartTrainers, TakeAgent, BeginEvaluate, StartEvaluator,
      TakeResult, EndEvaluate, Fail, vars

-------------------------------------------------------------------------------
LEMMA RecordedStep == PsroInv /\ [Next]_vars => Recorded'
<1>0. SUFFICES ASSUME PsroInv, [Next]_vars PROVE Recorded'
  OBVIOUS
<1>r. Recorded
  BY <1>0 DEF PsroInv
<1>1. CASE recorded' = recorded
  BY <1>1, <1>r DEF Recorded
<1>2. ASSUME NEW p \in Players, TakeAgent(p) PROVE Recorded'
  <2>0. /\ i \in Nat \ {0} /\ i \in Rounds
        /\ trainer[p].agent \in Agent /\ recorded'[p][i] = trainer[p].agent
        /\ trainer[p].agent.iteration = i
        /\ \A k \in Rounds \ {i} : recorded'[p][k] = recorded[p][k]
        /\ recorded'[Other(p)] = recorded[Other(p)]
        /\ \A q \in Players : \A j \in 1..(i - 1) : recorded[q][j] # None
    BY <1>0, <1>2, TakenAgent
  <2>1. \A q \in Players : \A k \in Rounds :
          /\ recorded[q][k] # None => recorded'[q][k] # None
          /\ recorded'[q][k] = recorded[q][k] \/ (q = p /\ k = i)
    BY <2>0, TwoPlayers, Constants
  <2>2. SUFFICES ASSUME NEW q \in Players, NEW k \in Rounds, recorded'[q][k] # None
                 PROVE  /\ recorded'[q][k].iteration = k
                        /\ \A r \in Players : \A j \in 1..(k - 1) : recorded'[r][j] # None
    BY DEF Recorded
  <2>3. \A j \in 1..(k - 1) : j \in Rounds
    BY <2>2, Constants DEF Rounds
  <2>4. CASE q = p /\ k = i
    BY <2>0, <2>1, <2>3, <2>4
  <2>5. CASE recorded'[q][k] = recorded[q][k]
    BY <1>r, <2>1, <2>2, <2>3, <2>5 DEF Recorded
  <2> QED
    BY <2>1, <2>2, <2>4, <2>5
<1>3. ASSUME NEW p \in Players, TrainerReturns(p) PROVE recorded' = recorded
  BY <1>3 DEF TrainerReturns
<1> QED
  BY <1>0, <1>1, <1>2, <1>3
  DEF Next, Driver, StartDriver, StartTrainers, BeginEvaluate, StartEvaluator, TakeResult,
      EndEvaluate, Solve, Fail, vars, disk_vars

\* What a trainer holds stays true when the other player's agent is recorded.
LEMMA TrainingStep == PsroInv /\ [Next]_vars => Training'
<1>0. SUFFICES ASSUME PsroInv, [Next]_vars PROVE Training'
  OBVIOUS
<1>t. PsroTypeOK /\ i \in Nat /\ i \in Rounds
  BY <1>0, Constants DEF PsroInv, PsroTypeOK
<1>g. Training /\ Places
  BY <1>0 DEF PsroInv
<1>1. CASE trainer' = [p \in Players |-> Idle]
  BY <1>1 DEF Training, Idle
<1>2. CASE UNCHANGED <<recorded, i, trainer>>
  BY <1>2, <1>g DEF Training, Before
<1>3. CASE StartTrainers
  <2>0. /\ pc = "train" /\ i \in Nat \ {0} /\ recorded' = recorded /\ i' = i
        /\ trainer' = [p \in Players |->
             [status |-> "training", from |-> LastAgent(p), against |-> pool[Other(p)],
              weights |-> sigma[Other(p)], agent |-> None]]
    BY <1>g, <1>t, <1>3 DEF StartTrainers, Places, disk_vars
  <2>1. \A p \in Players : Chain(pool[p], recorded[p], i) /\ sigma[p] = i
    BY <1>0, <2>0 DEF PsroInv, Pools, Size, Mixtures
  <2>2. ASSUME NEW p \in Players PROVE LastAgent(p) = Before(p, i)
    <3>1. CASE i = 1
      BY <3>1 DEF LastAgent, Before
    <3>2. CASE i # 1
      <4>1. Len(pool[p]) = i /\ pool[p][i] = recorded[p][i - 1]
        BY <2>0, <2>1, <3>2 DEF Chain
      <4> QED
        BY <3>2, <4>1 DEF LastAgent, Before, Last
    <3> QED
      BY <3>1, <3>2
  <2>3. \A p \in Players : Before(p, i)' = Before(p, i)
    BY <2>0 DEF Before
  <2> QED
    BY <2>0, <2>1, <2>2, <2>3, TwoPlayers DEF Training
<1>4. ASSUME NEW p \in Players, TakeAgent(p) PROVE Training'
  <2>0. /\ i \in Nat \ {0} /\ i \in Rounds
        /\ \A k \in Rounds \ {i} : recorded'[p][k] = recorded[p][k]
        /\ recorded'[Other(p)] = recorded[Other(p)]
    BY <1>0, <1>4, TakenAgent
  <2>1. /\ i' = i /\ trainer'[p].status = "none"
        /\ trainer'[Other(p)] = trainer[Other(p)]
    BY <1>4, <1>t, TwoPlayers DEF TakeAgent, Idle, PsroTypeOK
  <2>2. \A k \in 1..(i - 1) : k \in Rounds \ {i}
    BY <2>0, Constants DEF Rounds
  <2>3. SUFFICES ASSUME NEW q \in Players, q = Other(p)
                 PROVE
                   /\ trainer[q].status # "none" =>
                        /\ trainer[q].from = Before(q, i)' /\ trainer[q].weights = i
                        /\ Chain(trainer[q].against, recorded'[Other(q)], i)
                   /\ trainer[q].status = "ready" =>
                        /\ trainer[q].agent \in Agent /\ trainer[q].agent.iteration = i
                        /\ recorded'[q][i] \in {None, trainer[q].agent}
    BY <2>1, TwoPlayers DEF Training
  <2>4. Other(q) = p
    BY <2>3 DEF Other, Players
  <2>5. Before(q, i)' = Before(q, i)
    BY <2>0, <2>1, <2>3 DEF Before
  <2>6. trainer[q].status # "none" => Chain(trainer[q].against, recorded'[p], i)
    BY <1>g, <2>0, <2>2, <2>4, ChainKept DEF Training
  <2> QED
    BY <1>g, <2>0, <2>3, <2>4, <2>5, <2>6 DEF Training
<1>5. ASSUME NEW p \in Players, TrainerReturns(p) PROVE Training'
  <2>1. recorded' = recorded /\ i' = i /\ trainer[p].status = "training"
    BY <1>5 DEF TrainerReturns, disk_vars
  <2>2. /\ recorded[p][i] \in MaybeAgent
        /\ [iteration |-> i, version |-> trained[p][i] + 1] \in Agent
    BY <1>t DEF PsroTypeOK, Agent
  <2>3. PICK agent \in Agent :
          /\ agent.iteration = i /\ recorded[p][i] \in {None, agent}
          /\ trainer' = [trainer EXCEPT ![p].status = "ready", ![p].agent = agent]
    <3>1. CASE recorded[p][i] = None
      BY <1>5, <2>2, <3>1 DEF TrainerReturns, Existing
    <3>2. CASE recorded[p][i] # None
      <4>1. recorded[p][i] \in Agent /\ recorded[p][i].iteration = i
        BY <1>0, <1>t, <2>2, <3>2 DEF PsroInv, Recorded, MaybeAgent
      <4>2. trainer' = [trainer EXCEPT ![p].status = "ready", ![p].agent = recorded[p][i]]
        BY <1>5, <3>2 DEF TrainerReturns, Existing
      <4> QED
        BY <4>1, <4>2
    <3> QED
      BY <3>1, <3>2
  <2>4. trainer[p] \in PlayerTrainer
    BY <1>t DEF PsroTypeOK
  <2>5. /\ trainer'[p].status = "ready" /\ trainer'[p].agent = agent
        /\ trainer'[p].from = trainer[p].from /\ trainer'[p].against = trainer[p].against
        /\ trainer'[p].weights = trainer[p].weights
    BY <1>t, <2>3, <2>4 DEF PsroTypeOK, PlayerTrainer
  <2>6. \A q \in Players \ {p} : trainer'[q] = trainer[q]
    BY <1>t, <2>3 DEF PsroTypeOK
  <2>7. \A q \in Players : Before(q, i)' = Before(q, i)
    BY <2>1 DEF Before
  <2>8. SUFFICES ASSUME NEW q \in Players
                 PROVE
                   /\ trainer'[q].status # "none" =>
                        /\ trainer'[q].from = Before(q, i) /\ trainer'[q].weights = i
                        /\ Chain(trainer'[q].against, recorded[Other(q)], i)
                   /\ trainer'[q].status = "ready" =>
                        /\ trainer'[q].agent \in Agent /\ trainer'[q].agent.iteration = i
                        /\ recorded[q][i] \in {None, trainer'[q].agent}
    BY <2>1, <2>7 DEF Training
  <2>9. CASE q = p
    <3>1. /\ trainer[p].from = Before(p, i) /\ trainer[p].weights = i
          /\ Chain(trainer[p].against, recorded[Other(p)], i)
      BY <1>g, <2>1 DEF Training
    <3> QED
      BY <2>3, <2>5, <2>9, <3>1
  <2>10. CASE q # p
    <3>1. trainer'[q] = trainer[q]
      BY <2>6, <2>8, <2>10
    <3> QED
      BY <1>g, <2>8, <3>1 DEF Training
  <2> QED
    BY <2>9, <2>10
<1>6. CASE Measures
  BY <1>2, <1>6, MeasuresKeep DEF disk_vars
<1>7. CASE Solve
  <2>1. \A p \in Players : trainer'[p].status = "none"
    BY <1>g, <1>7 DEF Solve, Places
  <2> QED
    BY <2>1 DEF Training
<1> QED
  BY <1>0, <1>1, <1>2, <1>3, <1>4, <1>5, <1>6, <1>7
  DEF Next, Driver, Measures, StartDriver, Fail, vars, disk_vars

-------------------------------------------------------------------------------
\* What has been recorded keeps its origin: only agents of the iteration that
\* runs are recorded, and nothing of a later iteration has been.
LEMMA OriginsStep == PsroInv /\ [Next]_vars => Origins'
<1>0. SUFFICES ASSUME PsroInv, [Next]_vars PROVE Origins'
  OBVIOUS
<1>t. PsroTypeOK
  BY <1>0 DEF PsroInv
<1>o. Origins
  BY <1>0 DEF PsroInv
<1>1. CASE UNCHANGED <<recorded, origin>>
  BY <1>1, <1>o DEF Origins, Before
<1>2. ASSUME NEW p \in Players, TakeAgent(p) PROVE Origins'
  <2>0. /\ i \in Nat \ {0} /\ i \in Rounds
        /\ trainer[p].agent \in Agent /\ recorded'[p][i] = trainer[p].agent
        /\ recorded[p][i] \in {None, trainer[p].agent}
        /\ \A k \in Rounds \ {i} : recorded'[p][k] = recorded[p][k]
        /\ recorded'[Other(p)] = recorded[Other(p)]
    BY <1>0, <1>2, TakenAgent
  <2>1. CASE recorded[p][i] = trainer[p].agent
    <3>1. recorded' = recorded /\ origin' = origin
      BY <1>2, <1>t, <2>0, <2>1 DEF TakeAgent, PsroTypeOK
    <3> QED
      BY <1>1, <3>1
  <2>2. CASE recorded[p][i] # trainer[p].agent
    <3>1. recorded[p][i] = None
      BY <2>0, <2>2
    <3>2. origin' = [origin EXCEPT ![p][i] =
            [from |-> trainer[p].from, against |-> trainer[p].against]]
      BY <1>2, <2>2 DEF TakeAgent
    <3>3. /\ trainer[p].from = Before(p, i) /\ trainer[p] \in PlayerTrainer
          /\ Chain(trainer[p].against, recorded[Other(p)], i)
      BY <1>0, <1>2, <1>t DEF PsroInv, Training, TakeAgent, PsroTypeOK
    <3>4. SUFFICES ASSUME NEW q \in Players, NEW k \in 1..Iterations, recorded'[q][k] # None
                   PROVE  /\ origin'[q][k] \in Origin /\ origin'[q][k].from = Before(q, k)'
                          /\ Chain(origin'[q][k].against, recorded'[Other(q)], k)
      BY DEF Origins
    <3>5. k \in Nat \ {0} /\ k \in Rounds /\ \A j \in 1..(k - 1) : j \in Rounds
      BY <3>4, Constants DEF Rounds
    <3>6. CASE q = p /\ k = i
      <4>1. origin'[q][k] = [from |-> trainer[p].from, against |-> trainer[p].against]
        BY <1>t, <2>0, <3>2, <3>6 DEF PsroTypeOK
      <4>2. origin'[q][k] \in Origin
        BY <3>3, <4>1 DEF PlayerTrainer, Origin
      <4>3. Before(q, k)' = Before(p, i)
        <5>1. CASE k = 1
          BY <3>6, <5>1 DEF Before
        <5>2. CASE k # 1
          <6>1. k - 1 \in Rounds \ {i}
            BY <3>5, <3>6, <5>2
          <6> QED
            BY <2>0, <3>6, <5>2, <6>1 DEF Before
        <5> QED
          BY <5>1, <5>2
      <4> QED
        BY <2>0, <3>3, <3>6, <4>1, <4>2, <4>3
    <3>7. CASE ~(q = p /\ k = i)
      <4>1. recorded[q][k] # None /\ origin'[q][k] = origin[q][k]
        <5>1. origin \in [Players -> [Rounds -> Origin \cup {None}]]
          BY <1>t DEF PsroTypeOK
        <5>2. CASE q = p
          BY <2>0, <3>2, <3>4, <3>5, <3>7, <5>1, <5>2
        <5>3. CASE q # p
          <6>1. q = Other(p)
            BY <3>4, <5>3, TwoPlayers
          <6> QED
            BY <2>0, <3>2, <3>4, <5>1, <5>3, <6>1
        <5> QED
          BY <5>2, <5>3
      <4>2. k <= i
        <5>1. SUFFICES ASSUME k > i PROVE FALSE
          BY <2>0, <3>5
        <5>2. i \in 1..(k - 1)
          BY <2>0, <3>5, <5>1
        <5> QED
          BY <1>0, <3>1, <3>4, <3>5, <4>1, <5>2 DEF PsroInv, Recorded
      <4>3. \A r \in Players : \A j \in 1..(k - 1) : recorded'[r][j] = recorded[r][j]
        <5>1. \A j \in 1..(k - 1) : j \in Rounds \ {i}
          BY <2>0, <3>5, <4>2
        <5> QED
          BY <2>0, <5>1, TwoPlayers
      <4>4. Before(q, k)' = Before(q, k)
        <5>1. CASE k = 1
          BY <5>1 DEF Before
        <5>2. CASE k # 1
          <6>1. k - 1 \in 1..(k - 1)
            BY <3>5, <5>2
          <6> QED
            BY <3>4, <4>3, <5>2, <6>1 DEF Before
        <5> QED
          BY <5>1, <5>2
      <4>5. /\ origin[q][k] \in Origin /\ origin[q][k].from = Before(q, k)
            /\ Chain(origin[q][k].against, recorded[Other(q)], k)
        BY <1>o, <3>4, <4>1 DEF Origins
      <4>6. Chain(origin[q][k].against, recorded'[Other(q)], k)
        BY <3>4, <3>5, <4>3, <4>5, ChainKept, TwoPlayers
      <4> QED
        BY <4>1, <4>4, <4>5, <4>6
    <3> QED
      BY <3>6, <3>7
  <2> QED
    BY <2>1, <2>2
<1>3. ASSUME NEW p \in Players, TrainerReturns(p) PROVE UNCHANGED <<recorded, origin>>
  BY <1>3 DEF TrainerReturns
<1> QED
  BY <1>0, <1>1, <1>2, <1>3
  DEF Next, Driver, StartDriver, StartTrainers, BeginEvaluate, StartEvaluator, TakeResult,
      EndEvaluate, Solve, Fail, vars, disk_vars

-------------------------------------------------------------------------------
\* A larger pool keeps the entries of the smaller one, and their agents.
LEMMA PoolsGrow ==
  ASSUME PsroInv, NEW p \in Players, TakeAgent(p)
  PROVE  /\ EntriesOf(pool) \subseteq EntriesOf(pool')
         /\ \A e \in EntriesOf(pool) : PairOf(pool', e) = PairOf(pool, e)
<1>1. trainer[p].agent \in Agent /\ pool \in [Players -> Seq(Agent)]
  BY TakenAgent DEF PsroInv, PsroTypeOK
<1>2. pool' = [pool EXCEPT ![p] = Append(@, trainer[p].agent)]
  BY DEF TakeAgent
<1>3. ASSUME NEW q \in Players
      PROVE  /\ Len(pool[q]) \in Nat /\ Len(pool'[q]) \in Nat /\ Len(pool'[q]) >= Len(pool[q])
             /\ \A n \in 1..Len(pool[q]) : pool'[q][n] = pool[q][n]
  <2>1. CASE q = p
    <3>1. pool'[q] = Append(pool[q], trainer[p].agent) /\ pool[q] \in Seq(Agent)
      BY <1>1, <1>2, <2>1
    <3> QED
      BY <1>1, <3>1, AppendProperties, LenProperties
  <2>2. CASE q # p
    <3>1. pool'[q] = pool[q] /\ pool[q] \in Seq(Agent)
      BY <1>1, <1>2, <2>2
    <3> QED
      BY <3>1, LenProperties
  <2> QED
    BY <2>1, <2>2
<1>4. \A q \in Players : 1..Len(pool[q]) \subseteq 1..Len(pool'[q])
  BY <1>3
<1> QED
  BY <1>3, <1>4, TwoPlayers DEF EntriesOf, PairOf

LEMMA PayoffsStep == PsroInv /\ [Next]_vars => Payoffs'
<1>0. SUFFICES ASSUME PsroInv, [Next]_vars PROVE Payoffs'
  OBVIOUS
<1>p. Payoffs /\ Measured
  BY <1>0 DEF PsroInv
<1>1. CASE StartDriver
  <2>1. payoff' = <<>> /\ DOMAIN payoff' = {}
    BY <1>1 DEF StartDriver
  <2> QED
    BY <2>1 DEF Payoffs
<1>2. ASSUME UNCHANGED <<payoff, pool>>, pc # "down" PROVE Payoffs'
  BY <1>2, <1>p DEF Payoffs
<1>3. ASSUME NEW p \in Players, TakeAgent(p) PROVE Payoffs'
  <2>1. payoff' = payoff /\ pc # "down"
    BY <1>3 DEF TakeAgent, eval_vars
  <2> QED
    BY <1>0, <1>3, <1>p, <2>1, PoolsGrow DEF Payoffs, EpisodesOf
<1>4. CASE EndEvaluate
  <2>0. pc = "measure" /\ pending = {} /\ running = <<>> /\ pool' = pool
    BY <1>4 DEF EndEvaluate
  <2>1. results = TasksOf(pool, EntriesOf(pool) \ DOMAIN payoff)
    BY <1>p, <2>0, EmptyRange DEF Measured
  <2>2. payoff' = [e \in DOMAIN payoff \cup {x.entry : x \in results} |->
                     IF e \in {x.entry : x \in results} THEN {x \in results : x.entry = e}
                     ELSE payoff[e]]
    BY <1>4 DEF EndEvaluate
  <2>3. {x.entry : x \in results} \subseteq EntriesOf(pool)
    BY <2>1 DEF TasksOf
  <2>4. ASSUME NEW e \in {x.entry : x \in results}
        PROVE  {x \in results : x.entry = e} = EpisodesOf(pool, e)
    <3>1. e \in EntriesOf(pool) \ DOMAIN payoff
      BY <2>1 DEF TasksOf
    <3>2. ASSUME NEW x \in results, x.entry = e PROVE x \in EpisodesOf(pool, e)
      BY <2>1, <3>2 DEF TasksOf, EpisodesOf
    <3>3. ASSUME NEW x \in EpisodesOf(pool, e) PROVE x \in results /\ x.entry = e
      BY <2>1, <3>1 DEF TasksOf, EpisodesOf
    <3> QED
      BY <3>2, <3>3
  <2> QED
    BY <1>p, <2>0, <2>2, <2>3, <2>4 DEF Payoffs
<1>5. CASE StartTrainers \/ BeginEvaluate \/ StartEvaluator \/ TakeResult \/ Solve
  BY <1>2, <1>5 DEF StartTrainers, BeginEvaluate, StartEvaluator, TakeResult, Solve, eval_vars
<1>6. ASSUME NEW p \in Players, TrainerReturns(p) PROVE Payoffs'
  <2>1. UNCHANGED <<payoff, pool>> /\ pc # "down"
    BY <1>0, <1>6 DEF TrainerReturns, eval_vars, PsroInv, Places
  <2> QED
    BY <1>2, <2>1
<1>7. CASE Fail
  BY <1>7 DEF Fail, Payoffs
<1>8. CASE UNCHANGED vars
  BY <1>8, <1>p DEF vars, eval_vars, Payoffs
<1> QED
  BY <1>0, <1>1, <1>3, <1>4, <1>5, <1>6, <1>7, <1>8 DEF Next, Driver

LEMMA MeasuredStep == PsroInv /\ [Next]_vars => Measured'
<1>0. SUFFICES ASSUME PsroInv, [Next]_vars PROVE Measured'
  OBVIOUS
<1>t. PsroTypeOK
  BY <1>0 DEF PsroInv
<1>p. Payoffs /\ Measured
  BY <1>0 DEF PsroInv
<1>1. CASE StartDriver
  BY <1>1 DEF StartDriver, Measured
<1>2. CASE StartTrainers
  BY <1>p, <1>2 DEF StartTrainers, eval_vars, Measured
<1>3. ASSUME NEW p \in Players, TakeAgent(p) PROVE Measured'
  BY <1>p, <1>3 DEF TakeAgent, eval_vars, Measured
<1>4. CASE BeginEvaluate
  <2>1. /\ running = <<>> /\ results' = {} /\ UNCHANGED <<running, pool, payoff>>
        /\ pc' = "measure"
        /\ pending' = {[entry |-> e, episode |-> k, pair |-> Pair(e)] :
                         e \in Missing, k \in 1..NumEpisodes}
    BY <1>p, <1>4 DEF BeginEvaluate, Measured
  <2>2. pending' = TasksOf(pool, EntriesOf(pool) \ DOMAIN payoff)
    BY <2>1 DEF TasksOf, EntriesOf, PairOf, Pair, Missing, Entries
  <2> QED
    BY <2>1, <2>2, EmptyRange DEF Measured
<1>5. CASE StartEvaluator
  <2>1. PICK x \in pending : pending' = pending \ {x} /\ running' = Append(running, x)
    BY <1>5 DEF StartEvaluator
  <2>2. /\ pc = "measure" /\ pc' = "measure" /\ UNCHANGED <<results, pool, payoff>>
    BY <1>5 DEF StartEvaluator
  <2>3. Range(running') = Range(running) \cup {x}
    BY <1>t, <2>1, RangeAppend DEF PsroTypeOK
  <2> QED
    BY <1>p, <2>1, <2>2, <2>3 DEF Measured
<1>6. CASE TakeResult
  <2>1. PICK n \in DOMAIN running :
          results' = results \cup {running[n]} /\ running' = RemoveAt(running, n)
    BY <1>6 DEF TakeResult, Credited
  <2>2. pc = "measure" /\ pc' = "measure" /\ UNCHANGED <<pending, pool, payoff>>
    BY <1>6 DEF TakeResult
  <2>3. Range(running) = Range(running') \cup {running[n]}
    BY <1>t, <2>1, RangeRemoveAt DEF PsroTypeOK
  <2> QED
    BY <1>p, <2>1, <2>2, <2>3 DEF Measured
<1>7. CASE EndEvaluate
  <2>0. pc = "measure" /\ pending = {} /\ running = <<>> /\ UNCHANGED <<pool, pending, running>>
        /\ pc' \in {"wait", "solve"}
    BY <1>7 DEF EndEvaluate
  <2>1. results = TasksOf(pool, EntriesOf(pool) \ DOMAIN payoff)
    BY <1>p, <2>0, EmptyRange DEF Measured
  <2>2. {x.entry : x \in results} = EntriesOf(pool) \ DOMAIN payoff
    <3>1. 1 \in 1..NumEpisodes
      BY Constants
    <3>2. ASSUME NEW e \in EntriesOf(pool) \ DOMAIN payoff PROVE e \in {x.entry : x \in results}
      <4>1. [entry |-> e, episode |-> 1, pair |-> PairOf(pool, e)] \in results
        BY <2>1, <3>1 DEF TasksOf
      <4> QED
        BY <4>1
    <3>3. \A x \in results : x.entry \in EntriesOf(pool) \ DOMAIN payoff
      BY <2>1 DEF TasksOf
    <3> QED
      BY <3>2, <3>3
  <2>3. DOMAIN payoff' = DOMAIN payoff \cup {x.entry : x \in results}
    BY <1>7 DEF EndEvaluate
  <2>4. DOMAIN payoff' = EntriesOf(pool)
    BY <1>p, <2>0, <2>2, <2>3 DEF Payoffs
  <2> QED
    BY <2>0, <2>4 DEF Measured
<1>8. CASE Solve
  BY <1>p, <1>8 DEF Solve, eval_vars, Measured
<1>9. ASSUME NEW p \in Players, TrainerReturns(p) PROVE Measured'
  BY <1>p, <1>9 DEF TrainerReturns, eval_vars, Measured
<1>10. CASE Fail
  BY <1>10 DEF Fail, Measured
<1>11. CASE UNCHANGED vars
  BY <1>p, <1>11 DEF vars, eval_vars, Measured
<1> QED
  BY <1>0, <1>1, <1>2, <1>3, <1>4, <1>5, <1>6, <1>7, <1>8, <1>9, <1>10, <1>11 DEF Next, Driver

-------------------------------------------------------------------------------
LEMMA PsroInvariant == Spec => []PsroInv
<1>1. Init => PsroInv
  <2>0. SUFFICES ASSUME Init PROVE PsroInv
    OBVIOUS
  <2>1. PsroTypeOK
    <3>1. <<>> \in Seq(Work) /\ <<>> \in Seq(Agent) /\ Idle \in PlayerTrainer
      BY DEF Idle, PlayerTrainer, MaybeAgent
    <3> QED
      BY <2>0, <3>1, Constants, PsroAssumption DEF Init, NoneRecorded, PsroTypeOK, MaybeAgent
  <2>2. Places /\ Pools /\ Mixtures /\ Payoffs
    BY <2>0 DEF Init, Idle, Places, Pools, Mixtures, Payoffs
  <2>3. Recorded /\ Origins
    BY <2>0 DEF Init, NoneRecorded, Recorded, Origins, Rounds
  <2>4. Training /\ Measured
    BY <2>0 DEF Init, Idle, Training, Measured
  <2> QED
    BY <2>1, <2>2, <2>3, <2>4 DEF PsroInv
<1>2. PsroInv /\ [Next]_vars => PsroInv'
  <2>1. PsroInv => PsroTypeOK /\ Places
    BY DEF PsroInv
  <2> QED
    BY <2>1, TypeStep, PlacesStep, PoolsStep, MixturesStep, RecordedStep, OriginsStep,
       TrainingStep, PayoffsStep, MeasuredStep DEF PsroInv
<1> QED
  BY <1>1, <1>2, PTL DEF Spec

\* Types of what the driver, its trainers and its evaluators keep.
THEOREM PsroTypeCorrect == Spec => []PsroTypeOK
<1>1. PsroInv => PsroTypeOK
  BY DEF PsroInv
<1> QED
  BY PsroInvariant, <1>1, PTL

\* Both players of an iteration train against all agents before it, with as many
\* weights, whichever trainer of the iteration before was first.
THEOREM SameGenerationCorrect == Spec => []SameGeneration
<1>1. PsroInv => SameGeneration
  <2>0. SUFFICES ASSUME PsroInv, NEW p \in Players, trainer[p].status # "none"
                 PROVE  /\ Len(trainer[p].against) = i /\ trainer[p].weights = i
                        /\ \A k \in DOMAIN trainer[p].against :
                             trainer[p].against[k].iteration = k - 1
    BY DEF SameGeneration
  <2>1. trainer[p].weights = i /\ Chain(trainer[p].against, recorded[Other(p)], i)
    BY <2>0 DEF PsroInv, Training
  <2>2. trainer[p].against \in Seq(Agent) /\ i \in Nat /\ i <= Iterations
    BY <2>0, Constants DEF PsroInv, PsroTypeOK, PlayerTrainer, Rounds
  <2>3. DOMAIN trainer[p].against = 1..i
    BY <2>1, <2>2, LenProperties DEF Chain
  <2>4. \A j \in 1..(i - 1) : recorded[Other(p)][j] # None
    <3>1. pc # "down" /\ Pools
      BY <2>0 DEF PsroInv, Places
    <3>2. CASE Size(Other(p)) = i
      BY <3>1, <3>2, TwoPlayers, <2>0 DEF Pools
    <3>3. CASE Size(Other(p)) = i + 1
      <4>1. \A j \in 1..i : recorded[Other(p)][j] # None
        BY <2>0, <2>2, <3>1, <3>3, TwoPlayers DEF Pools
      <4> QED
        BY <2>2, <4>1
    <3> QED
      BY <3>2, <3>3 DEF Size
  <2>5. ASSUME NEW k \in 1..i PROVE trainer[p].against[k].iteration = k - 1
    <3>1. CASE k = 1
      BY <2>1, <2>2, <3>1, Constants DEF Chain
    <3>2. CASE k # 1
      <4>1. k - 1 \in 1..(i - 1) /\ k - 1 \in Rounds
        BY <2>2, <3>2, Constants DEF Rounds
      <4>2. trainer[p].against[k] = recorded[Other(p)][k - 1]
        BY <2>1, <3>2 DEF Chain
      <4> QED
        BY <2>0, <2>4, <4>1, <4>2, TwoPlayers DEF PsroInv, Recorded
    <3> QED
      BY <3>1, <3>2
  <2> QED
    BY <2>1, <2>3, <2>5 DEF Chain
<1> QED
  BY PsroInvariant, <1>1, PTL

\* The meta-game is solved when every pair of agents has been measured.
THEOREM SolvesFullGameCorrect == Spec => []SolvesFullGame
<1>1. PsroInv => SolvesFullGame
  BY DEF PsroInv, Places, Pools, Size, Chain, Measured, SolvesFullGame, EntriesOf, Entries
<1> QED
  BY PsroInvariant, <1>1, PTL

\* Each known entry holds every episode once, played by its own two agents.
THEOREM PayoffsCorrect == Spec => []PayoffsOfPairs
<1>1. PsroInv => PayoffsOfPairs
  BY DEF PsroInv, Payoffs, PayoffsOfPairs, EpisodesOf, PairOf, Pair
<1> QED
  BY PsroInvariant, <1>1, PTL

\* The recorded agents are one population, however often the driver has failed.
THEOREM OnePopulationCorrect == Spec => []OnePopulation
<1>1. PsroInv => OnePopulation
  <2>0. SUFFICES ASSUME PsroInv, NEW p \in Players, NEW k \in 1..Iterations, recorded[p][k] # None
                 PROVE  /\ origin[p][k].from = (IF k = 1 THEN None ELSE recorded[p][k - 1])
                        /\ origin[p][k].against = [n \in 1..k |-> RecordedAt(Other(p), n - 1)]
    BY DEF OnePopulation
  <2>1. /\ origin[p][k] \in Origin /\ origin[p][k].from = Before(p, k)
        /\ Chain(origin[p][k].against, recorded[Other(p)], k)
    BY <2>0 DEF PsroInv, Origins
  <2>2. origin[p][k].against = [n \in 1..k |-> RecordedAt(Other(p), n - 1)]
    <3>1. PICK s \in Seq(Agent) : s = origin[p][k].against
      BY <2>1 DEF Origin
    <3>2. s = [n \in 1..Len(s) |-> s[n]] /\ Len(s) = k
      BY <2>1, <3>1, LenProperties DEF Chain
    <3>3. \A n \in 1..k : s[n] = RecordedAt(Other(p), n - 1)
      <4>1. \A n \in 1..k : n - 1 = 0 <=> n = 1
        OBVIOUS
      <4> QED
        BY <2>1, <3>1, <4>1 DEF Chain, RecordedAt
    <3> QED
      BY <3>1, <3>2, <3>3
  <2> QED
    BY <2>1, <2>2 DEF Before
<1> QED
  BY PsroInvariant, <1>1, PTL
===============================================================================
