--------------------------- MODULE ManagerProofs ---------------------------
(***************************************************************************)
(* What the command mine promises for any number of workers, scripts, keys *)
(* and outputs, and any refresh interval: manager::Mutex is released on    *)
(* every way out of submit, and although the periodic reassignment does    *)
(* not take it, the book keeps its index, its limit and the job that       *)
(* submit has found.                                                       *)
(***************************************************************************)
EXTENDS Manager, ChannelProofs

\* at is kept only while the thread is in solved.
AtInSolved == \A t \in Thread : at[t] # "check" => pc[t] = "solved"

\* max_difficulty keeps jobs out of the book, on both ways into it.
BookWithinLimit ==
  MaxDifficulty > 0 => \A s \in DOMAIN Jobs : Difficulty[s] <= MaxDifficulty

\* And so out of what the IO thread has picked and not yet posed.
PickedWithinLimit ==
  MaxDifficulty > 0 /\ picked # NoJob => Difficulty[picked.id] <= MaxDifficulty

ManagerInv ==
  /\ ManagerTypeOK
  /\ AtInSolved /\ MutexDiscipline
  /\ ScriptsIndex /\ BookWithinLimit /\ PickedWithinLimit /\ NeverTooDifficult
  /\ IteratorStaysValid
-----------------------------------------------------------------------------
(* select_job, and the reassignment.                                       *)

\* Each worker has the channel of its own redeemer.
LEMMA OwnChannel == Chan = Thread /\ \A t \in Thread : ChannelOf[t] = t
BY ManagerAssumption

\* The timer's counter stays below RefreshCount, or marks a dead timer.
LEMMA CountIsBounded == ASSUME ManagerTypeOK PROVE NextCount \in 0 .. RefreshCount
<1>1. RefreshCount \in Nat \ {0} /\ count + 1 \in Nat
  BY ManagerAssumption DEF ManagerTypeOK
<1>2. \A a \in Nat, b \in Nat \ {0} : a % b \in 0 .. b - 1
  OBVIOUS
<1>3. QED
  BY <1>1, <1>2 DEF NextCount

\* Of the book only lists of workers change.
OnlyLists ==
  /\ DOMAIN Jobs' = DOMAIN Jobs
  /\ \A s \in DOMAIN Jobs :
       /\ Jobs'[s] \in [Prevouts : SUBSET Outpoint, Workers : SUBSET Thread]
       /\ Jobs'[s].Prevouts = Jobs[s].Prevouts

\* Whoever moves is a sleeper that is woken.
OnlyWakes == \A t \in Thread : pc'[t] # pc[t] => pc[t] = "waiting" /\ pc'[t] = "woken"

\* What may be picked is a job of the book.
LEMMA PicksAreJobs ==
  ASSUME ManagerTypeOK, NEW j \in Picks
  PROVE  j \in Job /\ j # NoJob /\ j.id \in DOMAIN Jobs /\ PuzzleOf(j) \in Puzzles
BY RedeemerAssumption, ManagerAssumption DEF Picks, Selectable, ManagerTypeOK, Job, PuzzleOf

\* Posing one of the manager's jobs, or none, is a step of its channels.
LEMMA MineJobStep ==
  ASSUME ManagerTypeOK, NEW i \in Thread, NEW j \in Job \cup {NoJob}, MineJob(i, j)
  PROVE  /\ [Next]_vars
         /\ OnlyWakes
         /\ Current' = [Current EXCEPT ![i] = j]
         /\ Last' \in [Chan -> Job \cup {NoJob}]
<1>1. PuzzleOf(j) \in Puzzles \/ PuzzleOf(j) = NoPuzzle
  BY RedeemerAssumption, ManagerAssumption DEF PuzzleOf, Job
<1>2. [Next]_vars
  BY <1>1, ManagerAssumption DEF MineJob, Next, PoserStep
<1>3. OnlyWakes
  BY DEF MineJob, Pose, NotifyAll, OnlyWakes, ManagerTypeOK, TypeOK
<1>4. QED
  BY <1>2, <1>3, OwnChannel DEF MineJob, ManagerTypeOK

\* Whatever select_job does, it gives one worker a job of the book, or none, and
\* touches of the book only its lists.
LEMMA SelectJobEffect ==
  ASSUME ManagerTypeOK, NEW i \in Thread, SelectJob(i)
  PROVE  /\ [Next]_vars
         /\ OnlyWakes /\ OnlyLists
         /\ \/ Current' = Current
            \/ \E j \in Picks \cup {NoJob} : Current' = [Current EXCEPT ![i] = j]
         /\ Last' \in [Chan -> Job \cup {NoJob}]
         /\ UNCHANGED <<at, using>>
<1>1. CASE Jobs = EmptyBook /\ UNCHANGED <<vars, redeemerVars, Jobs>>
  BY <1>1 DEF vars, redeemerVars, OnlyWakes, OnlyLists, ManagerTypeOK
<1>2. CASE MineJob(i, NoJob) /\ UNCHANGED <<at, using, Jobs>>
  BY <1>2, MineJobStep DEF OnlyLists, ManagerTypeOK
<1>3. ASSUME NEW j \in Picks,
             Jobs' = [Jobs EXCEPT ![j.id].Workers = @ \cup {i}],
             MineJob(i, j), UNCHANGED <<at, using>>
      PROVE  /\ [Next]_vars /\ OnlyWakes /\ OnlyLists
             /\ Current' = [Current EXCEPT ![i] = j]
             /\ Last' \in [Chan -> Job \cup {NoJob}]
  <2>1. j \in Job /\ j.id \in DOMAIN Jobs
    BY PicksAreJobs
  <2>2. OnlyLists
    BY <1>3, <2>1 DEF OnlyLists, ManagerTypeOK
  <2>3. QED
    BY <1>3, <2>1, <2>2, MineJobStep
<1>4. QED
  BY <1>1, <1>2, <1>3 DEF SelectJob

\* A list that is read, changed and written back names workers.
LEMMA RewrittenNamesWorkers ==
  ASSUME NEW old \in SUBSET Thread, NEW new \in SUBSET Thread, NEW W \in Rewritten(old, new)
  PROVE  W \subseteq Thread
BY DEF Rewritten

\* The same for the reassignment, whose steps leave Mutex and what is under it
\* alone, but for the lists.
LEMMA ReassignEffect ==
  ASSUME ManagerTypeOK, Reassignment
  PROVE  /\ [Next]_vars
         /\ OnlyWakes /\ OnlyLists
         /\ \/ Current' = Current
            \/ who \in Thread /\ Current' = [Current EXCEPT ![who] = picked]
         /\ Last' \in [Chan -> Job \cup {NoJob}]
         /\ picked' \in Picks \cup {picked, NoJob} \cup {Current[i] : i \in Thread}
         /\ UNCHANGED <<at, using, Scripts, holder, todo, snapshot, websocket, submitVars, worldVars>>
         /\ io # "selecting" /\ io' # "selecting"
<1> USE ManagerAssumption DEF Reassigning
<1>s. ASSUME UNCHANGED <<vars, redeemerVars>>
      PROVE  [Next]_vars /\ OnlyWakes /\ Last' \in [Chan -> Job \cup {NoJob}] /\ UNCHANGED <<Current, at, using>>
  BY <1>s DEF vars, redeemerVars, OnlyWakes, ManagerTypeOK
<1>b. ASSUME UNCHANGED Jobs PROVE OnlyLists
  BY <1>b DEF OnlyLists, ManagerTypeOK
<1>1. ASSUME NEW i \in Thread, Reassigns(i)
      PROVE  /\ UNCHANGED <<vars, redeemerVars, bookVars, snapshot, websocket, submitVars, worldVars>>
             /\ picked' = Current[i] /\ io = "idle" /\ io' = "leaving"
  BY <1>1 DEF Reassigns
<1>2. CASE ReassignLeaves
  <2>1. who \in Thread
    BY <1>2 DEF ReassignLeaves, ReassignStep, ManagerTypeOK
  <2>2. OnlyLists
    <3>1. CASE picked # NoJob /\ picked.id \in DOMAIN Jobs
      <4>1. PICK W \in Rewritten(Jobs[picked.id].Workers, Jobs[picked.id].Workers \ {who}) :
              Jobs' = [Jobs EXCEPT ![picked.id].Workers = W]
        BY <1>2, <3>1 DEF ReassignLeaves
      <4>2. W \subseteq Thread
        BY <2>1, <3>1, RewrittenNamesWorkers DEF ManagerTypeOK
      <4>3. QED
        BY <3>1, <4>1, <4>2 DEF OnlyLists, ManagerTypeOK
    <3>2. QED
      BY <1>2, <1>b, <3>1 DEF ReassignLeaves
  <2>3. QED
    BY <1>s, <1>2, <2>2 DEF ReassignLeaves, ReassignStep
<1>3. CASE ReassignPicks
  BY <1>s, <1>b, <1>3 DEF ReassignPicks, ReassignStep, ReassignEnds
<1>4. CASE PickThrows
  BY <1>s, <1>b, <1>4 DEF PickThrows, ReassignStep
<1>5. CASE ReassignLists
  <2>1. who \in Thread
    BY <1>5 DEF ReassignLists, ReassignStep, ManagerTypeOK
  <2>2. OnlyLists
    <3>1. CASE picked.id \in DOMAIN Jobs
      <4>1. PICK W \in Rewritten(Jobs[picked.id].Workers, Jobs[picked.id].Workers \cup {who}) :
              Jobs' = [Jobs EXCEPT ![picked.id].Workers = W]
        BY <1>5, <3>1 DEF ReassignLists
      <4>2. W \subseteq Thread
        BY <2>1, <3>1, RewrittenNamesWorkers DEF ManagerTypeOK
      <4>3. QED
        BY <3>1, <4>1, <4>2 DEF OnlyLists, ManagerTypeOK
    <3>2. QED
      BY <1>5, <1>b, <3>1 DEF ReassignLists
  <2>3. QED
    BY <1>s, <1>5, <2>2 DEF ReassignLists, ReassignStep
<1>6. CASE ReassignPoses
  <2>1. who \in Thread /\ picked \in Job \cup {NoJob} /\ MineJob(who, picked)
    BY <1>6 DEF ReassignPoses, ReassignEnds, ReassignStep, ManagerTypeOK
  <2>2. QED
    BY <1>6, <1>b, <2>1, MineJobStep DEF ReassignPoses, ReassignEnds, ReassignStep
<1>7. QED
  BY <1>s, <1>b, <1>1, <1>2, <1>3, <1>4, <1>5, <1>6 DEF Reassignment, bookVars
-----------------------------------------------------------------------------
(* Channels, types and Mutex.                                              *)

\* Steps that reach no channel and no redeemer.
ApiCalls ==
  TimerFires \/ ApiReturns \/ ApiFails \/ TimerDies \/ \E s \in Script : ApiFinds(s)
Apart == ApiCalls \/ UpdateJobs \/ Websocket \/ HandlerReturns \/ World

\* A call of the API touches neither the book nor a worker.
LEMMA ApiCallsEffect ==
  ASSUME ManagerTypeOK, ApiCalls
  PROVE  /\ UNCHANGED <<vars, redeemerVars, bookVars, who, picked, submitVars, worldVars>>
         /\ io \in {"idle", "calling"} /\ io' \in {"idle", "calling", "update"}
         /\ snapshot' \subseteq Outpoint
         /\ count' \in 0 .. RefreshCount
         /\ websocket' \in BOOLEAN
<1>1. count' \in 0 .. RefreshCount
  BY CountIsBounded, ManagerAssumption
  DEF ApiCalls, TimerFires, ApiReturns, ApiFails, TimerDies, ApiFinds, ManagerTypeOK
<1>2. snapshot' \subseteq Outpoint
  BY DEF ApiCalls, TimerFires, ApiReturns, ApiFails, TimerDies, ApiFinds, Api!Call, Api!Return,
         Api!Done, Api!Look, Api!WorthIt, Api!OpenOf, ManagerTypeOK
<1>3. io \in {"idle", "calling"} /\ io' \in {"idle", "calling", "update"}
  BY DEF ApiCalls, TimerFires, ApiReturns, ApiFails, TimerDies, ApiFinds, Api!Return, Api!Look
<1>4. websocket' \in BOOLEAN
  BY ManagerAssumption
  DEF ApiCalls, TimerFires, ApiReturns, ApiFails, TimerDies, ApiFinds, OpensWebsocket, ManagerTypeOK
<1>5. UNCHANGED <<vars, redeemerVars, bookVars, who, picked, submitVars, worldVars>>
  BY DEF ApiCalls, TimerFires, ApiReturns, ApiFails, TimerDies, ApiFinds, Api!Call, Api!Return,
         Api!Done, Api!Look, worldVars
<1>6. QED
  BY <1>1, <1>2, <1>3, <1>4, <1>5

\* The IO thread alone and the world do nothing to channels and redeemers.
LEMMA ApartSteps == ASSUME ManagerTypeOK, Apart PROVE UNCHANGED <<vars, redeemerVars>>
<1>1. CASE ApiCalls
  BY <1>1, ApiCallsEffect
<1>2. QED
  BY <1>1
  DEF Apart, UpdateJobs, Websocket, RunEnds, NewJob, SolvedJob, HandlerReturns, World

\* What a step of mine is for the channels.
LEMMA ManagerChannelStep ==
  ASSUME ManagerTypeOK, [ManagerNext]_managerVars
  PROVE  [Next]_vars
<1>1. CASE Apart \/ UNCHANGED managerVars
  BY <1>1, ApartSteps DEF managerVars
<1>2. CASE SelectNext \/ Reassignment
  BY <1>2, SelectJobEffect, ReassignEffect DEF SelectNext, ManagerTypeOK
<1>3. ASSUME NEW t \in Thread, WorkerStep(t) \/ Wakes(t) PROVE [Next]_vars
  <2>1. CASE Work(t) \/ Wakes(t)
    BY <2>1 DEF Work, Wakes, Next, Mine
  <2>2. CASE \/ Check(t) \/ Quote(t) \/ Build(t) \/ LookUp(t) \/ SubmitProof(t) \/ Broadcast(t)
             \/ SubmitReturns(t) \/ SelectThrows(t)
    BY <2>2 DEF Check, Quote, Build, LookUp, SubmitProof, Broadcast, SubmitReturns, SelectThrows,
                Throws, InSolved, GoTo, LeaveSolved, Next, Mine, Solved, vars
  <2>3. QED
    BY <1>3, <2>1, <2>2 DEF WorkerStep
<1>4. QED
  BY <1>1, <1>2, <1>3 DEF ManagerNext, Timer, Apart, ApiCalls

\* Every step keeps every variable in its type.
LEMMA ManagerTypes ==
  ASSUME ManagerTypeOK, AtInSolved, IteratorStaysValid, [ManagerNext]_managerVars
  PROVE  ManagerTypeOK'
<1> USE ManagerAssumption DEF Reassigning
<1>t. TypeOK'
  BY ManagerChannelStep, TypeCorrect DEF ManagerTypeOK
<1>1. CASE ApiCalls
  BY <1>1, <1>t, ApiCallsEffect DEF redeemerVars, bookVars, submitVars, worldVars, ManagerTypeOK
<1>2. CASE UpdateJobs
  <2>1. Kept \subseteq Script
    BY DEF Kept, ManagerTypeOK
  <2>2. QED
    BY <1>2, <1>t, <2>1
    DEF UpdateJobs, ThenSelect, OpensWebsocket, Working, PrevoutsOf, Api!Done, vars, redeemerVars,
        submitVars, ManagerTypeOK
<1>3. CASE Reassignment
  <2>1. /\ Current' \in [Chan -> Job \cup {NoJob}]
        /\ picked' \in Job \cup {NoJob}
    BY <1>3, ReassignEffect, PicksAreJobs, OwnChannel DEF ManagerTypeOK
  <2>2. /\ io' \in {"idle", "over"} \cup Reassigning
        /\ who' \in IF io' \in Reassigning THEN Thread ELSE {"none"}
        /\ io' = "listing" => picked' # NoJob
        /\ count' \in 0 .. RefreshCount
    BY <1>3, CountIsBounded, PicksAreJobs
    DEF Reassignment, Reassigns, ReassignLeaves, ReassignPicks, PickThrows, ReassignLists,
        ReassignPoses, ReassignStep, ReassignEnds, ManagerTypeOK
  <2>3. QED
    BY <1>3, <1>t, <2>1, <2>2, ReassignEffect
    DEF OnlyLists, submitVars, worldVars, ManagerTypeOK
<1>4. CASE SelectNext
  <2>1. PICK i \in todo : SelectJob(i) /\ todo' = todo \ {i}
    BY <1>4 DEF SelectNext
  <2>2. Current' \in [Chan -> Job \cup {NoJob}]
    BY <2>1, SelectJobEffect, PicksAreJobs, OwnChannel DEF ManagerTypeOK
  <2>3. QED
    BY <1>4, <1>t, <2>1, <2>2, SelectJobEffect
    DEF SelectNext, OnlyLists, ioVars, submitVars, worldVars, ManagerTypeOK
<1>5. ASSUME NEW o \in Outpoint, NewJob(o) PROVE ManagerTypeOK'
  BY <1>5, <1>t
  DEF NewJob, Hears, AddPrevout, Working, ioVars, submitVars, vars, redeemerVars, ManagerTypeOK
<1>6. ASSUME NEW o \in Outpoint, SolvedJob(o) PROVE ManagerTypeOK'
  BY <1>6, <1>t
  DEF SolvedJob, Hears, Without, WorkersOf, ThenSelect, submitVars, vars, redeemerVars, ManagerTypeOK
<1>7. CASE HandlerReturns \/ RunEnds \/ World
  BY <1>7, <1>t
  DEF HandlerReturns, RunEnds, World, vars, redeemerVars, bookVars, ioVars, submitVars, worldVars,
      ManagerTypeOK
<1>8. ASSUME NEW t \in Thread, WorkerStep(t) PROVE ManagerTypeOK'
  <2> USE DEF InSubmit
  <2>s. Submitted(t) \in Job \cup {NoJob}
    BY OwnChannel DEF Submitted, ManagerTypeOK
  <2>1. CASE (Work(t) \/ Check(t)) /\ UNCHANGED <<bookVars, ioVars, submitVars, worldVars>>
    BY <1>t, <2>1
    DEF Work, Check, InSolved, LeaveSolved, redeemerVars, bookVars, ioVars, submitVars, worldVars,
        ManagerTypeOK
  <2>2. CASE Quote(t)
    BY <1>t, <2>2
    DEF Quote, Throws, KeepsMutex, InSolved, GoTo, LeaveSolved, ioVars, submitVars, worldVars,
        ManagerTypeOK
  <2>3. CASE Build(t)
    BY <1>t, <2>s, <2>3
    DEF Build, Throws, InSolved, GoTo, LeaveSolved, ioVars, worldVars, ManagerTypeOK
  <2>4. CASE LookUp(t)
    BY <1>t, <2>s, <2>4
    DEF LookUp, InSolved, GoTo, LeaveSolved, ioVars, worldVars, ManagerTypeOK
  <2>5. CASE SubmitProof(t)
    BY <1>t, <2>5
    DEF SubmitProof, Throws, Forget, InSolved, GoTo, LeaveSolved, SendsToNetwork, Accepted, ioVars,
        submitVars, ManagerTypeOK
  <2>6. CASE Broadcast(t)
    <3>1. target[t] \in DOMAIN Jobs
      BY <2>6 DEF Broadcast, IteratorStaysValid
    <3>2. QED
      BY <1>t, <2>6, <3>1
      DEF Broadcast, Throws, Forget, InSolved, GoTo, LeaveSolved, SendsToNetwork, Accepted, Without,
          WorkersOf, ioVars, ManagerTypeOK
  <2>7. CASE SubmitReturns(t) \/ SelectThrows(t)
    BY <1>t, <2>7
    DEF SubmitReturns, SelectThrows, Throws, InSolved, LeaveSolved, ioVars, submitVars, worldVars,
        ManagerTypeOK
  <2>8. QED
    BY <1>8, <2>1, <2>2, <2>3, <2>4, <2>5, <2>6, <2>7 DEF WorkerStep
<1>9. CASE UNCHANGED managerVars \/ \E t \in Thread :
             Wakes(t) /\ UNCHANGED <<bookVars, ioVars, submitVars, worldVars>>
  BY <1>9, <1>t
  DEF Wakes, managerVars, redeemerVars, bookVars, ioVars, submitVars, worldVars, ManagerTypeOK
<1>10. QED
  BY <1>1, <1>2, <1>3, <1>4, <1>5, <1>6, <1>7, <1>8, <1>9
  DEF ManagerNext, Timer, ApiCalls, Websocket

\* Mutex: who has it, and when it is given back.
LEMMA MutexKept ==
  ASSUME ManagerTypeOK, AtInSolved, MutexDiscipline, [ManagerNext]_managerVars
  PROVE  AtInSolved' /\ MutexDiscipline'
<1> USE ManagerAssumption DEF AtInSolved, MutexDiscipline, InSubmit
<1>t. /\ at \in [Thread -> {"check", "submit"} \cup InSubmit]
      /\ pc \in [Thread -> Steps]
      /\ todo \subseteq Thread
  BY DEF ManagerTypeOK, TypeOK
<1>1. ASSUME OnlyWakes, UNCHANGED <<at, holder, todo>>, (io = "selecting") <=> (io' = "selecting")
      PROVE  AtInSolved' /\ MutexDiscipline'
  BY <1>1 DEF OnlyWakes
<1>2. CASE ApiCalls \/ Reassignment
  BY <1>1, <1>2, ApiCallsEffect, ReassignEffect DEF OnlyWakes, vars, redeemerVars, bookVars
<1>3. CASE UpdateJobs \/ Websocket
  BY <1>3
  DEF UpdateJobs, Websocket, RunEnds, NewJob, SolvedJob, Hears, ThenSelect, ioVars, bookVars, vars,
      redeemerVars
<1>4. ASSUME NEW i \in todo, SelectJob(i), todo' = todo \ {i}, UNCHANGED <<holder, io>>
      PROVE  AtInSolved' /\ MutexDiscipline'
  BY <1>4, <1>t, SelectJobEffect DEF OnlyWakes
<1>5. CASE HandlerReturns \/ World
  BY <1>5 DEF HandlerReturns, World, vars, redeemerVars, bookVars, ioVars
<1>6. ASSUME NEW t \in Thread, WorkerStep(t) \/ (Wakes(t) /\ UNCHANGED <<bookVars, ioVars, submitVars, worldVars>>)
      PROVE  AtInSolved' /\ MutexDiscipline'
  <2>1. CASE (Work(t) \/ Wakes(t)) /\ UNCHANGED <<bookVars, ioVars, submitVars, worldVars>>
    BY <1>t, <2>1
    DEF Work, Wakes, Select, SelectAtOnce, SelectWaits, SelectResumes, Return, Solve, SpuriousWakeup,
        redeemerVars, bookVars, ioVars
  <2>2. CASE Check(t) /\ UNCHANGED <<bookVars, ioVars, submitVars, worldVars>>
    BY <1>t, <2>2 DEF Check, InSolved, LeaveSolved, vars, bookVars, ioVars
  <2>3. CASE Quote(t)
    BY <1>t, <2>3 DEF Quote, Throws, KeepsMutex, InSolved, GoTo, LeaveSolved, vars, ioVars
  <2>4. CASE Build(t) \/ LookUp(t)
    BY <1>t, <2>4 DEF Build, LookUp, Throws, InSolved, GoTo, LeaveSolved, vars, ioVars
  <2>5. CASE SubmitProof(t)
    BY <1>t, <2>5 DEF SubmitProof, Throws, InSolved, GoTo, LeaveSolved, vars, ioVars
  <2>6. CASE Broadcast(t)
    BY <1>t, <2>6 DEF Broadcast, Throws, InSolved, GoTo, LeaveSolved, vars, ioVars
  <2>7. CASE SubmitReturns(t) \/ SelectThrows(t)
    BY <1>t, <2>7 DEF SubmitReturns, SelectThrows, Throws, InSolved, LeaveSolved, ioVars
  <2>8. QED
    BY <1>6, <2>1, <2>2, <2>3, <2>4, <2>5, <2>6, <2>7 DEF WorkerStep
<1>7. CASE UNCHANGED managerVars
  BY <1>7 DEF managerVars, vars, redeemerVars, bookVars, ioVars
<1>8. QED
  BY <1>2, <1>3, <1>4, <1>5, <1>6, <1>7
  DEF ManagerNext, Timer, ApiCalls, SelectNext, ioVars
-----------------------------------------------------------------------------
(* The book: its index, the limit, and the iterator of submit.             *)

Book ==
  ScriptsIndex /\ BookWithinLimit /\ PickedWithinLimit /\ NeverTooDifficult /\ IteratorStaysValid

\* Nobody has an iterator, nor is to be given a job, while Mutex is free.
LEMMA FreeMutexNoIterator ==
  ASSUME MutexDiscipline, ManagerTypeOK, holder = "none"
  PROVE  /\ \A t \in Thread : ~InSolved(t, "submit_proof") /\ ~InSolved(t, "broadcast")
         /\ todo = {}
BY ManagerAssumption DEF MutexDiscipline, InSubmit, InSolved, ManagerTypeOK

\* Steps that change only lists of workers keep the iterators, with Mutex or
\* without it.
LEMMA ListsKeepIterators ==
  ASSUME ManagerTypeOK, IteratorStaysValid, OnlyLists, OnlyWakes, UNCHANGED <<at, target>>
  PROVE  IteratorStaysValid'
BY DEF IteratorStaysValid, InSolved, OnlyLists, OnlyWakes

\* Every step keeps the two maps of jobs together and within the limit.
LEMMA BookKept ==
  ASSUME ManagerInv, [ManagerNext]_managerVars
  PROVE  Book'
<1> USE DEF ManagerInv
<1>1. ASSUME UNCHANGED <<Jobs, Scripts, picked, Current, pc, at, target>> PROVE Book'
  BY <1>1
  DEF Book, ScriptsIndex, BookWithinLimit, PickedWithinLimit, NeverTooDifficult,
      IteratorStaysValid, InSolved, PrevoutsOf
<1>2. CASE ApiCalls \/ HandlerReturns \/ RunEnds \/ World \/ UNCHANGED managerVars
  BY <1>1, <1>2, ApiCallsEffect
  DEF HandlerReturns, RunEnds, World, managerVars, vars, redeemerVars, bookVars, ioVars, submitVars
<1>3. CASE UpdateJobs
  <2>1. DOMAIN Jobs' = Kept /\ \A s \in Kept : Jobs'[s].Prevouts = PrevoutsOf(s, snapshot)
    BY <1>3 DEF UpdateJobs, Working
  <2>2. ScriptsIndex'
    BY <1>3, <2>1 DEF UpdateJobs, ScriptsIndex, PrevoutsOf
  <2>3. BookWithinLimit'
    BY <2>1 DEF BookWithinLimit, Kept
  <2>4. PickedWithinLimit' /\ NeverTooDifficult' /\ IteratorStaysValid'
    BY <1>3, FreeMutexNoIterator
    DEF UpdateJobs, PickedWithinLimit, NeverTooDifficult, IteratorStaysValid, InSolved, vars,
        redeemerVars
  <2>5. QED
    BY <2>2, <2>3, <2>4 DEF Book
<1>4. ASSUME NEW c \in Picks \cup {picked, NoJob} \cup {Current[t] : t \in Thread},
             MaxDifficulty > 0, c # NoJob
      PROVE  Difficulty[c.id] <= MaxDifficulty
  BY <1>4, PicksAreJobs, OwnChannel DEF BookWithinLimit, PickedWithinLimit, NeverTooDifficult
<1>5. ASSUME OnlyLists, UNCHANGED Scripts PROVE ScriptsIndex' /\ BookWithinLimit'
  BY <1>5 DEF OnlyLists, ScriptsIndex, BookWithinLimit, PrevoutsOf
<1>6. CASE Reassignment
  <2>1. IteratorStaysValid'
    BY <1>6, ReassignEffect, ListsKeepIterators DEF submitVars
  <2>2. PickedWithinLimit'
    BY <1>4, <1>6, ReassignEffect DEF PickedWithinLimit
  <2>3. NeverTooDifficult'
    BY <1>6, ReassignEffect, OwnChannel DEF PickedWithinLimit, NeverTooDifficult, ManagerTypeOK
  <2>4. QED
    BY <1>5, <1>6, <2>1, <2>2, <2>3, ReassignEffect DEF Book
<1>7. CASE SelectNext
  <2>1. PICK i \in todo : SelectJob(i)
    BY <1>7 DEF SelectNext
  <2>2. i \in Thread
    BY DEF ManagerTypeOK
  <2>3. IteratorStaysValid' /\ PickedWithinLimit'
    BY <1>7, <2>1, <2>2, SelectJobEffect, ListsKeepIterators
    DEF SelectNext, PickedWithinLimit, ioVars, submitVars
  <2>4. NeverTooDifficult'
    BY <1>4, <2>1, <2>2, SelectJobEffect, OwnChannel DEF NeverTooDifficult, ManagerTypeOK
  <2>5. QED
    BY <1>5, <1>7, <2>1, <2>2, <2>3, <2>4, SelectJobEffect DEF SelectNext, Book
<1>8. ASSUME NEW o \in Outpoint, NewJob(o) PROVE Book'
  <2>1. holder = "none" /\ UNCHANGED <<vars, redeemerVars, picked, target>>
    BY <1>8 DEF NewJob, Hears, ioVars, submitVars
  <2>2. PickedWithinLimit' /\ NeverTooDifficult' /\ IteratorStaysValid'
    BY <2>1, FreeMutexNoIterator
    DEF PickedWithinLimit, NeverTooDifficult, IteratorStaysValid, InSolved, vars, redeemerVars
  <2>3. CASE UNCHANGED <<Jobs, Scripts>>
    BY <2>2, <2>3 DEF Book, ScriptsIndex, BookWithinLimit, PrevoutsOf
  <2>4. CASE AddPrevout(o) /\ ~Refuses(o)
    <3>1. /\ DOMAIN Jobs' = DOMAIN Jobs \cup {ScriptOf[o]}
          /\ \A s \in DOMAIN Jobs \ {ScriptOf[o]} : Jobs'[s] = Jobs[s]
          /\ Jobs'[ScriptOf[o]].Prevouts
               = {o} \cup IF ScriptOf[o] \in DOMAIN Jobs THEN Jobs[ScriptOf[o]].Prevouts ELSE {}
          /\ Scripts' = Scripts \cup {o}
      BY <2>4 DEF AddPrevout, Working
    <3>2. ScriptsIndex'
      BY <3>1 DEF ScriptsIndex, PrevoutsOf
    <3>3. Difficulty[ScriptOf[o]] <= MaxDifficulty
      BY <2>4, ManagerAssumption DEF Refuses
    <3>4. BookWithinLimit'
      BY <3>1, <3>3 DEF BookWithinLimit
    <3>5. QED
      BY <2>2, <3>2, <3>4 DEF Book
  <2>5. QED
    BY <1>8, <2>3, <2>4 DEF NewJob
<1>9. ASSUME NEW o \in Outpoint, SolvedJob(o) PROVE Book'
  <2> DEFINE r == ScriptOf[o]
  <2>1. /\ holder = "none" /\ UNCHANGED <<vars, redeemerVars, picked, target>>
        /\ Scripts' = Scripts \ {o}
    BY <1>9 DEF SolvedJob, Hears, submitVars
  <2>2. PickedWithinLimit' /\ NeverTooDifficult' /\ IteratorStaysValid'
    BY <2>1, FreeMutexNoIterator
    DEF PickedWithinLimit, NeverTooDifficult, IteratorStaysValid, InSolved, vars, redeemerVars
  <2>3. /\ DOMAIN Jobs' \subseteq DOMAIN Jobs
        /\ \A s \in DOMAIN Jobs' : s # r => Jobs'[s] = Jobs[s]
        /\ r \in DOMAIN Jobs' =>
             Jobs'[r].Prevouts = IF o \in Scripts THEN Jobs[r].Prevouts \ {o} ELSE Jobs[r].Prevouts
    BY <1>9 DEF SolvedJob, Without, ManagerTypeOK
  <2>4. ScriptsIndex' /\ BookWithinLimit'
    BY <2>1, <2>3 DEF ScriptsIndex, BookWithinLimit, PrevoutsOf
  <2>5. QED
    BY <2>2, <2>4 DEF Book
<1>10. ASSUME NEW t \in Thread,
              WorkerStep(t) \/ (Wakes(t) /\ UNCHANGED <<bookVars, ioVars, submitVars, worldVars>>)
       PROVE  Book'
  <2>1. ASSUME UNCHANGED <<Jobs, Scripts, picked, Current>>, IteratorStaysValid' PROVE Book'
    BY <2>1 DEF Book, ScriptsIndex, BookWithinLimit, PickedWithinLimit, NeverTooDifficult, PrevoutsOf
  <2>2. CASE (Work(t) \/ Wakes(t)) /\ UNCHANGED <<bookVars, ioVars, submitVars, worldVars>>
    <3>1. UNCHANGED <<Jobs, Scripts, picked, Current, at, target>>
      BY <2>2 DEF Work, Wakes, redeemerVars, bookVars, ioVars, submitVars
    <3>2. \A u \in Thread : at[u] # "check" => pc[u] = "solved"
      BY DEF AtInSolved
    <3>3. QED
      BY <2>1, <3>1, <3>2 DEF IteratorStaysValid, InSolved
  <2>3. CASE Check(t) /\ UNCHANGED <<bookVars, ioVars, submitVars, worldVars>>
    BY <2>1, <2>3
    DEF Check, InSolved, LeaveSolved, vars, bookVars, ioVars, submitVars, IteratorStaysValid,
        ManagerTypeOK, TypeOK
  <2>4. CASE Quote(t)
    BY <2>1, <2>4
    DEF Quote, Throws, InSolved, GoTo, LeaveSolved, vars, ioVars, submitVars, IteratorStaysValid,
        ManagerTypeOK, TypeOK
  <2>5. CASE Build(t)
    BY <2>1, <2>5
    DEF Build, Throws, InSolved, GoTo, LeaveSolved, vars, ioVars, IteratorStaysValid, ManagerTypeOK,
        TypeOK
  <2>6. CASE LookUp(t)
    BY <2>1, <2>6
    DEF LookUp, InSolved, GoTo, LeaveSolved, vars, ioVars, IteratorStaysValid, ManagerTypeOK, TypeOK
  <2>7. CASE SubmitProof(t)
    BY <2>1, <2>7
    DEF SubmitProof, Throws, Forget, InSolved, GoTo, LeaveSolved, vars, ioVars, submitVars,
        IteratorStaysValid, ManagerTypeOK, TypeOK
  <2>8. CASE Broadcast(t)
    \* t holds Mutex, so no other worker has an iterator
    <3>1. \A u \in Thread \ {t} : ~InSolved(u, "submit_proof") /\ ~InSolved(u, "broadcast")
      BY <2>8 DEF Broadcast, InSolved, MutexDiscipline, InSubmit
    <3>2. UNCHANGED <<Scripts, picked, Current>>
      BY <2>8 DEF Broadcast, ioVars
    <3>3. Jobs' = Jobs \/ Jobs' = Without(target[t])
      BY <2>8 DEF Broadcast
    <3>4. (ScriptsIndex /\ BookWithinLimit /\ PickedWithinLimit /\ NeverTooDifficult)'
      BY <3>2, <3>3
      DEF Without, ScriptsIndex, BookWithinLimit, PickedWithinLimit, NeverTooDifficult, PrevoutsOf
    <3>5. \A u \in Thread : ~InSolved(u, "submit_proof")' /\ ~InSolved(u, "broadcast")'
      BY <2>8, <3>1
      DEF Broadcast, Throws, InSolved, GoTo, LeaveSolved, vars, ManagerTypeOK, TypeOK
    <3>6. QED
      BY <3>4, <3>5 DEF Book, IteratorStaysValid
  <2>9. CASE SubmitReturns(t) \/ SelectThrows(t)
    BY <2>1, <2>9
    DEF SubmitReturns, SelectThrows, Throws, InSolved, LeaveSolved, ioVars, submitVars,
        IteratorStaysValid, ManagerTypeOK, TypeOK
  <2>10. QED
    BY <1>10, <2>2, <2>3, <2>4, <2>5, <2>6, <2>7, <2>8, <2>9 DEF WorkerStep
<1>11. QED
  BY <1>2, <1>3, <1>6, <1>7, <1>8, <1>9, <1>10 DEF ManagerNext, Timer, ApiCalls, Websocket
-----------------------------------------------------------------------------
\* At first the book is empty and every worker rests.
LEMMA ManagerInitHolds == ManagerInit => ManagerInv
<1> USE ChannelAssumption, ManagerAssumption
<1> SUFFICES ASSUME ManagerInit PROVE ManagerInv
  OBVIOUS
<1>1. DOMAIN Jobs = {} /\ Jobs = EmptyBook
  BY DEF ManagerInit, EmptyBook
<1>2. TypeOK
  BY DEF ManagerInit, RedeemerInit, Init, TypeOK, Steps
<1>3. chain \in [Outpoint -> {"unborn", "open", "spent"}] /\ snapshot = {}
  BY DEF ManagerInit, Api!Init
<1>4. 0 \in 0 .. RefreshCount
  OBVIOUS
<1>5. ManagerTypeOK
  BY <1>1, <1>2, <1>3, <1>4 DEF ManagerInit, RedeemerInit, Reassigning, ManagerTypeOK
<1>6. QED
  BY <1>1, <1>5
  DEF ManagerInit, RedeemerInit, Init, ManagerInv, AtInSolved, MutexDiscipline, InSubmit,
      ScriptsIndex, BookWithinLimit, PickedWithinLimit, NeverTooDifficult, IteratorStaysValid,
      InSolved

\* ManagerInv is inductive.
LEMMA ManagerInvInductive == ManagerInv /\ [ManagerNext]_managerVars => ManagerInv'
<1> SUFFICES ASSUME ManagerInv, [ManagerNext]_managerVars PROVE ManagerInv'
  OBVIOUS
<1>1. ManagerTypeOK'
  BY ManagerTypes DEF ManagerInv
<1>2. AtInSolved' /\ MutexDiscipline'
  BY MutexKept DEF ManagerInv
<1>3. Book'
  BY BookKept
<1>4. QED
  BY <1>1, <1>2, <1>3 DEF ManagerInv, Book

\* ManagerInv holds in every state, for any workers and outputs (src/miner.cpp).
THEOREM ManagerInvariant == ManagerSpec => []ManagerInv
BY ManagerInitHolds, ManagerInvInductive, PTL DEF ManagerSpec

\* Every variable of mine stays in its type.
THEOREM ManagerTypeCorrect == ManagerSpec => []ManagerTypeOK
BY ManagerInvariant, PTL DEF ManagerInv

\* manager::Mutex is held exactly from the lookup in submit to its end, by
\* exception too, and while a handler reselects.
THEOREM MutexIsDisciplined == ManagerSpec => []MutexDiscipline
BY ManagerInvariant, PTL DEF ManagerInv

\* The two maps of jobs agree: a proof seen on the websocket finds its job.
THEOREM IndexIsComplete == ManagerSpec => []ScriptsIndex
BY ManagerInvariant, PTL DEF ManagerInv

\* No worker is given a job above the limit the user set.
THEOREM LimitIsKept == ManagerSpec => []NeverTooDifficult
BY ManagerInvariant, PTL DEF ManagerInv

\* The job that submit found is in the book until submit erases it, although
\* the periodic reassignment works on the book without Mutex meanwhile.
THEOREM IteratorIsValid == ManagerSpec => []IteratorStaysValid
BY ManagerInvariant, PTL DEF ManagerInv

\* mine uses its channels as Channel allows it to.
THEOREM ManagerImplementsChannel == ManagerSpec => ImplementsChannel
<1>1. ManagerInit => Init
  BY DEF ManagerInit, RedeemerInit
<1>2. ManagerInv /\ [ManagerNext]_managerVars => [Next]_vars
  BY ManagerChannelStep DEF ManagerInv
<1>3. QED
  BY <1>1, <1>2, ManagerInvariant, PTL DEF ManagerSpec, Spec, ImplementsChannel

\* Hence they are mailboxes for mine as well: a worker takes the newest job it
\* was given, and none sleeps beside one (channel::select, src/miner.cpp).
THEOREM ManagerIsMailbox == ManagerSpec => []NoLostWakeup /\ ImplementsMailbox
BY ManagerImplementsChannel, NoWakeupIsLost, Implements, PTL DEF ImplementsChannel
=============================================================================
