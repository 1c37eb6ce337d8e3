---------------------------- MODULE RedeemProofs ----------------------------
(***************************************************************************)
(* What the command redeem promises for any number of threads and outputs: *)
(* it uses its channel as Channel describes, no thread broadcasts twice,   *)
(* and once the job is posed none leaves before it is settled.             *)
(***************************************************************************)
EXTENDS Redeem, ChannelProofs

\* Until r.mine poses the job there is nothing to solve, and so to close.
NothingBeforeMine ==
  main \in {"looking", "refused", "started"} =>
    /\ Puzzle[chan] = NoPuzzle
    /\ ~Closed[chan]
    /\ Current[chan] = NoJob
    /\ \A t \in Thread : pc[t] \in {"select", "waiting", "woken", "stopped"}

\* From r.mine on the channel holds the job until it is closed.
JobStaysPosed ==
  main = "joining" /\ ~Closed[chan] => Puzzle[chan] = <<job, key>>

\* join waits for threads that never start again.
JoinedHaveEnded == main \in {"joined", "terminated"} => AllEnded(chan)

\* The job is posed once and before any close: a closed channel stays empty.
\* Only a thread that has broadcast closes it.
ClosedIsEmpty ==
  Closed[chan] => Puzzle[chan] = NoPuzzle /\ \E t \in Thread : sent[t] = 1

\* A thread that has broadcast is on its way to the end of its loop: it goes on
\* to close, or finds the channel closed when it selects.
OnItsWayOut(t) ==
  \/ at[t] = "close" \/ pc[t] \in Ended
  \/ Closed[chan] /\ (at[t] = "return" \/ pc[t] = "select")

SentOnce ==
  \A t \in Thread :
    /\ at[t] # "check" => pc[t] = "solved"
    /\ at[t] \in {"close", "return"} => sent[t] = 1
    /\ at[t] = "return" => Closed[chan]
    /\ sent[t] = 0 \/ (sent[t] = 1 /\ OnItsWayOut(t))

RedeemInv ==
  RedeemTypeOK /\ NothingBeforeMine /\ JobStaysPosed /\ JoinedHaveEnded /\ ClosedIsEmpty /\ SentOnce

\* With one channel, every thread selects from it.
LEMMA OneChannel == chan \in Chan /\ Chan = {chan} /\ \A t \in Thread : ChannelOf[t] = chan
BY ChannelAssumption, RedeemAssumption

\* At first no thread has started and nothing is mined.
LEMMA InitHolds == RedeemInit => RedeemInv
BY ChannelAssumption, RedeemAssumption
DEF RedeemInit, RedeemerInit, Init, RedeemInv, RedeemTypeOK, TypeOK, Steps, NothingBeforeMine, JobStaysPosed,
    JoinedHaveEnded, ClosedIsEmpty, SentOnce

\* What a step of redeem is for its channel.
LEMMA ChannelStep == ASSUME RedeemInv, [RedeemNext]_redeemVars PROVE [Next]_vars
<1>1. CASE MainLooksUp \/ MainJoins \/ UNCHANGED redeemVars
  BY <1>1 DEF MainLooksUp, MainJoins, redeemVars
<1>2. CASE MainMines
  <2>1. \A S \in SUBSET Outpoint :
          PuzzleOf([id |-> job, Prevouts |-> S, key |-> key]) \in Puzzles
    BY RedeemAssumption, RedeemerAssumption DEF PuzzleOf, Job
  <2>2. QED
    BY <1>2, <2>1, OneChannel DEF MainMines, MineJob, Next, PoserStep
<1>3. CASE MainDestroys
  BY <1>3, OneChannel DEF MainDestroys, RedeemInv, JoinedHaveEnded, Next, PoserStep
<1>4. ASSUME NEW t \in Thread, ThreadStep(t) \/ Wakes(t) PROVE Next \/ UNCHANGED vars
  <2>1. CASE Work(t) \/ Wakes(t)
    BY <2>1 DEF Work, Wakes, Next, Mine
  <2>2. CASE Check(t) \/ Quote(t) \/ Broadcast(t) \/ SubmitReturns(t)
    BY <2>2 DEF Check, Quote, Broadcast, SubmitReturns, InSolved, GoTo, LeaveSolved, Next, Mine,
                Solved, vars
  <2>3. CASE CloseChannel(t)
    BY <2>3, OneChannel DEF CloseChannel, Next, PoserStep
  <2>4. QED
    BY <1>4, <2>1, <2>2, <2>3 DEF ThreadStep
<1>5. QED
  BY <1>1, <1>2, <1>3, <1>4 DEF RedeemNext, MainStep
-----------------------------------------------------------------------------
(* RedeemInv is inductive, one action after the other.                     *)

\* The steps of the main thread keep RedeemInv.
LEMMA MainStepHolds == ASSUME RedeemInv, MainStep PROVE RedeemInv'
<1> USE ChannelAssumption, RedeemAssumption, OneChannel DEF RedeemInv, Ended
<1>t. TypeOK'
  BY TypeCorrect, ChannelStep DEF RedeemTypeOK, RedeemNext
<1>1. CASE MainLooksUp
  BY <1>t, <1>1
  DEF MainLooksUp, vars, redeemerVars, RedeemTypeOK, NothingBeforeMine, JobStaysPosed, JoinedHaveEnded,
      ClosedIsEmpty, SentOnce, OnItsWayOut, AllEnded
<1>2. CASE MainMines
  <2>0. PICK S \in SUBSET Outpoint : MineJob(chan, [id |-> job, Prevouts |-> S, key |-> key])
    BY <1>2 DEF MainMines
  <2> DEFINE j == [id |-> job, Prevouts |-> S, key |-> key]
  <2>1. j \in Job /\ PuzzleOf(j) = <<job, key>> /\ <<job, key>> \in Puzzles
    BY RedeemerAssumption DEF Job, PuzzleOf
  <2>2. /\ Current' = [Current EXCEPT ![chan] = j]
        /\ Last' = [Last EXCEPT ![chan] = IF @ = NoJob THEN Current[chan] ELSE @]
        /\ Pose(chan, <<job, key>>) /\ main = "started" /\ main' = "joining"
        /\ UNCHANGED <<at, using, sent>>
    BY <1>2, <2>0, <2>1 DEF MainMines, MineJob
  <2>3. RedeemTypeOK'
    BY <1>t, <2>1, <2>2 DEF RedeemTypeOK
  <2>4. \A t \in Thread : pc'[t] \in {pc[t], "woken"} /\ (pc'[t] # pc[t] => pc[t] = "waiting")
    BY <2>2 DEF Pose, NotifyAll, RedeemTypeOK, TypeOK
  <2>5. (NothingBeforeMine /\ JobStaysPosed /\ JoinedHaveEnded /\ ClosedIsEmpty)'
    BY <2>2 DEF Pose, NothingBeforeMine, JobStaysPosed, JoinedHaveEnded, ClosedIsEmpty, RedeemTypeOK, TypeOK
  <2>6. SentOnce'
    BY <2>2, <2>4 DEF Pose, SentOnce, OnItsWayOut, NothingBeforeMine
  <2>7. QED
    BY <2>3, <2>5, <2>6
<1>3. CASE MainJoins
  BY <1>t, <1>3
  DEF MainJoins, vars, redeemerVars, RedeemTypeOK, NothingBeforeMine, JobStaysPosed, JoinedHaveEnded,
      ClosedIsEmpty, SentOnce, OnItsWayOut, AllEnded
<1>4. CASE MainDestroys
  BY <1>t, <1>4
  DEF MainDestroys, Pose, redeemerVars, RedeemTypeOK, TypeOK, NothingBeforeMine, JobStaysPosed, JoinedHaveEnded,
      ClosedIsEmpty, SentOnce, OnItsWayOut, AllEnded
<1>5. QED
  BY <1>1, <1>2, <1>3, <1>4 DEF MainStep

\* The steps of the mining threads do, and wakeups for nothing.
LEMMA ThreadStepHolds ==
  ASSUME RedeemInv, NEW t \in Thread, ThreadStep(t) \/ (Wakes(t) /\ UNCHANGED <<main, sent>>)
  PROVE  RedeemInv'
<1> USE ChannelAssumption, RedeemAssumption, OneChannel DEF RedeemInv, Ended
<1>t. TypeOK'
  BY TypeCorrect, ChannelStep DEF RedeemTypeOK, RedeemNext
<1>1. CASE (Work(t) \/ Wakes(t)) /\ UNCHANGED <<main, sent>>
  <2>1. RedeemTypeOK'
    BY <1>1, <1>t DEF Work, Wakes, redeemerVars, RedeemTypeOK
  <2>2. UNCHANGED <<channelVars, redeemerVars, main, sent>>
    BY <1>1 DEF Work, Wakes, Select, SelectAtOnce, SelectWaits, SelectResumes, Return, Solve,
                SpuriousWakeup, channelVars
  <2>3. /\ \A r \in Thread : r # t => pc'[r] = pc[r]
        /\ pc[t] \in {"select", "waiting", "woken", "solving"}
        /\ pc'[t] \in {"select", "waiting", "woken", "solving", "solved", "stopped"}
        /\ pc'[t] = "solving" => Puzzle[chan] \in Puzzles
        /\ pc'[t] \in {"select", "solved"} => pc[t] = "solving"
        /\ pc'[t] = "waiting" => pc[t] = "select" /\ ~Closed[chan]
        /\ pc'[t] = "woken" => pc[t] = "waiting"
    BY <1>1 DEF Work, Wakes, Select, SelectAtOnce, SelectWaits, SelectResumes, Return, Solve,
                SpuriousWakeup, RedeemTypeOK, TypeOK
  <2>4. (NothingBeforeMine /\ JobStaysPosed /\ JoinedHaveEnded /\ ClosedIsEmpty)'
    BY <2>2, <2>3
    DEF channelVars, redeemerVars, NothingBeforeMine, JobStaysPosed, JoinedHaveEnded, ClosedIsEmpty, AllEnded
  <2>5. SentOnce'
    BY <2>2, <2>3 DEF channelVars, redeemerVars, SentOnce, OnItsWayOut, ClosedIsEmpty
  <2>6. QED
    BY <2>1, <2>4, <2>5
<1>2. CASE Check(t) /\ UNCHANGED <<main, sent>>
  BY <1>t, <1>2
  DEF Check, InSolved, LeaveSolved, vars, channelVars, RedeemTypeOK, TypeOK, NothingBeforeMine, JobStaysPosed,
      JoinedHaveEnded, ClosedIsEmpty, SentOnce, OnItsWayOut, AllEnded
<1>3. CASE Quote(t)
  BY <1>t, <1>3
  DEF Quote, InSolved, GoTo, LeaveSolved, vars, channelVars, RedeemTypeOK, TypeOK,
      NothingBeforeMine, JobStaysPosed, JoinedHaveEnded, ClosedIsEmpty, SentOnce, OnItsWayOut, AllEnded
<1>4. CASE Broadcast(t)
  \* it is the thread's first: one that has broadcast is not there again
  <2>1. sent[t] = 0
    BY <1>4 DEF Broadcast, InSolved, SentOnce, OnItsWayOut
  <2>2. sent' = [sent EXCEPT ![t] = 1] /\ sent' \in [Thread -> Nat]
    BY <1>4, <2>1 DEF Broadcast, RedeemTypeOK
  <2>3. QED
    BY <1>t, <1>4, <2>2
    DEF Broadcast, InSolved, GoTo, LeaveSolved, vars, channelVars, RedeemTypeOK, TypeOK,
        NothingBeforeMine, JobStaysPosed, JoinedHaveEnded, ClosedIsEmpty, SentOnce, OnItsWayOut, AllEnded
<1>5. CASE CloseChannel(t)
  <2>1. \A r \in Thread : pc'[r] \in {pc[r], "woken"} /\ (pc'[r] # pc[r] => pc[r] = "waiting")
    BY <1>5 DEF CloseChannel, Close, NotifyAll, RedeemTypeOK, TypeOK
  <2>2. QED
    BY <1>t, <1>5, <2>1
    DEF CloseChannel, Close, InSolved, RedeemTypeOK, TypeOK, NothingBeforeMine, JobStaysPosed, JoinedHaveEnded,
        ClosedIsEmpty, SentOnce, OnItsWayOut, AllEnded
<1>6. CASE SubmitReturns(t)
  BY <1>t, <1>6
  DEF SubmitReturns, InSolved, LeaveSolved, channelVars, RedeemTypeOK, TypeOK,
      NothingBeforeMine, JobStaysPosed, JoinedHaveEnded, ClosedIsEmpty, SentOnce, OnItsWayOut, AllEnded
<1>7. QED
  BY <1>1, <1>2, <1>3, <1>4, <1>5, <1>6 DEF ThreadStep

\* RedeemInv is inductive.
LEMMA RedeemInvInductive == RedeemInv /\ [RedeemNext]_redeemVars => RedeemInv'
<1>1. CASE UNCHANGED redeemVars
  BY <1>1
  DEF redeemVars, vars, redeemerVars, RedeemInv, RedeemTypeOK, TypeOK, NothingBeforeMine, JobStaysPosed,
      JoinedHaveEnded, ClosedIsEmpty, SentOnce, OnItsWayOut, AllEnded
<1>2. QED
  BY <1>1, MainStepHolds, ThreadStepHolds DEF RedeemNext

\* RedeemInv holds in every state, for any threads and outputs (src/boost_miner.cpp).
THEOREM RedeemInvariant == RedeemSpec => []RedeemInv
BY InitHolds, RedeemInvInductive, PTL DEF RedeemSpec
-----------------------------------------------------------------------------
\* Every variable of redeem stays in its type.
THEOREM RedeemTypeCorrect == RedeemSpec => []RedeemTypeOK
BY RedeemInvariant, PTL DEF RedeemInv

\* No thread broadcasts a second redemption, however many solve at once, and
\* also where In.wait wakes up unasked (submit, src/boost_miner.cpp).
THEOREM EachSendsAtMostOnce == RedeemSpec => []SendsAtMostOnce
<1>1. ASSUME RedeemInv PROVE SendsAtMostOnce
  <2>1. SUFFICES ASSUME NEW t \in Thread PROVE sent[t] <= 1
    BY DEF SendsAtMostOnce
  <2>2. sent[t] \in {0, 1}
    BY <1>1 DEF RedeemInv, SentOnce
  <2>3. QED
    BY <2>2
<1>2. QED
  BY <1>1, RedeemInvariant, PTL

\* redeem uses its channel as Channel allows it to: the invalid puzzle is posed
\* only when all threads have ended.
THEOREM RedeemImplementsChannel == RedeemSpec => ImplementsChannel
<1>1. RedeemInit => Init
  BY DEF RedeemInit, RedeemerInit
<1>2. RedeemInv /\ [RedeemNext]_redeemVars => [Next]_vars
  BY ChannelStep
<1>3. QED
  BY <1>1, <1>2, RedeemInvariant, PTL DEF RedeemSpec, Spec, ImplementsChannel

\* Hence it is a mailbox for redeem as well: a thread takes the newest puzzle,
\* and none sleeps beside it (channel::select, src/miner.cpp).
THEOREM RedeemIsMailbox == RedeemSpec => []NoLostWakeup /\ ImplementsMailbox
BY RedeemImplementsChannel, NoWakeupIsLost, Implements, PTL DEF ImplementsChannel

\* From r.mine on a thread leaves its loop only after another, or it itself,
\* has broadcast and closed the channel, also where In.wait wakes up unasked:
\* until then every select returns the job.
THEOREM NoneLeavesUnsettled == RedeemSpec => LeavesOnlyWhenSettled
<1>1. ASSUME RedeemInv, [RedeemNext]_redeemVars
      PROVE  [\A t \in Thread : pc[t] # "stopped" /\ pc'[t] = "stopped" =>
                main = "started" \/ (Closed[chan] /\ \E u \in Thread : sent[u] = 1)]_redeemVars
  <2>1. SUFFICES ASSUME NEW t \in Thread, pc[t] # "stopped", pc'[t] = "stopped"
                 PROVE main = "started" \/ (Closed[chan] /\ \E u \in Thread : sent[u] = 1)
    OBVIOUS
  \* only the return of select makes a thread stop
  <2>2. [Next]_vars
    BY <1>1, ChannelStep
  <2>3. pc[t] \in {"select", "woken"} /\ Puzzle[chan] \notin Puzzles
    BY <1>1, <2>1, <2>2, OneChannel
    DEF RedeemInv, RedeemTypeOK, TypeOK, Next, PoserStep, Pose, Close, NotifyAll, Mine, Select,
        SelectAtOnce, SelectWaits, SelectResumes, Return, Solve, Solved, SpuriousWakeup, vars,
        channelVars
  \* so the step is the thread's own, while main still waits for it
  <2>4. main \in {"started", "joining"}
    BY <1>1, <2>1, <2>3, OneChannel
    DEF RedeemInv, RedeemTypeOK, TypeOK, JoinedHaveEnded, AllEnded, Ended, RedeemNext, MainStep,
        MainLooksUp, MainMines, MainJoins, MainDestroys, MineJob, Pose, NotifyAll, ThreadStep,
        Wakes, SpuriousWakeup, redeemVars, vars
  <2>5. <<job, key>> \in Puzzles
    BY RedeemAssumption, RedeemerAssumption
  <2>6. QED
    BY <1>1, <2>3, <2>4, <2>5 DEF RedeemInv, JobStaysPosed, ClosedIsEmpty
<1>2. QED
  BY <1>1, RedeemInvariant, PTL DEF RedeemSpec, LeavesOnlyWhenSettled

\* After close nobody starts to work again: there is no puzzle, and none comes.
THEOREM NoneWorksAfterClose == RedeemSpec => NoWorkAfterClose
<1>1. ASSUME RedeemInv, [RedeemNext]_redeemVars
      PROVE  [\A t \in Thread :
                Closed[ChannelOf[t]] => (pc'[t] = "solving" => pc[t] = "solving")]_redeemVars
  <2>1. SUFFICES ASSUME NEW t \in Thread, Closed[chan], pc[t] # "solving", pc'[t] = "solving"
                 PROVE FALSE
    BY OneChannel
  <2>2. [Next]_vars
    BY <1>1, ChannelStep
  <2>3. Puzzle[chan] \notin Puzzles
    BY <1>1, <2>1, ChannelAssumption DEF RedeemInv, ClosedIsEmpty
  <2>4. QED
    BY <1>1, <2>1, <2>2, <2>3, OneChannel
    DEF RedeemInv, RedeemTypeOK, TypeOK, Next, PoserStep, Pose, Close, NotifyAll, Mine, Select,
        SelectAtOnce, SelectWaits, SelectResumes, Return, Solve, Solved, SpuriousWakeup, vars,
        channelVars
<1>2. QED
  BY <1>1, RedeemInvariant, PTL DEF RedeemSpec, NoWorkAfterClose
=============================================================================
