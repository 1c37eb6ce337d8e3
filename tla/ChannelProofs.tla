--------------------------- MODULE ChannelProofs ---------------------------
(***************************************************************************)
(* What Channel promises for any number of threads, channels and puzzles.  *)
(***************************************************************************)
EXTENDS Channel, TLAPS

\* Valid caches whether Puzzle is valid.
ValidAgrees == \A c \in Chan : Valid[c] <=> Puzzle[c] \in Puzzles

IInv ==
  /\ TypeOK
  /\ ValidAgrees
  /\ NoLostWakeup

\* The type invariant of Channel: each step keeps every variable in its type.
LEMMA TypeCorrect == ASSUME TypeOK, [Next]_vars PROVE TypeOK'
<1> USE ChannelAssumption DEF TypeOK, Steps
<1>1. ASSUME NEW c \in Chan, NEW p \in Puzzles \cup {NoPuzzle}, Pose(c, p) PROVE TypeOK'
  BY <1>1 DEF Pose, NotifyAll
<1>2. ASSUME NEW c \in Chan, Close(c) PROVE TypeOK'
  BY <1>2 DEF Close, NotifyAll
<1>3. ASSUME NEW t \in Thread, Return(t) PROVE TypeOK'
  BY <1>3 DEF Return, channelVars
<1>4. ASSUME NEW t \in Thread, SelectWaits(t) \/ SpuriousWakeup(t) \/ Solve(t) \/ Solved(t)
      PROVE TypeOK'
  BY <1>4 DEF SelectWaits, SpuriousWakeup, Solve, Solved, channelVars
<1>5. CASE UNCHANGED vars
  BY <1>5 DEF vars
<1>6. QED
  BY <1>1, <1>2, <1>3, <1>4, <1>5
  DEF Next, PoserStep, Mine, Select, SelectAtOnce, SelectResumes

\* The rest of IInv.  What matters is what becomes of the sleeping threads of
\* a channel when its Valid and Closed change.
LEMMA Inductive == ASSUME IInv, [Next]_vars PROVE IInv'
<1> USE ChannelAssumption DEF Steps, Ended
<1>t. TypeOK /\ TypeOK'
  BY TypeCorrect DEF IInv
<1>a. ValidAgrees /\ NoLostWakeup
  BY DEF IInv
<1>s. SUFFICES ValidAgrees' /\ NoLostWakeup'
  BY <1>t DEF IInv
<1>1. ASSUME NEW c \in Chan, NEW p \in Puzzles \cup {NoPuzzle}, Pose(c, p) PROVE <1>s!1
  <2>1. ValidAgrees'
    BY <1>a, <1>t, <1>1 DEF Pose, ValidAgrees, TypeOK
  <2>2. NoLostWakeup'
    BY <1>a, <1>t, <1>1 DEF Pose, NotifyAll, NoLostWakeup, TypeOK
  <2>3. QED
    BY <2>1, <2>2
<1>2. ASSUME NEW c \in Chan, Close(c) PROVE <1>s!1
  <2>1. ValidAgrees'
    BY <1>a, <1>t, <1>2 DEF Close, ValidAgrees, TypeOK
  <2>2. NoLostWakeup'
    BY <1>a, <1>t, <1>2 DEF Close, NotifyAll, NoLostWakeup, TypeOK
  <2>3. QED
    BY <2>1, <2>2
<1>3. ASSUME NEW t \in Thread, SelectAtOnce(t) \/ SelectResumes(t) PROVE <1>s!1
  BY <1>a, <1>t, <1>3
  DEF SelectAtOnce, SelectResumes, Return, channelVars, ValidAgrees, NoLostWakeup, TypeOK
<1>4. ASSUME NEW t \in Thread, SelectWaits(t) \/ SpuriousWakeup(t) \/ Solve(t) \/ Solved(t)
      PROVE <1>s!1
  \* the thread goes to sleep under the mutex with which it has looked
  BY <1>a, <1>t, <1>4
  DEF SelectWaits, SpuriousWakeup, Solve, Solved, channelVars, ValidAgrees, NoLostWakeup, TypeOK
<1>5. CASE UNCHANGED vars
  BY <1>a, <1>5 DEF vars, ValidAgrees, NoLostWakeup
<1>6. QED
  BY <1>1, <1>2, <1>3, <1>4, <1>5 DEF IInv, Next, PoserStep, Mine, Select

\* IInv holds in every state, for any number of threads and channels.
THEOREM ChannelInvariant == Spec => []IInv
<1>1. Init => IInv
  BY ChannelAssumption
  DEF Init, IInv, TypeOK, Steps, ValidAgrees, NoLostWakeup
<1>2. QED
  BY <1>1, Inductive, PTL DEF Spec

\* No thread of any number sleeps while its channel has a puzzle for it or is
\* closed (pose, close and the if of select).
THEOREM NoWakeupIsLost == Spec => [](TypeOK /\ NoLostWakeup)
BY ChannelInvariant, PTL DEF IInv
-----------------------------------------------------------------------------
(* Channel implements Mailbox.  A thread's phase is a function of its pc:  *)
(* only the steps that leave select, solve or solved can change it.        *)

\* The phase of a thread that is in its loop, by its pc.
LEMMA PhaseOf ==
  ASSUME NEW t \in Thread
  PROVE  /\ pc[t] \in {"select", "waiting", "woken"} => Phase[t] = "idle"
         /\ pc[t] \in {"solving", "solved"} => Phase[t] = "busy"
         /\ pc[t] \in Ended => Phase[t] = "gone"
BY DEF Phase, Ended

\* A step that keeps all threads but t where they are, or wakes sleepers,
\* changes no phase but that of t.
LEMMA PhaseChange ==
  ASSUME TypeOK, TypeOK', NEW t \in Thread, NEW step \in Steps,
         pc' = [pc EXCEPT ![t] = step]
  PROVE  Phase' = [Phase EXCEPT ![t] = Phase'[t]]
<1>1. \A r \in Thread : r # t => pc'[r] = pc[r]
  BY DEF TypeOK
<1>2. \A r \in Thread : r # t => Phase'[r] = Phase[r]
  BY <1>1 DEF Phase, Ended
<1>3. QED
  BY <1>2 DEF Phase, Ended

\* To be notified is nothing that the mailbox sees.
LEMMA NotifyKeepsPhase ==
  ASSUME TypeOK, NEW c \in Chan, pc' = NotifyAll(c) \/ pc' = pc
  PROVE  Phase' = Phase
<1>1. \A r \in Thread : pc'[r] = pc[r] \/ (pc[r] = "waiting" /\ pc'[r] = "woken")
  BY DEF NotifyAll, TypeOK
<1>2. \A r \in Thread : Phase'[r] = Phase[r]
  BY <1>1 DEF Phase, Ended
<1>3. QED
  BY <1>2 DEF Phase, Ended

\* Every step is one of the mailbox, or a stutter.
LEMMA StepSimulation == ASSUME IInv, IInv', [Next]_vars
                        PROVE  [Promise!Next]_(Promise!boxVars)
<1> USE ChannelAssumption
<1>t. TypeOK /\ TypeOK'
  BY DEF IInv
<1>1. ASSUME NEW c \in Chan, NEW p \in Puzzles \cup {NoPuzzle}, Pose(c, p)
      PROVE Promise!Put(c, p)
  <2>1. Phase' = Phase
    BY <1>t, <1>1, NotifyKeepsPhase DEF Pose
  <2>2. QED
    BY <2>1, <1>1 DEF Pose, Promise!Put
<1>2. ASSUME NEW c \in Chan, Close(c) PROVE Promise!Shut(c)
  <2>1. Phase' = Phase
    BY <1>t, <1>2, NotifyKeepsPhase DEF Close
  <2>2. QED
    BY <2>1, <1>2 DEF Close, Promise!Shut
<1>3. ASSUME NEW t \in Thread, SelectAtOnce(t) \/ SelectResumes(t)
      PROVE Promise!Take(t) \/ Promise!Leave(t)
  <2> DEFINE p == Puzzle[ChannelOf[t]]
  <2>1. Return(t) /\ pc[t] \in {"select", "woken"}
    BY <1>3 DEF SelectAtOnce, SelectResumes
  <2>2. Phase[t] = "idle"
    BY <2>1, PhaseOf
  <2>3. CASE p \in Puzzles
    <3>1. pc' = [pc EXCEPT ![t] = "solving"]
      BY <2>1, <2>3 DEF Return
    <3>2. pc'[t] = "solving"
      BY <3>1, <1>t DEF TypeOK
    <3>3. Phase'[t] = "busy"
      BY <3>2 DEF Phase, Ended
    <3>4. Phase' = [Phase EXCEPT ![t] = "busy"]
      BY <3>1, <3>3, <1>t, PhaseChange DEF Steps
    <3>5. QED
      BY <2>1, <2>2, <2>3, <3>4 DEF Return, channelVars, Promise!Take
  <2>4. CASE p \notin Puzzles
    <3>1. pc' = [pc EXCEPT ![t] = "stopped"]
      BY <2>1, <2>4 DEF Return
    <3>2. pc'[t] = "stopped"
      BY <3>1, <1>t DEF TypeOK
    <3>3. Phase'[t] = "gone"
      BY <3>2 DEF Phase, Ended
    <3>4. Phase' = [Phase EXCEPT ![t] = "gone"]
      BY <3>1, <3>3, <1>t, PhaseChange DEF Steps
    <3>5. p = NoPuzzle
      BY <2>4, <1>t DEF TypeOK
    <3>6. QED
      BY <2>1, <2>2, <3>4, <3>5 DEF Return, channelVars, Promise!Leave
  <2>5. QED
    BY <2>3, <2>4
<1>4. ASSUME NEW t \in Thread, SelectWaits(t) \/ SpuriousWakeup(t)
      PROVE UNCHANGED Promise!boxVars
  <2>1. PICK step \in {"waiting", "woken"} : pc' = [pc EXCEPT ![t] = step]
    BY <1>4 DEF SelectWaits, SpuriousWakeup
  <2>2. pc'[t] \in {"waiting", "woken"} /\ pc[t] \in {"select", "waiting"}
    BY <2>1, <1>4, <1>t DEF TypeOK, SelectWaits, SpuriousWakeup
  <2>3. Phase'[t] = "idle" /\ Phase[t] = "idle"
    BY <2>2 DEF Phase, Ended
  <2>4. Phase' = [Phase EXCEPT ![t] = "idle"]
    BY <2>1, <2>3, <1>t, PhaseChange DEF Steps
  <2>5. Phase' = Phase
    BY <2>3, <2>4 DEF Phase, Ended
  <2>6. QED
    BY <2>5, <1>4 DEF SelectWaits, SpuriousWakeup, channelVars, Promise!boxVars
<1>5. ASSUME NEW t \in Thread, Solve(t) \/ Solved(t)
      PROVE \/ \E next \in {"idle", "gone"} : Promise!Finish(t, next)
            \/ UNCHANGED Promise!boxVars
  <2>1. PICK step \in {"select", "solved", "failed"} : pc' = [pc EXCEPT ![t] = step]
    BY <1>5 DEF Solve, Solved
  <2>2. pc'[t] = step /\ pc[t] \in {"solving", "solved"}
    BY <2>1, <1>5, <1>t DEF TypeOK, Solve, Solved
  <2>3. Phase[t] = "busy" /\ Phase'[t] \in {"idle", "busy", "gone"}
    BY <2>2 DEF Phase, Ended
  <2>4. Phase' = [Phase EXCEPT ![t] = Phase'[t]]
    BY <2>1, <1>t, PhaseChange DEF Steps
  <2>5. CASE Phase'[t] = "busy"
    <3>1. Phase' = Phase
      BY <2>3, <2>4, <2>5 DEF Phase, Ended
    <3>2. QED
      BY <3>1, <1>5 DEF Solve, Solved, channelVars, Promise!boxVars
  <2>6. CASE Phase'[t] \in {"idle", "gone"}
    BY <2>3, <2>4, <2>6, <1>5 DEF Solve, Solved, channelVars, Promise!Finish
  <2>7. QED
    BY <2>3, <2>5, <2>6
<1>6. CASE UNCHANGED vars
  BY <1>6 DEF vars, Phase, Promise!boxVars
<1>7. QED
  BY <1>1, <1>2, <1>3, <1>4, <1>5, <1>6
  DEF Next, PoserStep, Mine, Select, Promise!Next

\* channel and the loop of mining_thread implement Mailbox: whatever the
\* interleaving and whatever wakes a thread, one that takes a puzzle takes the
\* newest, and one that is told to stop found the channel empty.
THEOREM Implements == Spec => ImplementsMailbox
<1>1. Init => Promise!Init
  BY DEF Init, Promise!Init, Phase
<1>2. QED
  BY <1>1, StepSimulation, ChannelInvariant, PTL DEF Spec, ImplementsMailbox, Promise!Spec
=============================================================================
