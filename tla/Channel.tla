------------------------------ MODULE Channel ------------------------------
(***************************************************************************)
(* channel (include/miner.hpp) and the loop of mining_thread               *)
(* (src/miner.cpp): a poser sets the newest puzzle, mining threads take it *)
(* with a blocking select and work on it.                                  *)
(*                                                                         *)
(* Every method runs under channel::Mutex, so it is one action, except     *)
(* select, which gives the mutex up in In.wait: the wait, the wakeup and   *)
(* the return with the mutex held again are three steps.                   *)
(***************************************************************************)
CONSTANTS
  Thread,           \* the mining threads
  Chan,             \* the channels: one for redeem, one per worker for mine
  ChannelOf,        \* the channel each thread selects from
  Puzzles,          \* the valid puzzles
  NoPuzzle,         \* work::puzzle {}, which is not valid
  Rests,            \* does the poser pose NoPuzzle while threads still run?
  SpuriousWakeups   \* may In.wait return without a notification?

ASSUME ChannelAssumption ==
  /\ NoPuzzle \notin Puzzles
  /\ ChannelOf \in [Thread -> Chan]
  /\ Rests \in BOOLEAN
  /\ SpuriousWakeups \in BOOLEAN

VARIABLES
  Puzzle,   \* channel::Puzzle
  Valid,    \* channel::Valid
  Closed,   \* channel::Closed
  pc,       \* where each thread is in the loop of mining_thread
  puzzle    \* the local variable of mining_thread

channelVars == <<Puzzle, Valid, Closed>>
vars == <<Puzzle, Valid, Closed, pc, puzzle>>

\* "stopped" is the break on an invalid puzzle, "failed" the catch block.
Steps == {"select", "waiting", "woken", "solving", "solved", "stopped", "failed"}
Ended == {"stopped", "failed"}

Init ==
  /\ Puzzle = [c \in Chan |-> NoPuzzle]
  /\ Valid = [c \in Chan |-> FALSE]
  /\ Closed = [c \in Chan |-> FALSE]
  /\ pc = [t \in Thread |-> "select"]
  /\ puzzle = [t \in Thread |-> NoPuzzle]

\* mutants: notify_one in place of notify_all.
NotifyAll_One(c) ==
  LET W == {t \in Thread : pc[t] = "waiting" /\ ChannelOf[t] = c} IN
  IF W = {} THEN pc ELSE [pc EXCEPT ![CHOOSE t \in W : TRUE] = "woken"]

\* In.notify_all: every thread in the wait set of c goes on.
NotifyAll(c) ==
  [t \in Thread |-> IF pc[t] = "waiting" /\ ChannelOf[t] = c THEN "woken" ELSE pc[t]]

\* mutant: nobody is notified.
Pose_Quiet(c, p) ==
  /\ Puzzle' = [Puzzle EXCEPT ![c] = p]
  /\ Valid' = [Valid EXCEPT ![c] = p \in Puzzles]
  /\ UNCHANGED <<Closed, pc, puzzle>>

Pose(c, p) ==
  /\ Puzzle' = [Puzzle EXCEPT ![c] = p]
  /\ Valid' = [Valid EXCEPT ![c] = p \in Puzzles]
  /\ pc' = IF p \in Puzzles THEN NotifyAll(c) ELSE pc
  /\ UNCHANGED <<Closed, puzzle>>

\* mutants: nobody is notified; the puzzle stays; Closed is not set.
Close_Quiet(c) ==
  /\ Closed' = [Closed EXCEPT ![c] = TRUE]
  /\ Valid' = [Valid EXCEPT ![c] = FALSE]
  /\ Puzzle' = [Puzzle EXCEPT ![c] = NoPuzzle]
  /\ UNCHANGED <<pc, puzzle>>
Close_KeepsPuzzle(c) ==
  /\ Closed' = [Closed EXCEPT ![c] = TRUE]
  /\ Valid' = [Valid EXCEPT ![c] = FALSE]
  /\ pc' = NotifyAll(c)
  /\ UNCHANGED <<Puzzle, puzzle>>
Close_Forgets(c) ==
  /\ Valid' = [Valid EXCEPT ![c] = FALSE]
  /\ Puzzle' = [Puzzle EXCEPT ![c] = NoPuzzle]
  /\ pc' = NotifyAll(c)
  /\ UNCHANGED <<Closed, puzzle>>

Close(c) ==
  /\ Closed' = [Closed EXCEPT ![c] = TRUE]
  /\ Valid' = [Valid EXCEPT ![c] = FALSE]
  /\ Puzzle' = [Puzzle EXCEPT ![c] = NoPuzzle]
  /\ pc' = NotifyAll(c)
  /\ UNCHANGED puzzle

\* mutant: a thread goes on with the puzzle it has.
Return_Stale(t) ==
  LET p == IF puzzle[t] \in Puzzles THEN puzzle[t] ELSE Puzzle[ChannelOf[t]] IN
  /\ puzzle' = [puzzle EXCEPT ![t] = p]
  /\ pc' = [pc EXCEPT ![t] = IF p \in Puzzles THEN "solving" ELSE "stopped"]
  /\ UNCHANGED channelVars

\* select returns Puzzle as it is now; the loop breaks when it is not valid.
Return(t) ==
  LET p == Puzzle[ChannelOf[t]] IN
  /\ puzzle' = [puzzle EXCEPT ![t] = p]
  /\ pc' = [pc EXCEPT ![t] = IF p \in Puzzles THEN "solving" ELSE "stopped"]
  /\ UNCHANGED channelVars

\* mutant: select does not wait.
SelectAtOnce_Always(t) == pc[t] = "select" /\ Return(t)

SelectAtOnce(t) ==
  /\ pc[t] = "select"
  /\ Valid[ChannelOf[t]] \/ Closed[ChannelOf[t]]
  /\ Return(t)

SelectWaits(t) ==
  /\ pc[t] = "select"
  /\ ~Valid[ChannelOf[t]] /\ ~Closed[ChannelOf[t]]
  /\ pc' = [pc EXCEPT ![t] = "waiting"]
  /\ UNCHANGED <<channelVars, puzzle>>

SpuriousWakeup(t) ==
  /\ SpuriousWakeups
  /\ pc[t] = "waiting"
  /\ pc' = [pc EXCEPT ![t] = "woken"]
  /\ UNCHANGED <<channelVars, puzzle>>

\* The wait is under an if, not in a loop: whatever Puzzle is, select returns it.
SelectResumes(t) ==
  /\ pc[t] = "woken"
  /\ Return(t)

\* solve gives up after its 10 seconds or comes back with a proof.
Solve(t) ==
  /\ pc[t] = "solving"
  /\ \E next \in {"select", "solved"} : pc' = [pc EXCEPT ![t] = next]
  /\ UNCHANGED <<channelVars, puzzle>>

\* m->solved (proof.Solution) returns, or throws and the thread ends.
Solved(t) ==
  /\ pc[t] = "solved"
  /\ \E next \in {"select", "failed"} : pc' = [pc EXCEPT ![t] = next]
  /\ UNCHANGED <<channelVars, puzzle>>

Select(t) == SelectAtOnce(t) \/ SelectWaits(t) \/ SelectResumes(t)
Mine(t) == Select(t) \/ Solve(t) \/ Solved(t)

AllEnded(c) == \A t \in Thread : ChannelOf[t] = c => pc[t] \in Ended

PoserStep ==
  \/ \E c \in Chan, p \in Puzzles : Pose(c, p)
  \/ \E c \in Chan : (Rests \/ AllEnded(c)) /\ Pose(c, NoPuzzle)
  \/ \E c \in Chan : Close(c)

Next ==
  \/ PoserStep
  \/ \E t \in Thread : Mine(t) \/ SpuriousWakeup(t)

Spec == Init /\ [][Next]_vars

\* A thread that can run is run, the mutex is not withheld from it for ever,
\* and solve returns because it watches the clock.
Fairness == \A t \in Thread : WF_vars(Mine(t))
FairSpec == Spec /\ Fairness
-----------------------------------------------------------------------------
TypeOK ==
  /\ Puzzle \in [Chan -> Puzzles \cup {NoPuzzle}]
  /\ Valid \in [Chan -> BOOLEAN]
  /\ Closed \in [Chan -> BOOLEAN]
  /\ pc \in [Thread -> Steps]
  /\ puzzle \in [Thread -> Puzzles \cup {NoPuzzle}]

\* No lost wakeup: while a thread sleeps in In.wait its channel has no puzzle
\* for it and is not closed.  pose and close must notify whenever they make
\* the condition of select's if false, and must notify every sleeper.
NoLostWakeup ==
  \A t \in Thread : pc[t] = "waiting" => ~Valid[ChannelOf[t]] /\ ~Closed[ChannelOf[t]]

\* "pointer will be null if the thread is supposed to stop" (miner.hpp:63): a
\* mining thread leaves its loop on an invalid puzzle only once its channel
\* was closed.
StopsOnlyWhenTold ==
  \A t \in Thread : pc[t] = "stopped" => Closed[ChannelOf[t]]

\* A channel that stays closed and is not posed on again ends all its threads.
ClosedEndsThreads ==
  \A c \in Chan :
    <>[](Closed[c] /\ ~Valid[c]) => <>AllEnded(c)

\* A puzzle that stays posed displaces every older one: in the end each
\* thread of the channel works on it or has ended.
PosedPuzzleReachesThreads ==
  \A c \in Chan, p \in Puzzles :
    <>[](Puzzle[c] = p) =>
      <>[](\A t \in Thread : ChannelOf[t] = c => puzzle[t] = p \/ pc[t] \in Ended)

\* The promise of the channel: a thread that takes a puzzle takes the newest
\* there is when it has the mutex, and one that is told to stop found none.
Phase ==
  [t \in Thread |->
    IF pc[t] \in {"select", "waiting", "woken"} THEN "idle"
    ELSE IF pc[t] \in Ended THEN "gone" ELSE "busy"]

Promise == INSTANCE Mailbox WITH
  Taker <- Thread, Box <- Chan, BoxOf <- ChannelOf, Item <- Puzzles, NoItem <- NoPuzzle,
  slot <- Puzzle, shut <- Closed, phase <- Phase, held <- puzzle

ImplementsMailbox == Promise!Spec
=============================================================================
