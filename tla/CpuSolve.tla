------------------------------ MODULE CpuSolve ------------------------------
(***************************************************************************)
(* solve and cpu_solve (src/miner.cpp), what a mining thread does between  *)
(* select and solved: hash one attempt after the other, and look at the    *)
(* clock on every Display-th nonce only.  Nonces, extra nonces and         *)
(* timestamps are unsigned integers of a few values; an attempt wins or    *)
(* does not, which stands for its hash and the target of the puzzle.       *)
(***************************************************************************)
EXTENDS Naturals

CONSTANTS
  NonceSpace,   \* 2^32 in the code
  ExtraSpace,   \* 2^64
  TimeSpace,    \* 2^32
  Display,      \* display_increment, 0x00800000
  MaxTime,      \* max_time_seconds, 10
  MaxLag,       \* bound: seconds from one look at the clock to the next
  WinningSets,  \* the sets of attempts that win, one for each puzzle
  NoProof       \* work::proof {}

ASSUME SolveAssumption ==
  /\ {NonceSpace, ExtraSpace, TimeSpace, Display, MaxTime, MaxLag} \subseteq Nat \ {0}
  /\ NonceSpace % Display = 0
  /\ MaxTime + 2 * MaxLag < TimeSpace

Time == 0 .. TimeSpace - 1
Attempts == [nonce : 0 .. NonceSpace - 1, extra : 0 .. ExtraSpace - 1, stamp : Time]

ASSUME PuzzleAssumption == WinningSets \subseteq SUBSET Attempts /\ NoProof \notin Attempts

VARIABLES
  now,        \* external: the clock
  lag,        \* external: how often it ticked since it was last looked at
  at,         \* how far the thread is
  winning,    \* the attempts that win for the puzzle; {} also for target 0
  hopeless,   \* whether the target is 0
  initial,    \* initial_time, read by solve
  local,      \* local_initial_time, read by cpu_solve
  begin,      \* begin, read last
  attempt,    \* pr.Solution
  proof,      \* what cpu_solve returned
  tried       \* auxiliary: the nonces hashed in this call

puzzleVars == <<winning, hopeless>>
clockVars == <<now, lag>>
readVars == <<initial, local, begin>>
vars == <<clockVars, at, puzzleVars, readVars, attempt, proof, tried>>

FirstAttempt(e, t) == [nonce |-> 0, extra |-> e, stamp |-> t]

Init ==
  /\ now \in Time /\ lag = 0
  /\ at = "select"
  /\ winning = {} /\ hopeless = FALSE
  /\ initial = 0 /\ local = 0 /\ begin = 0
  /\ attempt = FirstAttempt(0, 0)
  /\ proof = NoProof
  /\ tried = {}

\* uint32 (t - s).
Since(s, t) == (t + TimeSpace - s) % TimeSpace
-----------------------------------------------------------------------------
\* external: mining_thread selects a puzzle.
Selects ==
  /\ at = "select"
  /\ at' = "solve"
  /\ \/ winning' \in WinningSets /\ hopeless' = FALSE
     \/ winning' = {} /\ hopeless' = TRUE
  /\ UNCHANGED <<clockVars, readVars, attempt, proof, tried>>

\* solve: the first attempt, at a random extra nonce.
Solve ==
  /\ at = "solve"
  /\ at' = "cpu_solve"
  /\ initial' = now /\ lag' = 0
  /\ \E e \in 0 .. ExtraSpace - 1 : attempt' = FirstAttempt(e, now)
  /\ tried' = {}
  /\ UNCHANGED <<now, puzzleVars, local, begin, proof>>

\* cpu_solve reads the clock again, and gives up a target of 0.
Enter ==
  /\ at = "cpu_solve"
  /\ local' = now /\ lag' = 0
  /\ at' = IF hopeless THEN "return" ELSE "begin"
  /\ proof' = NoProof
  /\ UNCHANGED <<now, puzzleVars, initial, begin, attempt, tried>>

Begin ==
  /\ at = "begin"
  /\ begin' = now /\ lag' = 0
  /\ at' = "hash"
  /\ UNCHANGED <<now, puzzleVars, initial, local, attempt, proof, tried>>

\* mutants: the clock is looked at on every nonce; the timestamp stays; it
\* starts from 0; extra_nonce_2 does not follow.
Looks_Always == TRUE
Stamp_Stays == attempt.stamp
Stamp_FromZero == Since(local, now)
Follow_NonceOnly(a) == [a EXCEPT !.nonce = (@ + 1) % NonceSpace]

Looks == attempt.nonce % Display = 0

\* The timestamp moves on with the clock since local_initial_time.
Stamp == (initial + Since(local, now)) % TimeSpace

\* The difference of a timestamp before begin is a huge one.
TooLate(stamp) == Since(begin, stamp) > MaxTime

\* Where the nonce wraps the next extra nonce follows.
Follow(a) ==
  LET n == (a.nonce + 1) % NonceSpace IN
  [a EXCEPT !.nonce = n, !.extra = IF n = 0 THEN (@ + 1) % ExtraSpace ELSE @]

Hashed == [nonce |-> attempt.nonce, extra |-> attempt.extra]
Wins(a) == a \in winning

\* What becomes of the attempt that was hashed: it is given up, or returned as
\* seen, that is with a timestamp the hash may not have been taken with, or the
\* next one follows.
Turn(seen) ==
  \/ /\ Looks /\ TooLate(seen.stamp)
     /\ at' = "return" /\ proof' = NoProof /\ UNCHANGED attempt
  \/ /\ ~(Looks /\ TooLate(seen.stamp)) /\ Wins(attempt)
     /\ at' = "return" /\ proof' = seen /\ UNCHANGED attempt
  \/ /\ ~(Looks /\ TooLate(seen.stamp)) /\ ~Wins(attempt)
     /\ attempt' = Follow(seen) /\ UNCHANGED <<at, proof>>

\* One turn of the loop.
Hash ==
  /\ at = "hash"
  /\ Turn(IF Looks THEN [attempt EXCEPT !.stamp = Stamp] ELSE attempt)
  /\ lag' = IF Looks THEN 0 ELSE lag
  /\ tried' = tried \cup {Hashed}
  /\ UNCHANGED <<now, puzzleVars, readVars>>

\* mining_thread passes a valid proof to solved and drops any other.
Delivers == proof # NoProof /\ Wins(proof)

Return ==
  /\ at = "return"
  /\ at' = IF Delivers THEN "solved" ELSE "select"
  /\ initial' = 0 /\ local' = 0 /\ begin' = 0
  /\ attempt' = FirstAttempt(0, 0)
  /\ proof' = NoProof
  /\ tried' = {}
  /\ winning' = {} /\ hopeless' = FALSE
  /\ UNCHANGED clockVars

\* external: solved returns.
Solved ==
  /\ at = "solved"
  /\ at' = "select"
  /\ UNCHANGED <<clockVars, puzzleVars, readVars, attempt, proof, tried>>

\* external: a second passes; MaxLag is much less than the range of a uint32.
Tick ==
  /\ lag < MaxLag
  /\ now' = (now + 1) % TimeSpace /\ lag' = lag + 1
  /\ UNCHANGED <<at, puzzleVars, readVars, attempt, proof, tried>>
-----------------------------------------------------------------------------
Step == Selects \/ Solve \/ Enter \/ Begin \/ Hash \/ Return \/ Solved

Next == Step \/ Tick

\* The thread is scheduled and time passes.
Spec == Init /\ [][Next]_vars /\ WF_vars(Step) /\ WF_vars(Tick)
-----------------------------------------------------------------------------
\* cpu_solve hashes no pair of nonces a second time before it has hashed every
\* one, although the nonce wraps and the extra nonce starts anywhere.
AllHashed == [nonce : 0 .. NonceSpace - 1, extra : 0 .. ExtraSpace - 1]

NoAttemptTwice == [][Hash => Hashed \notin tried \/ tried = AllHashed]_vars

\* A puzzle that can be solved is given up only when max_time_seconds have
\* passed since begin (miner.cpp:41), whatever the unsigned differences wrap to.
\* The exception: if the second changed between the two readings of the clock
\* in solve and cpu_solve, the first timestamp may lie before begin, and the
\* thread gives up after its first hash.
GivesUp == Hash /\ at' = "return" /\ proof' = NoProof

GivesUpOnlyInTime ==
  [][GivesUp => Since(begin, now) > MaxTime \/ Since(initial, local) > Since(begin, now)]_vars

\* A winning attempt that was hashed is passed to solved.  The exceptions are
\* those on the nonces where the clock is looked at: the time is up, or the
\* timestamp has moved on between the hash and the return (miner.cpp:36-44), and
\* the proof that is returned is not the one that was hashed.
Delivered == proof' = attempt /\ at' = "return"

WinsAreDelivered ==
  [][Hash /\ Wins(attempt) =>
       \/ Delivered
       \/ attempt.nonce % Display = 0 /\ (Stamp # attempt.stamp \/ TooLate(Stamp))]_vars

\* The thread does not hash for ever: it comes back to select, where it learns
\* of a new puzzle.
SolveReturns == (at = "hash") ~> (at = "select")
=============================================================================
