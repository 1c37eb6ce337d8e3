--------------------------- MODULE CpuSolveProofs ---------------------------
(***************************************************************************)
(* What CpuSolve promises for integers of any width, any time limit and    *)
(* any puzzles.                                                            *)
(***************************************************************************)
EXTENDS CpuSolve, TLAPS

SolveTypeOK ==
  /\ now \in Time /\ initial \in Time /\ local \in Time /\ begin \in Time
  /\ at \in {"select", "solve", "cpu_solve", "begin", "hash", "return", "solved"}
  /\ attempt \in Attempts
  /\ proof \in Attempts \cup {NoProof}

\* How many extra nonces x comes after e, where the last is followed by 0.
Rank(e, x) == IF e <= x THEN x - e ELSE x + ExtraSpace - e

\* The pairs that come before that of the attempt when one starts with e.
Before(e) ==
  {h \in AllHashed : \/ Rank(e, h.extra) < Rank(e, attempt.extra)
                     \/ h.extra = attempt.extra /\ h.nonce < attempt.nonce}

\* The first nonce is 0, and the pairs that were hashed are those before that of
\* the attempt, or all.
TriedInOrder ==
  /\ at \in {"cpu_solve", "begin"} => tried = {} /\ attempt.nonce = 0
  /\ at = "hash" => tried = AllHashed \/ \E e \in 0 .. ExtraSpace - 1 : tried = Before(e)

SolveInv == SolveTypeOK /\ TriedInOrder
-----------------------------------------------------------------------------
(* Unsigned integers.                                                      *)

\* The remainder of what is less than twice the modulus.
LEMMA Wraps ==
  ASSUME NEW m \in Nat \ {0}, NEW x \in 0 .. 2 * m - 1
  PROVE  x % m = IF x < m THEN x ELSE x - m
  OBVIOUS

\* Since is the difference, where the clock has not passed 0, or misses it by
\* the range of the clock.
LEMMA SinceIs ==
  ASSUME NEW s \in Time, NEW t \in Time
  PROVE  /\ Since(s, t) = IF s <= t THEN t - s ELSE t + TimeSpace - s
         /\ Since(s, t) \in Nat
<1> DEFINE x == t + TimeSpace - s
<1>1. TimeSpace \in Nat \ {0} /\ s \in 0 .. TimeSpace - 1 /\ t \in 0 .. TimeSpace - 1
  BY SolveAssumption DEF Time
<1>2. x \in 0 .. 2 * TimeSpace - 1
  BY <1>1
<1> HIDE DEF x
<1>3. x % TimeSpace = IF x < TimeSpace THEN x ELSE x - TimeSpace
  BY <1>1, <1>2, Wraps
<1>4. QED
  BY <1>1, <1>3 DEF Since, x

\* The timestamp is behind the clock by what passed between the two first
\* readings, so that it is behind begin only if more passed then than since.
LEMMA StampLags ==
  ASSUME SolveTypeOK
  PROVE  /\ Stamp \in Time
         /\ Since(initial, local) <= Since(begin, now) =>
              Since(begin, Stamp) = Since(begin, now) - Since(initial, local)
<1> DEFINE i == Since(initial, local)
           b == Since(begin, now)
           l == Since(local, now)
<1>1. /\ TimeSpace \in Nat \ {0}
      /\ now \in 0 .. TimeSpace - 1 /\ initial \in 0 .. TimeSpace - 1
      /\ local \in 0 .. TimeSpace - 1 /\ begin \in 0 .. TimeSpace - 1
  BY SolveAssumption DEF SolveTypeOK, Time
<1>2. /\ i = IF initial <= local THEN local - initial ELSE local + TimeSpace - initial
      /\ b = IF begin <= now THEN now - begin ELSE now + TimeSpace - begin
      /\ l = IF local <= now THEN now - local ELSE now + TimeSpace - local
  BY SinceIs DEF SolveTypeOK
<1> HIDE DEF i, b, l
<1>3. i \in 0 .. TimeSpace - 1 /\ b \in 0 .. TimeSpace - 1 /\ l \in 0 .. TimeSpace - 1
  BY <1>1, <1>2
<1>4. (initial + l) % TimeSpace =
        IF initial + l < TimeSpace THEN initial + l ELSE initial + l - TimeSpace
  <2> DEFINE x == initial + l
  <2>1. x \in 0 .. 2 * TimeSpace - 1
    BY <1>1, <1>3
  <2> HIDE DEF x
  <2>2. x % TimeSpace = IF x < TimeSpace THEN x ELSE x - TimeSpace
    BY <1>1, <2>1, Wraps
  <2>3. QED
    BY <1>1, <1>3, <2>2 DEF x
<1>5. Stamp = IF initial + l < TimeSpace THEN initial + l ELSE initial + l - TimeSpace
  BY <1>4 DEF Stamp, l
<1>6. Stamp \in 0 .. TimeSpace - 1
  BY <1>1, <1>3, <1>5
<1>7. Since(begin, Stamp) = IF begin <= Stamp THEN Stamp - begin ELSE Stamp + TimeSpace - begin
  BY <1>6, SinceIs DEF SolveTypeOK, Time
<1>8. i <= b => Since(begin, Stamp) = b - i
  BY <1>1, <1>2, <1>3, <1>5, <1>6, <1>7
<1>9. QED
  BY <1>6, <1>8 DEF Time, i, b

\* What a nonce, an extra nonce is followed by.
LEMMA FollowedBy ==
  ASSUME NEW m \in Nat \ {0}, NEW x \in 0 .. m - 1
  PROVE  (x + 1) % m = (IF x = m - 1 THEN 0 ELSE x + 1) /\ (x + 1) % m \in 0 .. m - 1
<1> DEFINE y == x + 1
<1>1. y \in 0 .. 2 * m - 1
  OBVIOUS
<1> HIDE DEF y
<1>2. y % m = IF y < m THEN y ELSE y - m
  BY <1>1, Wraps
<1>3. QED
  BY <1>2 DEF y

\* The attempt that follows is the next pair, and after the last nonce of the
\* last extra nonce all pairs have come.
LEMMA FollowIs ==
  ASSUME NEW a \in Attempts
  PROVE  /\ Follow(a) \in Attempts
         /\ Follow(a).stamp = a.stamp
         /\ Follow(a).nonce = IF a.nonce = NonceSpace - 1 THEN 0 ELSE a.nonce + 1
         /\ Follow(a).extra = IF a.nonce # NonceSpace - 1 THEN a.extra
                              ELSE IF a.extra = ExtraSpace - 1 THEN 0 ELSE a.extra + 1
<1>1. /\ NonceSpace \in Nat \ {0} /\ ExtraSpace \in Nat \ {0}
      /\ a.nonce \in 0 .. NonceSpace - 1 /\ a.extra \in 0 .. ExtraSpace - 1 /\ a.stamp \in Time
  BY SolveAssumption DEF Attempts
<1> DEFINE n == (a.nonce + 1) % NonceSpace
           x == (a.extra + 1) % ExtraSpace
<1>2. /\ n = (IF a.nonce = NonceSpace - 1 THEN 0 ELSE a.nonce + 1) /\ n \in 0 .. NonceSpace - 1
      /\ x = (IF a.extra = ExtraSpace - 1 THEN 0 ELSE a.extra + 1) /\ x \in 0 .. ExtraSpace - 1
  BY <1>1, FollowedBy
<1>3. Follow(a) = [a EXCEPT !.nonce = n, !.extra = IF n = 0 THEN x ELSE a.extra]
  BY DEF Follow
<1> HIDE DEF n, x
<1>4. n = 0 <=> a.nonce = NonceSpace - 1
  BY <1>1, <1>2
<1>5. /\ Follow(a) \in Attempts /\ Follow(a).stamp = a.stamp /\ Follow(a).nonce = n
      /\ Follow(a).extra = IF n = 0 THEN x ELSE a.extra
  BY <1>1, <1>2, <1>3 DEF Attempts
<1>6. QED
  BY <1>2, <1>4, <1>5

-----------------------------------------------------------------------------
(* The invariant.                                                          *)

\* Before the first puzzle nothing was hashed.
LEMMA SolveInitially == Init => SolveInv
<1> SUFFICES ASSUME Init PROVE SolveInv
  OBVIOUS
<1>1. 0 \in Time /\ 0 \in 0 .. NonceSpace - 1 /\ 0 \in 0 .. ExtraSpace - 1
  BY SolveAssumption DEF Time
<1>2. QED
  BY <1>1 DEF Init, FirstAttempt, Attempts, SolveInv, SolveTypeOK, TriedInOrder

\* The attempt that a turn of the loop has seen.
Seen == IF Looks THEN [attempt EXCEPT !.stamp = Stamp] ELSE attempt

\* A look at the clock changes the timestamp of the attempt and nothing else.
LEMMA SeenIs ==
  ASSUME SolveTypeOK
  PROVE  /\ Seen \in Attempts /\ Seen.nonce = attempt.nonce /\ Seen.extra = attempt.extra
         /\ Seen.stamp = IF Looks THEN Stamp ELSE attempt.stamp
         /\ Seen # NoProof
<1>1. Stamp \in Time /\ attempt \in Attempts
  BY StampLags DEF SolveTypeOK
<1>2. QED
  BY <1>1, PuzzleAssumption DEF Seen, Attempts

\* A hashed pair that does not win is followed by one that was not hashed, or all
\* have been.
LEMMA HashedInOrder ==
  ASSUME SolveInv, Hash, at' = "hash"
  PROVE  tried' = AllHashed \/ \E e \in 0 .. ExtraSpace - 1 : tried' = Before(e)'
<1> DEFINE n == attempt.nonce
           x == attempt.extra
<1>1. /\ attempt \in Attempts /\ Hashed = [nonce |-> n, extra |-> x] /\ Hashed \in AllHashed
      /\ n \in 0 .. NonceSpace - 1 /\ x \in 0 .. ExtraSpace - 1
      /\ NonceSpace \in Nat \ {0} /\ ExtraSpace \in Nat \ {0}
      /\ at = "hash" /\ tried' = tried \cup {Hashed}
  BY SolveAssumption DEF SolveInv, SolveTypeOK, Hashed, AllHashed, Attempts, Hash
<1>2. attempt' = Follow(Seen)
  BY DEF Hash, Turn, Seen
<1>3. /\ attempt'.nonce = IF n = NonceSpace - 1 THEN 0 ELSE n + 1
      /\ attempt'.extra = IF n # NonceSpace - 1 THEN x
                          ELSE IF x = ExtraSpace - 1 THEN 0 ELSE x + 1
  BY <1>2, SeenIs, FollowIs DEF SolveInv
<1>4. CASE tried = AllHashed
  BY <1>1, <1>4
<1>5. ASSUME NEW e \in 0 .. ExtraSpace - 1, tried = Before(e)
      PROVE  tried' = AllHashed \/ tried' = Before(e)'
  <2>1. tried' = {h \in AllHashed :
                     Rank(e, h.extra) < Rank(e, x) \/ (h.extra = x /\ h.nonce <= n)}
    <3>1. ASSUME NEW h \in AllHashed
          PROVE  /\ h.nonce \in 0 .. NonceSpace - 1 /\ h.extra \in 0 .. ExtraSpace - 1
                 /\ h = Hashed <=> (h.extra = x /\ h.nonce = n)
      BY <1>1 DEF AllHashed
    <3>2. ASSUME NEW h \in AllHashed
          PROVE  h.nonce <= n <=> (h.nonce < n \/ h.nonce = n)
      BY <1>1, <3>1
    <3>3. QED
      BY <1>1, <1>5, <3>1, <3>2 DEF Before
  <2> DEFINE y == IF x = ExtraSpace - 1 THEN 0 ELSE x + 1
  <2>2. /\ Rank(e, x) \in 0 .. ExtraSpace - 1
        /\ y # e => Rank(e, y) = Rank(e, x) + 1
        /\ y = e => Rank(e, x) = ExtraSpace - 1
    BY <1>1 DEF Rank
  <2>3. ASSUME NEW h \in AllHashed
        PROVE  /\ h.nonce \in 0 .. NonceSpace - 1 /\ Rank(e, h.extra) \in 0 .. ExtraSpace - 1
               /\ Rank(e, h.extra) = Rank(e, x) <=> h.extra = x
    BY <1>1 DEF Rank, AllHashed
  <2>4. CASE n # NonceSpace - 1
    <3>1. attempt'.nonce = n + 1 /\ attempt'.extra = x
      BY <1>3, <2>4
    <3>2. \A h \in AllHashed : h.nonce <= n <=> h.nonce < n + 1
      BY <1>1, <2>3
    <3>3. QED
      BY <2>1, <3>1, <3>2 DEF Before
  <2>5. CASE n = NonceSpace - 1 /\ y # e
    <3>1. attempt'.nonce = 0 /\ attempt'.extra = y
      BY <1>3, <2>5
    <3>2. ASSUME NEW h \in AllHashed
          PROVE  /\ h.nonce <= n /\ ~(h.nonce < 0)
                 /\ Rank(e, h.extra) < Rank(e, y) <=>
                      (Rank(e, h.extra) < Rank(e, x) \/ h.extra = x)
      <4> HIDE DEF y
      <4>1. QED
        BY <1>1, <2>2, <2>3, <2>5
    <3>3. Before(e)' = {h \in AllHashed :
                         Rank(e, h.extra) < Rank(e, y) \/ (h.extra = y /\ h.nonce < 0)}
      BY <3>1 DEF Before
    <3>4. QED
      BY <2>1, <3>2, <3>3
  <2>6. CASE n = NonceSpace - 1 /\ y = e
    <3>1. ASSUME NEW h \in AllHashed
          PROVE  Rank(e, h.extra) < Rank(e, x) \/ (h.extra = x /\ h.nonce <= n)
      <4> HIDE DEF y
      <4>1. QED
        BY <1>1, <2>2, <2>3, <2>6
    <3>2. QED
      BY <2>1, <3>1
  <2>7. QED
    BY <2>4, <2>5, <2>6
<1>6. QED
  BY <1>1, <1>4, <1>5 DEF SolveInv, TriedInOrder

\* One turn of the loop, and what it leaves.
LEMMA HashStep == ASSUME SolveInv, Hash PROVE SolveInv'
<1>1. /\ at = "hash" /\ UNCHANGED <<now, initial, local, begin>> /\ Turn(Seen)
      /\ Seen \in Attempts /\ attempt \in Attempts
  BY SeenIs DEF Hash, Seen, readVars, SolveInv, SolveTypeOK
<1>2. SolveTypeOK' /\ at' \in {"hash", "return"}
  BY <1>1, FollowIs DEF Turn, SolveInv, SolveTypeOK
<1>3. TriedInOrder'
  BY <1>2, HashedInOrder DEF TriedInOrder
<1>4. QED
  BY <1>2, <1>3 DEF SolveInv

\* Every step keeps the order in which the pairs are hashed.
LEMMA SolveStep == ASSUME SolveInv, [Next]_vars PROVE SolveInv'
<1> USE DEF puzzleVars, clockVars, readVars
<1>1. /\ 0 \in Time /\ 0 \in 0 .. NonceSpace - 1 /\ 0 \in 0 .. ExtraSpace - 1
      /\ \A e \in 0 .. ExtraSpace - 1, t \in Time :
           FirstAttempt(e, t) \in Attempts /\ FirstAttempt(e, t).nonce = 0
  BY SolveAssumption DEF Time, FirstAttempt, Attempts
<1>2. CASE Selects \/ Solved
  BY <1>2 DEF Selects, Solved, SolveInv, SolveTypeOK, TriedInOrder
<1>3. CASE Solve
  BY <1>1, <1>3 DEF Solve, SolveInv, SolveTypeOK, TriedInOrder
<1>4. CASE Enter
  BY <1>4 DEF Enter, SolveInv, SolveTypeOK, TriedInOrder
<1>5. CASE Begin
  <2>1. SolveTypeOK' /\ attempt' = attempt /\ tried' = {} /\ attempt.nonce = 0 /\ at' = "hash"
    BY <1>5 DEF Begin, SolveInv, SolveTypeOK, TriedInOrder
  <2>2. attempt.extra \in 0 .. ExtraSpace - 1 /\ ExtraSpace \in Nat \ {0}
    BY SolveAssumption DEF SolveInv, SolveTypeOK, Attempts
  <2>3. Before(attempt.extra)' = {}
    <3>1. ASSUME NEW h \in AllHashed
          PROVE  /\ ~(Rank(attempt.extra, h.extra) < Rank(attempt.extra, attempt.extra))
                 /\ ~(h.nonce < 0)
      BY <2>2 DEF Rank, AllHashed
    <3>2. QED
      BY <2>1, <3>1 DEF Before
  <2>4. QED
    BY <2>1, <2>2, <2>3 DEF SolveInv, TriedInOrder
<1>6. CASE Return
  BY <1>1, <1>6 DEF Return, SolveInv, SolveTypeOK, TriedInOrder
<1>7. CASE UNCHANGED <<at, initial, local, begin, attempt, proof, tried>> /\ now' \in Time
  BY <1>7 DEF SolveInv, SolveTypeOK, TriedInOrder, Before
<1>8. CASE Tick
  <2>1. now' \in Time
    BY <1>8, FollowedBy, SolveAssumption DEF Tick, SolveInv, SolveTypeOK, Time
  <2>2. QED
    BY <1>7, <1>8, <2>1 DEF Tick
<1>9. CASE UNCHANGED vars
  BY <1>7, <1>9 DEF vars, SolveInv, SolveTypeOK
<1>10. QED
  BY <1>2, <1>3, <1>4, <1>5, <1>6, <1>8, <1>9, HashStep DEF Next, Step

\* SolveInv holds in every state, for integers of any width (src/miner.cpp).
THEOREM SolveInvariant == Spec => []SolveInv
<1>1. QED
  BY SolveInitially, SolveStep, PTL DEF Spec

-----------------------------------------------------------------------------
(* What the run checks.                                                    *)

\* cpu_solve hashes every pair of nonces before it hashes one again, for every
\* first extra nonce and every width of the integers (src/miner.cpp).
THEOREM HashesEachOnce == Spec => NoAttemptTwice
<1> DEFINE A == Hash => Hashed \notin tried \/ tried = AllHashed
<1>1. ASSUME SolveInv PROVE A
  <2>1. ASSUME NEW e \in 0 .. ExtraSpace - 1, tried = Before(e), attempt \in Attempts,
               Hashed \in tried
        PROVE  FALSE
    <3>1. attempt.nonce \in Nat /\ attempt.extra \in 0 .. ExtraSpace - 1
      BY <2>1, SolveAssumption DEF Attempts
    <3>2. \/ Rank(e, attempt.extra) < Rank(e, attempt.extra)
          \/ attempt.nonce < attempt.nonce
      BY <2>1 DEF Before, Hashed
    <3>3. QED
      BY <3>1, <3>2, SolveAssumption DEF Rank
  <2>2. QED
    BY <1>1, <2>1 DEF SolveInv, SolveTypeOK, TriedInOrder, Hash
<1>2. QED
  BY <1>1, SolveInvariant, PTL DEF NoAttemptTwice

\* A puzzle that can be solved is given up when the time is up, unless the clock
\* ticked between the two readings in solve and cpu_solve, whatever the unsigned
\* integers wrap to (src/miner.cpp).
THEOREM GivesUpInTime == Spec => GivesUpOnlyInTime
<1> DEFINE A == GivesUp => \/ Since(begin, now) > MaxTime
                           \/ Since(initial, local) > Since(begin, now)
<1>1. ASSUME SolveInv PROVE A
  <2>1. Since(initial, local) \in Nat /\ Since(begin, now) \in Nat /\ MaxTime \in Nat
    BY <1>1, SinceIs, SolveAssumption DEF SolveInv, SolveTypeOK
  <2> SUFFICES ASSUME GivesUp, Since(initial, local) <= Since(begin, now)
               PROVE  Since(begin, now) > MaxTime
    BY <2>1
  <2>2. /\ at = "hash" /\ at' = "return" /\ proof' = NoProof /\ Turn(Seen)
        /\ Seen # NoProof /\ Seen.stamp = IF Looks THEN Stamp ELSE attempt.stamp
    BY <1>1, SeenIs DEF GivesUp, Hash, Seen, SolveInv
  <2>3. TooLate(Stamp)
    BY <2>2 DEF Turn
  <2>4. Since(begin, Stamp) = Since(begin, now) - Since(initial, local)
    BY <1>1, StampLags DEF SolveInv
  <2>5. QED
    BY <2>1, <2>3, <2>4 DEF TooLate
<1>2. QED
  BY <1>1, SolveInvariant, PTL DEF GivesUpOnlyInTime

\* A win is passed on but for what the clock does on the nonces where it is looked
\* at (src/miner.cpp).
THEOREM WinsReachSolved == Spec => WinsAreDelivered
<1> DEFINE A == Hash /\ Wins(attempt) =>
       \/ Delivered
       \/ attempt.nonce % Display = 0 /\ (Stamp # attempt.stamp \/ TooLate(Stamp))
<1>1. ASSUME SolveInv PROVE A
  <2> SUFFICES ASSUME Hash, Wins(attempt),
                      attempt.nonce % Display = 0 => Stamp = attempt.stamp /\ ~TooLate(Stamp)
               PROVE  Delivered
    OBVIOUS
  <2>1. /\ Turn(Seen) /\ attempt \in Attempts
        /\ Seen.stamp = IF Looks THEN Stamp ELSE attempt.stamp
    BY <1>1, SeenIs DEF Hash, Seen, SolveInv, SolveTypeOK
  <2>2. Seen = attempt
    BY <2>1 DEF Seen, Looks, Attempts
  <2>3. ~(Looks /\ TooLate(Seen.stamp))
    BY <2>1 DEF Looks
  <2>4. QED
    BY <2>1, <2>2, <2>3 DEF Turn, Delivered
<1>2. QED
  BY <1>1, SolveInvariant, PTL DEF WinsAreDelivered
=============================================================================
