------------------------------ MODULE KeyRing ------------------------------
(***************************************************************************)
(* What a key database promises: it gives out the keys of its source in    *)
(* their order, none left out and none twice, and finds a key again by its *)
(* address, always if it has given it out, and only if it is the user's.   *)
(* It promises this to one caller at a time, and nothing after two have    *)
(* called it at once: it has no mutex.                                     *)
(***************************************************************************)
EXTENDS Naturals

CONSTANTS
  Source,    \* the key sources a user can have: functions from indices to keys
  Address,   \* the addresses that are looked up; each stands for its key
  Missing    \* Bitcoin::secret {}, the answer that is no key

VARIABLES
  source,   \* the user's source
  given,    \* the number of keys given out
  answer,   \* the last answer
  calm      \* no two calls have overlapped

keyRingVars == <<source, given, answer, calm>>

Init == source \in Source /\ given = 0 /\ answer = Missing /\ calm = TRUE

GivenOut == {source[n] : n \in 0 .. given - 1}

Give ==
  /\ calm
  /\ given \in DOMAIN source
  /\ answer' = source[given]
  /\ given' = given + 1
  /\ UNCHANGED <<source, calm>>

\* Nobody is promised a key that was not given out, but it may be found ahead.
Find(a) ==
  /\ calm
  /\ \/ answer' = a /\ \E n \in DOMAIN source : source[n] = a
     \/ answer' = Missing /\ a \notin GivenOut
  /\ UNCHANGED <<source, given, calm>>

Overlap == calm' = FALSE

Next == Overlap \/ Give \/ \E a \in Address : Find(a)

Spec == Init /\ [][Next]_keyRingVars
=============================================================================
