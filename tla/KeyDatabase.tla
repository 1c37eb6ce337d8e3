---------------------------- MODULE KeyDatabase ----------------------------
(***************************************************************************)
(* map_key_database (src/jobs.cpp) as the manager uses it: next for the    *)
(* puzzle of a bounty, operator [] for that of a contract, whose script    *)
(* names the address of the miner.  An address stands for its key.         *)
(*                                                                         *)
(* Two threads call it, neither with a mutex of its own: select_job runs   *)
(* under manager::Mutex when a worker comes back from a submission, and    *)
(* without it when the IO thread reassigns a worker.  update_jobs makes    *)
(* its lookups under Mutex, on the IO thread, so beside no other call.     *)
(***************************************************************************)
EXTENDS Naturals, Sequences, SequencesExt

CONSTANTS
  Source,         \* the key sources a user can have: a WIF, an HD key
  Contract,       \* the addresses that contract scripts name
  Missing,        \* Bitcoin::secret {}
  MaxLookAhead,
  MaxGiven        \* bound: how many keys bounties are given

ASSUME KeyAssumption ==
  /\ MaxLookAhead \in Nat
  /\ MaxGiven \in Nat
  /\ \A s \in Source : DOMAIN s = 0 .. MaxGiven + MaxLookAhead
  /\ \A s \in Source : \A n \in DOMAIN s : s[n] # Missing
  /\ Missing \notin Contract

VARIABLES
  source,    \* Keys
  taken,     \* how many keys were taken from it
  Past,      \* the addresses in map_key_database::Past
  Ahead,     \* map_key_database::Next
  answer,    \* the last key returned
  call,      \* what each caller has called
  begun,     \* and what the three were when its call began
  book,      \* the addresses of the contracts in the manager's book
  todo,      \* those that update_jobs has still to look up
  heard,     \* auxiliary: those the websocket has brought
  given,     \* auxiliary: how often next has returned
  calm       \* auxiliary: no two calls have overlapped

memory == <<taken, Past, Ahead>>
useVars == <<book, todo, heard>>
vars == <<source, memory, answer, call, begun, useVars, given, calm>>

\* The IO thread, and the worker that holds Mutex.
Caller == {"io", "worker"}

Idle == <<>>
NextKey == <<"next">>
KeyOf(a) == <<"operator []", a>>
Busy == {c \in Caller : call[c] # Idle}

\* What a call sees: each of the three as it was when the call began, or as it
\* is by now.
Now == [taken |-> {taken}, Past |-> {Past}, Ahead |-> {Ahead}]
Seen(c) ==
  [taken |-> {taken, begun[c][1]}, Past |-> {Past, begun[c][2]}, Ahead |-> {Ahead, begun[c][3]}]

Init ==
  /\ source \in Source
  /\ taken = 0 /\ Past = {} /\ Ahead = <<>> /\ answer = Missing
  /\ call = [c \in Caller |-> Idle] /\ begun = [c \in Caller |-> <<>>]
  /\ book = {} /\ todo = {} /\ heard = {}
  /\ given = 0 /\ calm = TRUE
-----------------------------------------------------------------------------
(* What a call does with what it sees, S: it reads the index of the        *)
(* source, Past and Next, each as one of its values in S, and writes what  *)
(* it makes of them.  Where another call wrote meanwhile, what that one    *)
(* wrote may be lost.                                                      *)

\* mutant: the key stays in the list.
NextFromList_Stays(S) ==
  /\ \E q \in S.Ahead : q # <<>> /\ answer' = Head(q)
  /\ UNCHANGED memory

NextFromList(S) ==
  /\ \E q \in S.Ahead : q # <<>> /\ answer' = Head(q) /\ Ahead' = Tail(q)
  /\ UNCHANGED <<taken, Past>>

NextFromSource(S) ==
  \E n \in S.taken, P \in S.Past :
    /\ <<>> \in S.Ahead /\ n \in DOMAIN source
    /\ answer' = source[n]
    /\ taken' = n + 1
    /\ Past' = P \cup {source[n]}
    /\ UNCHANGED Ahead

\* mutants: one key too few is looked at; the list is not counted.
Fresh_Short(q, n) == [i \in 1 .. MaxLookAhead - 1 - Len(q) |-> source[n + i - 1]]
Fresh_More(q, n) == [i \in 1 .. MaxLookAhead |-> source[n + i - 1]]

\* The keys that the look-ahead takes from the source at n, when the list is q.
Fresh(q, n) == [i \in 1 .. MaxLookAhead - Len(q) |-> source[n + i - 1]]

Finds(S, a) ==
  /\ \E P \in S.Past : a \in P
  /\ answer' = a
  /\ UNCHANGED memory

\* A key that the look-ahead has just found is not looked at again: the
\* answer is that there is none.
LooksAhead(S, a) ==
  /\ \E P \in S.Past : a \notin P
  /\ answer' = Missing
  /\ \E q \in S.Ahead, n \in S.taken, P \in S.Past :
       /\ n <= MaxGiven + Len(q)
       /\ Ahead' = q \o Fresh(q, n)
       /\ taken' = n + Len(Fresh(q, n))
       /\ Past' = P \cup ToSet(Fresh(q, n))

Lookup(S, a) == Finds(S, a) \/ LooksAhead(S, a)
-----------------------------------------------------------------------------
(* select_job, by either caller.                                           *)

\* The bound: as long as calls do not overlap, this is given <= MaxGiven.
Bounded == taken <= MaxGiven + Len(Ahead)

\* Two calls overlap when one begins beside another.
Begins(c, what) ==
  /\ Bounded
  /\ todo = {} /\ call[c] = Idle
  /\ call' = [call EXCEPT ![c] = what]
  /\ begun' = [begun EXCEPT ![c] = memory]
  /\ calm' = (calm /\ Busy = {})
  /\ UNCHANGED <<source, memory, answer, useVars, given>>

Ends(c) ==
  /\ call' = [call EXCEPT ![c] = Idle]
  /\ begun' = [begun EXCEPT ![c] = <<>>]
  /\ UNCHANGED <<source, useVars, calm>>

\* For a bounty.
BeginsNext(c) ==
  /\ given < MaxGiven /\ \A d \in Caller : call[d] = NextKey => given + 1 < MaxGiven
  /\ Begins(c, NextKey)

EndsNext(c) ==
  /\ call[c] = NextKey
  /\ NextFromList(Seen(c)) \/ NextFromSource(Seen(c))
  /\ given' = given + 1
  /\ Ends(c)

\* For a contract.
BeginsLookup(c, a) == a \in book /\ Begins(c, KeyOf(a))

EndsLookup(c, a) ==
  /\ call[c] = KeyOf(a)
  /\ Lookup(Seen(c), a)
  /\ Ends(c)
  /\ UNCHANGED given
-----------------------------------------------------------------------------
(* The book.  Who changes it holds Mutex, so that no worker is in a call;  *)
(* the IO thread is in none when it is the one.                            *)

\* update_jobs has a new book with the contracts of C in it.
UpdateJobs(C) ==
  /\ Bounded
  /\ todo = {} /\ Busy = {}
  /\ book' = C /\ todo' = C /\ heard' = {}
  /\ UNCHANGED <<source, memory, answer, call, begun, given, calm>>

\* mutant: nothing is erased.
Filter_Nothing(a) ==
  /\ a \in todo
  /\ Lookup(Now, a)
  /\ todo' = todo \ {a}
  /\ UNCHANGED <<source, call, begun, book, heard, given, calm>>

\* A contract whose key is not found is erased.
Filter(a) ==
  /\ a \in todo
  /\ Lookup(Now, a)
  /\ todo' = todo \ {a}
  /\ book' = IF answer' = Missing THEN book \ {a} ELSE book
  /\ UNCHANGED <<source, call, begun, heard, given, calm>>

\* new_job asks nobody for the key.
NewContract(a) ==
  /\ todo = {} /\ Busy = {}
  /\ a \notin book
  /\ book' = book \cup {a} /\ heard' = heard \cup {a}
  /\ UNCHANGED <<source, memory, answer, call, begun, todo, given, calm>>

\* The contract was redeemed: submit or solved_job erases it.
Solved(a) ==
  /\ todo = {} /\ call["worker"] = Idle
  /\ a \in book
  /\ book' = book \ {a} /\ heard' = heard \ {a}
  /\ UNCHANGED <<source, memory, answer, call, begun, todo, given, calm>>
-----------------------------------------------------------------------------
Next ==
  \/ \E C \in SUBSET Contract : UpdateJobs(C)
  \/ \E a \in Contract : Filter(a) \/ NewContract(a) \/ Solved(a)
  \/ \E c \in Caller : BeginsNext(c) \/ EndsNext(c)
  \/ \E c \in Caller, a \in Contract : BeginsLookup(c, a) \/ EndsLookup(c, a)

Spec == Init /\ [][Next]_vars
-----------------------------------------------------------------------------
AnyKey == {source[n] : n \in DOMAIN source}

\* As long as no two calls have overlapped, the list is what lies between the
\* keys given out and those taken, and Past has all of these.
InOrder ==
  /\ taken <= MaxGiven + MaxLookAhead
  /\ given = taken - Len(Ahead)
  /\ Past = {source[n] : n \in 0 .. taken - 1}
  /\ Len(Ahead) <= MaxLookAhead
  /\ \A i \in DOMAIN Ahead : Ahead[i] = source[given + i - 1]
  /\ answer \in Past \cup {Missing}

TypeOK ==
  /\ source \in Source
  /\ taken \in Nat /\ Past \subseteq AnyKey /\ Ahead \in Seq(AnyKey)
  /\ answer \in AnyKey \cup Contract \cup {Missing}
  /\ call \in [Caller -> {Idle, NextKey} \cup {KeyOf(a) : a \in Contract}]
  /\ \A c \in Busy : begun[c] \in Nat \X (SUBSET AnyKey) \X Seq(AnyKey)
  /\ todo \subseteq book /\ heard \subseteq book /\ book \subseteq Contract
  /\ calm \in BOOLEAN
  /\ calm => InOrder

\* "find a key from an address later" (jobs.hpp:37): next gives out the keys of
\* the source in order, whatever lookups took from it ahead, and operator []
\* finds every one of them, until two calls overlap.  After that the threads
\* have raced for the index, the list and the map, and nothing is promised.
Promise == INSTANCE KeyRing WITH Address <- Contract

ImplementsKeyRing == Promise!Spec

\* select_job finds the key of every contract that update_jobs has left in the
\* book, in whatever order they were looked up, and whatever the two callers
\* lose of what they write at the same time: what a running call has read of
\* Past, and may write back, has them too.  Only those the websocket brought may
\* have none, and the worker that is given one rests.
KeptContractsHaveKeys ==
  /\ book \ (todo \cup heard) \subseteq Past
  /\ \A c \in Busy : book \ heard \subseteq begun[c][2]

\* A lookup that fails has taken the keys up to MaxLookAhead from the source, so
\* that a key within this distance is found when it is asked for again, unless
\* two calls have overlapped.
WithinReach(a) == \E n \in given .. given + MaxLookAhead - 1 : source[n] = a

FoundWhenAskedAgain ==
  [][\A a \in Contract :
       calm /\ (Filter(a) \/ \E c \in Caller : EndsLookup(c, a)) /\ answer' = Missing /\ WithinReach(a)
         => a \in Past']_vars
=============================================================================
