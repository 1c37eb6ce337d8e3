------------------------------ MODULE Network ------------------------------
(***************************************************************************)
(* network::jobs (src/network.cpp): pow.co lists outputs, some of them     *)
(* spent long ago; whatsonchain says for one script after the other which  *)
(* are unspent; the others are reported to pow.co with the transaction     *)
(* that redeemed them, found through two caches that are never emptied.    *)
(*                                                                         *)
(* All of it runs under the mutex of network.cpp, one HTTP call after the  *)
(* other, while others spend outputs.  Nearly every call may throw, which  *)
(* ends jobs; what is in the caches by then stays.                         *)
(***************************************************************************)
EXTENDS Naturals, FiniteSets, Functions

CONSTANTS
  Outpoint,
  ScriptOf,    \* the script of each output
  Value,       \* its satoshis
  MinValue,
  Tx,          \* the transactions that redeem outputs
  SpentBy,     \* the transaction that redeems each output
  NoOutpoint

ASSUME NetworkAssumption ==
  /\ Value \in [Outpoint -> Nat]
  /\ MinValue \in Nat
  /\ SpentBy \in [Outpoint -> Tx]
  /\ DOMAIN ScriptOf = Outpoint
  /\ NoOutpoint \notin Outpoint

Script == {ScriptOf[o] : o \in Outpoint}

VARIABLES
  born,         \* external: the outputs that were created
  mined,        \* external: the transactions the block chain has taken
  posted,       \* the redemptions with which a request has reached pow.co
  step,         \* "idle", "calling" or "returned"
  listed,       \* what pow.co returned, of the scripts still to be checked
  closed,       \* the outputs of the current script still to be reported
  reporting,    \* the output being reported
  history,      \* the transactions of its script still to be looked at
  Jobs,         \* the book that is built
  History,      \* the cache of script histories
  Transaction,  \* the cache of transactions: "raw", or "empty" after a 404
  asked,        \* auxiliary: what pow.co returned in this call
  fresh         \* auxiliary: the scripts whose history was fetched in it

worldVars == <<born, mined, posted>>
reportVars == <<closed, reporting, history>>
cacheVars == <<History, Transaction>>
askVars == <<asked, fresh>>
vars == <<worldVars, step, listed, reportVars, Jobs, cacheVars, askVars>>

EmptyMap == [s \in {} |-> {}]

Init ==
  /\ born \in SUBSET Outpoint /\ mined = {} /\ posted = {}
  /\ step = "idle"
  /\ listed = {} /\ asked = {} /\ fresh = {}
  /\ closed = {} /\ reporting = NoOutpoint /\ history = {}
  /\ Jobs = EmptyMap
  /\ History = EmptyMap /\ Transaction = EmptyMap

IsOpen(o) == o \in born /\ SpentBy[o] \notin mined
IsSpent(o) == o \in born /\ SpentBy[o] \in mined
OfScript(s, S) == {o \in S : ScriptOf[o] = s}
Put(f, x, y) == [z \in DOMAIN f \cup {x} |-> IF z = x THEN y ELSE f[z]]
-----------------------------------------------------------------------------
(* The call as a whole.                                                    *)

\* What the call has in its local variables is gone when it ends.
Forget(book) ==
  /\ listed' = {} /\ asked' = {} /\ fresh' = {}
  /\ closed' = {} /\ reporting' = NoOutpoint /\ history' = {}
  /\ Jobs' = book

\* An HTTP exception leaves jobs.
Throws == step' = "idle" /\ Forget(EmptyMap)

\* external: pow.co lists any outputs, spent ones too.  It may throw, in which
\* case nothing has happened.
AsksForJobs ==
  /\ step = "idle"
  /\ \E S \in SUBSET born : listed' = S /\ asked' = S
  /\ step' = "calling"
  /\ UNCHANGED <<worldVars, reportVars, Jobs, cacheVars, fresh>>

\* mutants: the answer is taken as it is; only one output of a script counts as
\* open; every output of a script of which one is open does.
Unspent_Whole(s) == {o \in OfScript(s, Outpoint) : IsOpen(o)}
Unspent_One(s) == {o \in OfScript(s, listed) : IsOpen(o) /\ \A p \in OfScript(s, listed) : IsOpen(p)}
Unspent_Any(s) == {o \in OfScript(s, listed) : \E p \in OfScript(s, Outpoint) : IsOpen(p)}

\* external: the answer of whatsonchain.
Unspent(s) == {o \in OfScript(s, listed) : IsOpen(o)}

\* The open outputs enter the book, a script without one of sufficient value as
\* an empty candidate.  The code does it after the reports: the book is seen by
\* nobody before the call returns.
ChecksScript(s) ==
  /\ step = "calling" /\ closed = {} /\ reporting = NoOutpoint
  /\ OfScript(s, listed) # {}
  /\ \/ /\ closed' = OfScript(s, listed) \ Unspent(s)
        /\ Jobs' = IF Unspent(s) = {} THEN Jobs
                   ELSE Put(Jobs, s, {o \in Unspent(s) : Value[o] >= MinValue})
        /\ listed' = listed \ OfScript(s, listed)
        /\ UNCHANGED <<step, reporting, history, askVars>>
     \/ Throws
  /\ UNCHANGED <<worldVars, cacheVars>>

Returns ==
  /\ step = "calling" /\ listed = {} /\ closed = {} /\ reporting = NoOutpoint
  /\ step' = "returned"
  /\ UNCHANGED <<worldVars, listed, reportVars, Jobs, cacheVars, askVars>>

\* external: update_jobs takes the book.
Taken ==
  /\ step = "returned"
  /\ step' = "idle" /\ Forget(EmptyMap)
  /\ UNCHANGED <<worldVars, cacheVars>>
-----------------------------------------------------------------------------
(* count_closed_job.                                                       *)

\* external: the transactions that redeem outputs of s; those that create them
\* are left out, since they redeem nothing and are passed over.
HistoryOf(s) == {t \in mined : \E o \in OfScript(s, Outpoint) : SpentBy[o] = t}

\* pow_co::spends throws an HTTP exception or returns no input, and the code goes
\* on in either case.  The history of the script comes from the cache or from
\* whatsonchain.  Any other exception ends the call.
StartsReport(o) ==
  LET s == ScriptOf[o] IN
  /\ o \in closed /\ reporting = NoOutpoint
  /\ \/ /\ s \in DOMAIN History
        /\ history' = History[s]
        /\ closed' = closed \ {o} /\ reporting' = o
        /\ UNCHANGED <<step, listed, Jobs, cacheVars, askVars>>
     \/ /\ s \notin DOMAIN History
        /\ History' = Put(History, s, HistoryOf(s))
        /\ history' = HistoryOf(s)
        /\ fresh' = fresh \cup {s}
        /\ closed' = closed \ {o} /\ reporting' = o
        /\ UNCHANGED <<step, listed, Jobs, Transaction, asked>>
     \/ Throws /\ UNCHANGED cacheVars
  /\ UNCHANGED worldVars

\* The cached transaction, or the answer of whatsonchain, which is cached even
\* if it is a 404.  The second cache, in get_transaction, is never asked for
\* what is in the first.
Fetched(t) == IF t \in DOMAIN Transaction THEN {Transaction[t]} ELSE {"raw", "empty"}

\* mutant: no transaction that is cached is submitted.
Redeems_Uncached(t) == SpentBy[reporting] = t /\ t \notin DOMAIN Transaction

Redeems(t) == SpentBy[reporting] = t

PassesOver(t) ==
  /\ history' = history \ {t}
  /\ UNCHANGED <<step, listed, closed, reporting, Jobs, askVars>>

\* pow_co::submit_proof returns when pow.co has answered, with whatever status:
\* the answer is not looked at, so that a refusal passes for a report.  It may
\* throw before the request has reached pow.co, or after.
Submits(t) ==
  \/ posted' = posted \cup {t} /\ PassesOver(t)
  \/ posted' \in {posted, posted \cup {t}} /\ Throws

\* The transaction that created the output is fetched first: that call may throw,
\* and is one with that of submit_proof here.
LooksAt(t) ==
  /\ t \in history
  /\ \/ \E raw \in Fetched(t) :
          /\ Transaction' = Put(Transaction, t, raw)
          /\ IF raw = "raw" /\ Redeems(t) THEN Submits(t) ELSE UNCHANGED posted /\ PassesOver(t)
     \/ t \notin DOMAIN Transaction /\ Throws /\ UNCHANGED <<posted, Transaction>>
  /\ UNCHANGED <<born, mined, History>>

EndsReport ==
  /\ reporting # NoOutpoint /\ history = {}
  /\ reporting' = NoOutpoint
  /\ UNCHANGED <<worldVars, step, listed, closed, history, Jobs, cacheVars, askVars>>
-----------------------------------------------------------------------------
\* external: outputs are created, and redeemed by others.
World ==
  /\ \/ \E o \in Outpoint \ born : born' = born \cup {o} /\ UNCHANGED mined
     \/ \E t \in Tx \ mined :
          /\ \A o \in Outpoint : SpentBy[o] = t => o \in born
          /\ mined' = mined \cup {t} /\ UNCHANGED born
  /\ UNCHANGED <<posted, step, listed, reportVars, Jobs, cacheVars, askVars>>

Next ==
  \/ AsksForJobs \/ Returns \/ Taken \/ EndsReport \/ World
  \/ \E s \in Script : ChecksScript(s)
  \/ \E o \in Outpoint : StartsReport(o)
  \/ \E t \in Tx : LooksAt(t)

Spec == Init /\ [][Next]_vars
-----------------------------------------------------------------------------
Found == UNION Range(Jobs)

TypeOK ==
  /\ born \subseteq Outpoint /\ mined \subseteq Tx /\ posted \subseteq mined
  /\ step \in {"idle", "calling", "returned"}
  /\ fresh \subseteq DOMAIN History
  /\ listed \subseteq asked /\ closed \subseteq asked /\ asked \subseteq born
  /\ reporting \in asked \cup {NoOutpoint}
  /\ history \subseteq mined
  /\ DOMAIN Jobs \subseteq Script /\ Found \subseteq asked
  /\ DOMAIN History \subseteq Script /\ \A s \in DOMAIN History : History[s] \subseteq mined
  /\ DOMAIN Transaction \subseteq mined
  /\ \A t \in DOMAIN Transaction : Transaction[t] \in {"raw", "empty"}

\* Nothing that can be mined is left out: the book that jobs returns has every
\* output that pow.co listed, is worth min_value and is unspent even now.
NothingLeftOut ==
  step = "returned" => {o \in asked : IsOpen(o) /\ Value[o] >= MinValue} \subseteq Found

\* And nothing else: network::jobs keeps the promise the manager relies on.
ChainOf == [o \in Outpoint |-> IF IsOpen(o) THEN "open" ELSE IF IsSpent(o) THEN "spent" ELSE "unborn"]
Api == INSTANCE JobsApi WITH chain <- ChainOf, call <- step, found <- Found

ImplementsJobsApi == Api!Spec

\* A closed job is reported (network.cpp:97): whatever was cached before, once a
\* report is over pow.co has been sent the transaction that redeemed the output,
\* whatever it answered.  The exceptions are what the caches never forget: a
\* history from an earlier call, before the redemption, and a transaction that
\* whatsonchain once did not know.
ClosedJobIsReported ==
  [][EndsReport =>
       LET t == SpentBy[reporting]
           s == ScriptOf[reporting]
       IN \/ t \in posted
          \/ t \notin History[s] /\ s \notin fresh
          \/ t \in History[s] /\ Transaction[t] = "empty"]_vars
=============================================================================
