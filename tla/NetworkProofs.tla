--------------------------- MODULE NetworkProofs ---------------------------
(***************************************************************************)
(* What Network promises for any outputs, scripts and transactions.        *)
(***************************************************************************)
EXTENDS Network, TLAPS

\* The outputs found to be spent that are not yet dealt with.
Closed == closed \cup ({reporting} \ {NoOutpoint})

\* A transaction is only mined when what it redeems exists.
SpentWereBorn == \A o \in Outpoint : SpentBy[o] \in mined => o \in born

\* What a call has in its local variables belongs to it.
CallInOrder ==
  /\ step = "idle" => asked = {} /\ fresh = {} /\ DOMAIN Jobs = {}
  /\ step = "returned" => listed = {} /\ Closed = {}
  /\ history # {} => reporting # NoOutpoint

\* An output is in the book under its script.
BookByScript == \A s \in DOMAIN Jobs : \A o \in Jobs[s] : ScriptOf[o] = s

\* Each script is checked once: when it is, the outputs of it that are in the
\* book, that are closed, and its history are still those of earlier calls.
ScriptsOnce ==
  \A o \in listed :
    /\ ScriptOf[o] \notin DOMAIN Jobs
    /\ ScriptOf[o] \notin fresh
    /\ \A p \in Closed : ScriptOf[o] # ScriptOf[p]

\* What the call has still to find is still to be checked.
StillToFind ==
  \A o \in asked : IsOpen(o) /\ Value[o] >= MinValue => o \in listed \/ o \in Found

\* A closed output stays spent, and a history fetched since it was found closed
\* has the transaction that redeemed it.
ClosedAreSpent ==
  \A o \in Closed :
    /\ SpentBy[o] \in mined
    /\ ScriptOf[o] \in fresh => SpentBy[o] \in History[ScriptOf[o]]

\* A transaction of the history of reporting that redeems it is still to be
\* looked at, or was submitted, or is cached as unknown.
ReportGoesOn ==
  reporting # NoOutpoint =>
    LET s == ScriptOf[reporting]
        t == SpentBy[reporting]
    IN /\ s \in DOMAIN History
       /\ t \in History[s] =>
            \/ t \in history \/ t \in posted
            \/ t \in DOMAIN Transaction /\ Transaction[t] = "empty"

NetInv ==
  /\ TypeOK /\ SpentWereBorn /\ CallInOrder /\ BookByScript /\ ScriptsOnce
  /\ StillToFind /\ ClosedAreSpent /\ ReportGoesOn

-----------------------------------------------------------------------------
(* Lemmas about the operators of the model.                                *)

\* What is found is what some candidate of the book has.
LEMMA FoundIsInBook == \A o : o \in Found <=> \E s \in DOMAIN Jobs : o \in Jobs[s]
  BY DEF Found, Range

\* The empty map has no keys.
LEMMA EmptyMapIsEmpty == DOMAIN EmptyMap = {}
  BY DEF EmptyMap

\* A new candidate adds its outputs to those found, and takes none away.
LEMMA FoundGrows ==
  ASSUME NEW s, s \notin DOMAIN Jobs, NEW S, Jobs' = Put(Jobs, s, S)
  PROVE  \A o : o \in Found' <=> o \in Found \/ o \in S
<1>1. \A o : o \in Found' <=> \E r \in DOMAIN Jobs' : o \in Jobs'[r]
  BY DEF Found, Range
<1>2. /\ DOMAIN Jobs' = DOMAIN Jobs \cup {s}
      /\ Jobs'[s] = S
      /\ \A r \in DOMAIN Jobs : Jobs'[r] = Jobs[r]
  BY DEF Put
<1>3. ASSUME NEW o, o \in Found' PROVE o \in Found \/ o \in S
  <2>1. PICK r \in DOMAIN Jobs' : o \in Jobs'[r]
    BY <1>1, <1>3
  <2>2. QED
    BY <1>2, <2>1, FoundIsInBook
<1>4. ASSUME NEW o, o \in Found PROVE o \in Found'
  <2>1. PICK r \in DOMAIN Jobs : o \in Jobs[r]
    BY <1>4, FoundIsInBook
  <2>2. QED
    BY <1>1, <1>2, <2>1
<1>5. ASSUME NEW o, o \in S PROVE o \in Found'
  BY <1>1, <1>2, <1>5
<1>6. QED
  BY <1>3, <1>4, <1>5

-----------------------------------------------------------------------------
(* The steps.                                                              *)

\* The types of the two caches.
CachesTyped ==
  /\ DOMAIN History \subseteq Script /\ \A s \in DOMAIN History : History[s] \subseteq mined
  /\ DOMAIN Transaction \subseteq mined
  /\ \A t \in DOMAIN Transaction : Transaction[t] \in {"raw", "empty"}

\* Before the first call there is nothing in memory.
LEMMA NetworkInitially == Init => NetInv
<1> SUFFICES ASSUME Init PROVE NetInv
  OBVIOUS
<1>1. DOMAIN Jobs = {} /\ DOMAIN History = {} /\ DOMAIN Transaction = {} /\ Found = {}
  BY EmptyMapIsEmpty, FoundIsInBook DEF Init
<1>2. TypeOK
  BY <1>1 DEF Init, TypeOK
<1>3. Closed = {} /\ SpentWereBorn /\ CallInOrder
  BY <1>1 DEF Init, SpentWereBorn, CallInOrder, Closed
<1>4. QED
  BY <1>1, <1>2, <1>3
  DEF NetInv, Init, BookByScript, ScriptsOnce, StillToFind, ClosedAreSpent, ReportGoesOn

\* Whatever ends a call ends it in order.
LEMMA EndStep ==
  ASSUME NetInv, step' = "idle", Forget(EmptyMap), UNCHANGED <<born, mined>>,
         posted' \subseteq mined, CachesTyped'
  PROVE  NetInv'
<1>1. DOMAIN Jobs' = {}
  BY EmptyMapIsEmpty DEF Forget
<1>2. Found' = {}
  BY <1>1 DEF Found, Range
<1>3. TypeOK'
  BY <1>1, <1>2 DEF NetInv, TypeOK, CachesTyped, Forget
<1>4. SpentWereBorn' /\ Closed' = {} /\ CallInOrder'
  BY <1>1 DEF NetInv, SpentWereBorn, CallInOrder, Closed, Forget
<1>5. QED
  BY <1>1, <1>3, <1>4
  DEF NetInv, Forget, BookByScript, ScriptsOnce, StillToFind, ClosedAreSpent, ReportGoesOn

\* The book starts from what is listed; nothing is left from the call before.
LEMMA AskStep == ASSUME NetInv, AsksForJobs PROVE NetInv'
<1> PICK S \in SUBSET born : listed' = S /\ asked' = S
  BY DEF AsksForJobs
<1>1. /\ step = "idle" /\ step' = "calling"
      /\ UNCHANGED <<born, mined, posted, closed, reporting, history, Jobs, History, Transaction,
                  fresh>>
  BY DEF AsksForJobs, worldVars, reportVars, cacheVars
<1>2. asked = {} /\ fresh = {} /\ DOMAIN Jobs = {} /\ closed = {} /\ reporting = NoOutpoint
  BY <1>1 DEF NetInv, TypeOK, CallInOrder
<1>3. Found' = Found /\ Found = {} /\ Closed' = {}
  BY <1>1, <1>2, FoundIsInBook DEF Found, Closed
<1>4. TypeOK'
  BY <1>1, <1>2, <1>3 DEF NetInv, TypeOK
<1>5. CallInOrder' /\ ScriptsOnce' /\ StillToFind'
  BY <1>1, <1>2, <1>3 DEF NetInv, CallInOrder, ScriptsOnce, StillToFind
<1>6. QED
  BY <1>1, <1>2, <1>3, <1>4, <1>5
  DEF NetInv, SpentWereBorn, BookByScript, ClosedAreSpent, ReportGoesOn

\* One script of the list: what is unspent of it enters the book, the rest is
\* closed.
LEMMA CheckStep == ASSUME NetInv, NEW s \in Script, ChecksScript(s) PROVE NetInv'
<1> DEFINE L == OfScript(s, listed)
           Book == {o \in Unspent(s) : Value[o] >= MinValue}
<1>1. CASE Throws
  <2>1. UNCHANGED <<born, mined, posted, History, Transaction>>
    BY DEF ChecksScript, worldVars, cacheVars
  <2>2. QED
    BY <1>1, <2>1, EndStep DEF NetInv, TypeOK, Throws, CachesTyped
<1>2. CASE ~Throws
  <2>1. /\ step = "calling" /\ closed = {} /\ reporting = NoOutpoint
        /\ closed' = L \ Unspent(s)
        /\ Jobs' = IF Unspent(s) = {} THEN Jobs ELSE Put(Jobs, s, Book)
        /\ listed' = listed \ L
        /\ UNCHANGED <<step, reporting, history, asked, fresh, born, mined, posted, History,
                    Transaction>>
    BY <1>2 DEF ChecksScript, askVars, worldVars, cacheVars
  <2>2. PICK l \in L : TRUE
    BY DEF ChecksScript
  <2>3. /\ L = {o \in listed : ScriptOf[o] = s}
        /\ Unspent(s) = {o \in listed : ScriptOf[o] = s /\ IsOpen(o)}
        /\ \A o : IsOpen(o)' <=> IsOpen(o)
    BY <2>1 DEF OfScript, Unspent, IsOpen
  <2>4. s \notin DOMAIN Jobs /\ s \notin fresh
    BY <2>2, <2>3 DEF NetInv, ScriptsOnce
  <2>5. \A o : o \in Found' <=> o \in Found \/ o \in Book
    <3>1. CASE Unspent(s) = {}
      BY <2>1, <3>1 DEF Found, Range
    <3>2. CASE Unspent(s) # {}
      BY <2>1, <2>4, <3>2, FoundGrows
    <3>3. QED
      BY <3>1, <3>2
  <2>6. DOMAIN Jobs' \subseteq DOMAIN Jobs \cup {s}
        /\ \A r \in DOMAIN Jobs' : Jobs'[r] = IF r = s THEN Book ELSE Jobs[r]
    BY <2>1, <2>4 DEF Put
  <2>7. Closed = {} /\ Closed' = L \ Unspent(s)
    BY <2>1 DEF Closed
  <2>8. TypeOK'
    <3>1. /\ listed' \subseteq asked /\ closed' \subseteq asked /\ Found' \subseteq asked
          /\ DOMAIN Jobs' \subseteq Script
      BY <2>1, <2>3, <2>5, <2>6 DEF NetInv, TypeOK
    <3>2. QED
      BY <2>1, <3>1 DEF NetInv, TypeOK
  <2>9. SpentWereBorn' /\ CallInOrder'
    BY <2>1 DEF NetInv, SpentWereBorn, CallInOrder
  <2>10. BookByScript'
    BY <2>3, <2>6 DEF NetInv, BookByScript
  <2>11. ScriptsOnce'
    BY <2>1, <2>3, <2>6, <2>7 DEF NetInv, ScriptsOnce
  <2>12. StillToFind'
    BY <2>1, <2>3, <2>5 DEF NetInv, StillToFind
  <2>13. ClosedAreSpent'
    <3>1. ASSUME NEW o \in Closed' PROVE SpentBy[o] \in mined /\ ScriptOf[o] = s
      BY <2>3, <2>7, <3>1 DEF NetInv, TypeOK, IsOpen
    <3>2. QED
      BY <2>1, <2>4, <3>1 DEF ClosedAreSpent
  <2>14. ReportGoesOn'
    BY <2>1 DEF ReportGoesOn
  <2>15. QED
    BY <2>8, <2>9, <2>10, <2>11, <2>12, <2>13, <2>14 DEF NetInv
<1>3. QED
  BY <1>1, <1>2

\* The call returns, and update_jobs takes the book.
LEMMA ReturnStep == ASSUME NetInv, Returns \/ Taken PROVE NetInv'
<1>1. CASE Returns
  <2>1. /\ listed = {} /\ Closed = {} /\ step' = "returned"
        /\ UNCHANGED <<born, mined, posted, listed, closed, reporting, history, Jobs, History,
                    Transaction, asked, fresh>>
    BY <1>1 DEF Returns, Closed, worldVars, reportVars, cacheVars, askVars
  <2>2. Found' = Found /\ Closed' = Closed /\ \A o : IsOpen(o)' <=> IsOpen(o)
    BY <2>1 DEF Found, Closed, IsOpen
  <2>3. TypeOK' /\ CallInOrder'
    BY <2>1, <2>2 DEF NetInv, TypeOK, CallInOrder
  <2>4. QED
    BY <2>1, <2>2, <2>3
    DEF NetInv, SpentWereBorn, BookByScript, ScriptsOnce, StillToFind, ClosedAreSpent, ReportGoesOn
<1>2. CASE Taken
  <2>1. UNCHANGED <<born, mined, posted, History, Transaction>>
    BY <1>2 DEF Taken, worldVars, cacheVars
  <2>2. QED
    BY <1>2, <2>1, EndStep DEF NetInv, TypeOK, Taken, CachesTyped
<1>3. QED
  BY <1>1, <1>2

\* A closed output starts to be reported: all those of its script were closed
\* before, so that a history fetched now has what redeemed them.
LEMMA StartStep == ASSUME NetInv, NEW o \in Outpoint, StartsReport(o) PROVE NetInv'
<1> DEFINE s == ScriptOf[o]
           Ended == Throws /\ UNCHANGED cacheVars
<1>1. UNCHANGED <<born, mined, posted>> /\ s \in Script /\ o \in closed /\ reporting = NoOutpoint
  BY DEF StartsReport, worldVars, Script
<1>2. CASE Ended
  BY <1>1, <1>2, EndStep DEF NetInv, TypeOK, Throws, CachesTyped, cacheVars
<1>3. CASE ~Ended
  <2>1. /\ closed' = closed \ {o} /\ reporting' = o
        /\ UNCHANGED <<step, listed, Jobs, Transaction, asked>>
        /\ \/ /\ s \in DOMAIN History /\ history' = History[s]
              /\ UNCHANGED <<History, fresh>>
           \/ /\ s \notin DOMAIN History /\ history' = HistoryOf(s)
              /\ History' = Put(History, s, HistoryOf(s)) /\ fresh' = fresh \cup {s}
    BY <1>3 DEF StartsReport, cacheVars, askVars
  <2>2. /\ DOMAIN History' = DOMAIN History \cup {s}
        /\ \A r \in DOMAIN History : History'[r] = History[r]
        /\ history' = History'[s]
        /\ fresh \subseteq fresh' /\ fresh' \subseteq fresh \cup {s}
        /\ s \in fresh' /\ s \notin fresh => History'[s] = HistoryOf(s)
    <3>1. CASE s \in DOMAIN History
      BY <2>1, <3>1
    <3>2. CASE s \notin DOMAIN History
      BY <2>1, <3>2 DEF Put
    <3>3. QED
      BY <3>1, <3>2
  <2>3. \A r \in DOMAIN History' : History'[r] \subseteq mined
    <3>1. HistoryOf(s) \subseteq mined
      BY DEF HistoryOf
    <3>2. CASE s \in DOMAIN History
      BY <2>2, <3>2 DEF NetInv, TypeOK
    <3>3. CASE s \notin DOMAIN History
      BY <2>1, <2>2, <3>1, <3>3 DEF NetInv, TypeOK
    <3>4. QED
      BY <3>2, <3>3
  <2>4. /\ o \in asked /\ o # NoOutpoint /\ step = "calling"
        /\ fresh \subseteq DOMAIN History
    BY <1>1, NetworkAssumption DEF NetInv, TypeOK, CallInOrder, Closed
  <2>5. /\ Closed' = Closed /\ Closed \subseteq Outpoint
        /\ Found' = Found /\ \A p : IsOpen(p)' <=> IsOpen(p)
    BY <1>1, <2>1, <2>4 DEF NetInv, TypeOK, Closed, Found, IsOpen
  <2>6. TypeOK'
    BY <1>1, <2>1, <2>2, <2>3, <2>4, <2>5 DEF NetInv, TypeOK
  <2>7. /\ SpentWereBorn' /\ CallInOrder' /\ BookByScript' /\ StillToFind'
    BY <1>1, <2>1, <2>4, <2>5
    DEF NetInv, SpentWereBorn, CallInOrder, BookByScript, StillToFind
  <2>8. ScriptsOnce'
    BY <1>1, <2>1, <2>2, <2>5 DEF NetInv, ScriptsOnce, Closed
  <2>9. ClosedAreSpent'
    <3>1. SUFFICES ASSUME NEW p \in Closed
                   PROVE  /\ SpentBy[p] \in mined
                          /\ ScriptOf[p] \in fresh' => SpentBy[p] \in History'[ScriptOf[p]]
      BY <1>1, <2>5 DEF ClosedAreSpent
    <3>2. /\ SpentBy[p] \in mined
          /\ ScriptOf[p] \in fresh => SpentBy[p] \in History[ScriptOf[p]]
      BY DEF NetInv, ClosedAreSpent
    <3>3. CASE ScriptOf[p] \in fresh
      BY <2>2, <2>4, <3>2, <3>3
    <3>4. CASE ScriptOf[p] \in fresh' /\ ScriptOf[p] \notin fresh
      <4>1. ScriptOf[p] = s /\ History'[s] = HistoryOf(s)
        BY <2>2, <3>4
      <4>2. SpentBy[p] \in HistoryOf(s)
        BY <2>5, <3>2, <4>1 DEF HistoryOf, OfScript
      <4>3. QED
        BY <3>2, <4>1, <4>2
    <3>5. QED
      BY <3>2, <3>3, <3>4
  <2>10. ReportGoesOn'
    BY <2>1, <2>2 DEF ReportGoesOn
  <2>11. QED
    BY <2>6, <2>7, <2>8, <2>9, <2>10 DEF NetInv
<1>4. QED
  BY <1>2, <1>3

\* A transaction of the history is looked at: if it is known and redeems the
\* output, it has been sent to pow.co afterwards.
LEMMA LookStep == ASSUME NetInv, NEW t \in Tx, LooksAt(t) PROVE NetInv'
<1>1. t \in history /\ t \in mined /\ UNCHANGED <<born, mined, History>>
  BY DEF LooksAt, NetInv, TypeOK
<1>2. /\ DOMAIN Transaction' \subseteq DOMAIN Transaction \cup {t}
      /\ DOMAIN Transaction \subseteq DOMAIN Transaction'
      /\ \A u \in DOMAIN Transaction : Transaction'[u] = Transaction[u]
      /\ t \in DOMAIN Transaction' => Transaction'[t] \in {"raw", "empty"}
  <2>1. CASE UNCHANGED Transaction
    BY <1>1, <2>1 DEF NetInv, TypeOK
  <2>2. ASSUME NEW raw \in Fetched(t), Transaction' = Put(Transaction, t, raw) PROVE <1>2!:
    <3>1. /\ raw \in {"raw", "empty"}
          /\ t \in DOMAIN Transaction => raw = Transaction[t]
      BY DEF Fetched, NetInv, TypeOK
    <3>2. QED
      BY <2>2, <3>1 DEF Put, Fetched, NetInv, TypeOK
  <2>3. QED
    BY <2>1, <2>2 DEF LooksAt
<1>3. posted \subseteq posted' /\ posted' \subseteq mined
  BY <1>1 DEF LooksAt, Submits, NetInv, TypeOK
<1>4. CachesTyped'
  BY <1>1, <1>2 DEF NetInv, TypeOK, CachesTyped
<1>5. CASE Throws
  BY <1>1, <1>3, <1>4, <1>5, EndStep DEF Throws
<1>6. CASE ~Throws
  <2>1. /\ PassesOver(t)
        /\ t \in DOMAIN Transaction'
        /\ Transaction'[t] = "raw" /\ Redeems(t) => t \in posted'
    <3>1. PICK raw \in Fetched(t) :
            /\ Transaction' = Put(Transaction, t, raw)
            /\ IF raw = "raw" /\ Redeems(t) THEN Submits(t) ELSE UNCHANGED posted /\ PassesOver(t)
      BY <1>6 DEF LooksAt
    <3>2. Transaction'[t] = raw /\ t \in DOMAIN Transaction'
      BY <3>1 DEF Put
    <3>3. QED
      BY <1>6, <3>1, <3>2 DEF Submits
  <2>2. /\ history' = history \ {t}
        /\ UNCHANGED <<step, listed, closed, reporting, Jobs, asked, fresh>>
    BY <2>1 DEF PassesOver, askVars
  <2>3. Found' = Found /\ Closed' = Closed /\ \A p : IsOpen(p)' <=> IsOpen(p)
    BY <1>1, <2>2 DEF Found, Closed, IsOpen
  <2>4. TypeOK'
    BY <1>1, <1>3, <1>4, <2>2, <2>3 DEF NetInv, TypeOK, CachesTyped
  <2>5. /\ SpentWereBorn' /\ CallInOrder' /\ BookByScript' /\ StillToFind' /\ ScriptsOnce'
        /\ ClosedAreSpent'
    BY <1>1, <2>2, <2>3 DEF NetInv, SpentWereBorn, CallInOrder, BookByScript, StillToFind,
       ScriptsOnce, ClosedAreSpent
  <2>6. ReportGoesOn'
    BY <1>1, <1>2, <1>3, <2>1, <2>2 DEF NetInv, ReportGoesOn, Redeems
  <2>7. QED
    BY <2>4, <2>5, <2>6 DEF NetInv
<1>7. QED
  BY <1>5, <1>6

\* When a report is over, its output is dealt with.
LEMMA EndReportStep == ASSUME NetInv, EndsReport PROVE NetInv'
<1>1. /\ reporting # NoOutpoint /\ reporting' = NoOutpoint /\ history = {}
      /\ UNCHANGED <<born, mined, posted, step, listed, closed, history, Jobs, History, Transaction,
                  asked, fresh>>
  BY DEF EndsReport, worldVars, cacheVars, askVars
<1>2. Found' = Found /\ Closed' \subseteq Closed /\ \A p : IsOpen(p)' <=> IsOpen(p)
  BY <1>1 DEF Found, Closed, IsOpen
<1>3. TypeOK' /\ CallInOrder'
  BY <1>1, <1>2 DEF NetInv, TypeOK, CallInOrder
<1>4. QED
  BY <1>1, <1>2, <1>3 DEF NetInv, SpentWereBorn, BookByScript, ScriptsOnce, StillToFind,
     ClosedAreSpent, ReportGoesOn

\* The block chain goes on while the call looks at it: a new output is not one
\* of those asked for, and a spent one stays spent.
LEMMA WorldStep == ASSUME NetInv, World PROVE NetInv'
<1>1. /\ born \subseteq born' /\ born' \subseteq Outpoint
      /\ mined \subseteq mined' /\ mined' \subseteq Tx
      /\ UNCHANGED <<posted, step, listed, closed, reporting, history, Jobs, History, Transaction,
                  asked, fresh>>
  BY DEF World, reportVars, cacheVars, askVars, NetInv, TypeOK
<1>2. SpentWereBorn'
  BY DEF World, NetInv, SpentWereBorn
<1>3. Found' = Found /\ Closed' = Closed /\ \A p \in born : IsOpen(p)' => IsOpen(p)
  BY <1>1 DEF Found, Closed, IsOpen
<1>4. TypeOK'
  BY <1>1, <1>3 DEF NetInv, TypeOK
<1>5. StillToFind'
  BY <1>1, <1>3 DEF NetInv, TypeOK, StillToFind
<1>6. QED
  BY <1>1, <1>2, <1>3, <1>4, <1>5
  DEF NetInv, CallInOrder, BookByScript, ScriptsOnce, ClosedAreSpent, ReportGoesOn

\* NetInv is inductive.
LEMMA NetworkStep == ASSUME NetInv, [Next]_vars PROVE NetInv'
<1>1. CASE UNCHANGED vars
  <2>1. UNCHANGED <<born, mined, posted, step, listed, closed, reporting, history, Jobs, History,
                    Transaction, asked, fresh>>
    BY <1>1 DEF vars, worldVars, reportVars, cacheVars, askVars
  <2>2. Found' = Found /\ Closed' = Closed /\ \A p : IsOpen(p)' <=> IsOpen(p)
    BY <2>1 DEF Found, Closed, IsOpen
  <2>3. TypeOK'
    BY <2>1, <2>2 DEF NetInv, TypeOK
  <2>4. QED
    BY <2>1, <2>2, <2>3 DEF NetInv, SpentWereBorn, CallInOrder, BookByScript, ScriptsOnce,
       StillToFind, ClosedAreSpent, ReportGoesOn
<1>2. QED
  BY <1>1, AskStep, CheckStep, ReturnStep, StartStep, LookStep, EndReportStep, WorldStep DEF Next

\* NetInv holds in every state, for any outputs and scripts (src/network.cpp).
THEOREM NetworkInvariant == Spec => []NetInv
<1>1. QED
  BY NetworkInitially, NetworkStep, PTL DEF Spec

-----------------------------------------------------------------------------
(* What the runs check.                                                    *)

\* The types: among them, that only what was redeemed is submitted to pow.co, and
\* that the book has nothing which pow.co did not list.
THEOREM NetworkTypeCorrect == Spec => []TypeOK
<1>1. NetInv => TypeOK
  BY DEF NetInv
<1>2. QED
  BY <1>1, NetworkInvariant, PTL

\* The book that network::jobs returns has all that is unspent and worth its
\* while of what pow.co listed (src/network.cpp).
THEOREM BookIsComplete == Spec => []NothingLeftOut
<1>1. NetInv => NothingLeftOut
  BY DEF NetInv, CallInOrder, StillToFind, NothingLeftOut
<1>2. QED
  BY <1>1, NetworkInvariant, PTL

\* When the report of a closed job is over, the transaction that redeemed it has
\* been sent to pow.co and answered with some HTTP status, unless one of the two
\* caches was wrong (src/network.cpp; pow_co_api.cpp ignores the status).
THEOREM ClosedJobsAreReported == Spec => ClosedJobIsReported
<1> DEFINE A == EndsReport =>
       LET t == SpentBy[reporting]
           s == ScriptOf[reporting]
       IN \/ t \in posted
          \/ t \notin History[s] /\ s \notin fresh
          \/ t \in History[s] /\ Transaction[t] = "empty"
<1>1. ASSUME NetInv PROVE A
  <2> SUFFICES ASSUME EndsReport
               PROVE  A!2
    OBVIOUS
  <2>1. reporting # NoOutpoint /\ history = {} /\ reporting \in Closed
    BY DEF EndsReport, Closed
  <2>2. QED
    BY <1>1, <2>1 DEF NetInv, ClosedAreSpent, ReportGoesOn
<1>2. QED
  BY <1>1, NetworkInvariant, PTL DEF ClosedJobIsReported

-----------------------------------------------------------------------------
(* The refinement.                                                         *)

\* ChainOf says what the block chain knows of each output.
LEMMA ChainIs ==
  /\ ChainOf \in [Outpoint -> {"unborn", "open", "spent"}]
  /\ \A o \in Outpoint :
       /\ ChainOf[o] = "open" <=> o \in born /\ SpentBy[o] \notin mined
       /\ ChainOf[o] = "spent" <=> o \in born /\ SpentBy[o] \in mined
       /\ ChainOf[o] = "unborn" <=> o \notin born
  BY DEF ChainOf, IsOpen, IsSpent

\* It changes only with the block chain.
LEMMA ChainStays == ASSUME UNCHANGED <<born, mined>> PROVE ChainOf' = ChainOf
  BY DEF ChainOf, IsOpen, IsSpent

\* network::jobs is no snapshot of the block chain, but each script is looked
\* at once, and what is found was unspent then (src/network.cpp).
THEOREM NetworkImplementsJobsApi == Spec => ImplementsJobsApi
<1>1. Init => Api!Init
  <2> SUFFICES ASSUME Init PROVE Api!Init
    OBVIOUS
  <2>1. Found = {}
    BY EmptyMapIsEmpty, FoundIsInBook DEF Init
  <2>2. ChainOf \in [Outpoint -> {"unborn", "open"}]
    BY DEF ChainOf, IsOpen, IsSpent, Init
  <2>3. QED
    BY <2>1, <2>2 DEF Init, Api!Init
<1>2. ASSUME NetInv, step # "idle", step' = "idle", Forget(EmptyMap), UNCHANGED <<born, mined>>
      PROVE  Api!Done
  <2>1. Found' = {}
    BY <1>2, EmptyMapIsEmpty DEF Forget, Found, Range
  <2>2. QED
    BY <1>2, <2>1, ChainStays DEF Api!Done
<1>3. ASSUME NetInv, [Next]_vars PROVE [Api!Next]_(Api!jobsApiVars)
  <2>1. CASE AsksForJobs
    <3>1. Found' = Found /\ ChainOf' = ChainOf
      BY <2>1, ChainStays DEF AsksForJobs, Found, worldVars
    <3>2. QED
      BY <2>1, <3>1 DEF AsksForJobs, Api!Next, Api!Call
  <2>2. ASSUME NEW s \in Script, ChecksScript(s) PROVE [Api!Next]_(Api!jobsApiVars)
    <3>1. step = "calling" /\ UNCHANGED <<born, mined>> /\ OfScript(s, listed) # {}
      BY <2>2 DEF ChecksScript, worldVars
    <3>2. CASE Throws
      BY <1>2, <1>3, <3>1, <3>2 DEF Throws, Api!Next
    <3>3. CASE ~Throws
      <4>1. CASE Unspent(s) = {}
        <5>1. UNCHANGED <<step, Jobs>>
          BY <2>2, <3>3, <4>1 DEF ChecksScript
        <5>2. QED
          BY <3>1, <5>1, ChainStays DEF Found, Api!jobsApiVars
      <4>2. CASE Unspent(s) # {}
        <5> DEFINE Book == {o \in Unspent(s) : Value[o] >= MinValue}
        <5>1. step' = step /\ Jobs' = Put(Jobs, s, Book)
          BY <2>2, <3>3, <4>2 DEF ChecksScript
        <5>2. s \notin DOMAIN Jobs
          BY <1>3, <3>1 DEF NetInv, ScriptsOnce, OfScript
        <5>3. Found' = Found \cup Book
          BY <5>1, <5>2, FoundGrows
        <5>4. \A o \in Found : ScriptOf[o] # s
          BY <1>3, <5>2, FoundIsInBook DEF NetInv, BookByScript
        <5>5. Book \subseteq Api!WorthIt(Api!OpenOf(s))
          BY <1>3, ChainIs DEF Unspent, OfScript, IsOpen, Api!WorthIt, Api!OpenOf, NetInv, TypeOK
        <5>6. Api!Look(s)
          BY <3>1, <5>1, <5>3, <5>4, <5>5, ChainStays DEF Api!Look
        <5>7. QED
          BY <5>6 DEF Api!Next, Script
      <4>3. QED
        BY <4>1, <4>2
    <3>4. QED
      BY <3>2, <3>3
  <2>3. CASE Returns
    <3>1. Found' = Found /\ ChainOf' = ChainOf
      BY <2>3, ChainStays DEF Returns, Found, worldVars
    <3>2. QED
      BY <2>3, <3>1 DEF Returns, Api!Next, Api!Return
  <2>4. CASE Taken
    BY <1>2, <1>3, <2>4 DEF Taken, worldVars, Api!Next
  <2>5. ASSUME NEW o \in Outpoint, StartsReport(o) PROVE [Api!Next]_(Api!jobsApiVars)
    <3>1. UNCHANGED <<born, mined>> /\ step # "idle"
      BY <1>3, <2>5 DEF StartsReport, worldVars, NetInv, TypeOK, CallInOrder
    <3>2. CASE Throws
      BY <1>2, <1>3, <3>1, <3>2 DEF Throws, Api!Next
    <3>3. CASE UNCHANGED <<step, Jobs>>
      BY <3>1, <3>3, ChainStays DEF Found, Api!jobsApiVars
    <3>4. QED
      BY <2>5, <3>2, <3>3 DEF StartsReport
  <2>6. ASSUME NEW t \in Tx, LooksAt(t) PROVE [Api!Next]_(Api!jobsApiVars)
    <3>1. UNCHANGED <<born, mined>> /\ step # "idle"
      BY <1>3, <2>6, NetworkAssumption DEF LooksAt, NetInv, TypeOK, CallInOrder
    <3>2. CASE Throws
      BY <1>2, <1>3, <3>1, <3>2 DEF Throws, Api!Next
    <3>3. CASE UNCHANGED <<step, Jobs>>
      BY <3>1, <3>3, ChainStays DEF Found, Api!jobsApiVars
    <3>4. QED
      BY <2>6, <3>2, <3>3 DEF LooksAt, Submits, PassesOver
  <2>7. CASE EndsReport
    BY <2>7, ChainStays DEF EndsReport, worldVars, Found, Api!jobsApiVars
  <2>8. CASE World
    <3>1. Found' = Found /\ step' = step
      BY <2>8 DEF World, Found
    <3>2. ChainOf' \in [Outpoint -> {"unborn", "open", "spent"}]
      BY DEF ChainOf
    <3>3. ASSUME NEW o \in Outpoint, ChainOf'[o] # ChainOf[o]
          PROVE  <<ChainOf[o], ChainOf'[o]>> \in {<<"unborn", "open">>, <<"open", "spent">>}
      <4> DEFINE C(B, M) == IF o \in B /\ SpentBy[o] \notin M THEN "open"
                            ELSE IF o \in B /\ SpentBy[o] \in M THEN "spent" ELSE "unborn"
      <4>1. ChainOf[o] = C(born, mined) /\ ChainOf'[o] = C(born', mined')
        BY DEF ChainOf, IsOpen, IsSpent
      <4>2. CASE \E p \in Outpoint \ born : born' = born \cup {p} /\ UNCHANGED mined
        <5>1. o \notin born /\ o \in born' /\ SpentBy[o] \notin mined /\ mined' = mined
          BY <1>3, <3>3, <4>1, <4>2 DEF NetInv, SpentWereBorn
        <5>2. QED
          BY <4>1, <5>1
      <4>3. CASE \E t \in Tx \ mined :
                   /\ \A p \in Outpoint : SpentBy[p] = t => p \in born
                   /\ mined' = mined \cup {t} /\ UNCHANGED born
        <5>1. o \in born /\ SpentBy[o] \notin mined /\ SpentBy[o] \in mined' /\ born' = born
          BY <3>3, <4>1, <4>3
        <5>2. QED
          BY <4>1, <5>1
      <4>4. QED
        BY <2>8, <4>2, <4>3 DEF World
    <3>4. QED
      BY <3>1, <3>2, <3>3 DEF Api!Next, Api!World
  <2>9. CASE UNCHANGED vars
    BY <2>9, ChainStays DEF vars, worldVars, Found, Api!jobsApiVars
  <2>10. QED
    BY <1>3, <2>1, <2>2, <2>3, <2>4, <2>5, <2>6, <2>7, <2>8, <2>9 DEF Next
<1>4. QED
  BY <1>1, <1>3, NetworkInvariant, PTL DEF Spec, ImplementsJobsApi, Api!Spec
=============================================================================
