------------------------- MODULE KeyDatabaseProofs -------------------------
(***************************************************************************)
(* What KeyDatabase promises for any key sources, contracts and look-ahead:*)
(* the order of the keys as long as no two calls overlap, and whatever     *)
(* overlaps, the keys of the contracts that update_jobs keeps.             *)
(***************************************************************************)
EXTENDS KeyDatabase, SequenceTheorems, TLAPS

\* As long as calls do not overlap there is a key left for each bounty, and the
\* one call that runs sees what is there now.
CalmIsAlone ==
  calm =>
    /\ given \in 0 .. MaxGiven
    /\ \A c \in Busy : Busy = {c} /\ begun[c] = memory
    /\ \A c \in Caller : call[c] = NextKey => given < MaxGiven

\* While update_jobs looks its contracts up it holds Mutex on the IO thread, and
\* none that the websocket brought is left: otherwise to erase one would leave
\* heard with a contract not in the book.
KeyInv ==
  /\ TypeOK
  /\ begun = [c \in Caller |-> begun[c]]
  /\ CalmIsAlone
  /\ todo # {} => Busy = {} /\ heard = {}
  /\ KeptContractsHaveKeys

\* The calls differ.
LEMMA CallsDiffer ==
  Idle # NextKey /\ \A a \in Contract : Idle # KeyOf(a) /\ NextKey # KeyOf(a)
<1>1. Len(Idle) = 0 /\ Len(NextKey) = 1 /\ \A a \in Contract : Len(KeyOf(a)) = 2
  BY DEF NextKey, KeyOf, Idle
<1>2. QED
  BY <1>1

\* A function on 1 .. n is a sequence of length n.
LEMMA FunctionIsSeq ==
  ASSUME NEW S, NEW n \in Nat, NEW f \in [1 .. n -> S]
  PROVE  f \in Seq(S) /\ Len(f) = n /\ DOMAIN f = 1 .. n
  OBVIOUS

\* The part of KeyInv that is about the order of the keys.
Ordered ==
  /\ source \in Source /\ taken \in Nat /\ Ahead \in Seq(AnyKey)
  /\ given \in 0 .. MaxGiven
  /\ InOrder

\* Where the list ends and the source goes on.
LEMMA TakenIsGivenAndAhead ==
  ASSUME Ordered
  PROVE  /\ Len(Ahead) \in 0 .. MaxLookAhead
         /\ taken = given + Len(Ahead)
         /\ DOMAIN Ahead = 1 .. Len(Ahead)
         /\ DOMAIN source = 0 .. MaxGiven + MaxLookAhead
         /\ \A n \in DOMAIN source : source[n] # Missing
<1>1. Len(Ahead) \in Nat /\ DOMAIN Ahead = 1 .. Len(Ahead)
  BY LenProperties DEF Ordered
<1>2. QED
  BY <1>1, KeyAssumption DEF Ordered, InOrder

\* What a lookup takes from the source is a list of keys, whichever list and
\* index it has read.
LEMMA FreshIsKeys ==
  ASSUME source \in Source, NEW q \in Seq(AnyKey), NEW m \in Nat, m <= MaxGiven + Len(q)
  PROVE  /\ Fresh(q, m) \in Seq(AnyKey)
         /\ Len(Fresh(q, m)) = IF Len(q) <= MaxLookAhead THEN MaxLookAhead - Len(q) ELSE 0
         /\ \A i \in 1 .. Len(Fresh(q, m)) : Fresh(q, m)[i] = source[m + i - 1]
         /\ ToSet(Fresh(q, m)) \subseteq AnyKey
<1> DEFINE n == IF Len(q) <= MaxLookAhead THEN MaxLookAhead - Len(q) ELSE 0
<1>1. Len(q) \in Nat /\ n \in Nat /\ 1 .. MaxLookAhead - Len(q) = 1 .. n
  BY LenProperties, KeyAssumption
<1>2. \A i \in 1 .. n : m + i - 1 \in DOMAIN source
  BY <1>1, KeyAssumption
<1>3. Fresh(q, m) \in [1 .. n -> AnyKey]
  BY <1>1, <1>2 DEF Fresh, AnyKey
<1>4. \A i \in 1 .. n : Fresh(q, m)[i] = source[m + i - 1]
  BY <1>1 DEF Fresh
<1> HIDE DEF n
<1>5. Fresh(q, m) \in Seq(AnyKey) /\ Len(Fresh(q, m)) = n /\ DOMAIN Fresh(q, m) = 1 .. n
  BY <1>1, <1>3, FunctionIsSeq
<1>6. ToSet(Fresh(q, m)) \subseteq AnyKey
  BY <1>3, <1>5 DEF ToSet
<1>7. QED
  BY <1>4, <1>5, <1>6 DEF n

\* As long as calls do not overlap these are the keys that follow the list, up
\* to MaxLookAhead of those given out.
LEMMA FreshFollows ==
  ASSUME Ordered
  PROVE  LET F == Fresh(Ahead, taken) IN
         /\ F \in Seq(AnyKey)
         /\ Len(F) = MaxLookAhead - Len(Ahead)
         /\ \A i \in 1 .. Len(F) : F[i] = source[taken + i - 1]
         /\ ToSet(F) = {source[n] : n \in taken .. given + MaxLookAhead - 1}
<1> DEFINE n == MaxLookAhead - Len(Ahead)
           F == Fresh(Ahead, taken)
<1>1. /\ taken + n = given + MaxLookAhead
      /\ n \in Nat /\ taken \in Nat /\ given \in Nat /\ MaxLookAhead \in Nat
      /\ taken <= MaxGiven + Len(Ahead) /\ Len(Ahead) <= MaxLookAhead
  BY TakenIsGivenAndAhead, KeyAssumption DEF Ordered
<1>2. /\ F \in Seq(AnyKey) /\ Len(F) = n
      /\ \A i \in 1 .. n : F[i] = source[taken + i - 1]
  BY <1>1, FreshIsKeys DEF Ordered
<1>3. DOMAIN F = 1 .. n
  BY <1>2, LenProperties
<1> HIDE DEF n, F
<1>4. ASSUME NEW i \in 1 .. n
      PROVE  \E m \in taken .. given + MaxLookAhead - 1 : F[i] = source[m]
  BY <1>1, <1>2
<1>5. ASSUME NEW m \in taken .. given + MaxLookAhead - 1
      PROVE  \E i \in 1 .. n : F[i] = source[m]
  <2>1. m - taken + 1 \in 1 .. n /\ taken + (m - taken + 1) - 1 = m
    BY <1>1
  <2>2. QED
    BY <1>2, <2>1
<1>6. ToSet(F) = {F[i] : i \in 1 .. n}
  BY <1>3 DEF ToSet
<1>7. ToSet(F) = {source[m] : m \in taken .. given + MaxLookAhead - 1}
  BY <1>4, <1>5, <1>6
<1>8. QED
  BY <1>2, <1>7 DEF n, F

-----------------------------------------------------------------------------
(* A call that is alone.                                                   *)

\* It sees what is there now, and the keys are in order.
LEMMA CalmSees ==
  ASSUME KeyInv, calm
  PROVE  /\ Ordered
         /\ \A c \in Busy : Seen(c) = Now /\ Busy = {c}
         /\ \A c \in Caller : call[c] = NextKey => given < MaxGiven
<1>1. Ordered /\ \A c \in Caller : call[c] = NextKey => given < MaxGiven
  BY DEF KeyInv, TypeOK, CalmIsAlone, Ordered
<1>2. ASSUME NEW c \in Busy PROVE Seen(c) = Now /\ Busy = {c}
  <2>1. begun[c] = memory /\ Busy = {c}
    BY <1>2 DEF KeyInv, CalmIsAlone
  <2>2. begun[c][1] = taken /\ begun[c][2] = Past /\ begun[c][3] = Ahead
    BY <2>1 DEF memory
  <2>3. QED
    BY <2>1, <2>2 DEF Seen, Now
<1>3. QED
  BY <1>1, <1>2

\* A lookup forgets nothing, the list still ends where the source goes on, and
\* an answer other than Missing is the key asked for; a lookup that fails has
\* found the keys that are within reach.
LEMMA LookupStep ==
  ASSUME Ordered, NEW a \in Contract, Lookup(Now, a), UNCHANGED <<source, given>>
  PROVE  /\ Ordered'
         /\ Past \subseteq Past'
         /\ answer' = Missing => given + MaxLookAhead = taken'
         /\ IF answer' = Missing THEN a \notin Past ELSE answer' = a /\ a \in Past
<1>1. InOrder /\ a # Missing
  BY KeyAssumption DEF Ordered
<1>2. CASE Finds(Now, a)
  <2>1. answer' = a /\ a \in Past /\ UNCHANGED <<source, taken, Past, Ahead, given>>
    BY <1>2 DEF Finds, Now, memory
  <2>2. QED
    BY <1>1, <2>1 DEF Ordered, InOrder, AnyKey
<1>3. CASE LooksAhead(Now, a)
  <2> DEFINE F == Fresh(Ahead, taken)
  <2>1. /\ a \notin Past /\ answer' = Missing
        /\ Ahead' = Ahead \o F
        /\ taken' = taken + Len(F)
        /\ Past' = Past \cup ToSet(F)
    BY <1>3 DEF LooksAhead, Now
  <2>2. /\ F \in Seq(AnyKey)
        /\ Len(F) = MaxLookAhead - Len(Ahead)
        /\ \A i \in 1 .. Len(F) : F[i] = source[taken + i - 1]
        /\ ToSet(F) = {source[n] : n \in taken .. given + MaxLookAhead - 1}
    BY FreshFollows
  <2> HIDE DEF F
  <2>3. /\ Ahead' \in Seq(AnyKey)
        /\ Len(Ahead') = Len(Ahead) + Len(F)
        /\ DOMAIN Ahead' = 1 .. Len(Ahead) + Len(F)
        /\ \A i \in 1 .. Len(Ahead) + Len(F) :
             Ahead'[i] = IF i <= Len(Ahead) THEN Ahead[i] ELSE F[i - Len(Ahead)]
    BY <2>1, <2>2, ConcatProperties, LenProperties DEF Ordered
  <2>4. taken' = given + MaxLookAhead /\ Len(Ahead') = MaxLookAhead
    BY <2>1, <2>2, <2>3, TakenIsGivenAndAhead, KeyAssumption DEF Ordered
  <2>5. Past' = {source'[n] : n \in 0 .. taken' - 1}
    <3>1. \A n : n \in 0 .. taken' - 1 <=>
                   (n \in 0 .. taken - 1 \/ n \in taken .. given + MaxLookAhead - 1)
      BY <2>4, TakenIsGivenAndAhead, KeyAssumption DEF Ordered
    <3>2. Past' = {source[n] : n \in 0 .. taken - 1}
                  \cup {source[n] : n \in taken .. given + MaxLookAhead - 1}
      BY <1>1, <2>1, <2>2 DEF InOrder
    <3>3. {source[n] : n \in 0 .. taken' - 1} =
            {source[n] : n \in 0 .. taken - 1}
            \cup {source[n] : n \in taken .. given + MaxLookAhead - 1}
      BY <3>1
    <3>4. QED
      BY <3>2, <3>3
  <2>6. ASSUME NEW i \in DOMAIN Ahead'
        PROVE  Ahead'[i] = source'[given' + i - 1]
    <3>1. CASE i <= Len(Ahead)
      BY <1>1, <2>3, <3>1, TakenIsGivenAndAhead DEF InOrder
    <3>2. CASE ~(i <= Len(Ahead))
      <4>1. /\ i - Len(Ahead) \in 1 .. Len(F)
            /\ taken + (i - Len(Ahead)) - 1 = given' + i - 1
        BY <2>2, <2>3, <3>2, TakenIsGivenAndAhead, KeyAssumption DEF Ordered
      <4>2. QED
        BY <2>2, <2>3, <3>2, <4>1
    <3>3. QED
      BY <3>1, <3>2
  <2>7. /\ taken' \in Nat /\ taken' <= MaxGiven + MaxLookAhead
        /\ given' = taken' - Len(Ahead') /\ Len(Ahead') <= MaxLookAhead
    BY <2>4, KeyAssumption DEF Ordered
  <2>8. AnyKey' = AnyKey
    BY DEF AnyKey
  <2>9. Ordered'
    BY <2>1, <2>3, <2>5, <2>6, <2>7, <2>8 DEF Ordered, InOrder
  <2>10. QED
    BY <2>1, <2>4, <2>9
<1>4. QED
  BY <1>2, <1>3 DEF Lookup

\* A key that is given out is the next one, whether it comes from the list or
\* from the source.
LEMMA NextStep ==
  ASSUME Ordered, given < MaxGiven, NextFromList(Now) \/ NextFromSource(Now),
         source' = source, given' = given + 1
  PROVE  /\ Ordered'
         /\ Past \subseteq Past'
         /\ given \in DOMAIN source /\ answer' = source[given]
<1>1. InOrder /\ AnyKey' = AnyKey
  BY DEF Ordered, AnyKey
<1>2. given \in DOMAIN source /\ given' \in 0 .. MaxGiven
  BY TakenIsGivenAndAhead, KeyAssumption DEF Ordered
<1>3. CASE NextFromList(Now)
  <2>1. /\ Ahead # <<>> /\ answer' = Head(Ahead) /\ Ahead' = Tail(Ahead)
        /\ UNCHANGED <<taken, Past>>
    BY <1>3 DEF NextFromList, Now
  <2>2. /\ Ahead' \in Seq(AnyKey)
        /\ Len(Ahead') = Len(Ahead) - 1
        /\ DOMAIN Ahead' = 1 .. Len(Ahead) - 1
        /\ Head(Ahead) = Ahead[1]
        /\ \A i \in 1 .. Len(Ahead) - 1 : Ahead'[i] = Ahead[i + 1]
        /\ Len(Ahead) # 0
    BY <2>1, HeadTailProperties, LenProperties, EmptySeq DEF Ordered
  <2>3. answer' = source[given] /\ answer' \in Past
    <3>1. 1 \in DOMAIN Ahead /\ given + 1 - 1 = given /\ given \in 0 .. taken - 1
      BY <2>2, TakenIsGivenAndAhead DEF Ordered
    <3>2. QED
      BY <1>1, <2>1, <2>2, <3>1 DEF InOrder
  <2>4. ASSUME NEW i \in DOMAIN Ahead'
        PROVE  Ahead'[i] = source'[given' + i - 1]
    <3>1. /\ i + 1 \in DOMAIN Ahead /\ i \in 1 .. Len(Ahead) - 1
          /\ given + (i + 1) - 1 = given' + i - 1
      BY <2>2, TakenIsGivenAndAhead DEF Ordered
    <3>2. QED
      BY <1>1, <2>1, <2>2, <3>1 DEF InOrder
  <2>5. given' = taken' - Len(Ahead') /\ Len(Ahead') <= MaxLookAhead
    BY <2>1, <2>2, TakenIsGivenAndAhead, KeyAssumption DEF Ordered
  <2>6. Ordered'
    BY <1>1, <1>2, <2>1, <2>2, <2>3, <2>4, <2>5 DEF Ordered, InOrder
  <2>7. QED
    BY <1>2, <2>1, <2>3, <2>6
<1>4. CASE NextFromSource(Now)
  <2>1. /\ Ahead = <<>> /\ answer' = source[taken] /\ taken' = taken + 1
        /\ Past' = Past \cup {source[taken]}
        /\ UNCHANGED Ahead
    BY <1>4 DEF NextFromSource, Now
  <2>2. Len(Ahead) = 0 /\ taken = given
    BY <2>1, TakenIsGivenAndAhead, EmptySeq DEF Ordered
  <2>3. Past' = {source'[n] : n \in 0 .. taken' - 1}
    <3>1. \A n : n \in 0 .. taken' - 1 <=> n \in 0 .. taken - 1 \/ n = taken
      BY <1>2, <2>1, <2>2 DEF Ordered
    <3>2. QED
      BY <1>1, <2>1, <3>1 DEF InOrder
  <2>4. /\ given' = taken' - Len(Ahead') /\ taken' \in Nat
        /\ taken' <= MaxGiven + MaxLookAhead
    BY <1>2, <2>1, <2>2, KeyAssumption DEF Ordered
  <2>5. \A i \in DOMAIN Ahead' : Ahead'[i] = source'[given' + i - 1]
    BY <2>1, <2>2, TakenIsGivenAndAhead
  <2>6. answer' \in Past'
    BY <2>1
  <2>7. Ordered'
    BY <1>1, <1>2, <2>1, <2>3, <2>4, <2>5, <2>6 DEF Ordered, InOrder
  <2>8. QED
    BY <1>2, <2>1, <2>2, <2>7
<1>5. QED
  BY <1>3, <1>4

-----------------------------------------------------------------------------
(* A call beside another one.                                              *)

KeysTyped ==
  /\ source \in Source /\ taken \in Nat /\ Past \subseteq AnyKey /\ Ahead \in Seq(AnyKey)
  /\ answer \in AnyKey \cup Contract \cup {Missing}

\* What one of the calls sees are values that the three have had.
SeesKeys(S) ==
  S.taken \subseteq Nat /\ S.Past \subseteq SUBSET AnyKey /\ S.Ahead \subseteq Seq(AnyKey)

\* Whatever it sees, it writes keys, and loses none that were there all along.
LEMMA CallKeeps ==
  ASSUME KeysTyped, source' = source,
         NEW S, SeesKeys(S),
         NEW K, K \subseteq Past, \A P \in S.Past : K \subseteq P,
         \/ NextFromList(S) \/ NextFromSource(S)
         \/ \E a \in Contract : Lookup(S, a)
  PROVE  KeysTyped' /\ K \subseteq Past'
<1>1. AnyKey' = AnyKey
  BY DEF AnyKey
<1>2. CASE NextFromList(S)
  <2>1. PICK q \in S.Ahead : q # <<>> /\ answer' = Head(q) /\ Ahead' = Tail(q)
    BY <1>2 DEF NextFromList
  <2>2. Ahead' \in Seq(AnyKey) /\ answer' \in AnyKey
    BY <2>1, HeadTailProperties DEF SeesKeys
  <2>3. QED
    BY <1>1, <1>2, <2>2 DEF NextFromList, KeysTyped
<1>3. CASE NextFromSource(S)
  <2>1. PICK n \in S.taken, P \in S.Past :
          /\ n \in DOMAIN source /\ answer' = source[n] /\ taken' = n + 1
          /\ Past' = P \cup {source[n]} /\ Ahead' = Ahead
    BY <1>3 DEF NextFromSource
  <2>2. source[n] \in AnyKey
    BY <2>1 DEF AnyKey
  <2>3. QED
    BY <1>1, <2>1, <2>2 DEF SeesKeys, KeysTyped
<1>4. ASSUME NEW a \in Contract, Lookup(S, a) PROVE KeysTyped' /\ K \subseteq Past'
  <2>1. CASE Finds(S, a)
    BY <1>1, <2>1 DEF Finds, memory, KeysTyped
  <2>2. CASE LooksAhead(S, a)
    <3>1. PICK q \in S.Ahead, n \in S.taken, P \in S.Past :
            /\ n <= MaxGiven + Len(q)
            /\ Ahead' = q \o Fresh(q, n)
            /\ taken' = n + Len(Fresh(q, n))
            /\ Past' = P \cup ToSet(Fresh(q, n))
      BY <2>2 DEF LooksAhead
    <3>2. /\ Fresh(q, n) \in Seq(AnyKey) /\ ToSet(Fresh(q, n)) \subseteq AnyKey
          /\ q \in Seq(AnyKey) /\ n \in Nat
      BY <3>1, FreshIsKeys DEF SeesKeys, KeysTyped
    <3>3. Ahead' \in Seq(AnyKey) /\ taken' \in Nat
      BY <3>1, <3>2, ConcatProperties, LenProperties
    <3>4. Past' \subseteq AnyKey /\ K \subseteq Past' /\ answer' = Missing
      BY <2>2, <3>1, <3>2 DEF SeesKeys, LooksAhead
    <3>5. QED
      BY <1>1, <3>3, <3>4 DEF KeysTyped
  <2>3. QED
    BY <1>4, <2>1, <2>2 DEF Lookup
<1>5. QED
  BY <1>2, <1>3, <1>4

\* Both what is there now and what was there at the begin of a call are keys.
LEMMA CallsSeeKeys ==
  ASSUME KeyInv
  PROVE  KeysTyped /\ SeesKeys(Now) /\ \A c \in Busy : SeesKeys(Seen(c))
<1>1. KeysTyped /\ SeesKeys(Now)
  BY DEF KeyInv, TypeOK, KeysTyped, SeesKeys, Now
<1>2. ASSUME NEW c \in Busy PROVE SeesKeys(Seen(c))
  <2>1. begun[c][1] \in Nat /\ begun[c][2] \in SUBSET AnyKey /\ begun[c][3] \in Seq(AnyKey)
    BY DEF KeyInv, TypeOK
  <2>2. QED
    BY <1>1, <2>1 DEF SeesKeys, Seen, Now
<1>3. QED
  BY <1>1, <1>2

-----------------------------------------------------------------------------
(* The invariant.                                                          *)

\* At first no key was taken and no contract is in the book.
LEMMA KeyInitially == Init => KeyInv
<1> SUFFICES ASSUME Init PROVE KeyInv
  OBVIOUS
<1>1. /\ Ahead = <<>> /\ Len(Ahead) = 0 /\ DOMAIN Ahead = {} /\ Ahead \in Seq(AnyKey)
      /\ 0 .. taken - 1 = {}
  BY EmptySeq DEF Init
<1>2. Busy = {} /\ \A c \in Caller : call[c] # NextKey
  BY DEF Init, Busy, NextKey, Idle
<1>3. InOrder
  BY <1>1, KeyAssumption DEF Init, InOrder
<1>4. TypeOK
  BY <1>1, <1>2, <1>3 DEF Init, TypeOK
<1>5. CalmIsAlone /\ KeptContractsHaveKeys
  BY <1>2, KeyAssumption DEF Init, CalmIsAlone, KeptContractsHaveKeys
<1>6. QED
  BY <1>2, <1>4, <1>5 DEF Init, KeyInv

\* A call begins with what is there, and two calls are no longer calm.
LEMMA BeginKeeps ==
  ASSUME KeyInv, NEW c \in Caller,
         BeginsNext(c) \/ \E a \in Contract : BeginsLookup(c, a)
  PROVE  KeyInv'
<1>1. PICK what \in {NextKey} \cup {KeyOf(a) : a \in Contract} :
        Begins(c, what) /\ (what = NextKey => given < MaxGiven)
  BY CallsDiffer DEF BeginsNext, BeginsLookup
<1>2. /\ todo = {} /\ call[c] = Idle
      /\ call' = [call EXCEPT ![c] = what]
      /\ begun' = [begun EXCEPT ![c] = memory]
      /\ calm' = (calm /\ Busy = {})
      /\ UNCHANGED <<source, taken, Past, Ahead, answer, book, todo, heard, given>>
  BY <1>1 DEF Begins, memory, useVars
<1>3. /\ call \in [Caller -> {Idle, NextKey} \cup {KeyOf(a) : a \in Contract}]
      /\ begun = [d \in Caller |-> begun[d]]
  BY DEF KeyInv, TypeOK
<1>4. what # Idle
  BY <1>1, CallsDiffer
<1>5. /\ Busy' = Busy \cup {c} /\ c \notin Busy
      /\ begun'[c] = memory /\ \A d \in Busy : begun'[d] = begun[d]
      /\ begun' = [d \in Caller |-> begun'[d]]
  BY <1>2, <1>3, <1>4 DEF Busy
<1>6. AnyKey' = AnyKey /\ memory' = memory /\ InOrder' = InOrder
  BY <1>2 DEF AnyKey, memory, InOrder
<1>7. memory \in Nat \X (SUBSET AnyKey) \X Seq(AnyKey) /\ memory[2] = Past
  BY DEF KeyInv, TypeOK, memory
<1>8. TypeOK'
  <2>1. call' \in [Caller -> {Idle, NextKey} \cup {KeyOf(a) : a \in Contract}]
    BY <1>2, <1>3
  <2>2. \A d \in Busy' : begun'[d] \in Nat \X (SUBSET AnyKey) \X Seq(AnyKey)
    BY <1>5, <1>7 DEF KeyInv, TypeOK
  <2>3. calm' \in BOOLEAN /\ (calm' => InOrder')
    BY <1>2, <1>6 DEF KeyInv, TypeOK
  <2>4. QED
    BY <1>2, <1>6, <2>1, <2>2, <2>3 DEF KeyInv, TypeOK
<1>9. CalmIsAlone'
  <2> SUFFICES ASSUME calm' PROVE /\ given' \in 0 .. MaxGiven
                                  /\ \A d \in Busy' : Busy' = {d} /\ begun'[d] = memory'
                                  /\ \A d \in Caller : call'[d] = NextKey => given' < MaxGiven
    BY DEF CalmIsAlone
  <2>1. calm /\ Busy = {} /\ Busy' = {c} /\ given \in 0 .. MaxGiven
    BY <1>2, <1>5 DEF KeyInv, CalmIsAlone
  <2>2. ASSUME NEW d \in Caller, call'[d] = NextKey PROVE given < MaxGiven
    BY <1>1, <1>2, <1>3, <2>2 DEF KeyInv, CalmIsAlone
  <2>3. QED
    BY <1>2, <1>5, <1>6, <2>1, <2>2
<1>10. KeptContractsHaveKeys'
  BY <1>2, <1>5, <1>7 DEF KeyInv, KeptContractsHaveKeys
<1>11. QED
  BY <1>2, <1>5, <1>8, <1>9, <1>10 DEF KeyInv

\* A call that is alone ends with the keys in order; one that is not has seen,
\* for each contract that update_jobs left in the book, a map with its key.
LEMMA EndKeeps ==
  ASSUME KeyInv, NEW c \in Caller,
         EndsNext(c) \/ \E a \in Contract : EndsLookup(c, a)
  PROVE  KeyInv'
<1>1. /\ c \in Busy
      /\ call' = [call EXCEPT ![c] = Idle] /\ begun' = [begun EXCEPT ![c] = <<>>]
      /\ UNCHANGED <<source, book, todo, heard, calm>>
      /\ \/ /\ call[c] = NextKey /\ given' = given + 1
            /\ NextFromList(Seen(c)) \/ NextFromSource(Seen(c))
         \/ given' = given /\ \E a \in Contract : Lookup(Seen(c), a)
  <2>1. c \in Busy
    BY CallsDiffer DEF EndsNext, EndsLookup, Busy
  <2>2. QED
    BY <2>1 DEF EndsNext, EndsLookup, Ends, useVars
<1>2. /\ call \in [Caller -> {Idle, NextKey} \cup {KeyOf(a) : a \in Contract}]
      /\ begun = [d \in Caller |-> begun[d]]
      /\ todo = {}
  BY <1>1 DEF KeyInv, TypeOK
<1>3. /\ Busy' = Busy \ {c} /\ begun' = [d \in Caller |-> begun'[d]]
      /\ \A d \in Busy' : begun'[d] = begun[d]
  BY <1>1, <1>2 DEF Busy
<1>4. AnyKey' = AnyKey
  BY <1>1 DEF AnyKey
<1>5. KeysTyped' /\ book \ heard \subseteq Past'
  <2>1. book \ heard \subseteq Past /\ \A P \in Seen(c).Past : book \ heard \subseteq P
    BY <1>1, <1>2 DEF KeyInv, KeptContractsHaveKeys, Seen
  <2>2. QED
    BY <1>1, <2>1, CallKeeps, CallsSeeKeys
<1>6. calm => Ordered'
  <2>1. CASE calm /\ call[c] = NextKey /\ given' = given + 1
             /\ (NextFromList(Seen(c)) \/ NextFromSource(Seen(c)))
    BY <1>1, <2>1, CalmSees, NextStep
  <2>2. CASE calm /\ given' = given /\ \E a \in Contract : Lookup(Seen(c), a)
    BY <1>1, <2>2, CalmSees, LookupStep
  <2>3. QED
    BY <1>1, <2>1, <2>2
<1>7. TypeOK'
  <2>1. call' \in [Caller -> {Idle, NextKey} \cup {KeyOf(a) : a \in Contract}]
    BY <1>1, <1>2
  <2>2. \A d \in Busy' : begun'[d] \in Nat \X (SUBSET AnyKey) \X Seq(AnyKey)
    BY <1>3 DEF KeyInv, TypeOK
  <2>3. calm' \in BOOLEAN /\ (calm' => InOrder')
    BY <1>1, <1>6 DEF KeyInv, TypeOK, Ordered
  <2>4. QED
    BY <1>1, <1>4, <1>5, <2>1, <2>2, <2>3 DEF KeyInv, TypeOK, KeysTyped
<1>8. CalmIsAlone'
  <2> SUFFICES ASSUME calm PROVE /\ given' \in 0 .. MaxGiven
                                 /\ Busy' = {} /\ \A d \in Caller : call'[d] # NextKey
    BY <1>1 DEF CalmIsAlone
  <2>1. Busy' = {}
    BY <1>1, <1>3, CalmSees
  <2>2. \A d \in Caller : call'[d] = Idle
    BY <2>1 DEF Busy
  <2>3. given' \in 0 .. MaxGiven
    BY <1>6 DEF Ordered
  <2>4. QED
    BY <2>1, <2>2, <2>3, CallsDiffer
<1>9. KeptContractsHaveKeys'
  BY <1>1, <1>2, <1>3, <1>5 DEF KeyInv, KeptContractsHaveKeys
<1>10. QED
  BY <1>1, <1>2, <1>3, <1>7, <1>8, <1>9 DEF KeyInv

\* update_jobs keeps a contract only when its key is there.
LEMMA FilterKeeps ==
  ASSUME KeyInv, NEW a \in Contract, Filter(a)
  PROVE  KeyInv'
<1>1. /\ a \in todo /\ Lookup(Now, a) /\ todo' = todo \ {a}
      /\ book' = IF answer' = Missing THEN book \ {a} ELSE book
      /\ UNCHANGED <<source, call, begun, heard, given, calm>>
  BY DEF Filter
<1>2. Busy = {} /\ Busy' = {} /\ heard = {}
  BY <1>1 DEF KeyInv, Busy
<1>3. AnyKey' = AnyKey
  BY <1>1 DEF AnyKey
<1>4. KeysTyped' /\ book \ todo \subseteq Past'
  <2>1. book \ todo \subseteq Past /\ \A P \in Now.Past : book \ todo \subseteq P
    BY <1>2 DEF KeyInv, KeptContractsHaveKeys, Now
  <2>2. QED
    BY <1>1, <2>1, CallKeeps, CallsSeeKeys
<1>5. answer' # Missing => a \in Past'
  BY <1>1 DEF Lookup, Finds, LooksAhead, Now, memory
<1>6. calm => Ordered'
  BY <1>1, CalmSees, LookupStep
<1>7. TypeOK'
  <2>1. todo' \subseteq book' /\ heard' \subseteq book' /\ book' \subseteq Contract
    <3>1. CASE answer' = Missing
      BY <1>1, <1>2, <3>1 DEF KeyInv, TypeOK
    <3>2. CASE answer' # Missing
      BY <1>1, <1>2, <3>2 DEF KeyInv, TypeOK
    <3>3. QED
      BY <3>1, <3>2
  <2>2. calm' \in BOOLEAN /\ (calm' => InOrder')
    BY <1>1, <1>6 DEF KeyInv, TypeOK, Ordered
  <2>3. QED
    BY <1>1, <1>2, <1>3, <1>4, <2>1, <2>2 DEF KeyInv, TypeOK, KeysTyped
<1>8. CalmIsAlone'
  BY <1>1, <1>2 DEF KeyInv, CalmIsAlone
<1>9. KeptContractsHaveKeys'
  <2>1. book' \ (todo' \cup heard') \subseteq Past'
    <3>1. CASE answer' = Missing
      BY <1>1, <1>4, <3>1
    <3>2. CASE answer' # Missing
      BY <1>1, <1>4, <1>5, <3>2
    <3>3. QED
      BY <3>1, <3>2
  <2>2. QED
    BY <1>2, <2>1 DEF KeptContractsHaveKeys
<1>10. QED
  BY <1>1, <1>2, <1>7, <1>8, <1>9 DEF KeyInv

\* The book changes without the keys; a new book is all still to be looked up.
LEMMA BookKeeps ==
  ASSUME KeyInv,
         \/ \E C \in SUBSET Contract : UpdateJobs(C)
         \/ \E a \in Contract : NewContract(a) \/ Solved(a)
         \/ UNCHANGED vars
  PROVE  KeyInv'
<1>1. UNCHANGED <<source, taken, Past, Ahead, answer, call, begun, given, calm>>
  BY DEF UpdateJobs, NewContract, Solved, vars, memory
<1>2. AnyKey' = AnyKey /\ InOrder' = InOrder /\ Busy' = Busy /\ CalmIsAlone' = CalmIsAlone
  BY <1>1 DEF AnyKey, InOrder, Busy, CalmIsAlone, memory
<1>3. /\ todo' \subseteq book' /\ heard' \subseteq book' /\ book' \subseteq Contract
      /\ todo' # {} => Busy = {} /\ heard' = {}
      /\ book' \ (todo' \cup heard') \subseteq book \ (todo \cup heard)
      /\ Busy # {} => book' \ heard' \subseteq book \ heard
  BY DEF KeyInv, TypeOK, UpdateJobs, NewContract, Solved, vars, useVars
<1>4. TypeOK'
  BY <1>1, <1>2, <1>3 DEF KeyInv, TypeOK
<1>5. KeptContractsHaveKeys'
  BY <1>1, <1>2, <1>3 DEF KeyInv, KeptContractsHaveKeys
<1>6. QED
  BY <1>1, <1>2, <1>3, <1>4, <1>5 DEF KeyInv

LEMMA KeyStep == ASSUME KeyInv, [Next]_vars PROVE KeyInv'
BY BeginKeeps, EndKeeps, FilterKeeps, BookKeeps DEF Next

\* KeyInv holds in every state, for any sources, contracts and look-ahead, with
\* the two callers of src/jobs.cpp at once.
THEOREM KeyInvariant == Spec => []KeyInv
<1>1. QED
  BY KeyInitially, KeyStep, PTL DEF Spec

\* The key database has given out or keeps in its list every key it took, in
\* their order, until two calls overlap; it never holds anything but keys.
THEOREM KeyTypeCorrect == Spec => []TypeOK
<1>1. KeyInv => TypeOK
  BY DEF KeyInv
<1>2. QED
  BY <1>1, KeyInvariant, PTL

\* Every contract that update_jobs leaves in the book has a key that operator []
\* finds, in whatever order the contracts were looked up (src/miner.cpp), also
\* after the worker and the IO thread have written over each other's keys.
THEOREM KeptContractsAreServed == Spec => []KeptContractsHaveKeys
<1>1. KeyInv => KeptContractsHaveKeys
  BY DEF KeyInv
<1>2. QED
  BY <1>1, KeyInvariant, PTL

\* A key within the look-ahead that was missing is there when it is looked up
\* again, although the lookup itself answered that there is none, as long as no
\* two calls have overlapped.
THEOREM ReachIsFilled == Spec => FoundWhenAskedAgain
<1> DEFINE A == \A a \in Contract :
       calm /\ (Filter(a) \/ \E c \in Caller : EndsLookup(c, a)) /\ answer' = Missing /\ WithinReach(a)
         => a \in Past'
<1>1. ASSUME KeyInv, [Next]_vars PROVE A
  <2> SUFFICES ASSUME NEW a \in Contract, calm, Filter(a) \/ \E c \in Caller : EndsLookup(c, a),
                      answer' = Missing,
                      NEW n \in given .. given + MaxLookAhead - 1, source[n] = a
               PROVE  a \in Past'
    BY DEF WithinReach
  <2>1. Lookup(Now, a) /\ UNCHANGED <<source, given>>
    <3>1. CASE Filter(a)
      BY <3>1 DEF Filter
    <3>2. ASSUME NEW c \in Caller, EndsLookup(c, a) PROVE Lookup(Now, a) /\ UNCHANGED <<source, given>>
      <4>1. c \in Busy
        BY <3>2, CallsDiffer DEF EndsLookup, Busy
      <4>2. QED
        BY <1>1, <3>2, <4>1, CalmSees DEF EndsLookup, Ends
    <3>3. QED
      BY <3>1, <3>2
  <2>2. Ordered' /\ Ordered /\ given + MaxLookAhead = taken'
    BY <1>1, <2>1, CalmSees, LookupStep
  <2>3. n \in 0 .. taken' - 1
    <3>1. given \in Nat /\ MaxLookAhead \in Nat
      BY <2>2, KeyAssumption DEF Ordered
    <3>2. QED
      BY <2>2, <3>1
  <2>4. QED
    BY <2>1, <2>2, <2>3 DEF Ordered, InOrder
<1>2. QED
  BY <1>1, KeyInvariant, PTL DEF Spec, FoundWhenAskedAgain

-----------------------------------------------------------------------------
(* The refinement.                                                         *)

\* The look-ahead is invisible: whatever it takes from the source, each key is
\* given out in its turn, and what was given out is found (src/jobs.cpp), until
\* two calls overlap.
THEOREM KeysImplementKeyRing == Spec => ImplementsKeyRing
<1>1. Init => Promise!Init
  BY DEF Init, Promise!Init
<1>2. ASSUME KeyInv, calm, NEW a \in Contract, Lookup(Now, a), UNCHANGED <<source, given, calm>>
      PROVE  Promise!Find(a)
  <2>1. Ordered /\ IF answer' = Missing THEN a \notin Past ELSE answer' = a /\ a \in Past
    BY <1>2, CalmSees, LookupStep
  <2>2. /\ Past = {source[n] : n \in 0 .. taken - 1}
        /\ 0 .. taken - 1 \subseteq DOMAIN source
        /\ 0 .. given - 1 \subseteq 0 .. taken - 1
    BY <2>1, TakenIsGivenAndAhead, KeyAssumption DEF Ordered, InOrder
  <2>3. Promise!GivenOut \subseteq Past
    BY <2>2 DEF Promise!GivenOut
  <2>4. a \in Past => \E n \in DOMAIN source : source[n] = a
    BY <2>2
  <2>5. QED
    BY <1>2, <2>1, <2>3, <2>4 DEF Promise!Find
<1>3. ASSUME KeyInv, [Next]_vars PROVE [Promise!Next]_(Promise!keyRingVars)
  <2>1. calm \in BOOLEAN /\ calm' \in BOOLEAN
    BY <1>3, KeyStep DEF KeyInv, TypeOK
  <2>2. CASE calm' = FALSE
    BY <2>2 DEF Promise!Next, Promise!Overlap
  <2>3. ASSUME NEW c \in Caller, BeginsNext(c) \/ \E a \in Contract : BeginsLookup(c, a), calm' = calm
        PROVE  UNCHANGED Promise!keyRingVars
    BY <2>3 DEF BeginsNext, BeginsLookup, Begins, Promise!keyRingVars
  <2>4. ASSUME NEW c \in Caller, EndsNext(c), calm, calm' = calm PROVE Promise!Give
    <3>1. call[c] = NextKey
      BY <2>4 DEF EndsNext
    <3>2. c \in Busy
      BY <3>1, CallsDiffer DEF Busy
    <3>3. /\ NextFromList(Now) \/ NextFromSource(Now)
          /\ source' = source /\ given' = given + 1
      BY <1>3, <2>4, <3>2, CalmSees DEF EndsNext, Ends
    <3>4. given \in DOMAIN source /\ answer' = source[given]
      BY <1>3, <2>4, <3>1, <3>3, CalmSees, NextStep
    <3>5. QED
      BY <2>4, <3>3, <3>4 DEF Promise!Give
  <2>5. ASSUME NEW a \in Contract, calm, Filter(a) PROVE Promise!Find(a)
    BY <1>2, <1>3, <2>5 DEF Filter
  <2>6. ASSUME NEW c \in Caller, NEW a \in Contract, EndsLookup(c, a), calm, calm' = calm
        PROVE  Promise!Find(a)
    <3>1. c \in Busy
      BY <2>6, CallsDiffer DEF EndsLookup, Busy
    <3>2. Lookup(Now, a) /\ UNCHANGED <<source, given, calm>>
      BY <1>3, <2>6, <3>1, CalmSees DEF EndsLookup, Ends
    <3>3. QED
      BY <1>2, <1>3, <2>6, <3>2
  <2>7. ASSUME \/ \E C \in SUBSET Contract : UpdateJobs(C)
               \/ \E a \in Contract : NewContract(a) \/ Solved(a)
               \/ UNCHANGED vars
        PROVE  UNCHANGED Promise!keyRingVars
    BY <2>7 DEF UpdateJobs, NewContract, Solved, vars, Promise!keyRingVars
  <2>8. CASE calm' /\ calm' = calm
    BY <1>3, <2>3, <2>4, <2>5, <2>6, <2>7, <2>8 DEF Next, Promise!Next
  <2>9. calm' => calm
    BY <1>3, <2>1 DEF Next, UpdateJobs, Filter, NewContract, Solved, BeginsNext, EndsNext,
         BeginsLookup, EndsLookup, Begins, Ends, vars
  <2>10. QED
    BY <2>1, <2>2, <2>8, <2>9
<1>4. QED
  BY <1>1, <1>3, KeyInvariant, PTL DEF Spec, ImplementsKeyRing, Promise!Spec
=============================================================================
