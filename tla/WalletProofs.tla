---------------------------- MODULE WalletProofs ----------------------------
(***************************************************************************)
(* What Wallet promises for any coins, keys and look-ahead.                *)
(***************************************************************************)
EXTENDS Wallet, SequenceTheorems, TLAPS

Saving == pc \in {"ready", "open"}

\* The wallet that the file will hold if the running command goes on.
Current ==
  IF Saving THEN todo[Len(todo)]
  ELSE IF pc \in {"broadcast", "scan"} THEN w
  ELSE IF file \in Wallet THEN file ELSE NewWallet

\* What a command has in memory when it is at each of its steps.
CommandInOrder ==
  /\ pc = "idle" => w = NewWallet /\ empty = 0
  /\ pc = "scan" => "restored" \in past
  /\ pc = "broadcast" => \A c \in tx.Change : KeyOf[c] = w.Index

\* boost writes the wallet it has read last, with none of the change.
CurrentExists == "failed" \notin past => Current.Prevouts \subseteq Born \cup imported

\* The keys in use end at the index, with or without the key at it: that one is
\* used when boost has given it to its change and then taken the index back.
KeysUpToIndex ==
  past = {} => /\ 0 .. Current.Index - 1 \subseteq UsedKeys
               /\ UsedKeys \subseteq 0 .. Current.Index

\* No coin is spent while restore runs, so that it has found those of the keys
\* it has passed, of which the last ones had none.
ScanInOrder ==
  pc = "scan" =>
    /\ known \subseteq {c \in Unspent : KeyOf[c] # Foreign}
    /\ empty <= w.Index
    /\ \A c \in known : KeyOf[c] < w.Index => c \in w.Prevouts
    /\ \A c \in known : KeyOf[c] \notin w.Index - empty .. w.Index - 1

WalletInv ==
  /\ TypeOK
  /\ CommandInOrder /\ CurrentExists /\ KeysUpToIndex /\ ScanInOrder

-----------------------------------------------------------------------------
(* Lemmas.                                                                 *)

IndexFits(i, K) == 0 .. i - 1 \subseteq K /\ K \subseteq 0 .. i

\* What is derived from the block chain changes only with it.
LEMMA ChainStays ==
  ASSUME UNCHANGED <<chain, printed>>
  PROVE  Unspent' = Unspent /\ Born' = Born /\ UsedKeys' = UsedKeys
  BY DEF Unspent, Born, UsedKeys

\* The first and the last wallet of a sequence that is not empty.
LEMMA LastIsWallet ==
  ASSUME NEW s \in Seq(Wallet), s # <<>>
  PROVE  Len(s) \in Nat \ {0} /\ s[Len(s)] \in Wallet /\ s[1] \in Wallet /\ Head(s) = s[1]
  BY EmptySeq, LenProperties, ElementOfSeq, HeadTailProperties

\* There is always a wallet that the file will hold.
LEMMA CurrentIsWallet == ASSUME TypeOK PROVE Current \in Wallet
<1>1. CASE Saving
  <2>1. todo \in Seq(Wallet) /\ todo # <<>>
    BY <1>1 DEF Saving, TypeOK
  <2>2. QED
    BY <1>1, <2>1, LastIsWallet DEF Current
<1>2. CASE ~Saving
  BY <1>2 DEF Current, TypeOK, NewWallet, Wallet
<1>3. QED
  BY <1>1, <1>2

-----------------------------------------------------------------------------
(* The steps.                                                              *)

\* Before generate there is no coin and no key in use.
LEMMA WalletInitially == Init => WalletInv
<1> SUFFICES ASSUME Init PROVE WalletInv
  OBVIOUS
<1>1. TypeOK
  BY WalletAssumption, EmptySeq DEF Init, TypeOK, NewWallet, Wallet, NoTx
<1>2. Current = NewWallet /\ UsedKeys = {} /\ Born = {}
  BY WalletAssumption DEF Init, Current, Saving, UsedKeys, Born
<1>3. CommandInOrder /\ ScanInOrder
  BY DEF Init, CommandInOrder, ScanInOrder
<1>4. CurrentExists /\ KeysUpToIndex
  BY <1>2 DEF CurrentExists, KeysUpToIndex, NewWallet
<1>5. QED
  BY <1>1, <1>3, <1>4 DEF WalletInv

\* A command that goes on to write has to show what it does to its wallet.
LEMMA SaveStep ==
  ASSUME WalletInv, NEW vs \in Seq(Wallet), vs # <<>>, Saves(vs),
         file' \in Wallet \cup {NoFile, Torn}, chain' \in [Coin -> {"unborn", "unspent", "spent"}],
         form' \in {"outpoint", "txid"}, printed' \subseteq Key, imported' \subseteq Coin, past' = past,
         "failed" \notin past => vs[Len(vs)].Prevouts \subseteq Born' \cup imported',
         past = {} => IndexFits(vs[Len(vs)].Index, UsedKeys')
  PROVE  WalletInv'
<1>1. pc' = "ready" /\ todo' = vs /\ UNCHANGED <<w, tx, empty, known>>
  BY DEF Saves
<1>2. TypeOK'
  BY <1>1 DEF WalletInv, TypeOK
<1>3. Current' = vs[Len(vs)]
  BY <1>1 DEF Current, Saving
<1>4. CommandInOrder' /\ ScanInOrder'
  BY <1>1 DEF CommandInOrder, ScanInOrder
<1>5. CurrentExists' /\ KeysUpToIndex'
  BY <1>3 DEF CurrentExists, KeysUpToIndex, IndexFits
<1>6. QED
  BY <1>2, <1>4, <1>5 DEF WalletInv

\* The file is truncated before it is written.  While it is, what the command
\* has still to write is the wallet to be.
LEMMA OpenStep == ASSUME WalletInv, Open PROVE WalletInv'
<1>1. /\ pc = "ready" /\ pc' = "open" /\ file' = Torn
      /\ UNCHANGED <<form, chain, printed, todo, w, tx, empty, known, imported, past>>
  BY DEF Open, running
<1>2. TypeOK'
  BY <1>1 DEF WalletInv, TypeOK
<1>3. Current' = Current
  BY <1>1 DEF Current, Saving
<1>4. CommandInOrder' /\ ScanInOrder'
  BY <1>1 DEF CommandInOrder, ScanInOrder
<1>5. CurrentExists' /\ KeysUpToIndex'
  BY <1>1, <1>3, ChainStays DEF WalletInv, CurrentExists, KeysUpToIndex
<1>6. QED
  BY <1>2, <1>4, <1>5 DEF WalletInv

\* The file gets the first wallet to write, which is Current if it is the last.
LEMMA WriteStep == ASSUME WalletInv, Write PROVE WalletInv'
<1>1. /\ pc = "open" /\ file' = Head(todo) /\ form' = "outpoint"
      /\ UNCHANGED <<chain, printed, imported, past>>
      /\ todo \in Seq(Wallet) /\ todo # <<>>
  BY DEF Write, WalletInv, TypeOK
<1>2. /\ Len(todo) \in Nat \ {0} /\ Head(todo) = todo[1] /\ Head(todo) \in Wallet
      /\ Current = todo[Len(todo)]
  BY <1>1, LastIsWallet DEF Current, Saving
<1>3. CASE Len(todo) = 1
  <2>1. /\ pc' = "idle" /\ todo' = <<>> /\ w' = NewWallet /\ tx' = NoTx /\ empty' = 0 /\ known' = {}
    BY <1>3 DEF Write, Ends
  <2>2. TypeOK'
    BY <1>1, <1>2, <2>1, WalletAssumption, EmptySeq DEF WalletInv, TypeOK, NewWallet, Wallet, NoTx
  <2>3. Current' = Current
    BY <1>1, <1>2, <1>3, <2>1, WalletAssumption DEF Current, Saving
  <2>4. CommandInOrder' /\ ScanInOrder'
    BY <2>1 DEF CommandInOrder, ScanInOrder
  <2>5. CurrentExists' /\ KeysUpToIndex'
    BY <1>1, <2>3, ChainStays DEF WalletInv, CurrentExists, KeysUpToIndex
  <2>6. QED
    BY <2>2, <2>4, <2>5 DEF WalletInv
<1>4. CASE Len(todo) # 1
  <2> DEFINE vs == Tail(todo)
  <2>1. Saves(vs)
    BY <1>4 DEF Write
  <2>2. vs \in Seq(Wallet) /\ Len(vs) = Len(todo) - 1 /\ vs[Len(vs)] = todo[Len(todo)]
    <3>1. /\ vs \in Seq(Wallet) /\ Len(vs) = Len(todo) - 1
          /\ \A i \in 1 .. Len(vs) : vs[i] = todo[i + 1]
      BY <1>1, HeadTailProperties
    <3>2. Len(vs) \in 1 .. Len(vs) /\ Len(vs) + 1 = Len(todo)
      BY <1>2, <1>4, <3>1
    <3>3. QED
      BY <3>1, <3>2
  <2>3. vs # <<>>
    <3> SUFFICES ASSUME vs = <<>> PROVE FALSE
      OBVIOUS
    <3>1. Len(vs) = 0
      OBVIOUS
    <3> HIDE DEF vs
    <3>2. QED
      BY <1>2, <1>4, <2>2, <3>1
  <2> HIDE DEF vs
  <2>4. QED
    BY <1>1, <1>2, <2>1, <2>2, <2>3, SaveStep, ChainStays
    DEF WalletInv, TypeOK, CurrentExists, KeysUpToIndex, IndexFits
<1>5. QED
  BY <1>3, <1>4

\* A command that fails leaves the file torn, or an older wallet: nothing is promised then.
LEMMA FailStep == ASSUME WalletInv, Fails PROVE WalletInv'
<1>1. /\ pc' = "idle" /\ todo' = <<>> /\ w' = NewWallet /\ tx' = NoTx /\ empty' = 0 /\ known' = {}
      /\ past' = past \cup {"failed"} /\ UNCHANGED <<file, form, chain, printed, imported>>
  BY DEF Fails, Ends, stored
<1>2. TypeOK'
  BY <1>1, WalletAssumption, EmptySeq DEF WalletInv, TypeOK, NewWallet, Wallet, NoTx
<1>3. QED
  BY <1>1, <1>2 DEF WalletInv, CommandInOrder, CurrentExists, KeysUpToIndex, ScanInOrder

\* The commands that only rewrite the file, at most with the next index or with
\* a coin that is imported.
LEMMA RewriteStep ==
  ASSUME WalletInv, Generate \/ Receive \/ Send \/ \E c \in Coin : Import(c)
  PROVE  WalletInv'
<1> USE DEF Begins
<1>1. /\ TypeOK /\ pc = "idle" /\ file \in Wallet \cup {NoFile, Torn}
      /\ chain \in [Coin -> {"unborn", "unspent", "spent"}] /\ printed \subseteq Key
      /\ form' \in {"outpoint", "txid"} /\ imported \subseteq imported' /\ imported' \subseteq Coin
      /\ past' = past /\ file' = file /\ chain' = chain
  BY DEF Generate, Receive, Send, Import, WalletInv, TypeOK, stored
<1>2. Readable => Current = file /\ file \in Wallet
  BY <1>1 DEF Current, Saving, Readable
<1>3. Readable => file.Prevouts \subseteq Coin /\ file.Index \in Nat
  BY <1>2 DEF Wallet
<1>4. /\ "failed" \notin past => Current.Prevouts \subseteq Born \cup imported
      /\ past = {} => IndexFits(Current.Index, UsedKeys)
  BY DEF WalletInv, CurrentExists, KeysUpToIndex, IndexFits
<1>5. CASE Generate
  <2>1. Current = NewWallet /\ NewWallet \in Wallet /\ printed' = printed
    BY <1>1, <1>5, WalletAssumption
    DEF Generate, Current, Saving, NewWallet, Wallet, stored
  <2>2. <<NewWallet>> \in Seq(Wallet) /\ <<NewWallet>> # <<>>
        /\ <<NewWallet>>[Len(<<NewWallet>>)] = NewWallet
    BY <2>1
  <2>3. Saves(<<NewWallet>>)
    BY <1>5 DEF Generate
  <2>4. QED
    BY <1>1, <1>4, <2>1, <2>2, <2>3, SaveStep, ChainStays
<1>6. CASE Receive
  <2> DEFINE v == NextIndex(file)
  <2>1. /\ v \in Wallet /\ v.Prevouts = file.Prevouts /\ v.Index = file.Index + 1
        /\ file.Index \in Key /\ printed' = printed \cup {file.Index} /\ Saves(<<v>>)
    BY <1>2, <1>6 DEF Receive, NextIndex, Wallet
  <2>2. Born' = Born /\ UsedKeys' = UsedKeys \cup {file.Index}
    BY <1>1, <2>1, WalletAssumption DEF Born, UsedKeys, Key
  <2>3. past = {} => IndexFits(v.Index, UsedKeys')
    BY <1>2, <1>3, <1>4, <1>6, <2>1, <2>2 DEF Receive, IndexFits
  <2>4. "failed" \notin past => v.Prevouts \subseteq Born' \cup imported'
    BY <1>1, <1>2, <1>4, <1>6, <2>1, <2>2 DEF Receive
  <2> HIDE DEF v
  <2>5. <<v>> \in Seq(Wallet) /\ <<v>> # <<>> /\ <<v>>[Len(<<v>>)] = v
    BY <2>1
  <2>6. QED
    BY <1>1, <2>1, <2>3, <2>4, <2>5, SaveStep
<1>7. CASE Send
  <2>1. <<file>> \in Seq(Wallet) /\ <<file>> # <<>> /\ <<file>>[Len(<<file>>)] = file
    BY <1>2, <1>7 DEF Send
  <2>2. Saves(<<file>>) /\ printed' = printed /\ Current = file
    BY <1>2, <1>7 DEF Send, stored
  <2>3. QED
    BY <1>1, <1>4, <2>1, <2>2, SaveStep, ChainStays
<1>8. ASSUME NEW c \in Coin, Import(c) PROVE WalletInv'
  <2> DEFINE v == Insert(file, {c})
  <2>1. /\ v \in Wallet /\ v.Prevouts = file.Prevouts \cup {c} /\ v.Index = file.Index
        /\ c \in Born \cup imported' /\ printed' = printed /\ Saves(<<v>>) /\ Current = file
    BY <1>2, <1>8 DEF Import, Insert, Wallet, stored
  <2>2. past = {} => IndexFits(v.Index, UsedKeys')
    BY <1>1, <1>4, <2>1, ChainStays
  <2>3. "failed" \notin past => v.Prevouts \subseteq Born' \cup imported'
    BY <1>1, <1>4, <2>1, ChainStays
  <2> HIDE DEF v
  <2>4. <<v>> \in Seq(Wallet) /\ <<v>> # <<>> /\ <<v>>[Len(<<v>>)] = v
    BY <2>1
  <2>5. QED
    BY <1>1, <2>1, <2>2, <2>3, <2>4, SaveStep
<1>9. QED
  BY <1>5, <1>6, <1>7, <1>8

\* boost takes coins of its wallet, and the next key for the change.
LEMMA SpendStep ==
  ASSUME WalletInv, NEW S \in SUBSET Coin, NEW change \in Coin, Spend(S, change)
  PROVE  WalletInv'
<1>1. /\ pc = "idle" /\ pc' = "broadcast" /\ w' = file /\ Readable
      /\ tx' = [Inputs |-> S, Change |-> {change}] /\ KeyOf[change] = file.Index
      /\ UNCHANGED <<file, form, chain, printed, todo, empty, known, imported, past>>
  BY DEF Spend, Begins, stored
<1>2. file \in Wallet /\ Current = file /\ Current' = file
  BY <1>1 DEF WalletInv, TypeOK, Readable, Current, Saving
<1>3. TypeOK'
  BY <1>1, <1>2 DEF WalletInv, TypeOK
<1>4. CommandInOrder' /\ ScanInOrder'
  BY <1>1 DEF CommandInOrder, ScanInOrder
<1>5. CurrentExists' /\ KeysUpToIndex'
  BY <1>1, <1>2, ChainStays DEF WalletInv, CurrentExists, KeysUpToIndex
<1>6. QED
  BY <1>3, <1>4, <1>5 DEF WalletInv

\* Whether the network takes the transaction or not, the wallet that is written
\* last is the one that was read: at most the key at its index is in use now.
LEMMA BroadcastStep == ASSUME WalletInv, Broadcast PROVE WalletInv'
<1>1. /\ pc = "broadcast" /\ Saves(<<Spent, w>>) /\ file' = file /\ printed' = printed
      /\ UNCHANGED <<form, imported, past>>
      /\ TypeOK /\ w \in Wallet /\ Current = w
      /\ tx \in [Inputs : SUBSET Coin, Change : SUBSET Coin]
      /\ chain \in [Coin -> {"unborn", "unspent", "spent"}]
      /\ \A c \in tx.Change : KeyOf[c] = w.Index
  BY DEF Broadcast, WalletInv, TypeOK, CommandInOrder, Current, Saving
<1>2. w.Index \in Nat /\ w.Prevouts \subseteq Coin
  BY <1>1 DEF Wallet
<1>3. Spent \in Wallet
  <2> DEFINE u == [w EXCEPT !.Prevouts = @ \ tx.Inputs]
  <2>1. u \in Wallet
    BY <1>1, <1>2 DEF Wallet
  <2>2. Insert(u, tx.Change) \in Wallet
    <3> HIDE DEF u
    <3>1. QED
      BY <1>1, <2>1 DEF Insert, Wallet
  <2>3. QED
    <3>1. ASSUME NEW v \in Wallet PROVE NextIndex(v) \in Wallet
      BY DEF NextIndex, Wallet
    <3>2. QED
      BY <2>2, <3>1 DEF Spent
<1>4. <<Spent, w>> \in Seq(Wallet) /\ <<Spent, w>> # <<>> /\ <<Spent, w>>[Len(<<Spent, w>>)] = w
  BY <1>1, <1>3
<1>5. /\ chain' \in [Coin -> {"unborn", "unspent", "spent"}]
      /\ Born \subseteq Born'
      /\ Born' \subseteq Born \cup tx.Change
  <2>1. CASE chain' = chain
    BY <1>1, <2>1 DEF Born
  <2>2. CASE tx.Inputs \subseteq Unspent /\ chain' = Accepted
    BY <1>1, <2>2 DEF Born, Unspent, Accepted
  <2>3. QED
    BY <2>1, <2>2 DEF Broadcast
<1>6. UsedKeys \subseteq UsedKeys' /\ UsedKeys' \subseteq UsedKeys \cup {w.Index}
  BY <1>1, <1>5 DEF UsedKeys
<1>7. /\ "failed" \notin past => w.Prevouts \subseteq Born' \cup imported'
      /\ past = {} => IndexFits(w.Index, UsedKeys')
  BY <1>1, <1>2, <1>5, <1>6 DEF WalletInv, CurrentExists, KeysUpToIndex, IndexFits
<1>8. QED
  BY <1>1, <1>4, <1>5, <1>7, SaveStep DEF TypeOK

\* A restore starts with a new wallet, which knows nothing.
LEMMA RestoreStep == ASSUME WalletInv, Restore PROVE WalletInv'
<1>1. /\ pc = "idle" /\ pc' = "scan" /\ known' = {c \in Unspent : KeyOf[c] # Foreign}
      /\ past' = past \cup {"restored"}
      /\ UNCHANGED <<file, form, chain, printed, todo, w, tx, empty, imported>>
      /\ w = NewWallet /\ empty = 0
  BY DEF Restore, Begins, stored, WalletInv, CommandInOrder
<1>2. TypeOK'
  BY <1>1 DEF WalletInv, TypeOK, Unspent
<1>3. CommandInOrder' /\ KeysUpToIndex'
  BY <1>1 DEF CommandInOrder, KeysUpToIndex
<1>4. CurrentExists'
  BY <1>1 DEF CurrentExists, Current, Saving, NewWallet
<1>5. ScanInOrder'
  <2>1. /\ Unspent' = Unspent /\ w'.Index = 0 /\ empty' = 0
        /\ \A c \in known' : c \in Unspent /\ KeyOf[c] \in Nat
    BY <1>1, ChainStays, WalletAssumption DEF NewWallet, Unspent, Key
  <2>2. QED
    BY <1>1, <2>1 DEF ScanInOrder
<1>6. QED
  BY <1>2, <1>3, <1>4, <1>5 DEF WalletInv

\* The keys that restore has passed.
LEMMA ScanStep == ASSUME WalletInv, ScanFinds \/ ScanSkips PROVE WalletInv'
<1>1. /\ pc = "scan" /\ pc' = "scan" /\ "restored" \in past /\ "restored" \in past'
      /\ UNCHANGED <<file, form, chain, printed, todo, tx, known, imported, past>>
      /\ w' = NextIndex(Insert(w, Found))
      /\ empty' = IF Found = {} THEN empty + 1 ELSE 0
      /\ Found = {} => empty # MaxLookAhead
  <2>1. w \in Wallet
    BY DEF WalletInv, TypeOK
  <2>2. Insert(w, {}) = w
    BY <2>1 DEF Insert, Wallet
  <2>3. QED
    BY <2>2 DEF ScanFinds, ScanSkips, stored, WalletInv, CommandInOrder
<1>2. /\ w \in Wallet /\ Found \subseteq Coin /\ Found \subseteq Born /\ Found \subseteq Unspent
      /\ empty \in 0 .. MaxLookAhead
      /\ \A c \in Found : KeyOf[c] = w.Index
  BY DEF WalletInv, TypeOK, Found, Unspent, Born
<1>3. /\ w' \in Wallet /\ w.Index \in Nat /\ w'.Index = w.Index + 1
      /\ w'.Prevouts = w.Prevouts \cup Found
  <2>1. Insert(w, Found) \in Wallet /\ Insert(w, Found).Prevouts = w.Prevouts \cup Found
        /\ Insert(w, Found).Index = w.Index
    BY <1>2 DEF Insert, Wallet
  <2>2. ASSUME NEW v \in Wallet
        PROVE  NextIndex(v) \in Wallet /\ NextIndex(v).Index = v.Index + 1
               /\ NextIndex(v).Prevouts = v.Prevouts /\ v.Index \in Nat
    BY DEF NextIndex, Wallet
  <2>3. QED
    BY <1>1, <2>1, <2>2
<1>4. empty' \in 0 .. MaxLookAhead
  BY <1>1, <1>2, WalletAssumption
<1>5. TypeOK'
  BY <1>1, <1>3, <1>4 DEF WalletInv, TypeOK
<1>6. CommandInOrder' /\ KeysUpToIndex'
  BY <1>1 DEF CommandInOrder, KeysUpToIndex
<1>7. CurrentExists'
  BY <1>1, <1>2, <1>3, ChainStays DEF WalletInv, CurrentExists, Current, Saving
<1>8. ScanInOrder'
  <2>1. /\ known \subseteq {c \in Unspent : KeyOf[c] # Foreign}
        /\ empty <= w.Index
        /\ \A c \in known : KeyOf[c] < w.Index => c \in w.Prevouts
        /\ \A c \in known : KeyOf[c] \notin w.Index - empty .. w.Index - 1
    BY <1>1 DEF WalletInv, ScanInOrder
  <2>2. empty' <= w'.Index /\ known' \subseteq {c \in Unspent' : KeyOf[c] # Foreign}
    BY <1>1, <1>2, <1>3, <2>1, ChainStays
  <2>3. ASSUME NEW c \in known
        PROVE  /\ KeyOf[c] < w.Index + 1 => c \in w.Prevouts \cup Found
               /\ KeyOf[c] \notin w.Index + 1 - empty' .. w.Index
    <3>1. KeyOf[c] \in Nat /\ (KeyOf[c] = w.Index => c \in Found)
      BY <2>1, WalletAssumption DEF Found, Unspent, Key
    <3>2. KeyOf[c] < w.Index + 1 => c \in w.Prevouts \cup Found
      BY <1>3, <2>1, <3>1
    <3> SUFFICES KeyOf[c] \notin w.Index + 1 - empty' .. w.Index
      BY <3>2
    <3>3. CASE Found = {}
      <4>1. empty' = empty + 1 /\ KeyOf[c] # w.Index /\ empty \in Nat
        BY <1>1, <1>2, <3>1, <3>3, WalletAssumption
      <4>2. KeyOf[c] \notin w.Index - empty .. w.Index - 1
        BY <2>1
      <4>3. QED
        BY <1>3, <3>1, <4>1, <4>2
    <3>4. CASE Found # {}
      <4>1. empty' = 0 /\ w.Index + 1 - empty' .. w.Index = {}
        BY <1>1, <1>3, <3>4
      <4>2. QED
        BY <4>1
    <3>5. QED
      BY <3>3, <3>4
  <2>4. w'.Index - empty' .. w'.Index - 1 = w.Index + 1 - empty' .. w.Index
    BY <1>3, <1>4, WalletAssumption
  <2>5. QED
    BY <1>1, <1>3, <2>2, <2>3, <2>4 DEF ScanInOrder
<1>9. QED
  BY <1>5, <1>6, <1>7, <1>8 DEF WalletInv

\* What restore writes has no coin that was not there.
LEMMA EndScanStep == ASSUME WalletInv, ScanEnds \/ ScanIsCut PROVE WalletInv'
<1> DEFINE v == NextIndex(w)
<1>1. /\ pc = "scan" /\ Saves(<<v>>) /\ "restored" \in past
      /\ UNCHANGED <<file, form, chain, printed, imported, past>>
      /\ TypeOK /\ w \in Wallet /\ Current = w
  BY DEF ScanEnds, ScanIsCut, stored, WalletInv, TypeOK, CommandInOrder, Current, Saving
<1>2. v \in Wallet /\ v.Prevouts = w.Prevouts
  BY <1>1 DEF NextIndex, Wallet
<1>3. "failed" \notin past => v.Prevouts \subseteq Born' \cup imported'
  BY <1>1, <1>2, ChainStays DEF WalletInv, CurrentExists
<1> HIDE DEF v
<1>4. <<v>> \in Seq(Wallet) /\ <<v>> # <<>> /\ <<v>>[Len(<<v>>)] = v
  BY <1>2
<1>5. QED
  BY <1>1, <1>3, <1>4, SaveStep DEF TypeOK

\* A payment to an address that was given away uses no new key, and is not one
\* of the coins a restore has to find.
LEMMA PayStep == ASSUME WalletInv, NEW c \in Coin, Pay(c) PROVE WalletInv'
<1>1. /\ chain[c] = "unborn" /\ KeyOf[c] \in printed \cup {Foreign}
      /\ chain' = [chain EXCEPT ![c] = "unspent"]
      /\ UNCHANGED <<file, form, printed, pc, todo, w, tx, empty, known, imported, past>>
      /\ chain \in [Coin -> {"unborn", "unspent", "spent"}]
  BY DEF Pay, running, WalletInv, TypeOK
<1>2. Born' = Born \cup {c} /\ Unspent' = Unspent \cup {c}
  BY <1>1 DEF Born, Unspent
<1>3. UsedKeys' = UsedKeys
  BY <1>1, <1>2 DEF UsedKeys
<1>4. Current' = Current
  BY <1>1 DEF Current, Saving
<1>5. TypeOK'
  BY <1>1 DEF WalletInv, TypeOK
<1>6. CommandInOrder' /\ CurrentExists' /\ KeysUpToIndex'
  BY <1>1, <1>2, <1>3, <1>4 DEF WalletInv, CommandInOrder, CurrentExists, KeysUpToIndex
<1>7. ScanInOrder'
  BY <1>1, <1>2 DEF WalletInv, ScanInOrder
<1>8. QED
  BY <1>5, <1>6, <1>7 DEF WalletInv

\* Whether the file can be read says nothing about its wallet.
LEMMA ConvertStep ==
  ASSUME WalletInv, Convert \/ UNCHANGED vars
  PROVE  WalletInv'
<1>1. UNCHANGED <<file, chain, printed, pc, todo, w, tx, empty, known, imported, past>>
      /\ form' \in {"outpoint", "txid"}
  BY DEF Convert, vars, stored, running, WalletInv, TypeOK
<1>2. Current' = Current
  BY <1>1 DEF Current, Saving
<1>3. TypeOK'
  BY <1>1 DEF WalletInv, TypeOK
<1>4. QED
  BY <1>1, <1>2, <1>3, ChainStays
  DEF WalletInv, CommandInOrder, CurrentExists, KeysUpToIndex, ScanInOrder

\* WalletInv is inductive.
LEMMA WalletStep == ASSUME WalletInv, [Next]_vars PROVE WalletInv'
<1>1. CASE UNCHANGED vars
  BY <1>1, ConvertStep
<1>2. CASE Command
  BY <1>2, RewriteStep, SpendStep, RestoreStep DEF Command
<1>3. CASE Step
  BY <1>3, OpenStep, WriteStep, BroadcastStep, ScanStep, EndScanStep DEF Step
<1>4. QED
  BY <1>1, <1>2, <1>3, EndScanStep, FailStep, ConvertStep, PayStep DEF Next

\* WalletInv holds in every state, for any coins and look-ahead (src/wallet.cpp).
THEOREM WalletInvariant == Spec => []WalletInv
<1>1. QED
  BY WalletInitially, WalletStep, PTL DEF Spec

-----------------------------------------------------------------------------
(* What the runs check.                                                    *)

\* The types, whatever commands are given and wherever they fail.
THEOREM WalletTypeCorrect == Spec => []TypeOK
<1>1. WalletInv => TypeOK
  BY DEF WalletInv
<1>2. QED
  BY <1>1, WalletInvariant, PTL

\* The file of a wallet at rest lists no coin that does not exist but those that
\* were imported, though boost has written one before, on a file made readable
\* by hand (src/cosmos.cpp).
THEOREM FileListsWhatExists == Spec => []ListsOnlyWhatExists
<1>1. WalletInv => ListsOnlyWhatExists
  BY DEF WalletInv, CurrentExists, Current, Saving, Begins, ListsOnlyWhatExists
<1>2. QED
  BY <1>1, WalletInvariant, PTL

\* The keys in use have no gap, for any number of commands, on files as they are
\* written or made readable by hand (src/cosmos.cpp).
THEOREM KeysHaveNoGap == Spec => []KeysAreUsedInOrder
<1>1. ASSUME WalletInv PROVE KeysAreUsedInOrder
  <2> SUFFICES ASSUME past = {}, NEW k \in UsedKeys PROVE 0 .. k \subseteq UsedKeys
    BY DEF KeysAreUsedInOrder
  <2>1. /\ 0 .. Current.Index - 1 \subseteq UsedKeys /\ UsedKeys \subseteq 0 .. Current.Index
        /\ Current.Index \in Nat
    BY <1>1, CurrentIsWallet DEF WalletInv, KeysUpToIndex, Wallet
  <2>2. ASSUME NEW j \in 0 .. k PROVE j \in UsedKeys
    BY <2>1, <2>2
  <2>3. QED
    BY <2>2
<1>2. QED
  BY <1>1, WalletInvariant, PTL

\* restore finds the coins that its look-ahead reaches, and a coin that is paid
\* while it runs cannot make it lose one (src/cosmos.cpp).
THEOREM RestoreIsComplete == Spec => RestoreFindsWithinReach
<1> DEFINE A == ScanEnds => \A c \in known : WithinReach(KeyOf[c]) => c \in w.Prevouts
<1>1. ASSUME WalletInv PROVE A
  <2> SUFFICES ASSUME ScanEnds, NEW c \in known, WithinReach(KeyOf[c]) PROVE c \in w.Prevouts
    OBVIOUS
  <2>1. /\ pc = "scan" /\ Found = {} /\ empty = MaxLookAhead
        /\ w.Index \in Nat /\ MaxLookAhead \in Nat
    BY <1>1, WalletAssumption DEF ScanEnds, WalletInv, TypeOK, Wallet
  <2>2. /\ MaxLookAhead <= w.Index
        /\ \A d \in known : KeyOf[d] < w.Index => d \in w.Prevouts
        /\ \A d \in known : KeyOf[d] \notin w.Index - MaxLookAhead .. w.Index - 1
        /\ \A d \in known : d \in Unspent /\ KeyOf[d] \in Nat
    BY <1>1, <2>1, WalletAssumption DEF WalletInv, ScanInOrder, Unspent, Key
  <2>3. ASSUME NEW d \in known PROVE KeyOf[d] \notin w.Index - MaxLookAhead .. w.Index
    <3>1. KeyOf[d] # w.Index
      BY <2>1, <2>2 DEF Found, Unspent
    <3>2. QED
      BY <2>1, <2>2, <3>1
  <2>4. KeyOf[c] < w.Index
    <3> SUFFICES ASSUME ~(KeyOf[c] < w.Index) PROVE FALSE
      OBVIOUS
    <3>1. w.Index - MaxLookAhead \in 0 .. KeyOf[c]
      BY <2>1, <2>2
    <3>2. PICK d \in known :
            KeyOf[d] \in w.Index - MaxLookAhead .. (w.Index - MaxLookAhead) + MaxLookAhead
      BY <3>1 DEF WithinReach
    <3>3. QED
      BY <2>1, <2>3, <3>2
  <2>5. QED
    BY <2>2, <2>4
<1>2. QED
  BY <1>1, WalletInvariant, PTL DEF RestoreFindsWithinReach
=============================================================================
