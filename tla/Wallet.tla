------------------------------- MODULE Wallet -------------------------------
(***************************************************************************)
(* The program cosmos (src/cosmos.cpp, src/wallet.cpp): a wallet file that *)
(* each command reads and writes back, the keys derived from its master,   *)
(* and the block chain, which knows the outputs those keys can spend.  One *)
(* command runs at a time, and may fail or be killed at any of its steps.  *)
(*                                                                         *)
(* Amounts are left out: which outputs suffice to pay for a transaction is *)
(* a choice.  Prevouts is a set, as their order only matters for it.       *)
(*                                                                         *)
(* The program cannot read what it writes of a coin.  Whatever it does     *)
(* with a wallet that has coins, it does after the user has changed the    *)
(* file by hand (Convert).                                                 *)
(***************************************************************************)
EXTENDS Naturals, Sequences, FiniteSets

CONSTANTS
  Coin,           \* the outputs that can ever pay the user
  MaxKey,         \* bound: the largest index of a key that has coins
  Foreign,        \* a key of the user that is not derived from the master
  KeyOf,          \* the key each coin pays to
  MaxLookAhead,   \* of restore
  MaxImported,    \* bound: how many coins are imported before they exist
  NoFile,         \* the file before generate
  Torn            \* a file opened for writing and not yet written

Key == 0 .. MaxKey
Wallet == [Prevouts : SUBSET Coin, Index : Nat]

ASSUME WalletAssumption ==
  /\ IsFiniteSet (Coin)
  /\ MaxKey \in Nat
  /\ Foreign \notin Nat
  /\ KeyOf \in [Coin -> Key \cup {Foreign}]
  /\ MaxLookAhead \in Nat /\ MaxImported \in Nat
  /\ NoFile \notin Wallet /\ Torn \notin Wallet

VARIABLES
  file,      \* what the wallet file holds
  form,      \* the name under which it has the transactions of the coins
  chain,     \* external: what the block chain knows of each coin
  printed,   \* the indices of the addresses that receive has printed
  pc,        \* how far the running command is
  todo,      \* the wallets it has still to write
  w,         \* its wallet
  tx,        \* the transaction boost broadcasts
  empty,     \* last_used in restore
  known,     \* auxiliary: the coins a restore could find when it began
  imported,  \* auxiliary: the coins imported before they existed
  past       \* auxiliary: whether a command has failed, whether one restored

stored == <<file, form, chain, printed>>
running == <<todo, w, tx, empty, known>>
vars == <<stored, pc, running, imported, past>>

NewWallet == [Prevouts |-> {}, Index |-> 0]
NoTx == [Inputs |-> {}, Change |-> {}]

Init ==
  /\ file = NoFile /\ form = "outpoint"
  /\ chain = [c \in Coin |-> "unborn"]
  /\ printed = {}
  /\ pc = "idle"
  /\ todo = <<>> /\ w = NewWallet /\ tx = NoTx /\ empty = 0 /\ known = {}
  /\ imported = {} /\ past = {}

Unspent == {c \in Coin : chain[c] = "unspent"}
Born == {c \in Coin : chain[c] # "unborn"}
UsedKeys == (printed \cup {KeyOf[c] : c \in Born}) \ {Foreign}

Insert(v, C) == [v EXCEPT !.Prevouts = @ \cup C]
NextIndex(v) == [v EXCEPT !.Index = @ + 1]

Begins == pc = "idle"

\* read_json looks for the "txid" of each coin, write_json wrote its "outpoint".
\* What the code does with the missing name is undefined behaviour; here the
\* command fails before it has done anything, as it does without a file.
Readable == file \in Wallet /\ (file.Prevouts = {} \/ form = "txid")

\* The command is over, and nothing of it stays in memory.
Ends ==
  /\ pc' = "idle"
  /\ todo' = <<>> /\ w' = NewWallet /\ tx' = NoTx /\ empty' = 0 /\ known' = {}

\* The command goes on to write the wallets of vs, one after the other.
Saves(vs) == pc' = "ready" /\ todo' = vs /\ UNCHANGED <<w, tx, empty, known>>
-----------------------------------------------------------------------------
(* write_to_file: opening the file truncates it.                           *)

Open ==
  /\ pc = "ready"
  /\ file' = Torn
  /\ pc' = "open"
  /\ UNCHANGED <<form, chain, printed, running, imported, past>>

Write ==
  /\ pc = "open"
  /\ file' = Head(todo) /\ form' = "outpoint"
  /\ IF Len(todo) = 1 THEN Ends
     ELSE Saves(Tail(todo))
  /\ UNCHANGED <<chain, printed, imported, past>>

\* The process is killed, or an exception ends the command where it is.
Fails ==
  /\ pc # "idle"
  /\ Ends
  /\ past' = past \cup {"failed"}
  /\ UNCHANGED <<stored, imported>>
-----------------------------------------------------------------------------
(* The commands that only rewrite the file.                                *)

\* The user creates one wallet.
Generate ==
  /\ Begins /\ file = NoFile
  /\ Saves(<<NewWallet>>)
  /\ UNCHANGED <<stored, imported, past>>

\* mutant: the index is incremented before the key is derived.
Receive_Ahead ==
  /\ Begins /\ Readable
  /\ file.Index + 1 \in Key
  /\ printed' = printed \cup {file.Index + 1}
  /\ Saves(<<NextIndex(file)>>)
  /\ UNCHANGED <<file, form, chain, imported, past>>

\* The address is printed before the file is written.
Receive ==
  /\ Begins /\ Readable
  /\ file.Index \in Key
  /\ printed' = printed \cup {file.Index}
  /\ Saves(<<NextIndex(file)>>)
  /\ UNCHANGED <<file, form, chain, imported, past>>

\* Nobody asks whether the coin exists.
Import(c) ==
  /\ Begins /\ Readable
  /\ imported' = imported \cup ({c} \ Born)
  /\ Cardinality(imported') <= MaxImported
  /\ Saves(<<Insert(file, {c})>>)
  /\ UNCHANGED <<stored, past>>

\* command_send writes what it read.
Send ==
  /\ Begins /\ Readable
  /\ Saves(<<file>>)
  /\ UNCHANGED <<stored, imported, past>>
-----------------------------------------------------------------------------
(* boost.                                                                  *)

\* wallet::spend takes coins until they pay for the output, the fee and more
\* than dust of change, which goes to the next key.  With too few, or none, it
\* throws.
Spend(S, change) ==
  /\ Begins /\ Readable
  /\ S # {} /\ S \subseteq file.Prevouts
  /\ chain[change] = "unborn" /\ KeyOf[change] = file.Index
  /\ tx' = [Inputs |-> S, Change |-> {change}]
  /\ w' = file
  /\ pc' = "broadcast"
  /\ UNCHANGED <<stored, todo, empty, known, imported, past>>

\* spend.Wallet
Spent == NextIndex(Insert([w EXCEPT !.Prevouts = @ \ tx.Inputs], tx.Change))

\* external: the network refuses what spends a spent output, and may refuse
\* anything.
Accepted ==
  [c \in Coin |-> IF c \in tx.Inputs THEN "spent"
                  ELSE IF c \in tx.Change THEN "unspent" ELSE chain[c]]

\* mutant: the wallet as it was read is not written over the one spent.
Broadcast_Once ==
  /\ pc = "broadcast"
  /\ chain' = chain \/ (tx.Inputs \subseteq Unspent /\ chain' = Accepted)
  /\ Saves(<<Spent>>)
  /\ UNCHANGED <<file, form, printed, imported, past>>

\* The network takes the transaction or not; net.broadcast tells which, and is
\* not listened to.  Both wallets are written, first the new and then the old.
Broadcast ==
  /\ pc = "broadcast"
  /\ chain' = chain \/ (tx.Inputs \subseteq Unspent /\ chain' = Accepted)
  /\ Saves(<<Spent, w>>)
  /\ UNCHANGED <<file, form, printed, imported, past>>
-----------------------------------------------------------------------------
(* restore.                                                                *)

Restore ==
  /\ Begins /\ file # NoFile
  /\ pc' = "scan"
  /\ known' = {c \in Unspent : KeyOf[c] # Foreign}
  /\ past' = past \cup {"restored"}
  /\ UNCHANGED <<stored, todo, w, tx, empty, imported>>

\* What the API answers for the address of the next key.
Found == {c \in Unspent : KeyOf[c] = w.Index}

\* mutants: last_used is not reset; the index is not incremented.
ScanFinds_NoReset ==
  /\ pc = "scan" /\ Found # {}
  /\ w' = NextIndex(Insert(w, Found))
  /\ UNCHANGED <<stored, pc, todo, tx, empty, known, imported, past>>

ScanFinds_Stays ==
  /\ pc = "scan" /\ Found # {}
  /\ w' = Insert(w, Found)
  /\ empty' = 0
  /\ UNCHANGED <<stored, pc, todo, tx, known, imported, past>>

ScanFinds ==
  /\ pc = "scan" /\ Found # {}
  /\ w' = NextIndex(Insert(w, Found))
  /\ empty' = 0
  /\ UNCHANGED <<stored, pc, todo, tx, known, imported, past>>

\* mutant: the look-ahead is not looked at.
ScanSkips_Always ==
  /\ pc = "scan" /\ Found = {}
  /\ w' = NextIndex(w)
  /\ empty' = empty + 1
  /\ UNCHANGED <<stored, pc, todo, tx, known, imported, past>>

ScanSkips ==
  /\ pc = "scan" /\ Found = {} /\ empty # MaxLookAhead
  /\ w' = NextIndex(w)
  /\ empty' = empty + 1
  /\ UNCHANGED <<stored, pc, todo, tx, known, imported, past>>

ScanEnds ==
  /\ pc = "scan" /\ Found = {} /\ empty = MaxLookAhead
  /\ Saves(<<NextIndex(w)>>)
  /\ UNCHANGED <<stored, imported, past>>

\* An answer that cannot be read ends the scan, and what was found so far is
\* written.  (An HTTP status other than ok fails the command.)
ScanIsCut ==
  /\ pc = "scan"
  /\ Saves(<<NextIndex(w)>>)
  /\ UNCHANGED <<stored, imported, past>>
-----------------------------------------------------------------------------
\* external: somebody pays to an address the user has given away.
Pay(c) ==
  /\ chain[c] = "unborn"
  /\ KeyOf[c] \in printed \cup {Foreign}
  /\ chain' = [chain EXCEPT ![c] = "unspent"]
  /\ UNCHANGED <<file, form, printed, pc, running, imported, past>>

\* external: the user gives the transactions of the coins in the file the name
\* that read_json looks for.
Convert ==
  /\ Begins /\ file \in Wallet /\ ~Readable
  /\ form' = "txid"
  /\ UNCHANGED <<file, chain, printed, pc, running, imported, past>>

Command ==
  \/ Generate \/ Receive \/ Send \/ Restore
  \/ \E c \in Coin : Import(c)
  \/ \E S \in SUBSET Coin, c \in Coin : Spend(S, c)

Step ==
  \/ Open \/ Write \/ Broadcast
  \/ ScanFinds \/ ScanSkips \/ ScanEnds

Next == Command \/ Step \/ ScanIsCut \/ Fails \/ Convert \/ \E c \in Coin : Pay(c)

Spec == Init /\ [][Next]_vars

\* A command that runs goes on, and the API answers or fails it; nobody has
\* to start one.
FairSpec == Spec /\ WF_vars(Step)
-----------------------------------------------------------------------------
TypeOK ==
  /\ file \in Wallet \cup {NoFile, Torn} /\ form \in {"outpoint", "txid"}
  /\ chain \in [Coin -> {"unborn", "unspent", "spent"}]
  /\ printed \subseteq Key
  /\ pc \in {"idle", "ready", "open", "broadcast", "scan"}
  /\ todo \in Seq(Wallet) /\ (pc \in {"ready", "open"} <=> todo # <<>>)
  /\ w \in Wallet
  /\ tx \in [Inputs : SUBSET Coin, Change : SUBSET Coin]
  /\ empty \in 0 .. MaxLookAhead
  /\ known \subseteq Coin /\ imported \subseteq Coin
  /\ past \subseteq {"failed", "restored"}

\* Unless a command has failed, the file of a wallet at rest lists no coin that
\* does not exist, but for those the user has imported: boost first writes a
\* wallet with the change of a transaction that the network may have refused,
\* without looking, and only the wallet it writes over that has none of it.
\* (boost has coins to spend only in a file that was changed by hand.)
ListsOnlyWhatExists ==
  Begins /\ file \in Wallet /\ "failed" \notin past => file.Prevouts \subseteq Born \cup imported

\* The keys that were given away or paid to have no gap, so that the look-ahead
\* of a restore is left for addresses nobody has paid to, until a command
\* fails or a restore moves the index.  When the file has been changed by hand
\* between them, boost takes the index back after its change was paid to it, and
\* receive gives the same address again: a key twice, but none left out.
KeysAreUsedInOrder == past = {} => \A k \in UsedKeys : 0 .. k \subseteq UsedKeys

\* Every stretch of MaxLookAhead + 1 keys up to k has a coin that was there when
\* the restore began.
WithinReach(k) == \A j \in 0 .. k : \E c \in known : KeyOf[c] \in j .. j + MaxLookAhead

\* A restore that the API answered finds all the coins within the look-ahead,
\* although payments arrive while it runs.
RestoreFindsWithinReach ==
  [][ScanEnds => \A c \in known : WithinReach(KeyOf[c]) => c \in w.Prevouts]_vars

\* Every command comes to its end: a restore runs out of coins.
CommandsEnd == pc # "idle" ~> pc = "idle"
-----------------------------------------------------------------------------
(* What the code says of itself and does not do.                           *)

\* "value -- print the total value in the wallet" (cosmos.cpp:235): a wallet
\* that the program has written can be read back.
CanBeReadBack == Begins /\ file \in Wallet => Readable
=============================================================================
