------------------------------ MODULE JobsApi ------------------------------
(***************************************************************************)
(* What a call of network::jobs promises to the manager: the outputs it    *)
(* returns were unspent when it looked, which it does for one script after *)
(* the other while the block chain goes on, and each is worth MinValue.    *)
(* So the book is no snapshot of the chain: an output in it may be spent   *)
(* by now, and two of them may never have been unspent at the same time.   *)
(***************************************************************************)
EXTENDS Naturals

CONSTANTS Outpoint, ScriptOf, Value, MinValue

VARIABLES
  chain,   \* what the block chain knows of each output
  call,    \* "idle", "calling", or "returned" until the caller takes the book
  found    \* the outputs found so far

jobsApiVars == <<chain, call, found>>

Init ==
  /\ chain \in [Outpoint -> {"unborn", "open"}]
  /\ call = "idle" /\ found = {}

OpenOf(s) == {o \in Outpoint : ScriptOf[o] = s /\ chain[o] = "open"}
WorthIt(S) == {o \in S : Value[o] >= MinValue}

Call ==
  /\ call = "idle"
  /\ call' = "calling"
  /\ UNCHANGED <<chain, found>>

\* Each script is looked at once.
Look(s) ==
  /\ call = "calling"
  /\ \A o \in found : ScriptOf[o] # s
  /\ \E S \in SUBSET WorthIt(OpenOf(s)) : found' = found \cup S
  /\ UNCHANGED <<chain, call>>

Return ==
  /\ call = "calling"
  /\ call' = "returned"
  /\ UNCHANGED <<chain, found>>

\* The call throws, or the caller has taken the book.
Done ==
  /\ call # "idle"
  /\ call' = "idle" /\ found' = {}
  /\ UNCHANGED chain

World ==
  /\ chain' \in [Outpoint -> {"unborn", "open", "spent"}]
  /\ \A o \in Outpoint :
       chain'[o] # chain[o] => <<chain[o], chain'[o]>> \in {<<"unborn", "open">>, <<"open", "spent">>}
  /\ UNCHANGED <<call, found>>

Next ==
  \/ Call \/ Return \/ Done \/ World
  \/ \E s \in {ScriptOf[o] : o \in Outpoint} : Look(s)

Spec == Init /\ [][Next]_jobsApiVars
=============================================================================
