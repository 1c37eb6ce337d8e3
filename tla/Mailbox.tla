------------------------------ MODULE Mailbox ------------------------------
(***************************************************************************)
(* What a channel of puzzles promises its takers, with no mutex and no     *)
(* condition variable: a slot that holds the newest puzzle, and a blocking *)
(* Take.  "Get latest job.  If there is no job yet, block."                *)
(* (include/miner.hpp)                                                     *)
(***************************************************************************)
CONSTANTS
  Taker,         \* the threads that take puzzles
  Box,           \* the channels
  BoxOf,         \* the channel of each taker
  Item,          \* the valid puzzles
  NoItem         \* the invalid puzzle, which tells a taker to stop

VARIABLES
  slot,          \* the newest puzzle of each box
  shut,          \* whether the box was closed
  phase,         \* "idle", "busy" or "gone", for each taker
  held           \* what each taker last took

boxVars == <<slot, shut, phase, held>>

Init ==
  /\ slot = [b \in Box |-> NoItem]
  /\ shut = [b \in Box |-> FALSE]
  /\ phase = [t \in Taker |-> "idle"]
  /\ held = [t \in Taker |-> NoItem]

Put(b, p) ==
  /\ slot' = [slot EXCEPT ![b] = p]
  /\ UNCHANGED <<shut, phase, held>>

Shut(b) ==
  /\ shut' = [shut EXCEPT ![b] = TRUE]
  /\ slot' = [slot EXCEPT ![b] = NoItem]
  /\ UNCHANGED <<phase, held>>

\* A taker leaves with the item that is in the box at that moment.
Take(t) ==
  /\ phase[t] = "idle"
  /\ slot[BoxOf[t]] \in Item
  /\ held' = [held EXCEPT ![t] = slot[BoxOf[t]]]
  /\ phase' = [phase EXCEPT ![t] = "busy"]
  /\ UNCHANGED <<slot, shut>>

\* A taker goes only when it finds the box empty, though the box need not be
\* shut for it: In.wait may return for nothing, and a box may be emptied again.
Leave(t) ==
  /\ phase[t] = "idle"
  /\ slot[BoxOf[t]] = NoItem
  /\ held' = [held EXCEPT ![t] = NoItem]
  /\ phase' = [phase EXCEPT ![t] = "gone"]
  /\ UNCHANGED <<slot, shut>>

\* A taker is done with its item, or breaks on it.
Finish(t, next) ==
  /\ phase[t] = "busy"
  /\ phase' = [phase EXCEPT ![t] = next]
  /\ UNCHANGED <<slot, shut, held>>

Next ==
  \/ \E b \in Box, p \in Item \cup {NoItem} : Put(b, p)
  \/ \E b \in Box : Shut(b)
  \/ \E t \in Taker : Take(t) \/ Leave(t)
  \/ \E t \in Taker, next \in {"idle", "gone"} : Finish(t, next)

Spec == Init /\ [][Next]_boxVars
=============================================================================
