------------------------------ MODULE Redeemer ------------------------------
(***************************************************************************)
(* BoostPOW::redeemer (include/miner.hpp, src/miner.cpp), the solver a     *)
(* mining thread hands its solutions to: the job it mines, the job before, *)
(* and solved, which decides which of the two a solution belongs to.  Each *)
(* redeemer is the channel its threads select from.                        *)
(*                                                                         *)
(* A job is a script, the outputs it was selected with and the key that is *)
(* to sign for them.  Its work puzzle depends on the script and the key,   *)
(* whose hash is part of what is hashed, and not on the outputs.           *)
(***************************************************************************)
EXTENDS Channel

CONSTANTS
  Script,     \* the output scripts
  Key,        \* the miner's keys: one for a WIF key, many for an HD key
  Outpoint,   \* the boost outputs
  NoJob       \* std::pair<digest256, Boost::puzzle> {}

ASSUME RedeemerAssumption == Puzzles = Script \X Key

Job == [id : Script, Prevouts : SUBSET Outpoint, key : Key]

VARIABLES
  Current,    \* redeemer::Current, per channel
  Last,       \* redeemer::Last, per channel
  at,         \* how far each thread is within solved
  using       \* the member submit was given a reference to

redeemerVars == <<Current, Last, at, using>>

RedeemerInit ==
  /\ Init
  /\ Current = [c \in Chan |-> NoJob]
  /\ Last = [c \in Chan |-> NoJob]
  /\ at = [t \in Thread |-> "check"]
  /\ using = [t \in Thread |-> "Current"]

PuzzleOf(j) == IF j = NoJob THEN NoPuzzle ELSE <<j.id, j.key>>

\* mutants: the key is not remembered; an empty job is not taken; the puzzle is
\* set without pose.
MineJob_NoKey(c, j) ==
  /\ UNCHANGED Last
  /\ Current' = [Current EXCEPT ![c] = IF j = NoJob THEN j ELSE [j EXCEPT !.key = NoPuzzle]]
  /\ Pose(c, PuzzleOf(j))
MineJob_NotEmpty(c, j) ==
  IF j = NoJob THEN UNCHANGED <<channelVars, pc, puzzle, Last, Current>>
  ELSE /\ Last' = [Last EXCEPT ![c] = IF @ = NoJob THEN Current[c] ELSE @]
       /\ Current' = [Current EXCEPT ![c] = j]
       /\ Pose(c, PuzzleOf(j))
MineJob_NoPose(c, j) ==
  /\ Last' = [Last EXCEPT ![c] = Current[c]]
  /\ Current' = [Current EXCEPT ![c] = j]
  /\ Puzzle' = [Puzzle EXCEPT ![c] = PuzzleOf(j)]
  /\ UNCHANGED <<Valid, Closed, pc, puzzle>>

\* redeemer::mine: Last is set only while it is empty.
MineJob(c, j) ==
  /\ Last' = [Last EXCEPT ![c] = IF @ = NoJob THEN Current[c] ELSE @]
  /\ Current' = [Current EXCEPT ![c] = j]
  /\ Pose(c, PuzzleOf(j))

InSolved(t, step) == pc[t] = "solved" /\ at[t] = step

GoTo(t, step) == at' = [at EXCEPT ![t] = step] /\ UNCHANGED <<vars, using>>

\* solved returns to mining_thread, or leaves it with an exception.
LeaveSolved(t, next) ==
  /\ pc' = [pc EXCEPT ![t] = next]
  /\ at' = [at EXCEPT ![t] = "check"]
  /\ using' = [using EXCEPT ![t] = "Current"]
  /\ UNCHANGED <<channelVars, puzzle>>

Proves(t, j) == puzzle[t] = PuzzleOf(j)

\* redeemer::solved looks at Current and Last without Mutex and passes submit
\* a reference to the one that matches.
Check(t) ==
  LET c == ChannelOf[t] IN
  /\ InSolved(t, "check")
  /\ IF Proves(t, Current[c]) \/ Proves(t, Last[c])
     THEN /\ using' = [using EXCEPT ![t] = IF Proves(t, Current[c]) THEN "Current" ELSE "Last"]
          /\ at' = [at EXCEPT ![t] = "submit"]
          /\ UNCHANGED vars
     ELSE LeaveSolved(t, "select")
  /\ UNCHANGED <<Current, Last>>

\* What submit's parameter puzzle reads as at this moment.
Submitted(t) == IF using[t] = "Current" THEN Current[ChannelOf[t]] ELSE Last[ChannelOf[t]]

Work(t) == (Select(t) \/ Solve(t)) /\ UNCHANGED redeemerVars

\* Nobody owes a thread a wakeup for nothing: it is no step of Work, which is fair.
Wakes(t) == SpuriousWakeup(t) /\ UNCHANGED redeemerVars
=============================================================================
