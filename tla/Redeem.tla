------------------------------- MODULE Redeem -------------------------------
(***************************************************************************)
(* The command redeem (src/boost_miner.cpp): the main thread looks the job *)
(* up, starts threads that share one channel, poses the job, joins the     *)
(* threads and destroys the redeemer.                                      *)
(***************************************************************************)
EXTENDS Redeemer, Naturals

CONSTANTS
  chan,    \* the redeemer, which is the threads' channel
  job,     \* the script of the job the user asked for
  key,     \* his key
  out      \* the output he asked for

\* All threads share one channel, on which redeem poses nothing but its job while
\* a thread is there: the destructor poses the empty puzzle after the join.
ASSUME RedeemAssumption ==
  /\ Chan = {chan}
  /\ Script = {job} /\ Key = {key}
  /\ out \in Outpoint
  /\ NoJob \notin Job
  /\ ~Rests

VARIABLES
  main,    \* where the main thread is in redeem ()
  sent     \* how many redeem transactions each thread has broadcast

redeemVars == <<vars, redeemerVars, main, sent>>

RedeemInit ==
  /\ RedeemerInit
  /\ main = "looking"
  /\ sent = [t \in Thread |-> 0]

\* The job is what the user gave, or what network::job finds, which may throw,
\* as may the comparisons of the one with the other.  Then the threads start.
MainLooksUp ==
  /\ main = "looking"
  /\ main' \in {"started", "refused"}
  /\ UNCHANGED <<vars, redeemerVars, sent>>

\* The threads already run when r.mine poses the job, which is of the output
\* and what else is unspent of its script.
MainMines ==
  /\ main = "started"
  /\ \E S \in SUBSET Outpoint :
       out \in S /\ MineJob(chan, [id |-> job, Prevouts |-> S, key |-> key])
  /\ main' = "joining"
  /\ UNCHANGED <<at, using, sent>>

\* mutants: main waits for the first thread only; submit leaves the channel
\* open, or empties it as the destructor does.
MainJoins_First ==
  /\ main = "joining"
  /\ \E t \in Thread : pc[t] \in Ended
  /\ main' = "joined"
  /\ UNCHANGED <<vars, redeemerVars, sent>>
CloseChannel_Not(t) ==
  /\ InSolved(t, "close")
  /\ GoTo(t, "return")
  /\ UNCHANGED <<Current, Last, main, sent>>
CloseChannel_Rests(t) ==
  /\ InSolved(t, "close")
  /\ Pose(chan, NoPuzzle)
  /\ at' = [at EXCEPT ![t] = "return"]
  /\ UNCHANGED <<Current, Last, using, main, sent>>

\* wait_for_shutdown joins every thread.
MainJoins ==
  /\ main = "joining"
  /\ AllEnded(chan)
  /\ main' = "joined"
  /\ UNCHANGED <<vars, redeemerVars, sent>>

\* ~multithreaded poses the invalid puzzle and joins again: join throws for a
\* thread that was joined before, and the exception leaves a destructor.
MainDestroys ==
  /\ main = "joined"
  /\ Pose(chan, NoPuzzle)
  /\ main' = "terminated"
  /\ UNCHANGED <<redeemerVars, sent>>

\* The fee is computed; submit throws when the outputs cannot pay it.
Quote(t) ==
  /\ InSolved(t, "submit")
  /\ GoTo(t, "broadcast") \/ LeaveSolved(t, "failed")
  /\ UNCHANGED <<Current, Last, main, sent>>

\* The result of Net.broadcast is ignored; what is not an HTTP exception
\* passes through submit and ends the thread.
Broadcast(t) ==
  /\ InSolved(t, "broadcast")
  /\ sent' = [sent EXCEPT ![t] = @ + 1]
  /\ GoTo(t, "close") \/ LeaveSolved(t, "failed")
  /\ UNCHANGED <<Current, Last, main>>

CloseChannel(t) ==
  /\ InSolved(t, "close")
  /\ Last' = [Last EXCEPT ![chan] = NoJob]
  /\ Close(chan)
  /\ at' = [at EXCEPT ![t] = "return"]
  /\ UNCHANGED <<Current, using, main, sent>>

SubmitReturns(t) ==
  /\ InSolved(t, "return")
  /\ LeaveSolved(t, "select")
  /\ UNCHANGED <<Current, Last, main, sent>>

ThreadStep(t) ==
  /\ main \notin {"looking", "refused"}
  /\ \/ (Work(t) \/ Check(t)) /\ UNCHANGED <<main, sent>>
     \/ Quote(t) \/ Broadcast(t) \/ CloseChannel(t) \/ SubmitReturns(t)

MainStep == MainLooksUp \/ MainMines \/ MainJoins \/ MainDestroys

RedeemNext ==
  \/ MainStep
  \/ \E t \in Thread : ThreadStep(t) \/ (Wakes(t) /\ UNCHANGED <<main, sent>>)

RedeemSpec == RedeemInit /\ [][RedeemNext]_redeemVars

\* The main thread and the mining threads are scheduled, and every HTTP call
\* returns or throws.
RedeemFairSpec ==
  RedeemSpec /\ WF_redeemVars(MainStep) /\ \A t \in Thread : WF_redeemVars(ThreadStep(t))
-----------------------------------------------------------------------------
RedeemTypeOK ==
  /\ TypeOK
  /\ Current \in [Chan -> Job \cup {NoJob}]
  /\ Last \in [Chan -> Job \cup {NoJob}]
  /\ at \in [Thread -> {"check", "submit", "broadcast", "close", "return"}]
  /\ using \in [Thread -> {"Current", "Last"}]
  /\ main \in {"looking", "refused", "started", "joining", "joined", "terminated"}
  /\ sent \in [Thread -> Nat]

\* Threads that solve the job at the same time each broadcast a transaction
\* that spends it, but none does so twice: a thread that comes back from
\* submit finds the channel closed, whatever the others do meanwhile.
SendsAtMostOnce == \A t \in Thread : sent[t] <= 1

\* Once r.mine has posed the job, a thread leaves its loop only when one of
\* them has broadcast a transaction and closed the channel, whatever wakes it
\* up and when.  (Before r.mine, with which the threads race, a spurious wakeup
\* of In.wait ends a thread at once: miner.hpp:66 is an if and no loop.)
LeavesOnlyWhenSettled ==
  [][\A t \in Thread : pc[t] # "stopped" /\ pc'[t] = "stopped" =>
       main = "started" \/ (Closed[chan] /\ \E u \in Thread : sent[u] = 1)]_redeemVars

\* Nobody starts to work on a puzzle of a closed channel: close drops the
\* puzzle, and no pose comes after it.
NoWorkAfterClose ==
  [][\A t \in Thread :
       Closed[ChannelOf[t]] => (pc'[t] = "solving" => pc[t] = "solving")]_redeemVars

\* One thread that has broadcast brings the whole command to its end: it
\* closes the channel, the sleepers wake, the others come back, main joins.
SolutionEndsRedeem ==
  \A t \in Thread : (at[t] = "close") ~> (main = "terminated")

\* The command uses its channel the way Channel describes.
ImplementsChannel == Spec
=============================================================================
