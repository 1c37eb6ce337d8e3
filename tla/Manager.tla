------------------------------ MODULE Manager ------------------------------
(***************************************************************************)
(* BoostPOW::manager (src/miner.cpp), the command mine.  The IO thread     *)
(* calls the jobs API, handles websocket messages and reassigns workers;   *)
(* each worker thread mines the job of its own redeemer and submits its    *)
(* solutions.  They share the book of jobs under manager::Mutex, except    *)
(* for the periodic reassignment, which does not take it.                  *)
(***************************************************************************)
EXTENDS Redeemer, Naturals, FiniteSetsExt

CONSTANTS
  ScriptOf,           \* the script of each output
  Value,              \* its satoshis
  Difficulty,         \* the difficulty of each script
  MaxDifficulty,      \* 0 when the user gave none; no difficulty is 0
  MinProfitability,   \* satoshis per difficulty
  MinValue,
  Websockets,         \* whether the user asked for the websocket
  RefreshCount        \* 30 second periods from one call of the API to the next

\* Each worker has a channel of its own; a word that says who holds Mutex names no
\* worker; select_job rests workers (miner.cpp:244).
ASSUME ManagerAssumption ==
  /\ Chan = Thread
  /\ ChannelOf = [t \in Thread |-> t]
  /\ NoJob \notin Job
  /\ {"io", "none"} \cap Thread = {}
  /\ Rests
  /\ IsFiniteSet (Outpoint)
  /\ ScriptOf \in [Outpoint -> Script]
  /\ Value \in [Outpoint -> Nat \ {0}]
  /\ Difficulty \in [Script -> Nat \ {0}]
  /\ MaxDifficulty \in Nat
  /\ MinProfitability \in Nat
  /\ MinValue \in Nat
  /\ Websockets \in BOOLEAN
  /\ RefreshCount \in Nat \ {0}

VARIABLES
  Jobs,       \* jobs::Jobs, from scripts to their outputs and workers
  Scripts,    \* the keys of jobs::Scripts; the script of a key is ScriptOf
  holder,     \* who holds manager::Mutex: "io", a worker or "none"
  todo,       \* the workers the holder still has to call select_job for
  io,         \* what the IO thread does
  snapshot,   \* the outputs Net.jobs has found
  count,      \* how often the timer fired, modulo RefreshCount
  who,        \* the worker the IO thread reassigns, or "none"
  picked,     \* the job that worker leaves, then the one select_job has picked
  websocket,  \* websockets_running
  tx,         \* the job each worker's redeem transaction is built from
  target,     \* the script whose place in the book its submit has found
  chain,      \* external: what the block chain knows of each output
  heard       \* what the websocket has told of each output

bookVars == <<Jobs, Scripts, holder, todo>>
ioVars == <<io, snapshot, count, websocket, who, picked>>
submitVars == <<tx, target>>
worldVars == <<chain, heard>>
managerVars == <<vars, redeemerVars, bookVars, ioVars, submitVars, worldVars>>

\* The calls of network::jobs are those of JobsApi, of which the manager sees
\* nothing else; Network is shown to implement it.
Api == INSTANCE JobsApi WITH
  call <- CASE io = "calling" -> "calling" [] io = "update" -> "returned" [] OTHER -> "idle",
  found <- snapshot

EmptyBook == [s \in {} |-> [Prevouts |-> {}, Workers |-> {}]]

\* The initial call of periodically comes when the workers already wait.
ManagerInit ==
  /\ RedeemerInit
  /\ Jobs = EmptyBook /\ Scripts = {}
  /\ holder = "none" /\ todo = {}
  /\ io = "idle" /\ count = 0 /\ websocket = FALSE
  /\ who = "none" /\ picked = NoJob
  /\ tx = [t \in Thread |-> NoJob] /\ target = [t \in Thread |-> NoPuzzle]
  /\ Api!Init
  /\ heard = [o \in Outpoint |-> "nothing"]

Worth(P) == MapThenSumSet(LAMBDA o : Value[o], P)
\* profitability () < MinProfitability, and weight () > 0, without the division.
Unprofitable(s, P) == Worth(P) < MinProfitability * Difficulty[s]
Weighty(s, P) == Worth(P) > MinProfitability * Difficulty[s]

PrevoutsOf(s, S) == {o \in S : ScriptOf[o] = s}
\* The constructor of working from a candidate starts without workers.
Working(P) == [Prevouts |-> P, Workers |-> {}]

Without(s) == [r \in DOMAIN Jobs \ {s} |-> Jobs[r]]
WorkersOf(s) == Jobs[s].Workers
-----------------------------------------------------------------------------
(* Choosing jobs: random_select may return every job of positive weight.   *)
(* Mining is left out, because only the broken condition in new_job reads  *)
(* it.  Where the caller holds Mutex, select_job is one step.              *)

Selectable == {s \in DOMAIN Jobs : Weighty(s, Jobs[s].Prevouts)}

\* What select_job may pick; the key is the next one, or the contract's.
Picks == {[id |-> s, Prevouts |-> Jobs[s].Prevouts, key |-> k] : s \in Selectable, k \in Key}

SelectJob(i) ==
  \/ /\ Jobs = EmptyBook
     /\ UNCHANGED <<vars, redeemerVars, Jobs>>
  \/ /\ Jobs # EmptyBook /\ Selectable = {}
     /\ MineJob(i, NoJob)
     /\ UNCHANGED <<at, using, Jobs>>
  \/ \E j \in Picks :
     /\ Jobs' = [Jobs EXCEPT ![j.id].Workers = @ \cup {i}]
     /\ MineJob(i, j)
     /\ UNCHANGED <<at, using>>

\* The loops over select_job; the holder is in no hurry to let go of Mutex.
SelectNext ==
  \E i \in todo :
    /\ SelectJob(i)
    /\ todo' = todo \ {i}
    /\ UNCHANGED <<Scripts, holder, ioVars, submitVars, worldVars>>

\* The IO thread leaves a handler that reselected.
HandlerReturns ==
  /\ io = "selecting" /\ todo = {}
  /\ holder' = "none"
  /\ io' = "idle"
  /\ UNCHANGED <<vars, redeemerVars, Jobs, Scripts, todo, snapshot, count, websocket,
                 who, picked, submitVars, worldVars>>

\* mutant: nobody is given a job.
ThenSelect_Nobody(W) == todo' = {} /\ holder' = "none" /\ io' = "idle"

\* The handler goes on to select jobs for W with Mutex held, or is done.
ThenSelect(W) ==
  /\ todo' = W
  /\ IF W = {} THEN holder' = "none" /\ io' = "idle"
               ELSE holder' = "io" /\ io' = "selecting"
-----------------------------------------------------------------------------
(* run: the timer.                                                         *)

NextCount == (count + 1) % RefreshCount

\* After a call of the API the websocket is opened.  One that does not come up,
\* or closes until the next call, is one whose messages do not come.
OpensWebsocket == websocket' = Websockets

\* mutant: Mutex is taken before the call, and again in update_jobs.
TimerFires_Locked ==
  /\ io = "idle" /\ count = 0 /\ holder = "none"
  /\ io' = "calling" /\ holder' = "io"
  /\ Api!Call
  /\ UNCHANGED <<vars, redeemerVars, Jobs, Scripts, todo, count, websocket, who, picked,
                 submitVars, heard>>

\* Every RefreshCount periods the API is called, the first time at once.
TimerFires ==
  /\ io = "idle" /\ count = 0
  /\ io' = "calling"
  /\ Api!Call
  /\ UNCHANGED <<vars, redeemerVars, bookVars, count, websocket, who, picked, submitVars, heard>>

ApiFinds(s) ==
  /\ UNCHANGED io
  /\ Api!Look(s)
  /\ UNCHANGED <<vars, redeemerVars, bookVars, count, websocket, who, picked, submitVars, heard>>

ApiReturns ==
  /\ io' = "update"
  /\ Api!Return
  /\ count' = NextCount
  /\ UNCHANGED <<vars, redeemerVars, bookVars, websocket, who, picked, submitVars, heard>>

\* The call throws a std::exception: it is reported and the timer set again.
ApiFails ==
  /\ io = "calling" /\ io' = "idle"
  /\ Api!Done
  /\ count' = NextCount
  /\ OpensWebsocket
  /\ UNCHANGED <<vars, redeemerVars, bookVars, who, picked, submitVars, heard>>

\* The call throws something else: the lambda returns without setting the
\* timer.  What is left of the IO thread is the websocket.
TimerDies ==
  /\ io = "calling" /\ io' = "idle"
  /\ Api!Done
  /\ count' = RefreshCount
  /\ UNCHANGED <<vars, redeemerVars, bookVars, websocket, who, picked, submitVars, heard>>

\* What update_jobs removes from the jobs of the API, with their index.
Kept == {s \in {ScriptOf[o] : o \in snapshot} :
           /\ MaxDifficulty > 0 => Difficulty[s] <= MaxDifficulty
           /\ ~Unprofitable(s, PrevoutsOf(s, snapshot))}

UpdateJobs ==
  /\ io = "update" /\ holder = "none"
  /\ Jobs' = [s \in Kept |-> Working(PrevoutsOf(s, snapshot))]
  /\ Scripts' = {o \in snapshot : ScriptOf[o] \in Kept}
  /\ ThenSelect(IF Kept = {} THEN {} ELSE Thread)
  /\ Api!Done
  /\ OpensWebsocket
  /\ UNCHANGED <<vars, redeemerVars, count, who, picked, submitVars, heard>>
-----------------------------------------------------------------------------
(* The reassignment of one worker by the timer.  It does not take Mutex:   *)
(* what a worker does in submit may come between any two of its steps.     *)

Reassigning == {"leaving", "picking", "listing", "posing"}

Reassigns(i) ==
  /\ io = "idle" /\ count \in 1 .. RefreshCount - 1
  /\ io' = "leaving" /\ who' = i
  /\ picked' = Current[i]
  /\ UNCHANGED <<vars, redeemerVars, bookVars, snapshot, count, websocket, submitVars, worldVars>>

ReassignStep(from, to) ==
  /\ io = from /\ io' = to
  /\ UNCHANGED <<snapshot, websocket, Scripts, holder, todo, submitVars, worldVars>>

ReassignEnds(from) ==
  /\ ReassignStep(from, "idle")
  /\ who' = "none" /\ picked' = NoJob
  /\ count' = NextCount

\* A list of workers is read, changed and written back.  When a worker in submit
\* does so too, what it or this thread adds or takes away may be lost.
Rewritten(old, new) ==
  IF holder \in Thread THEN {old, new} \cup {new \ {w} : w \in old} ELSE {new}

\* The worker is taken off the list of the job it had.
ReassignLeaves ==
  /\ ReassignStep("leaving", "picking")
  /\ IF picked # NoJob /\ picked.id \in DOMAIN Jobs
     THEN \E W \in Rewritten(Jobs[picked.id].Workers, Jobs[picked.id].Workers \ {who}) :
            Jobs' = [Jobs EXCEPT ![picked.id].Workers = W]
     ELSE UNCHANGED Jobs
  /\ picked' = NoJob
  /\ UNCHANGED <<vars, redeemerVars, count, who>>

\* random_select finds no book, no job, or a job.
ReassignPicks ==
  /\ \/ Jobs = EmptyBook /\ ReassignEnds("picking")
     \/ /\ Jobs # EmptyBook /\ Selectable = {}
        /\ ReassignStep("picking", "posing")
        /\ UNCHANGED <<count, who, picked>>
     \/ /\ picked' \in Picks
        /\ ReassignStep("picking", "listing")
        /\ UNCHANGED <<count, who>>
  /\ UNCHANGED <<vars, redeemerVars, Jobs>>

\* When a worker changes the book while random_select sums up its weights, it
\* may throw, and the exception leaves IO.run.
PickThrows ==
  /\ \E t \in Thread : holder = t /\ at[t] \in {"broadcast", "reselect"}
  /\ ReassignStep("picking", "over")
  /\ who' = "none"
  /\ UNCHANGED <<vars, redeemerVars, Jobs, count, picked>>

\* The list of a job that was erased meanwhile is in nobody's book.
ReassignLists ==
  /\ ReassignStep("listing", "posing")
  /\ IF picked.id \in DOMAIN Jobs
     THEN \E W \in Rewritten(Jobs[picked.id].Workers, Jobs[picked.id].Workers \cup {who}) :
            Jobs' = [Jobs EXCEPT ![picked.id].Workers = W]
     ELSE UNCHANGED Jobs
  /\ UNCHANGED <<vars, redeemerVars, count, who, picked>>

ReassignPoses ==
  /\ ReassignEnds("posing")
  /\ MineJob(who, picked)
  /\ UNCHANGED <<at, using, Jobs>>
-----------------------------------------------------------------------------
(* The websocket.  A message may never come; proofs follow their jobs.     *)

Hears(o, kind) ==
  /\ io = "idle" /\ holder = "none"
  /\ websocket
  /\ heard' = [heard EXCEPT ![o] = kind]

\* What JSON::parse or the error handler of the socket throws leaves IO.run: mine
\* has no IO thread any more.  What main () does then is not modelled.
RunEnds ==
  /\ io = "idle" /\ websocket
  /\ io' = "over"
  /\ UNCHANGED <<vars, redeemerVars, bookVars, snapshot, count, websocket, who, picked,
                 submitVars, worldVars>>

\* mutants: the script index is forgotten; the difficulty is not looked at.
AddPrevout_NoIndex(o) ==
  /\ Jobs' = [s \in DOMAIN Jobs \cup {ScriptOf[o]} |->
       IF s \in DOMAIN Jobs THEN [Jobs[s] EXCEPT !.Prevouts = @ \cup {o}] ELSE Working({o})]
  /\ UNCHANGED Scripts
Refuses_Unprofitable(o) == Unprofitable(ScriptOf[o], {o})

\* jobs::add_prevout: for a known script too the new working has no workers.
AddPrevout(o) ==
  LET s == ScriptOf[o] IN
  /\ Jobs' = [r \in DOMAIN Jobs \cup {s} |->
       IF r # s THEN Jobs[r]
       ELSE Working({o} \cup IF s \in DOMAIN Jobs THEN Jobs[s].Prevouts ELSE {})]
  /\ Scripts' = Scripts \cup {o}

Refuses(o) ==
  LET s == ScriptOf[o] IN
  Difficulty[s] > MaxDifficulty \/ (Unprofitable(s, {o}) /\ s \notin DOMAIN Jobs)

\* new_job: if (Mining = false) assigns, so that nobody is given the new job.
NewJob(o) ==
  /\ chain[o] # "unborn" /\ heard[o] = "nothing"
  /\ Hears(o, "created")
  /\ IF Refuses(o) THEN UNCHANGED <<Jobs, Scripts>> ELSE AddPrevout(o)
  /\ UNCHANGED <<vars, redeemerVars, holder, todo, ioVars, submitVars, chain>>

SolvedJob(o) ==
  LET s == ScriptOf[o]
      known == o \in Scripts /\ s \in DOMAIN Jobs
      sole == known /\ Cardinality(Jobs[s].Prevouts) = 1
  IN
  /\ chain[o] = "spent" /\ heard[o] # "solved"
  /\ Hears(o, "solved")
  /\ Jobs' = IF sole THEN Without(s)
             ELSE IF known THEN [Jobs EXCEPT ![s].Prevouts = @ \ {o}]
             ELSE Jobs
  /\ ThenSelect(IF sole THEN WorkersOf(s) ELSE {})
  /\ Scripts' = Scripts \ {o}
  /\ UNCHANGED <<vars, redeemerVars, snapshot, count, websocket, who, picked, submitVars, chain>>
-----------------------------------------------------------------------------
(* submit, in the thread of worker t.                                      *)

\* mutants: Mutex is given up for the network call; it is not released when
\* an exception leaves submit.
KeepsMutex_No(t) == UNCHANGED holder
Throws_WithMutex(t) == LeaveSolved(t, "failed") /\ UNCHANGED holder

KeepsMutex(t) == holder' = t
Throws(t) == LeaveSolved(t, "failed") /\ holder' = "none"

\* Nothing of the reference is looked at before Mutex is taken.  What the job is
\* worth has to pay the fee, which that of no job cannot.
Quote(t) ==
  /\ InSolved(t, "submit") /\ holder = "none"
  /\ \/ Throws(t)
     \/ Submitted(t) # NoJob /\ GoTo(t, "build") /\ KeepsMutex(t)
  /\ UNCHANGED <<Current, Last, Jobs, Scripts, todo, ioVars, submitVars, worldVars>>

\* The reference is read again: the reassignment may have replaced what it
\* refers to, even by no job, of which redeem_puzzle makes no transaction.
Build(t) ==
  /\ InSolved(t, "build")
  /\ \/ Throws(t) /\ UNCHANGED tx
     \/ /\ GoTo(t, "look_up") /\ UNCHANGED holder
        /\ tx' = [tx EXCEPT ![t] = Submitted(t)]
  /\ UNCHANGED <<Current, Last, Jobs, Scripts, todo, ioVars, target, worldVars>>

\* And again, to find the job in the book.
LookUp(t) ==
  LET j == Submitted(t) IN
  /\ InSolved(t, "look_up")
  /\ IF j # NoJob /\ j.id \in DOMAIN Jobs
     THEN /\ GoTo(t, "submit_proof")
          /\ target' = [target EXCEPT ![t] = j.id]
          /\ UNCHANGED <<tx, holder>>
     ELSE /\ LeaveSolved(t, "select") /\ holder' = "none"
          /\ tx' = [tx EXCEPT ![t] = NoJob] /\ UNCHANGED target
  /\ UNCHANGED <<Current, Last, Jobs, Scripts, todo, ioVars, worldVars>>

\* external: the network accepts a transaction only with a valid solution and
\* unspent outputs, and may always refuse.
Accepts(t) == Proves(t, tx[t]) /\ \A o \in tx[t].Prevouts : chain[o] = "open"
Accepted(t) == [o \in Outpoint |-> IF o \in tx[t].Prevouts THEN "spent" ELSE chain[o]]

Forget(t) == tx' = [tx EXCEPT ![t] = NoJob] /\ target' = [target EXCEPT ![t] = NoPuzzle]

SendsToNetwork(t) == chain' = chain \/ (Accepts(t) /\ chain' = Accepted(t))

\* broadcast_solution first gives the transaction to pow.co, which may pass it
\* on to the network, and throws if that call does.
SubmitProof(t) ==
  /\ InSolved(t, "submit_proof")
  /\ \/ Throws(t) /\ Forget(t)
     \/ GoTo(t, "broadcast") /\ UNCHANGED <<holder, submitVars>>
  /\ SendsToNetwork(t)
  /\ UNCHANGED <<Current, Last, Jobs, Scripts, todo, ioVars, heard>>

\* network::broadcast waits until the IO thread has left network::jobs, for both
\* hold the mutex of network.cpp.  It tries one service after the other; whether
\* the transaction gets through does not depend on what they answer, nor on who
\* throws.  Unless it throws, the job leaves the book whatever came of it.
Broadcast(t) ==
  /\ InSolved(t, "broadcast") /\ io # "calling"
  /\ \/ Throws(t) /\ UNCHANGED <<Jobs, todo>>
     \/ /\ GoTo(t, "reselect")
        /\ Jobs' = Without(target[t])
        /\ todo' = WorkersOf(target[t])
        /\ UNCHANGED holder
  /\ SendsToNetwork(t)
  /\ Forget(t)
  /\ UNCHANGED <<Current, Last, Scripts, ioVars, heard>>

SubmitReturns(t) ==
  /\ InSolved(t, "reselect") /\ todo = {}
  /\ LeaveSolved(t, "select")
  /\ holder' = "none"
  /\ UNCHANGED <<Current, Last, Jobs, Scripts, todo, ioVars, submitVars, worldVars>>

\* When the reassignment puts a worker on a list while random_select sums up the
\* weights, it may throw: the other workers of the job keep it.
SelectThrows(t) ==
  /\ InSolved(t, "reselect") /\ todo # {} /\ io = "listing"
  /\ Throws(t)
  /\ todo' = {}
  /\ UNCHANGED <<Current, Last, Jobs, Scripts, ioVars, submitVars, worldVars>>
-----------------------------------------------------------------------------
\* external: outputs are created and redeemed by others.
World ==
  /\ \E o \in Outpoint :
       \/ chain[o] = "unborn" /\ chain' = [chain EXCEPT ![o] = "open"]
       \/ chain[o] = "open" /\ chain' = [chain EXCEPT ![o] = "spent"]
  /\ UNCHANGED <<vars, redeemerVars, bookVars, ioVars, submitVars, heard>>

Reassignment ==
  \/ \E i \in Thread : Reassigns(i)
  \/ ReassignLeaves \/ ReassignPicks \/ PickThrows \/ ReassignLists \/ ReassignPoses

Timer ==
  \/ TimerFires \/ ApiReturns \/ ApiFails \/ TimerDies \/ UpdateJobs
  \/ \E s \in Script : ApiFinds(s)
  \/ Reassignment

Websocket == RunEnds \/ \E o \in Outpoint : NewJob(o) \/ SolvedJob(o)

WorkerStep(t) ==
  \/ (Work(t) \/ Check(t)) /\ UNCHANGED <<bookVars, ioVars, submitVars, worldVars>>
  \/ Quote(t) \/ Build(t) \/ LookUp(t)
  \/ SubmitProof(t) \/ Broadcast(t) \/ SubmitReturns(t) \/ SelectThrows(t)

ManagerNext ==
  \/ Timer \/ Websocket \/ SelectNext \/ HandlerReturns
  \/ \E t \in Thread : WorkerStep(t)
  \/ \E t \in Thread : Wakes(t) /\ UNCHANGED <<bookVars, ioVars, submitVars, worldVars>>
  \/ World

ManagerSpec == ManagerInit /\ [][ManagerNext]_managerVars

\* The timer fires and every HTTP call returns or throws; threads are
\* scheduled, and nobody waits for Mutex, or for that of the network, for ever
\* while others take it.  The world and the websocket owe nothing.
ManagerFairSpec ==
  /\ ManagerSpec
  /\ SF_managerVars(Timer \/ HandlerReturns) /\ WF_managerVars(SelectNext)
  /\ \A t \in Thread : SF_managerVars(WorkerStep(t))
-----------------------------------------------------------------------------
\* A worker in submit that has Mutex.
InSubmit == {"build", "look_up", "submit_proof", "broadcast", "reselect"}

ManagerTypeOK ==
  /\ TypeOK
  /\ Current \in [Chan -> Job \cup {NoJob}]
  /\ Last \in [Chan -> Job \cup {NoJob}]
  /\ at \in [Thread -> {"check", "submit"} \cup InSubmit]
  /\ using \in [Thread -> {"Current", "Last"}]
  /\ DOMAIN Jobs \subseteq Script
  /\ \A s \in DOMAIN Jobs : Jobs[s] \in [Prevouts : SUBSET Outpoint, Workers : SUBSET Thread]
  /\ Scripts \subseteq Outpoint
  /\ holder \in Thread \cup {"io", "none"}
  /\ todo \subseteq Thread
  /\ io \in {"idle", "calling", "update", "selecting", "over"} \cup Reassigning
  /\ snapshot \subseteq Outpoint
  /\ count \in 0 .. RefreshCount
  /\ websocket \in BOOLEAN
  /\ who \in IF io \in Reassigning THEN Thread ELSE {"none"}
  /\ picked \in IF io = "listing" THEN Job ELSE Job \cup {NoJob}
  /\ tx \in [Thread -> Job \cup {NoJob}]
  /\ target \in [Thread -> Script \cup {NoPuzzle}]
  /\ chain \in [Outpoint -> {"unborn", "open", "spent"}]
  /\ heard \in [Outpoint -> {"nothing", "created", "solved"}]

\* jobs::Scripts finds the job of every output in the book, so that a proof
\* seen on the websocket is never missed: update_jobs, remove, add_prevout,
\* solved_job and the erase in submit all have to keep the two maps together.
ScriptsIndex == \A s \in DOMAIN Jobs : Jobs[s].Prevouts \subseteq PrevoutsOf(s, Scripts)

\* Mutex has one holder, and it is held exactly while a worker is within submit
\* or a handler reselects: whatever way a worker leaves submit, by exception
\* too, Mutex is released.
MutexDiscipline ==
  /\ \A t \in Thread : holder = t <=> pc[t] = "solved" /\ at[t] \in InSubmit
  /\ holder = "io" <=> io = "selecting"
  /\ todo # {} => holder = "io" \/ \E t \in Thread : holder = t /\ at[t] = "reselect"

\* submit keeps the iterator it found across the network call: the job is
\* still in the book when its workers are read and it is erased.
IteratorStaysValid ==
  \A t \in Thread :
    InSolved(t, "submit_proof") \/ InSolved(t, "broadcast") => target[t] \in DOMAIN Jobs

\* max_difficulty: once the user gave one, no worker is given a job above it,
\* whichever way the job came into the book.
NeverTooDifficult ==
  MaxDifficulty > 0 =>
    \A c \in Chan : Current[c] # NoJob => Difficulty[Current[c].id] <= MaxDifficulty

\* The manager uses its channels the way Channel describes.
ImplementsChannel == Spec

\* Mutex is free again and again: whoever holds it lets go of it.
MutexIsReleased == []<>(holder = "none")

\* "we will call the API every few minutes" (miner.cpp:273), as long as no
\* exception of an unknown type has ended the timer (miner.cpp:290) and none has
\* left IO.run (miner.cpp:397): the IO thread gets Mutex, and the network's, in
\* between all submits.
CallsTheApiAgain == []<>(io = "calling" \/ count = RefreshCount \/ io = "over")

\* "select a new job for all mining threads" (miner.cpp:423): if only the API
\* answers again and again, no worker rests for ever beside a job it could mine,
\* although new_job wakes nobody (miner.cpp:420), the reassignment picks one
\* worker, and a job of the minimal profitability rests whoever selects.
NobodyRestsForEver ==
  []<>(io = "update") =>
    \A t \in Thread : ~<>[](pc[t] = "waiting" /\ Selectable # {})

\* A job that left the book is not mined for ever, as long as the API brings jobs
\* again and again: a worker may miss the reselection of submit because new_job
\* dropped the list of its job, the unlocked reassignment lost its entry or put
\* it on a job that was erased meanwhile, and still the next call finds it.
NobodyMinesAGoneJobForEver ==
  []<>(io = "update" /\ Kept # {}) =>
    \A t \in Thread : ~<>[](Current[t] # NoJob /\ Current[t].id \notin DOMAIN Jobs)
-----------------------------------------------------------------------------
(* What the code says of itself and does not do.                           *)

\* solved checks the solution against the job it submits (miner.cpp:200): the
\* transaction is built for the job that the solution proves.
SubmitsWhatItProved == \A t \in Thread : InSolved(t, "submit_proof") => Proves(t, tx[t])
=============================================================================
