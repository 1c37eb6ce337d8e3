# A TLA+ model of the Boost POW CPU miner

This directory holds a specification of the concurrent core of the miner in `src/`,
model-checked with TLC; every safety property that is checked is also proved with TLAPS,
for any number of threads, outputs, keys and so on. All paths below are relative
to the repository; in `PROJECT.json` they carry the prefix `src/`.

## 1. The system

`BoostMiner` (`src/boost_miner.cpp`) redeems *boost* outputs: bitcoin outputs whose
script pays whoever supplies a proof of work. `redeem` mines one output with several
threads; `mine` polls the pow.co API for outputs and keeps one worker thread per
redeemer busy. `cosmos` (`src/cosmos.cpp`) is a small wallet that creates such outputs.

| component | state | operations | talks to |
|---|---|---|---|
| channel (`include/miner.hpp:45`) | `Puzzle`, `Valid`, `Closed`, a mutex, a condition variable | `pose`, `select`, `close` | posers and mining threads |
| mining threads (`src/miner.cpp:157`) | the local `puzzle`, where the thread is | select, solve, solved | their channel, their solver |
| redeemer (`include/miner.hpp:103`) | `Current`, `Last`, a mutex | `mine`, `solved`, `submit` | its channel, the network or the manager |
| redeem (`src/boost_miner.cpp:99-214`) | the main thread, the redeem transactions | mine, join, destroy; `submit` | the redeemer, the network |
| manager (`src/miner.cpp:213-539`) | `Jobs`, `Mutex`, `Redeemers`, the timer, the websocket | `run`, `update_jobs`, `new_job`, `solved_job`, `select_job`, `submit` | the redeemers, the network |
| book of jobs (`src/jobs.cpp`) | `Jobs` by script, `Scripts` by output, workers of each job | `add_prevout`, `remove`, `random_select` | the manager |
| key database (`src/jobs.cpp:115-144`) | `Past`, `Next` | `next`, `operator []` | the manager |
| network (`src/network.cpp`) | one mutex, caches of transactions and histories | `jobs`, `broadcast`, `broadcast_solution`, `mining_fee`, `job` | pow.co, whatsonchain, gorilla |
| CPU solver (`src/miner.cpp:15-84`) | nonce, extra nonce, timestamp | `solve`, `cpu_solve` | the clock |
| wallet and cosmos (`src/wallet.cpp`, `src/cosmos.cpp`) | the wallet and its file | `generate`, `receive`, `import`, `boost`, `restore` | network, file |
| pow.co client, whatsonchain client | none | one HTTP call each | network |
| options, logger, random numbers, `spend`, `detect_boost`, stratum stub | — | I/O, parsing, output | — |

Who runs what: `mine` has one IO thread (timer, API calls, websocket messages) and N
workers. The IO thread enters `update_jobs`, `new_job` and `solved_job`, a worker
`submit`; all of them take `manager::Mutex`, except the periodic reassignment in `run`
(`src/miner.cpp:335-345`). The locks are always taken in the order `manager::Mutex`,
`redeemer::Mutex`, `channel::Mutex`; the network's mutex is taken inside `manager::Mutex`
by a worker and alone by the IO thread, for the whole of a call of `network::jobs`; the
logger's is innermost.
No cycle, so no deadlock between the locks; what can go wrong is what is read or kept
outside them.

What is hard, and where: `hazards` in `PROJECT.json` lists it line by line. In short:

* **channel**: lost wakeups; `select` waits under an `if`; close against pose.
  *Right* means: the newest puzzle reaches every thread, nobody sleeps beside a puzzle,
  threads end exactly when they are told to.
* **redeemer and redeem**: several threads solve at once; one fails; the end of the
  command. *Right*: each thread broadcasts at most once, and once the job is posed none
  leaves before it is redeemed.
* **manager**: an iterator is kept across a network call; a reference to `Current` is
  read after a wait; book, index and lists of workers have to agree; the reassignment works
  on all of it without the mutex; exceptions leave `submit` with the mutex held; the API
  fails. *Right*: the properties of section 4.
* **wallet**: what is written cannot be read back once there are coins; the broadcast comes
  before the writes, its result is not looked at, a write truncates first; restore guesses
  how far the keys were used. *Right*: the file lists only coins that exist, restore finds
  what is within its look-ahead, every command ends.
* **key database**: a lookup takes keys from the source that `next` has still to give out,
  and changes what the next lookup finds; two threads call it, and nothing keeps them apart.
  *Right*: it is a key ring (section 4), and a contract is kept only with its key.
* **CPU solver**: nonces that wrap, unsigned differences of a clock that ticks at any
  time, a timestamp renewed between hash and return. *Right*: no attempt twice, none
  lost, and the thread comes back in time.
* **network**: `jobs` makes one HTTP call after the other, each may end it, and its two
  caches are never emptied. *Right*: the book has what can be mined and nothing else,
  and closed jobs are reported.

## 2. Modules

| module | models | note |
|---|---|---|
| `Mailbox` | what a channel promises: a slot, a blocking take, leave when empty and shut | the abstract specification |
| `Channel` | `channel` and the loop of `mining_thread` | implements `Mailbox` |
| `Redeemer` | `redeemer::mine`, `solved` and the reference it hands to `submit` | extends `Channel`; used by the next two |
| `Redeem` | the command `redeem` | implements `Channel` |
| `Manager` | the command `mine`: manager and book of jobs | implements `Channel` |
| `JobsApi` | what a call of `network::jobs` promises its caller | abstract; `Network` implements it, `Manager` calls its actions |
| `Network` | `network::jobs` with its caches, whatsonchain and pow.co | implements `JobsApi` |
| `KeyRing` | what a key database promises | abstract |
| `KeyDatabase` | `map_key_database` as `select_job` and `update_jobs` use it | implements `KeyRing` |
| `CpuSolve` | `solve`, `cpu_solve` and the loop of `mining_thread` around them | stands alone; `Solve` of `Channel` is its abstraction |
| `Wallet` | the commands of `cosmos`, the wallet file and the block chain | stands alone |
| `ChannelProofs`, `RedeemProofs`, `ManagerProofs` | theorems about the module named | the last two use those of the first |
| `KeyDatabaseProofs`, `NetworkProofs`, `WalletProofs`, `CpuSolveProofs` | theorems about the module named | |
| `MC` and the name of a module | instances for TLC | |

**Channel.** A method runs under `channel::Mutex` and is one action. `select` gives the
mutex up in `In.wait`, so it is three: `SelectWaits` (the test fails, the thread joins
the wait set), the wakeup (`NotifyAll` in `Pose` and `Close`, or `SpuriousWakeup`), and
`SelectResumes` (the mutex is held again, whatever `Puzzle` is by then is returned).
`pc` says where a thread is in the loop; `"stopped"` is the break at
`src/miner.cpp:164`, `"failed"` the catch block. `Return` stands for the return of
`select` and the test after it: nothing another thread sees happens between the two.
`Rests` says whether the poser may pose the empty puzzle while threads still run:
`manager::select_job` does (`src/miner.cpp:244`), `redeem` does not.

**Redeemer.** `Current` and `Last` are pairs of a script hash and a puzzle; the model's
`Job` is a script with the outputs and the key it was selected with. The work puzzle depends
on script and key: with an HD key each selection takes the next key (`src/miner.cpp:257-260`),
so a solution of the same script with an older key is dropped by `Check`. `Check` is the body of `solved` up to the call of
`submit`: it reads `Current` and then `Last` without a lock. One action is enough for
the two reads: if `mine` comes between them the outcome is that of `mine` coming after.
`using` remembers which member the reference passed to `submit` refers to, and
`Submitted` reads it when `submit` does. `Work` is what a thread does by itself, `Wakes` a
spurious wakeup: kept apart, because nobody owes a thread one.

**Redeem.** `MainLooksUp` is what comes before the threads: the user gives the job or
`network::job` finds it, or the command is refused and no thread starts. `main` then walks
through `r.mine` (`MainMines`, with whatever outputs of the script were found),
`wait_for_shutdown` and the destructor, whose
second join throws (`"terminated"`: the process ends there, after the work was done).
`submit` is `Quote` (fee; may throw), `Broadcast`, `CloseChannel`, `SubmitReturns`. What
`network::job` reports to pow.co of outputs that are spent (`src/network.cpp:263-282`) is not
modelled: it is over before there is a thread.

**Manager.** `holder` is `manager::Mutex`. A handler of the IO thread that does not
reselect is one action, because it holds the mutex throughout. When it does reselect, `todo` holds the workers
of the loop that remain, and each call of `select_job` is an action `SelectNext`:
a `select_job` poses a puzzle on a channel whose worker runs meanwhile. A worker's
`submit` reads the job it was given by reference three times, and each read is an action:
`Quote` (takes the mutex; value and fee), `Build` (the redeem transaction, `tx`) and `LookUp` (the
iterator into the book, `target`), between which the reassignment may replace the job. Then come `SubmitProof` (the call
that gives the transaction to pow.co, which may broadcast it), `Broadcast` (the other services,
which need the network's mutex, then the erase) and `SelectNext` until `SubmitReturns`. A quote of the
fee may need the network's mutex too; waiting for it before or after taking
`manager::Mutex` makes no difference anybody can see, because all that could happen in
between is the IO thread's, which is in `network::jobs`.

`Reassigns`, `ReassignLeaves`, `ReassignPicks`, `ReassignLists` and `ReassignPoses` are the branch of
the timer that does not take the mutex (`src/miner.cpp:335-345`), with `select_job` taken apart: a
worker in `submit` may come between any two, and erase the job that was picked. A list of workers that both
of them write may lose or keep an entry it should not (`Rewritten`); an iterator over a book that
changes meanwhile may throw (`PickThrows`, `SelectThrows`). These are the outcomes of the data race that the
model has; what else a `std::map` in the hands of two threads can do (a crash, a
`random_select` that returns an element which is not there) is undefined and left out. `RunEnds` is an exception that leaves
`IO.run` through the handler of the websocket: the IO thread is `"over"`, and what `main` does then,
while the workers still run, is not modelled.

`io`, `count` and
`snapshot` are the timer's program counter, the counter modulo `refresh_count` (its
value `RefreshCount` marks a timer that was never set again), and what `Net.jobs` has
found: `ApiFinds` is one script of it, so that workers submit and others redeem between two. These actions are
made of `JobsApi`'s own (`Api!Call`, `Api!Look`, `Api!Return`, `Api!Done`): the manager meets whatever
`JobsApi` allows because it is put together from it. `random_select` may choose any job of positive weight. `profitability` is
compared without the division. `MaxDifficulty = 0` stands for the code's -1.

**Network.** `step` is how far the call of `jobs` is; within it, `ChecksScript` is a round of
the loop over scripts (with the answer of `get_unspent`), `StartsReport` the first part of
`count_closed_job` up to the history, `LooksAt` a round of its loop over transactions,
with the fetch, the cache and `submit_proof`, and `EndsReport` its end. The chain is `born`
(outputs) and `mined` (the transactions that redeem them; one may redeem several). A
step may end in `Throws`; `pow_co::spends` returns nothing in every case, so that only its
other exceptions matter. Transactions that create outputs are fetched too and cached; they
redeem nothing and have no state here. `posted` has the redemptions with which a request of
`submit_proof` reached pow.co; the status of the answer is not looked at (`src/pow_co_api.cpp:127`), so
that one pow.co refused passes for reported, in the code as in the model. `JobsApi` forgets all but what
was found, one script at a time: `Network` implements it (`ImplementsJobsApi`), and the manager is
built from its actions.

**KeyDatabase.** An address stands for its key. `source` is what the user gave: a WIF is the
same key for ever, an HD key a new one for each index; `taken` counts what was taken from it,
`Ahead` is `Next`. Two threads call it through `select_job`: a worker in `submit`, with
`manager::Mutex`, and the IO thread in the reassignment, without. A call has a beginning
(`BeginsNext`, `BeginsLookup`) and an end (`EndsNext`, `EndsLookup`): at the end it reads each of index, list and
map as it is then or as it was at the beginning (`Seen`), and writes what it makes of them, so
that of two calls that overlap either may overwrite the other. `calm` remembers that no two
have. The filter of `update_jobs`, one `Filter` per contract of the new book, is on the IO thread and
under the mutex, and so beside no other call. `heard` (contracts from the websocket, which are
not filtered), `given` and `calm` are auxiliary.

**CpuSolve.** `Solve`, `Enter` and `Begin` are the three readings of the clock, between any of
which it may tick; `Hash` is one turn of the loop. Integers are unsigned with the widths
of the constants, and `Since` is their difference. A puzzle is the set of attempts that win
(so a hash is looked up, not computed), an attempt a pair of nonces and a timestamp. The
share's `Bits` and the first extra nonce are chosen once and never change.

**Wallet.** One command runs at a time: `pc` is how far it is, `w` its wallet in memory,
`todo` the wallets it has still to write. `Open` and `Write` are the two halves of
`write_to_file`; between them the file is `Torn`. `Fails` is a kill, or an exception, at
any step of a command. `boost` is `Spend` (choose coins and the change key), `Broadcast`
(the network takes the transaction or not, and the code does not look), and two writes: of
`spend.Wallet` and then of the wallet as it was read (`src/cosmos.cpp:201-204`).
`restore` scans key after key, `ScanFinds` or `ScanSkips`, until `ScanEnds`; `ScanIsCut`
is an answer that is not what was expected. `chain` is external: payments (`Pay`) come at
any time, to addresses that were printed. `import` asks nobody whether its coin exists.
`form` is the name under which the file has the transactions of its coins: the program writes
`outpoint` (`src/wallet.cpp:12`) and looks for `txid` (`src/wallet.cpp:39`), so that only a file
without coins is `Readable`, and `Convert` is the user who renames the field by hand.
nlohmann's `operator []` on a const object without the name is undefined behaviour, and an assertion in a debug
build; in the model the command that reads such a file fails before it has done anything. `known` (what a restore could find when it
began), `imported` (the coins that were imported before they existed) and `past` (whether a command has failed, or
restored) are auxiliary: they restrict no action but for the bound on `imported`. Amounts are abstracted to the choice of coins, so any nonempty set may pay;
the order of the coins in the file is left out with them.

Deliberate abstractions, and why they lose nothing the properties speak of:

* *Range of exceptions.* Every call that can throw is a choice between throwing and
  returning. An exception that `mining_thread` does not catch (`throw "error: fee rate
  too small"` is a `const char *`) ends the process: the behaviour simply stops.
* *Lists of workers* are sets. A worker may be listed twice in the code; the second
  entry only makes it select again, which is a behaviour of the model too when the
  first selection is repeated by another handler.
* *Websocket.* A message is any creation of an existing output, once, and any spend,
  once, at any time after it happened, or never. A websocket that is down is one that
  delivers nothing.
* *Outputs below `min_value`.* `network::jobs` enters a script of which every output is
  below `min_value` as an empty candidate (`src/network.cpp:192`); the model takes it to be removed
  with the unprofitable ones. What gigamonkey computes for an empty script is not in
  this repository.
* *Contracts.* `Manager` has bounties only; the filter for contracts in `update_jobs`, and
  what becomes of one that the websocket brought, is in `KeyDatabase`. The filter only takes
  jobs away, before any worker is given one, and leaves their index entries, as `submit` does.
* `Mining` is read by the broken condition alone (`src/miner.cpp:420`) and has no
  variable.
* *Torn data.* The unlocked reads of `Current` are taken to return an old or a new
  value, never half of each. Of the races on the book and on the key database the models have lost
  writes, stale reads and exceptions, and nothing that depends on how the containers are laid out.
* *A missing name in a wallet file* fails the command (see above). The other outcomes the access may have, a
  crash or a garbled coin, are left out.

The operators called `X_Something`, before the definition `X` and marked *mutants*, are
deliberately wrong variants of `X`. No action uses them; each was substituted for `X` to
see that a property of some run notices the difference (`mutants` in `PROJECT.json`).

## 3. The runs and what they show

| run | instance | shows |
|---|---|---|
| `channel_any` | 3 threads on 2 channels, 2 puzzles, any poser, spurious wakeups | no lost wakeup; close ends all threads; the last puzzle reaches all; implements the mailbox whose takers may be told to stop unasked |
| `redeem` | 3 threads, 1 job of 1 or 2 outputs, spurious wakeups | at most one broadcast per thread; once the job is posed no thread leaves before it is redeemed; no work after close; one solution ends the command; implements the channel |
| `mine_one` | 1 worker, 3 outputs of 2 scripts, one too difficult, websocket, 3 periods, spurious wakeups | book and index agree; the difficulty limit holds on both ways into the book |
| `mine_two` | 2 workers, 1 output, websocket, 2 periods, spurious wakeups | mutex and iterator; whoever holds the mutex lets go; the API is called again; nobody rests for ever; implements the channel |
| `mine_rests` | 1 worker, a job worth its while and one of exactly the minimal profitability, websocket, 3 periods, spurious wakeups | nobody rests for ever beside a job, although the other job rests whoever selects; nobody mines a job that is gone for ever |
| `keys` | a WIF and an HD key, an address of the user and a foreign one, look-ahead 2, 2 keys given out, two callers | a key ring until two calls overlap; contracts that are kept have their key always; a failed lookup takes in what is in reach |
| `solver` | nonces of 2 bits, extra nonces of 1, time of 3, the clock looked at every 2nd nonce | no attempt twice; given up in time and only then; wins are delivered; the thread comes back |
| `network` | 4 outputs of 2 scripts, one of low value, 2 transactions of which each redeems 2 outputs | the book has what can be mined and nothing else; closed jobs are reported as far as the caches allow |
| `wallet` | coins of the keys 1 and 3 and of a foreign one, look-ahead 1, kills, payments, imports, files changed by hand | the file lists what exists or was imported unless a command failed; keys are used without gaps until a restore; restore finds what is in reach; commands end |

Three runs end in a counterexample, each of one property that restates a line of the
repository:

| run | line | what happens |
|---|---|---|
| `mine_stops` | `include/miner.hpp:62-63` | a worker is posed a job, and rested before it gets the mutex: it leaves its loop, its channel still open |
| `mine_submits` | `src/miner.cpp:197-200` | the other worker holds the mutex, reselects and replaces `Current`; the submit then pairs the old solution with the new job and erases that job |
| `wallet_value` | `src/cosmos.cpp:235` | a coin is imported and the file is written with the name `outpoint`, which no command can read: `value` and all others but `generate` and `restore` fail |

Met on the way, and not given a run: one exception that is not a `std::exception` ends the
timer (`src/miner.cpp:290`; `CallsTheApiAgain` assumes that none came), `if (Mining = false)`
wakes nobody (`src/miner.cpp:420`; `NobodyRestsForEver` shows that the next call of the API does),
the reassignment shares the book and the key database with a worker in `submit`, without a mutex
(`src/miner.cpp:335-345`; what still holds then is what `mine_two`, `mine_rests` and `keys` show),
restore leaves a gap that an address received next falls into (`src/wallet.cpp:193`), boost
overwrites the wallet it has spent with the one it read (`src/cosmos.cpp:204`), but gets there only with a
file that was changed by hand, and the
cached history hides the redemption of a second output (`src/network.cpp:122`; an
exception of `ClosedJobIsReported`).

**Bounds.** Nothing is cut off by a state constraint. The counters are finite
by themselves: an output is created, spent and announced once; the timer's count is
kept modulo `RefreshCount`. Two workers are enough for every hazard listed, each of which
takes one worker in `submit` and either another one or the IO thread; three threads
in `redeem` let two be inside `submit` while the third sleeps. Two outputs of one script
give the two cases of `solved_job`; `o2` alone is unprofitable and with `o1` profitable,
and in `mine_one` the second script is above the difficulty limit. In `mine_rests` `o3` is worth exactly
the minimal profitability. A `RefreshCount` of 3 is the default (a refresh interval of 90,
`include/miner_options.hpp:77`), `mine_one` and `mine_rests` have it; `mine_two` has 2, with one
reassignment from each call of the API to the next, to keep it small enough for liveness. `mine_stops` and
`mine_submits` have 1, which makes their traces short. `mine_two` has one job, whose output
is heard of, solved, and comes back, so that lists are dropped and lost. `NobodyMinesAGoneJobForEver` needs a second
script, or any call of the API that brings a job would bring back the one that is gone: `mine_rests` has two, and one worker,
who is off the list of his job when the websocket has dropped it or his submission raced with the
reassignment. One key is enough in all of them: a newer one makes `Check` drop a solution, as a newer script does. In `wallet` the key 2 has no coin: the gap is what the reset of `last_used` is for, and with a
look-ahead of 1 a second gap ends the scan. `MaxKey` bounds the keys that `receive` gives
away; the index itself is not bounded, as a restore skips at most the look-ahead beyond it. `MaxImported` bounds the
coins imported before they exist: one shows what the file says of it.
In `keys`, `MaxGiven` bounds the keys given to bounties; with a look-ahead of 2 the list `Next` is
empty, half full and full when `next` and a lookup meet it, and two calls of `next`, or of `next` and a lookup, overlap on each. In `solver` all integers
wrap; `MaxLag`, the seconds between two looks at the clock, is 2, so that the time
limit of 2 is met exactly and overstepped, and `MaxTime + 2 * MaxLag` stays below
the range of the clock, as it does in the code by nine orders of magnitude. In `network` two outputs of a
script give a cached history that is too old, and a transaction that redeems outputs of
both scripts gives one that is cached when it is looked for.

**`CHECK_DEADLOCK FALSE`** where the program may stop: the command `redeem` ends; in
`mine` every worker may have ended and the timer may be dead.
The other passing runs are checked for deadlock: the poser never stops, a user can always
start a command, a thread solve again and the network be called again.

**Fairness.** Of a thread's steps in `channel` and `redeem` weak fairness: a thread that can run is
scheduled, `channel::Mutex` is held only for a few assignments, `solve` watches the clock, and an
HTTP call returns or throws. Spurious wakeups are not fair: they may come or not. In `mine`
`SF(Timer \/ HandlerReturns) /\ WF(SelectNext) /\ \A t : SF(WorkerStep(t))`: asio runs the handler of a timer
that expired, workers are scheduled, and, which is what the strong fairness is for, nobody waits for
`manager::Mutex`, or for the network's, for ever while it is free again and again. In `CpuSolve` weak fairness of the thread and of the clock. `Network` and
`KeyDatabase` have safety properties only and assume none. Weak fairness of the steps of a cosmos command:
it is a sequential program whose HTTP calls return or throw; nobody has to start one.
Nothing is assumed of posers, users, the
websocket or the block chain, nor that a solution is ever found.
`ClosedEndsThreads` and `PosedPuzzleReachesThreads` therefore say *if it stays closed* or
*posed*, `CallsTheApiAgain` *while the timer and the IO thread live*, `NobodyRestsForEver` *if the API
answers again and again*, and `NobodyMinesAGoneJobForEver` *if it answers with a job*.

## 4. What the properties say

* `NoLostWakeup`, `ClosedEndsThreads`, `PosedPuzzleReachesThreads` (`Channel`): see the
  comments.
* `StopsOnlyWhenTold` (a thread ends only when its channel is closed) holds of neither command: a rest of
  `mine` refutes it (`mine_stops`), and in `redeem` a spurious wakeup before `r.mine`, because
  `select` waits under an `if`. With one thread, the default, such a wakeup lets `redeem` end with nothing sent.
* `LeavesOnlyWhenSettled` is what is left of it for `redeem`, spurious wakeups included: from `r.mine` on every
  `select` of an open channel returns the job, so a thread leaves its loop only after a broadcast and the close that follows it.
* `ImplementsMailbox`: a thread that leaves `select` leaves with the newest puzzle. Its takers may be told to stop unasked,
  which is what the `if` allows.
* `SendsAtMostOnce` is per thread. Two threads may each broadcast a redemption of the
  same output (the second is a double spend the network refuses); none comes back for
  more, because it finds the channel closed.
* Lists of workers are wrong in the program: `add_prevout` drops them, the reassignment may lose an entry, or list a
  worker for a job that is erased meanwhile; a job may even be erased with a worker on it that nobody
  reselects. `NobodyMinesAGoneJobForEver` says what that comes to: the worker is put right by the next call of
  the API that brings a job, at the latest.
* `NobodyRestsForEver` is the same for workers at rest: `new_job` wakes nobody, the reassignment one at
  random, and a job of weight 0 keeps everybody at rest until the book has another.
* `RestoreFindsWithinReach` compares the result with the coins that were there when the
  restore began: payments that arrive during the scan must not make it miss those.
* `ListsOnlyWhatExists` and `KeysAreUsedInOrder` hold partly *because* boost writes the old
  wallet last: the change of a refused transaction does not stay in the file. The same
  line gives the key of the change away a second time. `boost` on a file as the program wrote it never gets there: without coins
  it has too little to spend and throws, with coins it cannot read the file.
* `ImplementsKeyRing`: until two calls overlap the look-ahead is a buffer that nobody can tell from the source, but
  for the addresses it makes known early. After that nothing is promised: two workers may be given the same key, or one
  may be left out. An entry of `Past` may be lost too, but
  not that of a contract that was kept, because a racing call has read of `Past` what the filter has put there. `KeptContractsHaveKeys` does not say that a contract
  the user could mine is kept: the filter erases one whose key its own lookup takes in
  (`src/jobs.cpp:134-143`), and only then `FoundWhenAskedAgain` finds it.
* `GivesUpOnlyInTime` and `WinsAreDelivered` name the two ways in which the clock costs work:
  a second that passes between `solve` and `cpu_solve` (the puzzle is given up after one hash),
  and a second that passes while the attempt with a multiple of `display_increment` for its
  nonce is hashed (its proof does not verify). Both are rare, and `mining_thread` starts again.
* `ImplementsJobsApi` with `NothingLeftOut`: sound at the time each script was looked at, and
  complete for what is unspent even at the end. What the book has is not a snapshot.
* `ClosedJobIsReported` needs the order of the two calls: the history, when fetched in the
  same call, is fetched after the output was seen to be spent.
* `IteratorStaysValid` holds because `submit` keeps the mutex during the network call.

## 5. What is proved

Every safety property of the passing runs (each invariant, each action property, each
refinement) is also a theorem, for every value of the constants that satisfies the
assumptions of its module. `Spec` and its like below include fairness; the proofs use
the initial states and the steps only.

The pattern is the same in each module of proofs: an inductive invariant, with one lemma
per group of actions that keeps it; it was checked with TLC on the runs' instances
before it was proved. The properties follow from it, the refinements from it by step
simulation.

**`ChannelProofs`** (from: the empty puzzle is not a valid one; `ChannelOf` is a function)

* `ChannelInvariant`: `IInv` is `TypeOK`, `NoLostWakeup` and `ValidAgrees`, which ties the cached
  `Valid` to `Puzzle`: without it a pose says nothing about the test in `select`.
* `NoWakeupIsLost`, its consequence.
* `Implements`: under `IInv` each action of `Channel` is a step of the mailbox or a
  stutter. `Phase` maps select, waiting and woken to idle, so notifications and wakeups are
  stutters (`NotifyKeepsPhase`); `PhaseOf` and `PhaseChange` compute the other steps.

**`RedeemProofs`** (one channel, one job, `Rests` is false: `src/boost_miner.cpp` poses the
empty puzzle in the destructor only, when all threads have ended)

* `RedeemInvariant`. `SendsAtMostOnce` is not inductive: a thread that has broadcast could
  come back for another puzzle. `SentOnce` with `OnItsWayOut` says it does not: it is about
  to close the channel, or has found it closed, or its loop is over. That needs
  `ClosedIsEmpty` (after `close` there is no puzzle, and none comes; only a thread that has broadcast
  closes), which needs `NothingBeforeMine` (nobody can have closed before `r.mine` poses).
* `EachSendsAtMostOnce` and `NoneWorksAfterClose`. `NoneLeavesUnsettled` needs `JobStaysPosed`: until the close, the
  channel of a command that waits for its threads holds the job, so `select` cannot return the
  invalid puzzle. All with spurious wakeups.
* `RedeemImplementsChannel`: each step of `redeem` is a step of `Channel` or leaves it alone.
  With `Implements`, `redeem` has a mailbox (`RedeemIsMailbox`).

**`ManagerProofs`** (a redeemer per worker; `Rests` is true: `src/miner.cpp:244`)

* `ManagerInvariant`. `MutexDiscipline` needs `AtInSolved` (a thread is in `submit` only
  while it is in `solved`). `NeverTooDifficult` needs `BookWithinLimit`, as workers are given
  what is in the book, and `PickedWithinLimit`, as the reassignment gives them what was in it a few steps before.
  `IteratorStaysValid` follows from the mutex: who else would erase
  the job waits for it, and the reassignment, which does not, erases none.
* `MutexIsDisciplined`, `IndexIsComplete`, `LimitIsKept`, `IteratorIsValid`, for any number of workers and
  periods, with the websocket or without.
* `ManagerImplementsChannel` and `ManagerIsMailbox`: posing, resting and reselecting by
  the IO thread, with the mutex and without, and by other workers is what any poser may do.

**`KeyDatabaseProofs`** (the sources are long enough for the bounds and never give the
value that stands for *no key*)

* `KeyInvariant`. As long as calls have not overlapped, `Next` is the stretch of the source from what
  was given out to what was taken (`InOrder`, in `TypeOK`), which needs `CalmIsAlone`: the one call that runs sees what is there
  now. `KeptContractsHaveKeys` holds beyond that: a call may write back an old `Past`, so the invariant has it of
  what running calls have read, too. It also needs that while `update_jobs` filters no call runs
  and nothing in `heard` is left, or to erase a contract from the book would leave it in `heard`.
* `KeyTypeCorrect` and `KeptContractsAreServed`, however the callers race. `ReachIsFilled`, by `FreshFollows` (a lookup takes
  the keys that follow the list, up to the look-ahead), and `KeysImplementKeyRing`, until two calls overlap: that is part
  of what they state (`calm`), not a hypothesis, and the abstract specification has the overlap as a step of its own.

**`NetworkProofs`** (outputs have one script and one redeeming transaction, values are numbers)

* `NetworkInvariant`. `NothingLeftOut` holds at the return only; in a call it is
  `StillToFind`. That no output is looked for twice is `ScriptsOnce` with `BookByScript`.
  `ClosedJobIsReported` needs `ClosedAreSpent` (a history fetched in this call, after the
  output was seen to be spent, has the redemption) and `ReportGoesOn` (the redemption is
  still to be looked at, was submitted, or is cached as unknown).
* `BookIsComplete`, `ClosedJobsAreReported` (a request with the redemption has reached pow.co; what it answered,
  nobody looks at), `NetworkImplementsJobsApi`. The last one is what allows `Manager` to be built from the
  actions of `JobsApi` instead of the network's.

**`WalletProofs`** (a file that is missing or torn is not a wallet; coins are finitely many)

* `WalletInvariant`. The properties speak of the file, which a command changes at its
  end, twice in the case of `boost`. The invariant speaks of `Current`, the wallet that the file will
  hold if the running command goes on: its coins exist or were imported unseen (`CurrentExists`), and the keys in
  use end at its index (`KeysUpToIndex`), *including* the key at the index, which `boost`
  gives to its change before it takes the index back. `ScanInOrder` is what a restore has found so far.
* `FileListsWhatExists`, `KeysHaveNoGap`, `RestoreIsComplete`. None needs a file to be readable: `Convert` may come at any
  time, or never.

**`CpuSolveProofs`** (`NonceSpace` is a multiple of `Display`, as 2^32 is of
`display_increment`; `MaxTime + 2 * MaxLag < TimeSpace`; the widths are arbitrary otherwise)

* `SolveInvariant`. `TriedInOrder` says which pairs of nonces were hashed: those before the
  attempt's in the order that starts at some first extra nonce and wraps, or all.
  `HashesEachOnce` follows.
* `GivesUpInTime` and `WinsReachSolved`, by lemmas on unsigned differences: `SinceIs` and
  `StampLags` (the timestamp is behind the clock by what passed between the first two
  readings, so that the difference of unsigned integers cannot have wrapped unless the clock
  ticked between them).

**Model-checked only.** Liveness: `ClosedEndsThreads`, `PosedPuzzleReachesThreads`,
`SolutionEndsRedeem`, `MutexIsReleased`, `CallsTheApiAgain`, `NobodyRestsForEver`, `NobodyMinesAGoneJobForEver`,
`CommandsEnd`, `SolveReturns`; fairness and `ENABLED` are beyond the proof system used here.
So is that nothing deadlocks. The three counterexamples are TLC's. That `Solve` of
`Channel` is an abstraction of `CpuSolve` is by inspection: neither is stated in terms of the other.
The proofs are about the models; that these are the program rests on the map.

## 6. Checking it

    tlc -config Redeem.cfg MCRedeem.tla
    tlapm ChannelProofs.tla          # and RedeemProofs, ManagerProofs, KeyDatabaseProofs,
                                     # NetworkProofs, WalletProofs, CpuSolveProofs

`PROJECT.json` gives the module of every configuration, the lines every definition
translates, and the theorem that states each property.

## 7. Plan

Done: the models of all components with state, and a theorem for every safety property that is
checked. What is left are further proofs:

1. For `redeem`: that its broadcasts as a whole are at most as many as its threads, which
   needs a sum over a set.
2. For `mine`: which workers may be listed wrongly, as an invariant that is true of the program with its
   unlocked reassignment (what is checked now is that wrong entries do no lasting harm).
3. For the solver: the abstraction that `Channel` makes of it (`Solve` gives a solution or
   none, and nothing else) as a specification of its own that `CpuSolve` is proved to implement.

Not modelled: the option parser (sequential, with tests of its own in `test/`), the parsing
of JSON and hex in the HTTP clients, `spend` and `detect_boost` (each prints one script), the
random numbers (a choice in the models), the logger and all output, the stratum stub, the
calls nobody makes (`network::price`, `pow_co::connect`, `wait_for_solution`), and the end of
`mine` after the IO thread has left `run`, where the destructors of running threads end the
process. They keep no state that a step of another part reads, or are parsing and I/O only.
