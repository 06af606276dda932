# A verification of snare's schedule, waits and file locks

snare runs the code under test in one process against a simulated OS. Its
hooks catch the calls the code makes (clocks, sockets, files, threads, locks);
the threads of one simulation share a *domain*. They take turns under a
deterministic schedule, or run freely and block on a board of readiness. This
directory models both ways to wait, the lock-free and hand-rolled structures
under the schedule, and the advisory file locks, in TLA+. TLC checks small
instances, and TLAPS proves the main safety properties for any number of
threads.

Paths below are relative to `src/crates/`; `sched.rs` without a directory is
`snare-interpose/src/sched.rs`, `readiness.rs`, `clock.rs`, `fs_locks.rs` and
`fs_sim.rs` are in `snare/src/`, `domain.rs` in `snare-interpose/src/`.

## The system and its parts

| Part | Code | Here |
|---|---|---|
| Deterministic schedule | `snare-interpose/src/sched.rs`, its callers in `domain.rs`, `os/unix.rs`, `os/sync.rs` | `Scheduler` |
| Grant latch of a thread | `sched.rs`, `Parker` | `Parker`, abstractly `Latch` |
| Mutex owner table | `sched.rs`, `MutexOwners` | `MutexOwners`, abstractly `OwnerMap` |
| Deferred-change queue | `pending.rs`, `record_owner`, `lock`, `try_lock` | `Pending` |
| Accounting, leases, the skip gate | `accounting.rs`, `domain.rs` | `Readiness`; a lease flag in `Scheduler` |
| Virtual clock, executive | `clock.rs`, `executive.rs` | time, holds, skips and the baton in `Scheduler`; skips and timers in `Readiness` |
| Readiness board | `readiness.rs` | `Readiness`; in `Scheduler`, sets of waits woken, chosen freely |
| Advisory file locks | `fs_locks.rs` | `FileLocks`, abstractly `ByteLocks` |
| Open-file table | `fs_sim.rs`, `OpenFiles` and the descriptor calls | `FileLocks` |
| TCP, UDP, faults, names | `stream.rs`, `fabric.rs`, `faults.rs`, `netpolicy.rs`, ... | one readable cell per key in `Readiness`; otherwise left out |
| Census, stall watchdog, descriptor ownership, children, signals | `census.rs`, `stall.rs`, `owners.rs`, `children.rs`, `signals.rs` | left out |
| Host facts, interfaces, tracefs, captures | `simhost.rs`, `netif.rs`, `tracefs.rs`, `pcapng.rs`, ... | left out: tables and formats |
| Hook installation, shims, `cargo snare`, Windows twins | `detour/`, `patch/`, `shims/`, `win_*` | left out |

`PROJECT.json` lists every part with its files, state and reason.

How the modelled parts meet. A thread that must wait calls `block`: it files its
wait in the state, gives up the baton and, if nobody can be granted it, runs
`dispatch` itself, which moves virtual time, re-polls, or idles until something
outside happens. Then it parks on its `Parker`. Whoever holds the state lock
picks the next thread (`grant_next`), lets the lock go and fills that thread's
latch. Changes of the mutex owner table that find the state locked are put in
the `Pending` ring and applied by the next one to lock the state.

Without a schedule, a call that must wait subscribes to the readiness board,
checks, counts itself parked and sleeps on a condition variable. Whoever changes
something bumps the board. Whoever finds every participant parked moves virtual
time through `time_skip`, or ends its wait as a deadlock. A blocking file lock is
one such call: it retries each time it is woken.

## Modules

**`Scheduler`** is one domain. `st` is the Rust `State` as a record. A function
on `&mut State` is an operator from record to record (`SetRunnable`, `Unblock`,
`WakeKey`, `Release`, `Granted`...), and a hook is an action. One critical
section of the state lock is one step, with three refinements where the code's
interleavings need them:

* `dispatch_inner` keeps the lock across its loop while clock, leases and
  foreign queue change beside it. Each look is an action (`TakeForeign`,
  `StaysOn`, `NoLease`, `TimeSkip`, `NoSkip`, `LeasedSince`, `IdleHeld`,
  `GiveUp`, ...), with `locker` naming the thread between them, and the lock is
  let go while it idles, polls or asks the census (`GoIdle`/`IdleOver`,
  `PollOutside`/`PollOver`, `AskHolders`/`HoldersAsked`).
* A granted baton is in `flight` until it is in the latch (`Deliver`).
* A delegated duty is taken from the latch before the lock (`TakeDuty`,
  `DoDuty`). A let-go thread comes back in several looks (`DetActive`,
  `Rejoin`, `DetBlock`).

Threads are their lineage ids, numbers, because the cursor of `grant_next` uses
their order. `Slot` is split into the sets `threads`, `ready`, `waiting` and
`letGo`. The ticket order of waits is `older`, the set of those already waiting
when a thread began to. A wait is its key, its deadline, and the three facts
other code branches on (`timed`, `word`, `shared`). The clock, the layers and
the census answer by free choice within what they can answer. What code under
test does is a free choice of hooks. `Events` selects the optional ones for an
instance:

| Event | What happens |
|---|---|
| `foreign`, `change` | a thread of no domain wakes a key, or changes a word without a wake |
| `signal`, `spin`, `yield`, `mutex` | a directed wake, clock spins, yields, owned mutexes |
| `latency` | a call's latency moves the clock |
| `fail` | `pthread_create` fails |
| `hold`, `lease`, `clock` | the clock is paused or resumed, leased, moved |
| `executive` | an executive takes the baton and owns the clock |
| `inject`, `class` | threads are injected, change class |
| `real`, `foreigntime`, `statics`, `wakers` | ready real descriptors, timers of outside threads, other sims' threads, wakers inside the sim |
| `latespawn`, `latejoin` | the two sequences under *Observations* |

**`Parker`** is the latch, with every read outside its lock (`pending`,
`asleep`, the skip counters) a step of its own. **`Latch`** is what it
promises: one slot, a grant overrides a duty, and what is put in is taken.
`ImplementsLatch` is that refinement, under the mapping to the slot.

**`MutexOwners`** is open addressing with linear probing and backward-shift
removal for any hash (`home` is chosen in `Init`). **`OwnerMap`** is a partial
map that refuses a new key at its bound.

**`Pending`** has one step per atomic access of `push` and `drain`, tickets
modulo a bound, together with the lock and try-lock protocol that uses them.

**`Readiness`** is the board, with the domain and the discrete clock as far as
its waits use them. A subscription (`Waiters`) keeps, instead of the generation
counters, whether they moved since they were last read (`hit`, `any`), and
instead of the signal count whether it moved since the sleep began (`sig`).
What a wait waits for is one cell per key: something to read (`data`), or
something still crossing a link (`coming`), whose arrival is an event of the
clock. One section under the board's lock is one action. A check runs without
the lock, so it is two (`Check`, then `Checked` or `Rechecked`); a bump marks
under the lock (`Bump`) and signals after it, one sleeper at a time (`Ring`);
a skip runs without it in five steps (`EnterGate`, `JudgeSettling`, `Judge`,
`SkipToNext` and, after the bump, `Ungate`), because `time_skip` asks about
woken waiters and counts the parked ones in separate reads. A bump, an exit and
a lease's return go through the steps their code takes afterwards
(`LeftSettling`, `WakeIfQuiescent`, `Offer`). `Top`, `Post` and `Settled` are the
parts of `wait_inner`'s loop, shared by the places that come back to them.
Merged: the two or three atomic reads of `release_held` into `Return`, the reads
of the clock and the leases of one `quiescent` into `Still`. A skip lands on the
deadline where the code lands a nanosecond beyond, and a lease is taken once.

**`FileLocks`** is the lock table of one inode and the descriptors that lead to
it. The open-file table and the lock table have locks of their own, so a lock
call is `Call` (the descriptor is looked up) and then `Attempt`, `Flock` or
`Retry`; a close is `Close`, then `ReleaseDescription` if it was the last, then
`ReleaseProcess`; and a wake follows once the table is let go (`Wake`). Linux
and macOS differ in where `flock` locks live, and `setup` chooses the host.
**`ByteLocks`** is what record locks promise: each owner has a lock or none on
each byte, a call sets a range of one owner's bytes when nobody bars it, and a
release clears owners. `ImplementsByteLocks` is that refinement: the bytes an
owner's ranges cover.

**`MCScheduler`**, **`MCPending`**, **`MCMutexOwners`**, **`MCReadiness`**,
**`MCFileLocks`** give instances (wait sets, setups, symmetry). `Parker` is run
as it is. Operators marked "Mutant" are wrong versions of the definition below
them; `PROJECT.json` says which property finds each one out. The theorems are in
`SchedulerProofs`, `SchedulerTurns`, `SchedulerWaits`, `SchedulerTime`,
`ParkerProofs`, `PendingProofs`, `ReadinessProofs` and `FileLocksProofs`.

## Runs

| Run | Shows |
|---|---|
| `schedule` | Three threads, every kind of wait, failing creation, foreign wakes, latency: one runs at a time (`OneRuns`), the baton is kept (`BatonKept`), no wake is left behind (`WorkConserving`), an idle schedule has a driver (`Driven`), the counts agree (`Balanced`), types (`TypeOK`). |
| `beside` | An executive, class changes, injected threads and two roots: one runs at a time, and grants are honest (`GrantsHonest`). |
| `time` | Waiters of an address leave in the order they came, but for those whose time is up or whose word changed (`Fifo`). A thread told, in its slot or in a grant under way, that its time is up was waiting and is due (`HonestTimeout`). The clock is never taken past a deadline (`NoSkipPast`). A thread is told of a deadlock only when no wait of the schedule has a timeout (`DeadlockIsReal`). |
| `rejoin` | Five threads, three roots, two detaches: nobody parks unlisted (`ParkedListed`), a detached schedule is empty (`DetachedEmpty`). |
| `live` | Under fairness, with yields, clock holds, leases and unseen changes: an idle schedule has a driver (`Driven`), a queued thread runs (`ReadyRuns`), timed and sim waits end (`TimedWaitEnds`, `ReadinessEnds`), an unseen change is seen (`ChangeSeen`). |
| `parker` | The parker implements the latch with its liveness; no grant is slept over; the skip counters do not wrap. |
| `owners` | The table implements the map; its length is its number of entries. |
| `pending` | Nothing is lost, reordered, refused with room left or read half-written. |
| `readiness` | A sleeper whose data is there is signalled or about to be (`NoLostWake`); a mark that holds time is taken (`MarksTaken`); time is skipped only in a domain where nothing can run, past no arrival and no deadline (`SkipIsQuiet`); a wait gives up only there, or while another thread's move of the clock has yet to be told (`GiveUpIsQuiet`). |
| `readiness_live` | Under fairness: a wait whose data is there returns (`ReadyReturns`), and a domain with everyone parked does not stay so (`StillEnds`). |
| `locks` | No two owners hold conflicting locks (`Exclusive`), ranges stay in normal form (`Normal`), descriptions count their descriptors (`RefsAgree`), no release is lost on a waiter (`NoLostRelease`), and the ranges implement `ByteLocks`. |
| `leaked_lock` | The disagreement below (`NoOrphan`). |

### Bounds

* Threads: three reach a holder, a waiter and a dispatcher at once, with a
  delegation. Five are needed in `rejoin`, where two rounds of letting go need
  a root each and a thread that survives both. `live` has two, for the cost of
  temporal checking.
* `MaxTime` 1 distinguishes due from not due. `time` uses 2, for two deadlines
  one of which must not be skipped.
* One address suffices: no operation relates two, but `disown`, which treats
  each the same way.
* A thread enters or is spawned once. A thread that returns is a new lineage in
  the code as well.
* `Parker`: two misses in a row reach the cap; 16 stands for 2^32, and
  `SkipsBounded` shows that no counter leaves its small range.
* `MutexOwners`: four slots and five addresses give full tables, runs over the
  end and colliding homes. `Pending`: two slots and three changes of two hooks
  wrap the ring and its tickets.
* `Readiness`: two threads reach a waiter that skips while another is woken,
  checks, exits or gives up, and a third actor takes the lease. The `readiness`
  run has four programs. In one every wait has a deadline, of one tick with a
  key or of two without, calls cost latency and threads exit. In another some
  waits have no deadline, in the next none has and a lease comes and goes. The
  last has two keys, so that one thread may wait through what the other waits
  for. Threads are interchangeable there. `readiness_live` mixes waits with and
  without a deadline, and exits. `MaxTime` is 2: a skip, and another
  that must not pass the first one's waiter.
* `FileLocks`: two threads, two descriptors, two descriptions; the ranges of
  `MCFileLocks` split, touch and cover each other. Each setup of its instances
  pairs the kinds of lock that can meet on that host. `leaked_lock` needs only
  locks of descriptions.
* Deadlock is checked in `pending`, `parker` and `owners`. A schedule may stop
  once its threads are gone, so the schedule's runs do not check it; `Driven`,
  `ParkedListed` and the liveness run say what matters there. In `Readiness` the
  threads may all have exited, and in `FileLocks` a thread may stay barred, so
  neither checks it.

### Fairness

`Fairness` is weak fairness of each thread's own steps: the OS runs a thread
that can run, `dispatch` sleeps for a bounded real time (`idle` has a span), and
code under test gives the baton up in the end. An executive gives the baton
back. Nothing outside is fair. When a thread can proceed is written out in
`CanProceed`, since liveness checking with TLC's `ENABLED` of so large an action
is too slow; on the instance of `live`, TLC finds it equal to
`ENABLED <<Proceeds(t)>>_vars` in every state. The waits' liveness also assumes `Settles`: the
threads do not keep each other busy for ever, and whoever holds time lets it go.
The code promises nothing otherwise, as time moves only in an idle schedule.
`Parker` has weak fairness of the parked thread and of callers that are in the
middle of a call.

In `Readiness` each thread in a call is weakly fair, and so is the holder of a
lease once it has given it back: the OS runs them, and a sleep ends after its
poll at the latest. The code under test need not do anything, and nobody need
give a lease back. Wake-ups for no reason are left out of `readiness_live`: a
sleeper that keeps waking by itself can keep another from ever finding the
domain quiet, and the code promises nothing then.

## Findings

* **`leaked_lock`.** `lock_target` (fs_sim.rs:974-985) copies the descriptor's
  description and lets the open-file table go; only then is the lock recorded.
  If another thread closes the last descriptor in between,
  `release_description` runs first, and the lock is recorded for a description
  that is gone. Nothing ever releases it. fs_locks.rs:8 says that
  description-owned locks "go when the last descriptor of their description
  closes".

### Observations without a run

These are reachable in the models with the event or instance named, and
contradict a comment; the runs leave them out so that their properties speak of
the rest. Of the schedule (three threads, `Spec`, unless said otherwise):

* A failed creation can lose the baton: `unspawned` (sched.rs:1232) forgets a
  child but leaves `holder`, and a thread beside the schedule can spawn into an
  idle schedule, which grants the child at once. `BatonKept` fails with roots
  `{1}`, `WordWaits`, `MaxTime` 0 and the events `class` and `fail`.
  os/unix.rs:904 says "If creation fails the inherited membership is released,
  since no child will adopt it."
* A charged latency can strand a timed wait: `release_due_native_at`
  (sched.rs:1922) does nothing while a thread is runnable, and the clock prunes
  timers already passed, so the wait is not timed out unless a later skip
  succeeds. `TimedWaitEnds` fails under `FairSpec` with `LiveWaits`, `MaxTime` 1
  and the event `latency`. sched.rs:1314 says block parks the caller "until it is
  woken or virtual time reaches `deadline`".
* A clock resumed, or a lease given back, between `time_skip` and `idle_wait`
  makes `dispatch_inner` (sched.rs:2033) end sim waits as deadlocked with
  timeouts ahead. `DeadlockIsReal` fails with two threads, `IdleWaits`, `MaxTime`
  1 and the event `hold`. sched.rs:2037 says that waiting on time only something
  outside can move "is not a deadlock".
* With `hold`, the kick of a resumed clock can leave two threads driving: the
  comment sched.rs:25 says exactly one does.
* `latespawn`: a child spawned while the schedule is detached starts after the
  next root has entered; `started` parks it though `spawned` never queued it.
* `latejoin`: `attach_thread` ignores `detached` and the let-go mark, so that a
  joining thread holds the baton of a detached schedule (sched.rs:866), or
  keeps a stale mark (sched.rs:523).
* In `rejoin`'s instance `OneRuns` and `Driven` fail: `block` takes the let-go
  mark first and sees the schedule detached after (sched.rs:1353). The thread
  then runs unmarked, or waits with nobody to drive.

Of the readiness board, in the instances of the `readiness` run:

* A poll can end a wait as a deadlock with a timer still ahead (`GiveUpIsReal`
  fails): its skip was refused because of a lease, or because a waiter was still
  marked, and by the second look at quiescence that reason is gone. The comment
  at readiness.rs:1400 calls what is left "a genuine deadlock".
* A poll can also end a wait while another thread inside `time_skip` has moved
  the clock and not yet told: what the move made ready is there, and the wait
  has given up. `GiveUpIsQuiet` allows for exactly that.
* A skip that has been judged goes on although another waiter gives up in the
  meantime and runs. `SkipIsQuiet` is therefore stated for programs whose waits
  all have a deadline and where no lease refuses a skip (`AllTimed`).
  domain.rs:409 says of a quiescent domain that "no participant
  can make progress until time does".
* A waiter at the skip gate whose own deadline another thread's skip reached is
  refused and sleeps a whole poll before it returns: real time only.

Of the file locks: two threads that `flock` one description at the same moment
both record a lock, and a later conversion replaces only the first. `Exclusive`
holds all the same, since both belong to one owner.

## Proofs

For any finite set of threads, any roots, addresses, waits and `MaxTime`, and
any `Events` without `latejoin`, `SchedulerProofs` (the first seven),
`SchedulerTurns` (the next two) and `SchedulerTime` (the last four) prove:

| Theorem | Property | Also assumed |
|---|---|---|
| `TypeCorrect` | `TypeOK` | |
| `BooksBalance` | `Balanced` | |
| `NoWakeLeftBehind` | `WorkConserving` | |
| `GrantsAreHonest` | `GrantsHonest` | |
| `DetachedIsEmpty` | `DetachedEmpty` | |
| `NobodyParksForGood` | `ParkedListed` | no `latespawn` |
| `BatonIsKept` | `BatonKept` | no `fail` |
| `TurnsAreTaken` | `OneRuns` | `[]StaysActive` |
| `IdleIsDriven` | `Driven` | `[]Watched` |
| `WakesInOrder` | `Fifo` | no `signal` |
| `TimeoutsAreHonest` | `HonestTimeout` | |
| `NoDeadlineIsSkipped` | `NoSkipPast` | |
| `DeadlocksAreReal` | `DeadlockIsReal` | no `hold`, `lease`, `clock`, `latency` |

The events are left out because the property, or the invariant it rests on, is
false with them (*Observations*; a directed wake takes its thread out of turn by
design), except that `DeadlocksAreReal` leaves out every event that moves or
holds time from outside: while a move of the clock has been made and its kick is
still to come, a due wait is still listed. `StaysActive` says that no thread let
go finds the schedule detached again between `det_block` and the lock of
`block`; `Watched` that such a thread, if it blocks beside an idle schedule,
finds waits there. They exclude the race at sched.rs:1353 under *Observations*:
what the thread saw before the lock is stale under it. TLC finds both to hold in
the instances of `schedule` and `beside`, and violated in that of `rejoin`,
where the race happens. The assumptions on constants are those the modules state
and TLC evaluates.

The argument. None of the properties is inductive. `IInv` is `Core /\ Rest`.
`Core` has `Books` (sets, counters) and, for each thread, `Fits`, which relates
its place in the code to what the shared state and its latch say of it: a
waiting or queued thread is at a place where it will look at its latch, a grant
in flight means an empty latch and the baton or the let-go mark, a let-go thread
neither waits nor holds, a thread with the baton runs or has it coming, and a
parked thread of the schedule is listed. `Quiet` says that past `TakeForeign` a
dispatch has nobody ready, which is what lets it leave the lock without a grant.
`Rest` is types and that the lock's owner is the thread at a locked place.

`Wakes(s, r)` says that `r` is `s` after some waits ended. Every release,
re-poll and wake is shown to be one (`UnblockWakes` and the lemmas by it), and
`WakesFit` says that wakes keep `Fits`, so that each of the some fifty actions
needs an argument only about what it does besides waking. `GrantNextFits`,
`GrantIfIdleFits` and `HandOnFits` do the same for passing on the baton. Each
action has a lemma that it keeps `Core`, and `Rest` is a lemma for all actions
of a kind.

`OneRuns` and `Driven` are proved on top of `IInv`, in `SchedulerTurns`.
`Turned` says of each thread that runs code under test that it has the baton,
was let go, or takes no part. Most actions keep it because they take the baton
from nobody and start nobody (`Keeps`, `Calm`); those that pass the baton on,
start a thread or come back from a native wait have a frame lemma each. The same
frames show that whoever leaves an idle schedule with waits behind is
dispatching, or has filled the latch of one who will (`Drives`).

`SchedulerWaits` and `SchedulerTime` follow the waits through a step. Every
function on the state that ends waits is shown to end them in turn and to tell
the truth (`Ends`, `Honest`, together `Tells`). Each action is one that begins
no wait (`Passes`), or a `Block`, or a `GiveUp`, and all of them satisfy
`Marches`, in `SchedulerTime`: waits that stay keep their terms, their timer and
their seniors; a new one is junior to all, has its timer set and its deadline
ahead; and those that end do so as above. From `Marches` the invariant `Orderly`
follows, which adds to `IInv` that seniority is transitive and among waiters
(`Senior`, without which the oldest waiter of a key would not be well defined)
and that timers are deadlines (`Clocked`, without which a skip to the first
timer could pass a wait). The action properties are read off `Marches` and
`Orderly`. `DeadlocksAreReal` needs more: no wait is due at any time
(`Patient`), and a dispatch past `NoSkip` has no timer ahead (`Dry`), for it
keeps the state lock, and without the lock timers are only taken back.

`ParkerProofs` proves, for any callers and spin budgets, `NoGrantSleptOver`
(`SleeperSignalled`) and `StepsOfTheLatch`, that every step is one of the latch
or changes nothing of it. The inductive invariant adds that a sleeping thread
has said so in the latch before it let go of its lock, so whoever fills the
latch finds somebody to signal.

`PendingProofs` proves, for any finite set of threads, any readers, any capacity
above one, and any ticket the queue may have reached:

| Theorem | Property |
|---|---|
| `SlotsApart` | `SlotsExclusive` |
| `Retained` | `NothingLost` |
| `ReadersSee` | `ReaderSeesReturned` |
| `InOrder` | `AppliedInOrder` |
| `RefusedFull` | `RefusedOnlyWhenFull` |

The assumption that matters is that `Wrap`, which stands for 2^64, is at least
twice the number of changes made plus the capacity: a push may hold a `tail`
that is any number of pushes old, and the signed difference of two tickets says
which is ahead only if they are less than half a lap of `usize` apart.

`IInv` looks at the ring from its first ticket `First`, the oldest one the drain
has not given back, and says what each slot holds by its ticket's distance from
there. The `Queued` first ones are claimed: published, or in the hands of one
push that writes them. The others are free for tickets to come (`Ring`,
`Claimed`, `OwnTickets`). While a drain has freed a slot and not yet applied its
change, `First` is one ahead of `head`. `Loaded` says that the ticket a push
compares with is behind `tail` by no more than the changes that have had their
ticket, which bounds how stale it is. The order of application comes from the
order of tickets: nothing that had returned when a change began is queued behind
that change (`Ordered`, and `Behind` while it is being written), and nothing
that the thread with the lock must see is queued behind the end of its drain
(`Foreseen`).

`FileLocksProofs` proves, for any threads, descriptors, requests and file
length, on both hosts:

| Theorem | Property |
|---|---|
| `ExclusiveHolds` | `Exclusive` |
| `NormalHolds` | `Normal` |
| `RefsHold` | `RefsAgree` |
| `NoReleaseLost` | `NoLostRelease` |

and `Refinement`, `Spec => ImplementsByteLocks`. The module first says what
`Set` does to any table in normal form: which bytes it covers (`SetCovers`),
that other owners' ranges stay (`SetOthers`), that the result is in normal form
(`SetNormal`) and conflict-free if the request was not barred (`SetDisjoint`),
and that only a call that reports a release can free a byte somebody waits for
(`SetBars`). `IInv` then adds to the four properties that requests are not empty
(`Asking`), that descriptors lead to descriptions already made (`Made`), and
that a blocking call has an attempt ahead of it before it sleeps (`Poised`),
without which a release between the call and its first attempt would be lost.
`TableStep`, `RefsStep`, `ControlStep` and `WakeStep` each show one part kept by
every action.

`ReadinessProofs` proves, for any threads, keys, delays, programs and `MaxTime`:

| Theorem | Property |
|---|---|
| `WakesKept` | `NoLostWake` |
| `MarksKept` | `MarksTaken` |
| `GiveUpsQuiet` | `GiveUpIsQuiet` |

`NoLostWake` speaks of sleepers only, but what a sleeper has heard was decided
when it registered, checked, tuned its subscription and checked again. `IInv`
therefore follows a wait through all of it. `Placed` says what each place in
`wait_inner` implies of the subscription, the gate and the domain; `Marked` that
a mark belongs to the present sleep and its signal has come or is coming;
`ParkedHears` that a parked waiter whose data is there, or on its way, has been
marked or has a bump of its key or of the clock coming; and `CheckerHears` the
same of one between a check that found nothing and its sleep, by what that check
says it listens to. This last part is what makes tuning a subscription after an
unlocked check safe: a bump that passed the old tuning left `any` behind, and
the check is repeated. `Arrives` says that what crosses a link has its event on
the clock. `Hears` is kept by other threads' steps because a step that makes
data ready is a send or a move of the clock, and leaves its author about to
bump. `SurrenderQuiet` reads `GiveUpIsQuiet` off the invariant: a parked domain
in which somebody can read has a bump coming, and its author is not parked.

Only model-checked: all liveness (out of the prover's reach under fairness),
with it the fairness half of `ImplementsLatch`, `SkipsBounded` (the prover has
no facts about powers), `Accounted` and `ImplementsMap` (the shifts of a probe
run need an induction over data), and `SkipIsQuiet`. `StaysActive` and `Watched`
are hypotheses, not theorems: they are true of some instances only.

## Not modelled

Within the schedule: re-polls nested in a dispatch (`REPOLL_SELF`,
`repoll_if_spoiled`), the bookkeeping of unexplained waits, masks of futex waits
beyond a free choice, the bound on remembered foreign keys, clocks running at a
rate, Windows paths.

Within the readiness board: waits of threads that are not participants and the
skips made for them (`stalled`, `foreign_time_skip`), deadlines on the real
clock, park tokens, keys that change during a wait, interruption by signals,
lock words in static data, a dormant domain, a paused or scaled clock
(`idle_wait`), an executive with its timestamps, wakers in the clock, threads
of other sims that hold off a skip, and the posting of notices to poll sets.

Within the file locks: `F_GETLK` changes nothing and is left out with the order
of the list it reports from; argument errors; directories; several inodes, whose
tables share nothing.

Not modelled at all, with the reason for each part in `PROJECT.json`:

* code that is tables, formats and conversions: host facts, tracefs,
  interfaces, name lookup, captures, ancillary data, time zones;
* code whose correctness is the host's behaviour call by call, which the
  repository's tests compare with the real OS: path resolution and file data,
  most of the socket fabric, socket options, signals' masks;
* machine code and build plumbing: detours, patches, shims, `cargo snare`;
* protocols that a model would suit and that no module here covers: descriptor
  ownership (claims, burial, adoption), the child table read by a signal
  handler, windows, close and reset of a TCP stream, the pthread mutex and
  condition-variable hooks, the driven clock and the executive's grants, and the
  Windows completion ports.

The map therefore covers a small share of the repository's lines: most of them
are of the first three kinds.
