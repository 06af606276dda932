------------------------------ MODULE Scheduler ------------------------------
(***************************************************************************)
(* crates/snare-interpose/src/sched.rs: the deterministic schedule of one  *)
(* domain.  A baton (`holder`) passes between the domain's threads; a      *)
(* thread that waits parks on a one-slot latch until it is handed the      *)
(* baton, or the duty of moving an idle schedule on (`dispatch`).          *)
(*                                                                         *)
(* `st` is sched.rs's State, and an operator on such a record stands for   *)
(* a Rust function taking &mut State.  A critical section of the state     *)
(* lock is one action, except in `dispatch`, whose loop keeps the lock     *)
(* from one action to the next (`locker`) and lets it go while it sleeps.  *)
(* A baton granted with the lock let go travels in `flight` to the latch.  *)
(*                                                                         *)
(* Threads are named by their lineage ids, whose order the schedule uses.  *)
(* What the layers, the clock and the census answer is an input here.      *)
(***************************************************************************)
EXTENDS Integers, FiniteSets

CONSTANTS
  Threads,   \* lineage ids; a thread enters or is spawned at most once
  Roots,     \* those that come in through Domain::enter, the rest are spawned
  Addrs,     \* addresses threads wait on: futex words, mutexes, semaphores
  Waits,     \* the waits the code under test makes (see Wait below)
  MaxTime,   \* bound: virtual time runs from 0 to MaxTime
  Events,    \* which of the optional events below happen
  External,  \* the executive, as holder of the baton (EXTERNAL)
  None

ASSUME SchedulerAssumption ==
  /\ Threads \subseteq Nat \ {0} /\ IsFiniteSet(Threads)
  /\ Roots \subseteq Threads
  /\ MaxTime \in Nat
  /\ External \notin Threads /\ None \notin Threads /\ External # None

VARIABLES
  st,          \* State, behind the state lock
  locker,      \* the thread whose dispatch loop holds the state lock, or None
  detached,    \* Scheduler::detached
  queued,      \* Scheduler::foreign_queue: keys woken from outside while locked
  latch,       \* Parker::latch of each thread: no grant, the duty, or the baton
  flight,      \* the baton granted to a thread and not yet in its latch
  pc,          \* where each thread is
  kid,         \* the child a thread in pthread_create is creating
  part,        \* the threads of class participant
  timers,      \* the virtual timer of each thread's wait, Never if it has none
  cleared,     \* the dispatchers told that no other sim's thread holds time off
  before,      \* the time a dispatch went to sleep at (a local of `idle`)
  changed,     \* the waiting threads whose word or signal count has changed
  now,         \* virtual time
  held,        \* the clock is held (idle_wait answers)
  leased,      \* a lease holds the domain busy
  kicks,       \* a thread outside changed one of those or the time, and is to kick
  timerWakes   \* wakers fired inside the sim that nobody has taken note of

threadVars == <<latch, flight, pc>>
outer == <<held, leased, kicks>>
env == <<timers, cleared, before, changed, now, outer, timerWakes>>
vars == <<st, locker, detached, queued, threadVars, kid, part, env>>

Never == MaxTime + 1
Times == 0 .. Never
Why == {"Woken", "TimedOut", "Deadlock"}
Readiness == <<"readiness">>
Addr(a) == <<"addr", a>>
Exit(t) == <<"exit", t>>
AddrKeys == {Addr(a) : a \in Addrs}
Keys == {Readiness} \cup AddrKeys \cup {Exit(t) : t \in Threads}
NoKey == <<"none">>

(* A wait (Blocked): what wakes it, when it times out, whether it is a      *)
(* readiness wait the clock can end, whether it recorded the value of the   *)
(* word it waits on, and whether a thread outside the schedule may hold     *)
(* what it waits for.  `after` is the timeout it is called with, 0 if none. *)
Wait == [key : Keys, deadline : Times, timed : BOOLEAN, word : BOOLEAN, shared : BOOLEAN]
NoWait == [key |-> Readiness, deadline |-> Never, timed |-> FALSE, word |-> FALSE, shared |-> FALSE]
ASSUME WaitsAssumption ==
  Waits \subseteq [key : Keys, after : Nat, timed : BOOLEAN, word : BOOLEAN, shared : BOOLEAN]

Deadline(w) == IF w.after = 0 THEN Never ELSE now + w.after
Blocked(w) ==
  [key |-> w.key, deadline |-> Deadline(w), timed |-> w.timed, word |-> w.word, shared |-> w.shared]

Least(S) == CHOOSE t \in S : \A u \in S : t <= u
Lowest(S, n) == {t \in S : Cardinality({u \in S : u < t}) < n}
All == Cardinality(Threads)

Init ==
  /\ st = [holder   |-> None,
           threads  |-> {},                              \* those with a Slot
           ready    |-> {},                              \* Slot::runnable
           why      |-> [t \in Threads |-> "Woken"],
           runnable |-> 0,
           waiting  |-> {},                              \* Slot::blocked
           wait     |-> [t \in Threads |-> NoWait],
           older    |-> [t \in Threads |-> {}],          \* those waiting when it began to
           blocked  |-> 0,
           last     |-> 0,
           roots    |-> 0,
           exited   |-> {},
           foreign  |-> {},
           letGo    |-> {},                              \* Slot::let_go
           outside  |-> [t \in Threads |-> NoKey],
           spinner  |-> [t \in Threads |-> "no"],
           owner    |-> [a \in Addrs |-> None]]
  /\ locker = None /\ detached = FALSE /\ queued = {}
  /\ latch = [t \in Threads |-> "none"]
  /\ flight = [t \in Threads |-> "none"]
  /\ pc = [t \in Threads |-> "out"]
  /\ kid = [t \in Threads |-> None]
  /\ part = {}
  /\ timers = [t \in Threads |-> Never]
  /\ before = [t \in Threads |-> 0]
  /\ changed = {} /\ cleared = {}
  /\ now = 0 /\ timerWakes = FALSE
  /\ held = FALSE /\ leased = FALSE /\ kicks = FALSE

Goto(t, where) == pc' = [pc EXCEPT ![t] = where]
Free == locker = None

-----------------------------------------------------------------------------
(* Functions on State. *)

(* Mutant: the thread is not queued. *)
SetRunnableDropped(s, t, why) == s

SetRunnable(s, t, why) ==
  IF t \in s.threads
    THEN [s EXCEPT !.ready = @ \cup {t}, !.why[t] = why,
                   !.runnable = IF t \in s.ready THEN @ ELSE @ + 1]
    ELSE s

SetRunnableIfNot(s, t) == IF t \in s.ready THEN s ELSE SetRunnable(s, t, "Woken")

(* Mutant: the count goes down for a thread that was not queued. *)
TakeRunnableUnchecked(s, t) ==
  [s EXCEPT !.ready = @ \ {t}, !.why[t] = "Woken", !.runnable = @ - 1]

TakeRunnable(s, t) ==
  IF t \in s.ready
    THEN [s EXCEPT !.ready = @ \ {t}, !.why[t] = "Woken", !.runnable = @ - 1]
    ELSE s

(* Mutant: the wait is not counted. *)
SetBlockedUncounted(s, t, w) ==
  [s EXCEPT !.waiting = @ \cup {t}, !.wait[t] = w, !.older[t] = s.waiting \ {t}]

SetBlocked(s, t, w) ==
  [s EXCEPT !.waiting = @ \cup {t}, !.wait[t] = w,
            !.older[t] = s.waiting \ {t},
            !.blocked = IF t \in s.waiting THEN @ ELSE @ + 1]

(* Takes every thread of S out of its wait. *)
TakeBlocked(s, S) ==
  LET gone == S \cap s.waiting IN
  [s EXCEPT !.waiting = @ \ gone,
            !.wait = [t \in Threads |-> IF t \in gone THEN NoWait ELSE @[t]],
            !.older = [t \in Threads |-> IF t \in gone THEN {} ELSE @[t] \ gone],
            !.blocked = @ - Cardinality(gone)]

(* unblock, for every waiting thread in the domain of `told`, which says why. *)
Unblock(s, told) ==
  LET woken == DOMAIN told \cap s.waiting
      s1 == TakeBlocked(s, woken)
  IN  [s1 EXCEPT !.ready = @ \cup woken,
                 !.why = [t \in Threads |-> IF t \in woken THEN told[t] ELSE @[t]],
                 !.runnable = @ + Cardinality(woken \ s.ready)]
Tell(S, why) == [t \in S |-> why]

Waiters(s, key) == {t \in s.waiting : s.wait[t].key = key}

(* Mutant: the order of lineages, not of arrival. *)
OldestByName(s, S, n) == Lowest(S, n)

Oldest(s, S, n) == {t \in S : Cardinality(s.older[t] \cap S) < n}

(* wake_key_matching with a filter that accepts every waiter of the key. *)
WakeKey(s, key, n, why) == Unblock(s, Tell(Oldest(s, Waiters(s, key), n), why))
WakeKeyAll(s, key, why) == Unblock(s, Tell(Waiters(s, key), why))

(* Mutants: a deadline one step ahead is due; a recorded value is not read. *)
DueByEarly(s, time) == {t \in s.waiting : s.wait[t].deadline <= time + 1}
ShouldRepollUnrecorded(s, t) == s.wait[t].key \in AddrKeys /\ ~s.wait[t].word

(* The waits release_due ends, those ReadinessWake::Timer wakes, and those  *)
(* repoll_addr_waiters has looked at again (should_repoll: unless they      *)
(* recorded a value that has not changed).                                  *)
DueBy(s, time) == {t \in s.waiting : s.wait[t].deadline <= time}
Timed(s) == {t \in s.waiting : s.wait[t].key = Readiness /\ s.wait[t].timed}
ShouldRepoll(s, t) == s.wait[t].key \in AddrKeys /\ (s.wait[t].word => t \in changed)
Repolled(s) == {t \in s.waiting : ShouldRepoll(s, t)}

(* release_due, then wakes for more waits to be looked at again. *)
Release(s, due, more) ==
  Unblock(s, [t \in due \cup more |-> IF t \in due THEN "TimedOut" ELSE "Woken"])
ReleaseDue(s, time) == Release(s, DueBy(s, time), {})

(* The clock moved, and wakers may have fired inside the sim. *)
Moved(s, time, fired) ==
  Release(s, DueBy(s, time), Timed(s) \cup IF fired THEN Repolled(s) ELSE {})

ReleaseDueNative(s, time) ==
  IF s.runnable > 0 THEN s
  ELSE Release(s, {t \in DueBy(s, time) : s.wait[t].key \in AddrKeys}, {})

BlockedOnSharedWord(s) == \E t \in s.waiting : s.wait[t].shared

(* wake_foreign_locked, for one waiter of each key of K: a key with none is *)
(* kept for the next wait on it.  take_foreign is WakeForeign(s, queued).   *)
WakeForeign(s, K) ==
  LET woken == UNION {Oldest(s, Waiters(s, k), 1) : k \in K}
  IN  [Unblock(s, Tell(woken, "Woken")) EXCEPT
         !.foreign = @ \cup {k \in K : Waiters(s, k) = {}}]

WakeOutside(s, key, n) ==
  LET woken == Lowest({t \in s.threads : s.outside[t] = key}, n)
  IN  [s EXCEPT !.outside = [t \in Threads |-> IF t \in woken THEN NoKey ELSE @[t]],
                !.ready = @ \cup woken,
                !.why = [t \in Threads |-> IF t \in woken THEN "Woken" ELSE @[t]],
                !.runnable = @ + Cardinality(woken \ s.ready)]

(* disown: the mutexes t holds are forgotten and their waiters try again,   *)
(* along with the waiters on K.                                             *)
Disown(s, t, K) ==
  LET mine == {a \in Addrs : s.owner[a] = t}
      freed == {u \in s.waiting : s.wait[u].key \in K \cup {Addr(a) : a \in mine}}
  IN  [Unblock(s, Tell(freed, "Woken")) EXCEPT
         !.owner = [a \in Addrs |-> IF a \in mine THEN None ELSE @[a]]]

(* Mutant: the cursor is not looked at. *)
NextReadyFirst(s) == Least(s.ready)

(* The thread grant_next picks: the next ready one after the cursor. *)
NextReady(s) ==
  LET later == {t \in s.ready : t > s.last}
  IN  Least(IF later # {} THEN later ELSE s.ready)

(* Mutant: the holder is not recorded. *)
GrantedUnheld(s) ==
  LET t == NextReady(s)
  IN  [TakeRunnable(s, t) EXCEPT !.last = t]

Granted(s) ==
  LET t == NextReady(s)
  IN  [TakeRunnable(s, t) EXCEPT !.holder = t, !.last = t]

(* grant_next on s: the baton is on its way; or s is handed back. *)
GrantNext(s) ==
  IF s.ready # {}
    THEN st' = Granted(s) /\ flight' = [flight EXCEPT ![NextReady(s)] = s.why[NextReady(s)]]
    ELSE st' = s /\ UNCHANGED flight

(* Mutant: the wake is noted, and nobody granted. *)
GrantIfIdleLazy(s) == st' = s /\ UNCHANGED flight

GrantIfIdle(s) ==
  IF s.holder = None THEN GrantNext(s) ELSE st' = s /\ UNCHANGED flight

(* Mutant: the duty is handed to nobody. *)
DelegateNobody(s, l) == l

(* Parker::delegate, to the first blocked thread, if any. *)
DelegateFirst(s, l) ==
  IF s.waiting # {} /\ l[Least(s.waiting)] = "none"
    THEN [l EXCEPT ![Least(s.waiting)] = "dispatch"]
    ELSE l

(* Mutant: the leaver stays holder when nobody can be granted. *)
HandOnKeeps(s, l) ==
  /\ GrantNext(s)
  /\ latch' = IF s.ready = {} THEN DelegateFirst(s, l) ELSE l

(* The holder leaves the schedule: grant_next, else delegate the dispatch. *)
HandOn(s, l) ==
  /\ GrantNext([s EXCEPT !.holder = None])
  /\ latch' = IF s.ready = {} THEN DelegateFirst(s, l) ELSE l

-----------------------------------------------------------------------------
(* Threads come, go and change class. *)

lockedVars == <<locker, detached, queued>>

(* enter_root.  Locking a detached schedule sheds its queued outside wakes. *)
EnterRoot(t) ==
  /\ pc[t] = "out" /\ t \in Roots /\ Free
  /\ LET s == [st EXCEPT !.threads = @ \cup {t}, !.roots = @ + 1]
     IN  IF st.holder = None
           THEN st' = [s EXCEPT !.holder = t, !.last = t] /\ Goto(t, "user")
           ELSE st' = SetRunnable(s, t, "Woken") /\ Goto(t, "parked")
  /\ detached' = FALSE
  /\ queued' = IF detached THEN {} ELSE queued
  /\ part' = part \cup {t}
  /\ UNCHANGED <<locker, latch, flight, kid, env>>

(* spawned: a child is queued while it is being created, in pthread_create  *)
(* (inherit_with) by a thread p of any class, or by spawn_injected.         *)
Queue(c, s) ==
  /\ pc[c] = "out" /\ c \notin Roots /\ Free
  /\ detached => "latespawn" \in Events
  /\ IF detached
       THEN st' = s /\ UNCHANGED flight
       ELSE GrantIfIdle(SetRunnable([s EXCEPT !.threads = @ \cup {c}], c, "Woken"))
  /\ part' = part \cup {c}
  /\ UNCHANGED <<lockedVars, latch, env>>

Spawned(p, c) ==
  /\ pc[p] = "user" /\ Queue(c, [st EXCEPT !.spinner[p] = "no"])
  /\ pc' = [pc EXCEPT ![p] = "create", ![c] = "born"]
  /\ kid' = [kid EXCEPT ![p] = c]

Injected(c) == "inject" \in Events /\ Queue(c, st) /\ Goto(c, "born") /\ UNCHANGED kid

Created(p) ==
  /\ pc[p] = "create"
  /\ Goto(p, "user") /\ kid' = [kid EXCEPT ![p] = None]
  /\ UNCHANGED <<st, lockedVars, latch, flight, part, env>>

(* release: the OS made no thread, and unspawned takes the child back. *)
CreateFails(p) ==
  /\ "fail" \in Events /\ pc[p] = "create" /\ pc[kid[p]] = "born" /\ Free
  /\ st' = IF detached THEN st
           ELSE [TakeRunnable(st, kid[p]) EXCEPT !.threads = @ \ {kid[p]},
                                                 !.letGo = @ \ {kid[p]}]
  /\ pc' = [pc EXCEPT ![p] = "user", ![kid[p]] = "gone"]
  /\ kid' = [kid EXCEPT ![p] = None]
  /\ part' = part \ {kid[p]}
  /\ UNCHANGED <<lockedVars, latch, flight, env>>

(* Mutant: the child runs at once. *)
StartedRuns(c) ==
  /\ pc[c] = "born" /\ Free
  /\ st' = [st EXCEPT !.threads = @ \cup {c}] /\ Goto(c, "user")
  /\ UNCHANGED <<lockedVars, latch, flight, kid, part, env>>

(* adopt: the child's first act is to wait for the baton. *)
Started(c) ==
  /\ pc[c] = "born" /\ Free
  /\ IF detached /\ c \notin st.ready /\ st.holder # c
       THEN st' = st /\ Goto(c, "user")
       ELSE st' = [st EXCEPT !.threads = @ \cup {c}] /\ Goto(c, "parked")
  /\ UNCHANGED <<lockedVars, latch, flight, kid, part, env>>

(* exit: Managed::drop for a root, Child::drop for a spawned thread. *)
Left(s, t) ==
  LET s1 == TakeBlocked(TakeRunnable(s, t), {t})
      s2 == [s1 EXCEPT !.roots = IF t \in Roots /\ @ > 0 THEN @ - 1 ELSE @,
                       !.exited = @ \cup {t},
                       !.threads = @ \ {t}, !.letGo = @ \ {t},
                       !.outside[t] = NoKey, !.spinner[t] = "no"]
  IN  Disown(s2, t, {Exit(t)})

ExitThread(t) ==
  /\ pc[t] = "user" /\ Free
  /\ LET s == Left(st, t) IN
     IF st.holder = t THEN HandOn(s, latch) ELSE GrantIfIdle(s) /\ UNCHANGED latch
  /\ Goto(t, "gone")
  /\ part' = part \ {t}
  /\ UNCHANGED <<lockedVars, kid, env>>

(* set_thread_class: a participant leaves the schedule (detach_thread), or  *)
(* a thread beside it joins (attach_thread).                                *)
LeaveClass(t) ==
  /\ "class" \in Events /\ pc[t] = "user" /\ t \in part /\ Free
  /\ LET s == Disown(TakeBlocked(TakeRunnable([st EXCEPT !.spinner[t] = "no"], t), {t}), t, {})
         l == IF t \in st.threads THEN [latch EXCEPT ![t] = "none"] ELSE latch
         owned == \E a \in Addrs : st.owner[a] = t
     IN  IF st.holder = t THEN HandOn(s, l)
         ELSE /\ IF owned THEN GrantIfIdle(s) ELSE st' = s /\ UNCHANGED flight
              /\ latch' = l
  /\ part' = part \ {t}
  /\ UNCHANGED <<lockedVars, pc, kid, env>>

JoinClass(t) ==
  /\ "class" \in Events /\ pc[t] = "user" /\ t \notin part /\ Free
  /\ detached \/ t \in st.letGo => "latejoin" \in Events
  /\ LET s == [st EXCEPT !.threads = @ \cup {t}, !.spinner[t] = "no"] IN
     IF st.holder = t
       THEN st' = s /\ UNCHANGED <<flight, pc>>
       ELSE GrantIfIdle(SetRunnable(s, t, "Woken")) /\ Goto(t, "parked")
  /\ part' = part \cup {t}
  /\ UNCHANGED <<lockedVars, latch, kid, env>>

-----------------------------------------------------------------------------
(* The parked thread, and waits. *)

(* The tail of grant_next: the baton reaches the latch, over a pending duty. *)
Deliver(t) ==
  /\ flight[t] # "none"
  /\ latch' = [latch EXCEPT ![t] = flight[t]]
  /\ flight' = [flight EXCEPT ![t] = "none"]
  /\ UNCHANGED <<st, lockedVars, pc, kid, part, env>>

(* park: handed the baton, the thread goes back to the code under test and  *)
(* its wait's timer is unregistered.                                        *)
Run(t) ==
  /\ pc[t] = "parked" /\ latch[t] \in Why
  /\ latch' = [latch EXCEPT ![t] = "none"]
  /\ Goto(t, "user")
  /\ timers' = [timers EXCEPT ![t] = Never]
  /\ changed' = changed \ {t}
  /\ UNCHANGED <<st, lockedVars, flight, kid, part, cleared, before, now, outer, timerWakes>>

TakeDuty(t) ==
  /\ pc[t] = "parked" /\ latch[t] = "dispatch"
  /\ latch' = [latch EXCEPT ![t] = "none"]
  /\ Goto(t, "duty")
  /\ UNCHANGED <<st, lockedVars, flight, kid, part, env>>

DoDuty(t) ==
  /\ pc[t] = "duty" /\ Free
  /\ IF st.holder = None
       THEN locker' = t /\ Goto(t, "dispatch")
       ELSE Goto(t, "parked") /\ UNCHANGED locker
  /\ UNCHANGED <<st, detached, queued, latch, flight, kid, part, env>>

(* block, by the holder.  The wait is over before it begins if it joins a   *)
(* thread that has exited, an outside wake is kept for its key, or the word *)
(* has changed since the caller looked at it.                               *)
Block(t, w, raced) ==
  /\ pc[t] = "user" /\ t \in part /\ ~detached /\ Free
  /\ st.holder = t /\ t \in st.threads
  /\ \A u \in st.exited : w.key # Exit(u)
  /\ now + w.after <= MaxTime
  /\ raced => w.word
  /\ queued' = {}
  /\ LET s == WakeForeign([st EXCEPT !.spinner[t] = "no"], queued) IN
     IF w.key \in s.foreign \/ raced
       THEN /\ st' = [s EXCEPT !.foreign = @ \ {w.key}]
            /\ UNCHANGED <<locker, pc, timers>>
       ELSE /\ st' = [SetBlocked(s, t, Blocked(w)) EXCEPT !.holder = None]
            /\ locker' = t /\ Goto(t, "dispatch")
            /\ timers' = [timers EXCEPT ![t] = Deadline(w)]
  /\ UNCHANGED <<detached, latch, flight, kid, part, cleared, before, changed, now, outer, timerWakes>>

(* block, by a thread let go: it waits in the schedule without the baton.   *)
(* Its let-go mark is taken even if the schedule has detached again since   *)
(* the caller saw it active.                                                *)
BlockLetGo(t, w) ==
  /\ pc[t] = "block" /\ Free
  /\ \A u \in st.exited : w.key # Exit(u)
  /\ now + w.after <= MaxTime
  /\ st.holder # t
  /\ LET s == [st EXCEPT !.letGo = @ \ {t}, !.spinner[t] = "no"] IN
     IF t \in st.letGo /\ ~detached
       THEN /\ st' = SetBlocked(s, t, Blocked(w)) /\ Goto(t, "parked")
            /\ timers' = [timers EXCEPT ![t] = Deadline(w)]
       ELSE st' = s /\ Goto(t, "user") /\ UNCHANGED timers
  /\ UNCHANGED <<lockedVars, latch, flight, kid, part, cleared, before, changed, now, outer, timerWakes>>

(* yield_now, also the end of a spin's step. *)
YieldNow(t) ==
  /\ pc[t] = "yield" \/ ("yield" \in Events /\ pc[t] = "user")
  /\ st.holder = t /\ t \in part /\ ~detached /\ Free
  /\ queued' = {}
  /\ LET s == WakeForeign(st, queued) IN
     IF s.runnable = 0
       THEN st' = s /\ Goto(t, "user") /\ UNCHANGED flight
       ELSE GrantNext([SetRunnable(s, t, "Woken") EXCEPT !.holder = None]) /\ Goto(t, "parked")
  /\ UNCHANGED <<locker, detached, latch, kid, part, env>>

(* spin: with another thread at work the spinner only yields to it, and so  *)
(* does a spin of yields alone while another thread's spin reads the clock. *)
Spin(t, clock) ==
  /\ "spin" \in Events /\ pc[t] = "user" /\ t \in part /\ ~detached /\ Free
  /\ st.holder = t
  /\ LET s == [st EXCEPT !.spinner[t] = IF clock THEN "clock" ELSE "yield"]
         othersWork == \E u \in s.ready : s.spinner[u] = "no"
         clockElsewhere == \E u \in s.threads \ {t} : s.spinner[u] = "clock"
     IN  /\ st' = s
         /\ Goto(t, IF othersWork \/ (~clock /\ clockElsewhere) THEN "yield" ELSE "advance")
  /\ UNCHANGED <<lockedVars, latch, flight, kid, part, env>>

(* advance_to_next_deadline: the earliest pending timer ahead, if the clock *)
(* is free to skip to it: not paused, nor driven by an executive.           *)
(* Mutant: a timer a step ahead is taken for reached. *)
AheadLate == {timers[t] : t \in Threads} \cap (now + 2) .. MaxTime

Ahead == {timers[t] : t \in Threads} \cap (now + 1) .. MaxTime
(* Mutant: the skip lands on the last timer. *)
NextTimerLast == CHOOSE n \in Ahead : \A m \in Ahead : m <= n
NextTimer == Least(Ahead)
ClockHeld == held \/ "executive" \in Events
CanSkip == ~ClockHeld /\ ~leased /\ Ahead # {}

(* Wakers registered with the clock may fire as time reaches them. *)
Fires == IF "wakers" \in Events THEN BOOLEAN ELSE {FALSE}

(* The spinner's `advance`: a step of the clock, or a skip to a timer; then *)
(* wakers that fired in it have the native waits look again.                *)
SpinAdvance(t) ==
  /\ pc[t] = "advance" /\ Free
  /\ \/ /\ IF st.spinner[t] = "clock" THEN now < MaxTime /\ now' = now + 1
                                      ELSE CanSkip /\ now' = NextTimer
        /\ \E fired \in Fires : st' = Moved(st, now', timerWakes \/ fired)
        /\ timerWakes' = FALSE
     \/ /\ IF st.spinner[t] = "clock" THEN now = MaxTime ELSE ~CanSkip
        /\ UNCHANGED <<st, now, timerWakes>>
  /\ Goto(t, "yield")
  /\ UNCHANGED <<lockedVars, latch, flight, kid, part, timers, cleared, before, changed, outer>>

-----------------------------------------------------------------------------
(* Wakes by threads of the domain. *)

(* Mutant: a detached schedule is taken for active. *)
AwakeDetached(t) == pc[t] = "user" /\ Free

Awake(t) == pc[t] = "user" /\ ~detached /\ Free

(* wake_masked: the oldest waiters, then threads in native waits on the key. *)
WakeMasked(s, key, n) ==
  LET left == n - Cardinality(Oldest(s, Waiters(s, key), n))
  IN  WakeOutside(WakeKey(s, key, n, "Woken"), key, left)

Wake(t, key, n) ==
  /\ Awake(t) /\ WakeMasked(st, key, n) # st
  /\ GrantIfIdle(WakeMasked(st, key, n))
  /\ UNCHANGED <<lockedVars, latch, pc, kid, part, env>>

(* wake_readiness, matching the waits S. *)
WakeReadiness(t, S) ==
  /\ Awake(t) /\ S \subseteq Waiters(st, Readiness)
  /\ LET s == WakeOutside(Unblock(st, Tell(S, "Woken")), Readiness, All)
     IN  s # st /\ GrantIfIdle(s)
  /\ UNCHANGED <<lockedVars, latch, pc, kid, part, env>>

(* wake_thread: a signal for u. *)
WakeOne(s, u) == Unblock(s, Tell({u}, "Woken"))
WakeThread(t, u) ==
  /\ "signal" \in Events /\ Awake(t) /\ u \in st.waiting
  /\ GrantIfIdle(WakeOne(st, u))
  /\ UNCHANGED <<lockedVars, latch, pc, kid, part, env>>

(* took and released, by the holder: a mutex it locks and unlocks. *)
Took(t, a) ==
  /\ "mutex" \in Events /\ pc[t] = "user" /\ t \in part /\ ~detached /\ Free
  /\ st.holder = t /\ st.owner[a] = None
  /\ st' = [st EXCEPT !.owner[a] = t]
  /\ UNCHANGED <<lockedVars, latch, flight, pc, kid, part, env>>

Released(t, a) ==
  /\ Awake(t) /\ t \in part /\ st.owner[a] = t
  /\ GrantIfIdle(WakeMasked([st EXCEPT !.owner[a] = None], Addr(a), 1))
  /\ UNCHANGED <<lockedVars, latch, pc, kid, part, env>>

-----------------------------------------------------------------------------
(* Threads let go. *)

(* native_wait_on_checked and native_wait: a participant of a detached      *)
(* schedule waits in the OS, on a key (wait_outside) or on something else.  *)
NativeWait(t, key) ==
  /\ pc[t] = "user" /\ t \in part /\ detached /\ Free
  /\ st' = IF key # NoKey /\ t \in st.letGo THEN [st EXCEPT !.outside[t] = key] ELSE st
  /\ Goto(t, "native")
  /\ UNCHANGED <<lockedVars, latch, flight, kid, part, env>>

NativeReturns(t) ==
  /\ pc[t] = "native"
  /\ Goto(t, "rejoin")
  /\ UNCHANGED <<st, lockedVars, latch, flight, kid, part, env>>

(* det_active, as a hook of a thread let go begins: the schedule is active. *)
DetActive(t) ==
  /\ pc[t] = "user" /\ t \in part /\ ~detached /\ t \in st.letGo
  /\ Goto(t, "active")
  /\ UNCHANGED <<st, lockedVars, latch, flight, kid, part, env>>

(* rejoin: the thread waits for the baton while a run is active. *)
Rejoin(t) ==
  /\ pc[t] \in {"rejoin", "active"} /\ Free
  /\ LET s == [st EXCEPT !.outside[t] = NoKey] IN
     IF detached \/ t \notin st.letGo
       THEN /\ st' = IF st.letGo = {} THEN st ELSE s
            /\ Goto(t, IF pc[t] = "rejoin" THEN "user" ELSE "hook")
            /\ UNCHANGED flight
       ELSE /\ LET s1 == [s EXCEPT !.letGo = @ \ {t}] IN
               IF st.holder # t THEN GrantIfIdle(SetRunnableIfNot(s1, t))
                                ELSE st' = s1 /\ UNCHANGED flight
            /\ Goto(t, "parked")
  /\ UNCHANGED <<lockedVars, latch, kid, part, env>>

(* det_block, further into the hook of a thread whose rejoin found the      *)
(* schedule detached: it looks once more whether the schedule is active.    *)
DetBlock(t) ==
  /\ pc[t] = "hook"
  /\ Goto(t, IF detached THEN "user" ELSE "block")
  /\ UNCHANGED <<st, lockedVars, latch, flight, kid, part, env>>

-----------------------------------------------------------------------------
(* dispatch_inner, by the thread d holding the state lock.  A pass of its   *)
(* loop delivers the outside wakes queued meanwhile, grants the baton if it *)
(* can, and else looks for something to wait for, in order.  `cleared`      *)
(* holds those with `holders_cleared` set.                                  *)

Locked == {"dispatch", "drained", "stuck", "unleased", "noskip", "timeless"}
Asleep == {"idle", "unlocked", "skipped", "polling"}
Leave(d, where) == locker' = None /\ Goto(d, where)

TakeForeign(d) ==
  /\ pc[d] = "dispatch"
  /\ st' = WakeForeign(st, queued) /\ queued' = {} /\ Goto(d, "drained")
  /\ UNCHANGED <<locker, detached, latch, flight, kid, part, env>>

DispatchGrants(d) ==
  /\ pc[d] = "drained" /\ st.ready # {}
  /\ GrantNext(st) /\ Leave(d, "parked") /\ cleared' = cleared \ {d}
  /\ UNCHANGED <<detached, queued, latch, kid, part,
                 timers, before, changed, now, outer, timerWakes>>

NothingBlocked(d) ==
  /\ pc[d] = "drained" /\ st.ready = {} /\ st.blocked = 0
  /\ Leave(d, "parked") /\ cleared' = cleared \ {d}
  /\ UNCHANGED <<st, detached, queued, latch, flight, kid, part,
                 timers, before, changed, now, outer, timerWakes>>

(* Nothing can run, and some thread waits. *)
Stuck(d) == pc[d] = "drained" /\ st.ready = {} /\ st.blocked > 0

(* detach: every root has left, and the threads that wait are let go. *)
Detach(d) ==
  /\ Stuck(d) /\ st.roots = 0 /\ ~leased
  /\ st' = [st EXCEPT !.foreign = {}, !.blocked = 0, !.waiting = {},
                      !.wait = [t \in Threads |-> NoWait],
                      !.older = [t \in Threads |-> {}],
                      !.letGo = @ \cup st.waiting]
  /\ latch' = [t \in Threads |-> IF t \in st.waiting THEN "Woken" ELSE latch[t]]
  /\ detached' = TRUE
  /\ Leave(d, "parked") /\ cleared' = cleared \ {d}
  /\ UNCHANGED <<queued, flight, kid, part,
                 timers, before, changed, now, outer, timerWakes>>

(* The first half of `idle`. *)
GoIdle(d) ==
  /\ Leave(d, "idle") /\ before' = [before EXCEPT ![d] = now]
  /\ UNCHANGED <<st, detached, queued, latch, flight, kid, part,
                 timers, changed, now, outer, timerWakes>>

(* Between one look at the leases and the clock and the next of a pass, the *)
(* lock is kept but they may change.                                        *)
GoOn(d, where) ==
  /\ Goto(d, where)
  /\ UNCHANGED <<st, lockedVars, latch, flight, kid, part, timers, before, changed, now, outer, timerWakes>>

StaysOn(d) == Stuck(d) /\ (st.roots > 0 \/ leased) /\ GoOn(d, "stuck") /\ UNCHANGED cleared
IdleLeased(d) == pc[d] = "stuck" /\ leased /\ GoIdle(d) /\ UNCHANGED cleared
NoLease(d) == pc[d] = "stuck" /\ ~leased /\ GoOn(d, "unleased") /\ UNCHANGED cleared

Again(d, s) ==
  /\ st' = s /\ Goto(d, "dispatch")
  /\ UNCHANGED <<locker, detached, queued, latch, flight, kid, part,
                 timers, before, changed, outer>>

RepollTimerWakes(d) ==
  /\ pc[d] = "unleased" /\ timerWakes
  /\ Again(d, Release(st, {}, Repolled(st))) /\ timerWakes' = FALSE
  /\ UNCHANGED <<now, cleared>>

(* wake_real_ready: real descriptors the waits S watch are ready. *)
WakeRealReady(d, S) ==
  /\ "real" \in Events /\ pc[d] = "unleased" /\ ~timerWakes
  /\ S # {} /\ S \subseteq Waiters(st, Readiness)
  /\ Again(d, Release(st, {}, S))
  /\ UNCHANGED <<now, timerWakes, cleared>>

Unready(d) == pc[d] = "unleased" /\ ~timerWakes
Unlock(d, where) ==
  /\ Leave(d, where)
  /\ UNCHANGED <<st, detached, queued, latch, flight, kid, part,
                 timers, before, changed, outer>>

(* The census of other sims is asked with the state lock let go. *)
AskHolders(d) ==
  /\ "statics" \in Events /\ Unready(d) /\ d \notin cleared
  /\ Unlock(d, "unlocked") /\ UNCHANGED <<now, timerWakes, cleared>>

MaySkip(d) ==
  /\ Unready(d) /\ (d \in cleared \/ "statics" \notin Events)
  /\ cleared' = cleared \ {d}

TimeSkip(d) ==
  /\ MaySkip(d) /\ CanSkip
  /\ now' = NextTimer /\ Again(d, Moved(st, now', FALSE)) /\ timerWakes' \in Fires

NoSkip(d) == MaySkip(d) /\ ~CanSkip /\ GoOn(d, "noskip")
LeasedSince(d) == pc[d] = "noskip" /\ leased /\ GoOn(d, "dispatch") /\ UNCHANGED cleared
NoTimeLeft(d) == pc[d] = "noskip" /\ ~leased /\ GoOn(d, "timeless") /\ UNCHANGED cleared

IdleHeld(d) == pc[d] = "timeless" /\ ClockHeld /\ GoIdle(d) /\ UNCHANGED cleared

NotHeld(d) == pc[d] = "timeless" /\ ~ClockHeld /\ UNCHANGED cleared
(* Mutant: the test for words of static data the wrong way round. *)
GivesUpOnShared == BlockedOnSharedWord(st) /\ Waiters(st, Readiness) # {}
GivesUp == ~BlockedOnSharedWord(st) /\ Waiters(st, Readiness) # {}

GiveUp(d) ==
  /\ NotHeld(d) /\ GivesUp
  /\ Again(d, WakeKeyAll(st, Readiness, "Deadlock"))
  /\ UNCHANGED <<now, timerWakes>>

(* foreign_time_skip: to a timer of a thread outside the schedule. *)
ForeignTimeSkip(d) ==
  /\ "foreigntime" \in Events /\ NotHeld(d) /\ ~GivesUp /\ ~leased /\ now < MaxTime
  /\ now' = now + 1 /\ timerWakes' \in Fires
  /\ Unlock(d, "skipped")

PollOutside(d) ==
  /\ NotHeld(d) /\ ~GivesUp
  /\ Unlock(d, "polling") /\ UNCHANGED <<now, timerWakes>>

(* The lock taken again: the dispatch is over if the baton was taken, else  *)
(* its loop goes on from s.                                                 *)
Relock(d, s) ==
  /\ Free
  /\ IF st.holder # None
       THEN Goto(d, "parked") /\ UNCHANGED <<st, locker>>
       ELSE st' = s /\ locker' = d /\ Goto(d, "dispatch")
  /\ UNCHANGED <<detached, queued, latch, flight, kid, part,
                 timers, changed, now, outer, timerWakes>>
Clear(d, on) == cleared' = IF st.holder = None /\ on THEN cleared \cup {d} ELSE cleared \ {d}

(* The second half of `idle`: an attached executive releases what is due    *)
(* itself.                                                                  *)
IdleOver(d) ==
  /\ pc[d] = "idle"
  /\ LET due == IF "executive" \in Events THEN {} ELSE DueBy(st, now)
         timed == IF "executive" \in Events \/ now = before[d] THEN {} ELSE Timed(st)
     IN  Relock(d, IF st.runnable > 0 THEN st ELSE Release(st, due, timed \cup Repolled(st)))
  /\ Clear(d, d \in cleared)
  /\ before' = [before EXCEPT ![d] = 0]

HoldersAsked(d) == pc[d] = "unlocked" /\ Relock(d, st) /\ Clear(d, TRUE) /\ UNCHANGED before

(* skip_held_off: a thread of another sim may carry a wake here. *)
HeldOff(d) ==
  /\ pc[d] = "unlocked" /\ Free /\ st.holder = None
  /\ GoIdle(d) /\ UNCHANGED cleared

SkippedOver(d) ==
  pc[d] = "skipped" /\ Relock(d, ReleaseDue(st, now)) /\ Clear(d, FALSE) /\ UNCHANGED before
PollOver(d) ==
  pc[d] = "polling" /\ Relock(d, Release(st, {}, Repolled(st))) /\ Clear(d, FALSE) /\ UNCHANGED before

Dispatching(d) ==
  \/ TakeForeign(d) \/ DispatchGrants(d) \/ NothingBlocked(d) \/ Detach(d)
  \/ StaysOn(d) \/ IdleLeased(d) \/ NoLease(d)
  \/ RepollTimerWakes(d) \/ (\E S \in SUBSET Threads : WakeRealReady(d, S))
  \/ AskHolders(d) \/ TimeSkip(d) \/ NoSkip(d) \/ LeasedSince(d) \/ NoTimeLeft(d)
  \/ IdleHeld(d) \/ GiveUp(d)
  \/ ForeignTimeSkip(d) \/ PollOutside(d)
  \/ IdleOver(d) \/ HoldersAsked(d) \/ HeldOff(d) \/ SkippedOver(d) \/ PollOver(d)

-----------------------------------------------------------------------------
(* Outside the schedule. *)

(* A thread outside moves the clock, holds or resumes it, or takes or gives *)
(* back a lease, and then, in all but one case, kicks the domain.           *)
MoveClock ==
  /\ "clock" \in Events /\ now < MaxTime /\ now' = now + 1 /\ kicks' = TRUE
  /\ UNCHANGED <<st, lockedVars, threadVars, kid, part, timers, cleared, before, changed, held, leased, timerWakes>>

SwitchClock ==
  /\ "hold" \in Events /\ held' = ~held /\ kicks' = TRUE
  /\ UNCHANGED <<st, lockedVars, threadVars, kid, part, timers, cleared, before, changed, now, leased, timerWakes>>

TakeLease ==
  /\ "lease" \in Events /\ ~leased /\ leased' = TRUE
  /\ UNCHANGED <<st, lockedVars, threadVars, kid, part, timers, cleared, before, changed, now, held, kicks, timerWakes>>

ReturnLease ==
  /\ leased /\ leased' = FALSE /\ kicks' = TRUE
  /\ UNCHANGED <<st, lockedVars, threadVars, kid, part, timers, cleared, before, changed, now, held, timerWakes>>

(* kick, or release_due_at after a move that reached nothing of the layers'. *)
Kick ==
  /\ kicks /\ Free /\ kicks' = FALSE
  /\ \/ GrantIfIdle(Moved(st, now, timerWakes)) /\ timerWakes' = FALSE
     \/ "clock" \in Events /\ GrantIfIdle(ReleaseDue(st, now)) /\ UNCHANGED timerWakes
  /\ UNCHANGED <<lockedVars, latch, pc, kid, part, timers, cleared, before, changed, now, held, leased>>

(* charge_latency and release_due_native_at: the latency of a call the      *)
(* holder made moved the clock; a yield follows.                            *)
ChargeLatency(t) ==
  /\ "latency" \in Events /\ Awake(t) /\ t \in part /\ st.holder = t
  /\ now < MaxTime /\ now' = now + 1
  /\ st' = ReleaseDueNative([st EXCEPT !.spinner[t] = "no"], now')
  /\ Goto(t, "yield")
  /\ UNCHANGED <<lockedVars, latch, flight, kid, part, timers, cleared, before, changed, outer, timerWakes>>

(* acquire_external and release_external: the executive takes the baton of  *)
(* an idle schedule, and gives it back.                                     *)
AcquireExternal ==
  /\ "executive" \in Events /\ Free /\ st.holder = None /\ st.runnable = 0
  /\ st' = [st EXCEPT !.holder = External]
  /\ UNCHANGED <<lockedVars, threadVars, kid, part, env>>

ReleaseExternal ==
  /\ Free /\ st.holder = External
  /\ HandOn(st, latch)
  /\ UNCHANGED <<lockedVars, pc, kid, part, env>>

(* wake_foreign, of one waiter of a, by a thread outside the domain: queued *)
(* while a dispatch has the state locked.                                   *)
ForeignWake(a) ==
  /\ "foreign" \in Events
  /\ IF Free
       THEN GrantIfIdle(WakeForeign(st, {Addr(a)})) /\ UNCHANGED queued
       ELSE queued' = queued \cup {Addr(a)} /\ UNCHANGED <<st, flight>>
  /\ UNCHANGED <<locker, detached, latch, pc, kid, part, env>>

(* A thread outside the domain changes the word at a, unseen. *)
OutsideChange(a) ==
  /\ "change" \in Events
  /\ changed' = changed \cup {t \in Waiters(st, Addr(a)) : st.wait[t].word}
  /\ changed' # changed
  /\ UNCHANGED <<st, lockedVars, threadVars, kid, part,
                 timers, cleared, before, now, outer, timerWakes>>

-----------------------------------------------------------------------------
Coming(t) ==
  \/ EnterRoot(t) \/ Created(t) \/ CreateFails(t) \/ Started(t) \/ ExitThread(t)
  \/ LeaveClass(t) \/ JoinClass(t)
  \/ \E c \in Threads : Spawned(t, c)

Waiting(t) ==
  \/ \E w \in Waits : BlockLetGo(t, w) \/ \E raced \in BOOLEAN : Block(t, w, raced)
  \/ YieldNow(t) \/ SpinAdvance(t) \/ \E clock \in BOOLEAN : Spin(t, clock)

Waking(t) ==
  \/ \E key \in Keys, n \in {1, All} : Wake(t, key, n)
  \/ \E S \in SUBSET Threads : WakeReadiness(t, S)
  \/ \E u \in Threads : WakeThread(t, u)
  \/ \E a \in Addrs : Took(t, a) \/ Released(t, a)

Rejoining(t) ==
  \/ \E key \in AddrKeys \cup {NoKey} : NativeWait(t, key)
  \/ NativeReturns(t) \/ DetActive(t) \/ Rejoin(t) \/ DetBlock(t)

Parked(t) == Deliver(t) \/ Run(t) \/ TakeDuty(t) \/ DoDuty(t)

Outside ==
  \/ MoveClock \/ SwitchClock \/ TakeLease \/ ReturnLease \/ Kick
  \/ \E t \in Threads : ChargeLatency(t) \/ Injected(t)
  \/ AcquireExternal \/ ReleaseExternal
  \/ \E a \in Addrs : ForeignWake(a) \/ OutsideChange(a)

Next ==
  \/ \E t \in Threads : \/ Coming(t) \/ Waiting(t) \/ Waking(t) \/ Rejoining(t)
                        \/ Parked(t) \/ Dispatching(t)
  \/ Outside

Spec == Init /\ [][Next]_vars

(* The code under test gives the baton up in the end: the holder waits or   *)
(* exits.                                                                   *)
LetsGo(t) == ExitThread(t) \/ \E w \in Waits : Block(t, w, FALSE)

(* What t's thread does on its own, or has coming; the code under test      *)
(* chooses the rest.                                                        *)
Proceeds(t) ==
  \/ Parked(t) \/ Dispatching(t) \/ LetsGo(t) \/ Started(t) \/ Created(t) \/ Rejoin(t)
  \/ SpinAdvance(t) \/ (pc[t] = "yield" /\ YieldNow(t))

(* When Proceeds(t) is enabled, written out: TLC's ENABLED is too slow here. *)
CanProceed(t) ==
  \/ flight[t] # "none" \/ pc[t] \in {"create"} \cup Locked
  \/ pc[t] = "parked" /\ latch[t] # "none"
  \/ Free /\ pc[t] \in {"born", "user", "duty", "advance", "rejoin", "active"} \cup Asleep
  \/ Free /\ pc[t] = "yield" /\ st.holder = t /\ t \in part /\ ~detached

(* Weak fairness: the OS runs every thread that can run, and the executive  *)
(* gives back the baton.                                                    *)
Fairness ==
  /\ \A t \in Threads : []<>~CanProceed(t) \/ []<><<Proceeds(t)>>_vars
  /\ WF_vars(ReleaseExternal)

FairSpec == Spec /\ Fairness

-----------------------------------------------------------------------------
PC == {"out", "born", "create", "user", "parked", "duty", "yield", "advance",
       "native", "rejoin", "active", "hook", "block", "gone"} \cup Locked \cup Asleep

State ==
  [holder : Threads \cup {None, External}, threads : SUBSET Threads,
   ready : SUBSET Threads, why : [Threads -> Why], runnable : Nat,
   waiting : SUBSET Threads, wait : [Threads -> Wait],
   older : [Threads -> SUBSET Threads], blocked : Nat,
   last : Threads \cup {0}, roots : Nat, exited : SUBSET Threads, foreign : SUBSET Keys,
   letGo : SUBSET Threads, outside : [Threads -> Keys \cup {NoKey}],
   spinner : [Threads -> {"no", "yield", "clock"}], owner : [Addrs -> Threads \cup {None}]]

(* Every part of the state has its type, and the counters of queued and     *)
(* waiting threads, unsigned in the code, never go below zero.              *)
TypeOK ==
  /\ st \in State
  /\ locker \in Threads \cup {None} /\ detached \in BOOLEAN /\ queued \subseteq AddrKeys
  /\ latch \in [Threads -> Why \cup {"none", "dispatch"}]
  /\ flight \in [Threads -> Why \cup {"none"}]
  /\ pc \in [Threads -> PC] /\ kid \in [Threads -> Threads \cup {None}]
  /\ part \subseteq Threads
  /\ timers \in [Threads -> Times] /\ before \in [Threads -> Times]
  /\ changed \subseteq Threads /\ cleared \subseteq Threads /\ now \in 0 .. MaxTime
  /\ held \in BOOLEAN /\ leased \in BOOLEAN /\ kicks \in BOOLEAN /\ timerWakes \in BOOLEAN

(* The schedule's books balance (the invariants of sched.rs:20-21): the     *)
(* holder of the baton is neither queued nor waiting, no thread is both,    *)
(* and the counters yield_now, idle and dispatch_inner decide by count the  *)
(* slots, which have a thread behind them.                                  *)
Balanced ==
  /\ st.ready \cap st.waiting = {}
  /\ st.holder \notin st.ready \cup st.waiting
  /\ st.ready \cup st.waiting \cup st.letGo \subseteq st.threads
  /\ st.runnable = Cardinality(st.ready)
  /\ st.blocked = Cardinality(st.waiting)

(* The state lock is let go with no holder only when nothing is queued, so  *)
(* no wake is left behind in a schedule everyone takes for idle.            *)
WorkConserving == Free /\ st.holder = None => st.ready = {}

Running == {"user", "create", "yield", "advance"}
HasGrant(t) == flight[t] # "none" \/ latch[t] \in Why

(* One thread of the schedule runs at a time: a participant with a slot     *)
(* runs code under test only while it holds the baton, or while it is       *)
(* marked let go, so that its next hook waits for the baton (rejoin).       *)
OneRuns ==
  \A t \in part \cap st.threads :
    pc[t] \in Running /\ t \notin st.letGo => st.holder = t

(* The baton is never lost: its holder runs code under test, or has the     *)
(* baton in its latch or on the way there.                                  *)
BatonKept ==
  \A t \in Threads :
    st.holder = t => pc[t] \in Running \/ (HasGrant(t) /\ pc[t] \notin {"out", "gone"})

(* No grant is stale: a run grant in a latch or on its way is the baton's,  *)
(* or was made by `detach` to let a thread go.                              *)
GrantsHonest == \A t \in Threads : HasGrant(t) => st.holder = t \/ t \in st.letGo

(* An idle schedule with waiting threads has a thread to move it on: one    *)
(* idling in dispatch, or one that has been delegated the duty.             *)
Drives(t) ==
  \/ pc[t] \in Asleep \cup {"duty"}
  \/ pc[t] = "parked" /\ latch[t] = "dispatch"
Driven == Free /\ st.holder = None /\ st.waiting # {} => \E t \in Threads : Drives(t)

(* A parked thread is on its way to run, or listed where a later step of    *)
(* another thread finds it: nobody parks for good.                          *)
ParkedListed ==
  \A t \in Threads : pc[t] = "parked" => t \in st.ready \cup st.waiting \/ HasGrant(t)

(* Threads run outside a detached schedule (Scheduler::detached): none of   *)
(* them is queued or waiting in it, and none holds its baton.               *)
DetachedEmpty == detached => st.holder \notin Threads /\ st.ready = {} /\ st.waiting = {}

(* A key's waiters wake in the order they began to wait (sched.rs:21-22),   *)
(* but for one whose time is up or whose word changed.                      *)
Fifo ==
  [][\A t, u \in st.waiting :
       /\ st.wait[t].key = st.wait[u].key /\ st.wait[t].key \in AddrKeys
       /\ t \in st.older[u] /\ u \notin st'.waiting /\ t \in st'.waiting
       => st.wait[u].deadline <= now' \/ ShouldRepoll(st, u)]_vars

(* A step tells t why its wait is over: it queues t, or grants it at once. *)
Told(t, why) ==
  /\ t \notin st.ready
  /\ (t \in st'.ready /\ st'.why[t] = why) \/ (flight[t] = "none" /\ flight'[t] = why)

(* A wait times out no earlier than its deadline, whoever moved the clock   *)
(* and however it was released (release_due).                               *)
HonestTimeout ==
  [][\A t \in Threads :
       Told(t, "TimedOut") => t \in st.waiting /\ st.wait[t].deadline <= now']_vars

(* A move of time by the schedule, a skip of dispatch or of a spin, lands   *)
(* on the next deadline of the threads waiting in it and passes none.       *)
NoSkipPast ==
  [][\A t \in st.waiting : st.wait[t].deadline \notin (now + 1) .. (now' - 1)]_vars

(* Sim waits give up as deadlocked only when no thread of the schedule has  *)
(* a timeout to come: a wait on time is no deadlock (dispatch_inner).       *)
DeadlockIsReal ==
  [][\A t \in Threads :
       Told(t, "Deadlock") => \A u \in st.waiting : st.wait[u].deadline = Never]_vars

(* A queued thread is handed the baton in the end. *)
ReadyRuns == \A t \in Threads : t \in st.ready ~> st.holder = t

(* The waits below end unless the threads keep each other busy for ever or  *)
(* something outside keeps holding time: virtual time moves, and sim waits  *)
(* give up, only when nothing can run.                                      *)
Settles == []<>(st.holder = None /\ st.ready = {}) /\ <>[](~held /\ ~leased)

(* A wait with a timeout ends: `block` parks "until it is woken or virtual  *)
(* time reaches `deadline`", and an idle schedule moves time there.         *)
TimedWaitEnds ==
  Settles =>
    \A t \in Threads : t \in st.waiting /\ st.wait[t].deadline <= MaxTime ~> t \notin st.waiting

(* A wait on sim state ends, if only by giving up when nothing else can     *)
(* move (dispatch_inner's DetWake::Deadlock).                               *)
ReadinessEnds ==
  Settles => \A t \in Threads : t \in Waiters(st, Readiness) ~> t \notin Waiters(st, Readiness)

(* A wait on a word that a thread outside the domain changed ends, though   *)
(* no wake reached the schedule (the re-polls of dispatch and idle), unless *)
(* sim waits go on giving up: dispatch_inner ends those first.              *)
ChangeSeen ==
  Settles /\ <>[](Waiters(st, Readiness) = {}) =>
    \A t \in Threads : t \in st.waiting /\ t \in changed ~> t \notin changed
==============================================================================
