------------------------------ MODULE Readiness ------------------------------
(***************************************************************************)
(* Blocking waits of the simulated sockets outside a deterministic         *)
(* schedule (crates/snare/src/readiness.rs): a participant subscribes to   *)
(* the key of what it waits for, checks it, counts itself parked and       *)
(* sleeps; a thread that changes something bumps the key, and a thread     *)
(* that finds every participant parked skips the discrete clock to the     *)
(* next timer, or gives the wait up when there is none.                    *)
(*                                                                         *)
(* What is waited for is one cell per key: `data[k]`, what can be read     *)
(* now, and `coming[k]`, when what is still crossing the link arrives (a   *)
(* Pipe's `buf` and `in_flight`).  The process-wide readiness lock is held *)
(* for the whole of an action of a wait, but for Check and the steps of a  *)
(* skip, which run without it.  One domain; no executive, no dormant       *)
(* domain, no paused or scaled clock.                                      *)
(***************************************************************************)
EXTENDS Integers, FiniteSets

CONSTANTS Threads,    \* the participants
          Holder,     \* whoever takes a lease, from outside the domain
          Keys,       \* what can be waited for
          Delays,     \* how long a send may take to arrive
          MaxTime,    \* bound on the clock
          Setups,     \* [keys, kinds, events] of a program: the keys it uses;
                      \* the <<span, broad>> of its waits, their timeout, 0 for
                      \* none, and whether they name no key (wait_until); and
                      \* what else happens: "charge", "lease", "exit", "spurious"
          None

ASSUME ReadinessAssumption ==
  /\ MaxTime \in Nat /\ Delays \subseteq Nat \ {0}
  /\ Keys # {} /\ \A s \in Setups : s.keys \subseteq Keys /\ s.kinds \subseteq Nat \X BOOLEAN
  /\ IsFiniteSet(Threads) /\ None \notin Threads /\ Holder \notin Threads

VARIABLES
  setup,     \* the program, fixed
  now,       \* the discrete clock
  data,      \* [Keys -> BOOLEAN]
  coming,    \* [Keys -> Times]
  events,    \* one-shot timers of arrivals
  heldOff,   \* Clock::held: a skip was refused for a wait that is due
  lease,     \* a lease holds the domain busy
  gate,      \* who is inside Accounting::skip_gate
  live,      \* the domain's participants
  pc,        \* where each thread, and the holder of a lease, is
  wait,      \* [Threads -> Waits], what the thread's call waits for
  w,         \* [Threads -> Waiters], its subscription
  found,     \* what its last check found: ready, and whether time matters
  note,      \* the bump the thread is about to make, and where it goes on
  ring       \* sleepers it has yet to signal

vars == <<setup, now, data, coming, events, heldOff, lease, gate, live, pc, wait, w, found, note, ring>>

Actors == Threads \cup {Holder}
Never == MaxTime + 1
Times == 0 .. Never

Waits == [key : Keys, broad : BOOLEAN, deadline : Times, filed : BOOLEAN]

(* struct Waiters.  `hit` says the generation is not the one last read and  *)
(* `any` the same of BUMPS; `sig` that its parker was signalled since the   *)
(* sleep began; `entered` and `last` are Parked's `entered` and             *)
(* `last_stale`.                                                            *)
Waiters == [on : BOOLEAN, sleeping : BOOLEAN, stale : BOOLEAN, hit : BOOLEAN, any : BOOLEAN,
            sig : BOOLEAN, sensitive : BOOLEAN, steady : BOOLEAN, entered : BOOLEAN,
            last : BOOLEAN]
Unregistered == [x \in {"on", "sleeping", "stale", "hit", "any", "sig", "sensitive", "steady",
                        "entered", "last"} |-> FALSE]

NoNote == [kind |-> "none", key |-> None, at |-> 0, next |-> "run"]

Goto(t, where) == pc' = [pc EXCEPT ![t] = where]

-----------------------------------------------------------------------------
(* What a wait waits for. *)

Ready(t) == data[wait[t].key] \/ coming[wait[t].key] <= now
Needed(t) == wait[t].broad \/ coming[wait[t].key] \in now + 1 .. MaxTime
Passed(t) == wait[t].deadline <= now

(* Parked::timing, from what the last check found. *)
Tuned(v, t, needed) ==
  [v EXCEPT ![t].sensitive = wait[t].deadline # Never \/ needed, ![t].steady = needed]

-----------------------------------------------------------------------------
(* State: bumps and marks.  `v` is the table of subscriptions. *)

(* The bump of event e reaches the subscription of t. *)
Reached(v, e, t) ==
  /\ v[t].on
  /\ \/ wait[t].broad
     \/ e.kind = "keys" /\ e.key = wait[t].key
     \/ e.kind = "timer" /\ v[t].sensitive
     \/ /\ e.kind = "due" /\ v[t].sensitive
        /\ v[t].steady \/ (wait[t].filed /\ wait[t].deadline <= e.at)

(* State::reach: every subscription reached has a new generation, and its   *)
(* sleeper is stale until it has checked again.                             *)
Bumped(v, e) ==
  [t \in Threads |->
     LET hit == Reached(v, e, t)
     IN [v[t] EXCEPT !.any = TRUE, !.hit = @ \/ hit, !.stale = @ \/ (hit /\ v[t].sleeping)]]
Woken(v, e) == {t \in Threads : Reached(v, e, t) /\ v[t].sleeping}

Settling(v) == \E t \in Threads : v[t].on /\ v[t].stale

(* asleep: the sleeper is counted, tuned as its last check `f` found. *)
Asleep(v, t, f) ==
  [Tuned(v, t, f.needed) EXCEPT ![t].sleeping = TRUE, ![t].hit = FALSE, ![t].sig = FALSE]

(* awake, then woke when a bump came: it takes its mark. *)
Awake(v, t) == [v EXCEPT ![t].sleeping = FALSE]
Woke(v, t) ==
  IF v[t].stale
  THEN LET u == [v EXCEPT ![t].stale = FALSE]
       IN [u EXCEPT ![t].last = @ \/ ~Settling(u)]
  ELSE v
(* Mutant: a mark outlives a sleep that ended by itself. *)
BackMarked(v, t) == Awake(v, t)
Back(v, t) == IF v[t].hit THEN Woke(Awake(v, t), t) ELSE Awake(v, t)

-----------------------------------------------------------------------------
(* The domain. *)

(* Mutant: a wait that is only filed counts as due. *)
WaitDueFiled == \E t \in Threads : wait[t].filed
WaitDue == \E t \in Threads : wait[t].filed /\ wait[t].deadline <= now

(* Inner::quiescent *)
Still(v) == ~lease /\ ~WaitDue /\ live # {} /\ \A t \in live : v[t].entered
Quiescent(v) == ~Settling(v) /\ Still(v)

(* Asking whether a wait is due leaves a mark that one was (Clock::wait_due). *)
Asks(v) == heldOff' = (heldOff \/ (~Settling(v) /\ ~lease /\ WaitDue))

(* The timers a skip may land on. *)
Ahead == {e \in events : e > now} \cup
         {wait[t].deadline : t \in {u \in Threads : wait[u].filed /\ wait[u].deadline > now}}

-----------------------------------------------------------------------------
(* What a running thread does. *)

Running(t) == pc[t] = "run" /\ t \in live

Notes(t, kind, k, at, next) ==
  note' = [note EXCEPT ![t] = [kind |-> kind, key |-> k, at |-> at, next |-> next]]

(* A send without delay: readable at once, or behind what is still          *)
(* crossing; it bumps once it has let go of the pipe.                       *)
Send(t, k) ==
  /\ Running(t) /\ ~data[k]
  /\ data' = [data EXCEPT ![k] = coming[k] \notin now + 1 .. MaxTime]
  /\ Notes(t, "keys", k, now, "run") /\ Goto(t, "bump")
  /\ UNCHANGED <<setup, now, coming, events, heldOff, lease, gate, live, wait, w, found, ring>>

(* A send that crosses a link: its arrival is an event the clock can skip to. *)
SendLater(t, k, d) ==
  /\ Running(t) /\ ~data[k] /\ coming[k] = Never /\ now + d <= MaxTime
  /\ coming' = [coming EXCEPT ![k] = now + d] /\ events' = events \cup {now + d}
  /\ Notes(t, "keys", k, now, "run") /\ Goto(t, "bump")
  /\ UNCHANGED <<setup, now, data, heldOff, lease, gate, live, wait, w, found, ring>>

(* A read of what has arrived, from a pipe without a receive window. *)
Take(t, k) ==
  /\ Running(t) /\ (data[k] \/ coming[k] <= now)
  /\ data' = [data EXCEPT ![k] = FALSE]
  /\ coming' = [coming EXCEPT ![k] = IF @ <= now THEN Never ELSE @]
  /\ UNCHANGED <<setup, now, events, heldOff, lease, gate, live, pc, wait, w, found, note, ring>>

(* charge_latency: a call costs time, which fires the timers it reaches. *)
Charge(t) ==
  /\ "charge" \in setup.events /\ Running(t) /\ now < MaxTime
  /\ now' = now + 1 /\ events' = events \ {now + 1}
  /\ LET fired == now + 1 \in Ahead
     IN /\ Goto(t, IF fired THEN "bump" ELSE "run")
        /\ IF fired THEN Notes(t, "due", None, now + 1, "run") ELSE note' = note
  /\ UNCHANGED <<setup, data, coming, heldOff, lease, gate, live, wait, w, found, ring>>

(* A participant's exit: if that leaves the others all parked, it wakes     *)
(* them (wake_if_quiescent, which asks about woken waiters first).          *)
ExitThread(t) ==
  /\ "exit" \in setup.events /\ Running(t)
  /\ live' = live \ {t} /\ Goto(t, "left")
  /\ UNCHANGED <<setup, now, data, coming, events, heldOff, lease, gate, wait, w, found, note, ring>>
LeftSettling(t) ==
  /\ pc[t] = "left" /\ Goto(t, IF Settling(w) THEN "offer" ELSE "alone")
  /\ UNCHANGED <<setup, now, data, coming, events, heldOff, lease, gate, live, wait, w, found, note, ring>>
WakeIfQuiescent(t) ==
  /\ pc[t] = "alone" /\ heldOff' = (heldOff \/ (~lease /\ WaitDue))
  /\ \/ Still(w) /\ Notes(t, "timer", None, now, "offer") /\ Goto(t, "bump")
     \/ ~Still(w) /\ Goto(t, "offer") /\ UNCHANGED note
  /\ UNCHANGED <<setup, now, data, coming, events, lease, gate, live, wait, w, found, ring>>

(* offer_idle_skip: with no wakers in the clock, all it does is ask. *)
Offer(t) ==
  /\ pc[t] = "offer" /\ heldOff' = (heldOff \/ (~lease /\ WaitDue))
  /\ Goto(t, "done")
  /\ UNCHANGED <<setup, now, data, coming, events, lease, gate, live, wait, w, found, note, ring>>

(* A lease, once, is taken under the skip gate, and given back at any time; *)
(* that wakes the waiters (kick).                                           *)
TakeLease ==
  /\ "lease" \in setup.events /\ ~lease /\ gate = None /\ pc[Holder] = "run" /\ lease' = TRUE
  /\ UNCHANGED <<setup, now, data, coming, events, heldOff, gate, live, pc, wait, w, found, note, ring>>
GiveLease ==
  /\ lease /\ lease' = FALSE
  /\ Notes(Holder, "timer", None, now, "offer") /\ Goto(Holder, "bump")
  /\ UNCHANGED <<setup, now, data, coming, events, heldOff, gate, live, wait, w, found, ring>>

-----------------------------------------------------------------------------
(* A bump: the reached are marked under the lock and signalled after it. *)

Bump(t) ==
  /\ pc[t] = "bump"
  /\ w' = Bumped(w, note[t]) /\ ring' = [ring EXCEPT ![t] = Woken(w, note[t])]
  /\ Goto(t, "ring")
  /\ UNCHANGED <<setup, now, data, coming, events, heldOff, lease, gate, live, wait, found, note>>

Ring(t) ==
  /\ pc[t] = "ring"
  /\ \/ \E u \in ring[t] :
          /\ w' = [w EXCEPT ![u].sig = w[u].sleeping] /\ ring' = [ring EXCEPT ![t] = @ \ {u}]
          /\ UNCHANGED <<pc, note>>
     \/ /\ ring[t] = {} /\ Goto(t, note[t].next) /\ note' = [note EXCEPT ![t] = NoNote]
        /\ UNCHANGED <<w, ring>>
  /\ UNCHANGED <<setup, now, data, coming, events, heldOff, lease, gate, live, wait, found>>

-----------------------------------------------------------------------------
(* The wait.  Each of these parts ends a section under the lock; `f` is     *)
(* what the waiter's last check found.                                      *)

Idle == [ready |-> FALSE, needed |-> FALSE, moved |-> FALSE, poll |-> FALSE, result |-> "none"]

(* ready(), which also says whether time matters to it. *)
Seen(t) == [found[t] EXCEPT !.ready = Ready(t), !.needed = Needed(t)]

(* leave: the waiter stops counting as parked and drops its subscription in *)
(* one section.                                                             *)
Leave(v, t, result) ==
  /\ w' = [v EXCEPT ![t] = Unregistered]
  /\ found' = [found EXCEPT ![t] = [Idle EXCEPT !.result = result]]
  /\ Goto(t, "return")
Outcome(t) == IF Ready(t) THEN "ready" ELSE IF Passed(t) THEN "timeout" ELSE "stuck"

(* The start of sleep and sleep_checked: the last woken waiter to check     *)
(* again lets go of the lock to move the epoch before it sleeps.            *)
FallAsleep(v, t, f, where, epoch) ==
  /\ w' = Asleep([v EXCEPT ![t].last = FALSE], t, f)
  /\ found' = [found EXCEPT ![t] = f]
  /\ Goto(t, IF v[t].last THEN epoch ELSE where)

(* unlocked(time_skip): the lock is let go, the waiter counted asleep. *)
TrySkip(v, t, f, poll) ==
  /\ w' = Asleep(v, t, f)
  /\ found' = [found EXCEPT ![t] = [f EXCEPT !.poll = poll, !.moved = FALSE]]
  /\ Goto(t, "skip")

(* The top of wait_inner's loop. *)
Top(v, t, f) ==
  \/ Passed(t) /\ Leave(v, t, Outcome(t)) /\ UNCHANGED heldOff
  \/ ~Passed(t) /\ Quiescent(v) /\ TrySkip(v, t, f, FALSE) /\ Asks(v)
  \/ ~Passed(t) /\ ~Quiescent(v) /\ FallAsleep(v, t, f, "asleep", "epoch") /\ Asks(v)

(* The end of the loop, after sleep_checked. *)
Post(v, t, f, polled) ==
  \/ f.ready /\ Leave(v, t, "ready") /\ UNCHANGED heldOff
  \/ ~f.ready /\ Passed(t) /\ Leave(v, t, Outcome(t)) /\ UNCHANGED heldOff
  \/ ~f.ready /\ ~Passed(t) /\ polled /\ Quiescent(v) /\ TrySkip(v, t, f, TRUE) /\ Asks(v)
  \/ ~f.ready /\ ~Passed(t) /\ ~(polled /\ Quiescent(v)) /\ Top(v, t, f)

StartWait(t, k, span, broad) ==
  /\ Running(t) /\ now + span <= MaxTime
  /\ LET at == IF span = 0 THEN Never ELSE now + span
     IN wait' = [wait EXCEPT ![t] = [key |-> k, broad |-> broad, deadline |-> at,
                                     filed |-> at # Never]]
  /\ Goto(t, "register")
  /\ UNCHANGED <<setup, now, data, coming, events, heldOff, lease, gate, live, w, found, note, ring>>

Register(t) ==
  /\ pc[t] = "register"
  /\ w' = [w EXCEPT ![t] = [Unregistered EXCEPT !.on = TRUE, !.sensitive = wait[t].broad]]
  /\ Goto(t, "check")
  /\ UNCHANGED <<setup, now, data, coming, events, heldOff, lease, gate, live, wait, found, note, ring>>

(* ready(), with the lock let go. *)
Check(t) ==
  /\ pc[t] \in {"check", "recheck"} /\ found' = [found EXCEPT ![t] = Seen(t)]
  /\ Goto(t, IF pc[t] = "check" THEN "checked" ELSE "rechecked")
  /\ UNCHANGED <<setup, now, data, coming, events, heldOff, lease, gate, live, wait, w, note, ring>>

(* Mutant: a bump while the check changed what it listens to is missed. *)
AgainOnHit(t) == ~found[t].ready /\ w[t].hit

(* The check must be made again: a bump came for the waiter, or any came    *)
(* while the check changed what it listens to.                              *)
Again(t) ==
  ~found[t].ready /\ (w[t].hit \/ (w[t].any /\ Tuned(w, t, found[t].needed) # w))
CheckAgain(t, where) ==
  /\ w' = [(IF w[t].hit THEN w ELSE Tuned(w, t, found[t].needed))
             EXCEPT ![t].hit = FALSE, ![t].any = FALSE]
  /\ Goto(t, where) /\ UNCHANGED <<found, heldOff>>

(* The end of check: the waiter counts as parked once it found nothing. *)
Checked(t) ==
  /\ pc[t] = "checked"
  /\ \/ found[t].ready /\ Leave(w, t, "ready") /\ UNCHANGED heldOff
     \/ Again(t) /\ CheckAgain(t, "check")
     \/ /\ ~found[t].ready /\ ~Again(t)
        /\ Top([Tuned(w, t, found[t].needed) EXCEPT ![t].entered = TRUE], t, found[t])
  /\ UNCHANGED <<setup, now, data, coming, events, lease, gate, live, wait, note, ring>>

(* Parker::wait returns because a bump signalled the sleeper: it checks     *)
(* without the lock, still marked.                                          *)
Signalled(t) ==
  /\ pc[t] = "asleep" /\ w[t].sig
  /\ w' = [w EXCEPT ![t].hit = FALSE, ![t].any = FALSE]
  /\ Goto(t, "recheck")
  /\ UNCHANGED <<setup, now, data, coming, events, heldOff, lease, gate, live, wait, found, note, ring>>

Rechecked(t) ==
  /\ pc[t] = "rechecked"
  /\ \/ Again(t) /\ CheckAgain(t, "recheck")
     \/ /\ ~Again(t)
        /\ Post(Woke(Awake(Tuned(w, t, found[t].needed), t), t), t, found[t], FALSE)
  /\ UNCHANGED <<setup, now, data, coming, events, lease, gate, live, wait, note, ring>>

(* It returns for another reason: the poll timed out, or none. *)
SleepEnds(t, timedOut) ==
  /\ pc[t] = "asleep" /\ ~w[t].sig /\ (timedOut \/ "spurious" \in setup.events)
  /\ Post(Back(w, t), t, Seen(t), timedOut /\ ~w[t].hit)
  /\ UNCHANGED <<setup, now, data, coming, events, lease, gate, live, wait, note, ring>>

(* The end of the sleep that lets a skip settle. *)
Settled(v, t) ==
  \/ Ready(t) /\ Leave(v, t, "ready") /\ UNCHANGED heldOff
  \/ ~Ready(t) /\ Top(v, t, Seen(t))
SettleEnds(t) ==
  /\ pc[t] = "settle" /\ Settled(Back(w, t), t)
  /\ UNCHANGED <<setup, now, data, coming, events, lease, gate, live, wait, note, ring>>

(* Back from moving the epoch: on to sleep, unless a bump came. *)
EpochMoved(t) ==
  /\ \/ /\ pc[t] \in {"epoch", "epochsettle"} /\ ~w[t].hit
        /\ w' = Asleep(Awake(w, t), t, found[t]) /\ UNCHANGED <<found, heldOff>>
        /\ Goto(t, IF pc[t] = "epoch" THEN "asleep" ELSE "settle")
     \/ pc[t] = "epoch" /\ w[t].hit /\ Post(Back(w, t), t, Seen(t), FALSE)
     \/ pc[t] = "epochsettle" /\ w[t].hit /\ Settled(Back(w, t), t)
  /\ UNCHANGED <<setup, now, data, coming, events, lease, gate, live, wait, note, ring>>

(* The end of the wait: its timer is dropped, and the last due wait to go   *)
(* wakes the waiters a skip was refused to.                                 *)
Return(t) ==
  /\ pc[t] = "return"
  /\ wait' = [wait EXCEPT ![t].filed = FALSE, ![t].deadline = Never]
  /\ found' = [found EXCEPT ![t] = Idle]
  /\ LET release == /\ wait[t].filed /\ heldOff
                    /\ ~\E u \in Threads \ {t} : wait[u].filed /\ wait[u].deadline <= now
     IN /\ heldOff' = (heldOff /\ ~release)
        /\ Goto(t, IF release THEN "bump" ELSE "run")
        /\ IF release THEN Notes(t, "timer", None, now, "run") ELSE note' = note
  /\ UNCHANGED <<setup, now, data, coming, events, lease, gate, live, w, ring>>

-----------------------------------------------------------------------------
(* time_skip, with the readiness lock let go. *)

Refused(t) == Goto(t, "skipped") /\ found' = [found EXCEPT ![t].moved = FALSE]

(* The skip gate: one skip at a time, and none while a lease is held. *)
EnterGate(t) ==
  /\ pc[t] = "skip" /\ gate = None
  /\ \/ lease /\ Refused(t) /\ UNCHANGED gate
     \/ ~lease /\ gate' = t /\ Goto(t, "gated") /\ found' = found
  /\ UNCHANGED <<setup, now, data, coming, events, heldOff, lease, live, wait, w, note, ring>>

(* Mutant: nobody asks whether a woken waiter has yet to check. *)
JudgeUnsettled(t) ==
  /\ pc[t] = "gated" /\ Goto(t, "judged")
  /\ UNCHANGED <<setup, now, data, coming, events, heldOff, lease, gate, live, wait, w, found, note, ring>>

(* Mutant: a skip refused for want of quiescence keeps the gate. *)
JudgeKeepsGate(t) ==
  /\ pc[t] = "judged" /\ heldOff' = (heldOff \/ WaitDue)
  /\ \/ Still(w) /\ Goto(t, "clear") /\ UNCHANGED <<gate, found>>
     \/ ~Still(w) /\ Refused(t) /\ UNCHANGED gate
  /\ UNCHANGED <<setup, now, data, coming, events, lease, live, wait, w, note, ring>>

(* Whether a woken waiter has yet to check, and only then the rest of       *)
(* `quiescent`.                                                             *)
JudgeSettling(t) ==
  /\ pc[t] = "gated"
  /\ \/ Settling(w) /\ Refused(t) /\ gate' = None
     \/ ~Settling(w) /\ Goto(t, "judged") /\ UNCHANGED <<gate, found>>
  /\ UNCHANGED <<setup, now, data, coming, events, heldOff, lease, live, wait, w, note, ring>>
Judge(t) ==
  /\ pc[t] = "judged" /\ heldOff' = (heldOff \/ WaitDue)
  /\ \/ Still(w) /\ Goto(t, "clear") /\ UNCHANGED <<gate, found>>
     \/ ~Still(w) /\ Refused(t) /\ gate' = None
  /\ UNCHANGED <<setup, now, data, coming, events, lease, live, wait, w, note, ring>>

(* skip_to_next_deadline: the timers reached go, and the clock lands on the *)
(* next, unless a wait it has reached is still to be taken.                 *)
SkipToNext(t) ==
  /\ pc[t] = "clear"
  /\ \/ /\ WaitDue /\ Refused(t) /\ gate' = None /\ heldOff' = TRUE
        /\ UNCHANGED <<now, events, note>>
     \/ /\ ~WaitDue /\ Ahead = {} /\ Refused(t) /\ gate' = None
        /\ events' = {} /\ UNCHANGED <<now, heldOff, note>>
     \/ /\ ~WaitDue
        /\ \E next \in Ahead : (\A e \in Ahead : next <= e) /\ now' = next
        /\ events' = {e \in events : e > now}
        /\ found' = [found EXCEPT ![t].moved = TRUE]
        /\ Notes(t, "timer", None, now', "ungate") /\ Goto(t, "bump")
        /\ UNCHANGED <<heldOff, gate>>
  /\ UNCHANGED <<setup, data, coming, lease, live, wait, w, ring>>

(* The waiters have been woken; the gate opens. *)
Ungate(t) ==
  /\ pc[t] = "ungate" /\ gate' = None /\ Goto(t, "skipped")
  /\ UNCHANGED <<setup, now, data, coming, events, heldOff, lease, live, wait, w, found, note, ring>>

(* Mutant: a poll that could not skip gives up at once. *)
RefusalFinal(v, t, f) == Leave(v, t, Outcome(t)) /\ UNCHANGED heldOff

(* After a poll that could not skip: a deadlock, if all is still quiet. *)
Refusal(v, t, f) ==
  \/ ~Quiescent(v) /\ Top(v, t, f)
  \/ Quiescent(v) /\ Leave(v, t, Outcome(t)) /\ Asks(v)

(* Back under the lock with whether time moved.  After a skip the waiters   *)
(* are woken again, signalled at once (bump_locked).                        *)
Skipped(t) ==
  /\ pc[t] = "skipped"
  /\ LET v == Back(w, t)
         timer == [NoNote EXCEPT !.kind = "timer"]
         b == Bumped(v, timer)
         m == [u \in Threads |-> [b[u] EXCEPT !.sig = @ \/ u \in Woken(v, timer)]]
         back == ~(w[t].hit /\ Ready(t))
         f == IF w[t].hit THEN Seen(t) ELSE found[t]
     IN \/ ~back /\ Leave(v, t, "ready") /\ UNCHANGED heldOff
        \/ /\ back /\ f.moved /\ ~f.poll /\ UNCHANGED heldOff
           /\ \/ Ready(t) /\ Leave(m, t, "ready")
              \/ ~Ready(t) /\ Passed(t) /\ Leave(m, t, "timeout")
              \/ ~Ready(t) /\ ~Passed(t) /\ FallAsleep(m, t, Seen(t), "settle", "epochsettle")
        \/ /\ back /\ ~f.moved /\ ~f.poll /\ UNCHANGED heldOff
           /\ FallAsleep(v, t, f, "asleep", "epoch")
        \/ back /\ f.moved /\ f.poll /\ Top(m, t, f)
        \/ back /\ ~f.moved /\ f.poll /\ Refusal(v, t, f)
  /\ UNCHANGED <<setup, now, data, coming, events, lease, gate, live, wait, note, ring>>

-----------------------------------------------------------------------------
Init ==
  /\ setup \in Setups
  /\ now = 0 /\ data = [k \in Keys |-> FALSE] /\ coming = [k \in Keys |-> Never]
  /\ events = {} /\ heldOff = FALSE /\ lease = FALSE /\ gate = None /\ live = Threads
  /\ pc = [t \in Actors |-> "run"]
  /\ wait = [t \in Threads |-> [key |-> CHOOSE k \in Keys : TRUE, broad |-> FALSE,
                                deadline |-> Never, filed |-> FALSE]]
  /\ w = [t \in Threads |-> Unregistered] /\ found = [t \in Threads |-> Idle]
  /\ note = [t \in Actors |-> NoNote] /\ ring = [t \in Actors |-> {}]

Nudges(a) == Bump(a) \/ Ring(a) \/ Offer(a)

(* What the code under test chooses to do. *)
Acts(t) ==
  \/ \E k \in setup.keys : Send(t, k) \/ Take(t, k)
  \/ \E k \in setup.keys, d \in Delays : SendLater(t, k, d)
  \/ \E k \in setup.keys, kind \in setup.kinds : StartWait(t, k, kind[1], kind[2])
  \/ Charge(t) \/ ExitThread(t)

(* What a thread in a call does next, and what the lease's holder does. *)
Proceeds(t) ==
  \/ Nudges(t) \/ LeftSettling(t) \/ WakeIfQuiescent(t) \/ Register(t) \/ Check(t) \/ Checked(t)
  \/ Signalled(t) \/ Rechecked(t) \/ SleepEnds(t, TRUE) \/ SettleEnds(t) \/ EpochMoved(t)
  \/ EnterGate(t) \/ JudgeSettling(t) \/ Judge(t) \/ SkipToNext(t) \/ Ungate(t) \/ Skipped(t) \/ Return(t)

Next ==
  \/ \E t \in Threads : Acts(t) \/ Proceeds(t) \/ SleepEnds(t, FALSE)
  \/ Nudges(Holder) \/ TakeLease \/ GiveLease

(* The OS runs every thread that can run, and a sleep of bounded length     *)
(* ends; the code under test need not do anything.                          *)
Fairness == (\A t \in Threads : WF_vars(Proceeds(t))) /\ WF_vars(Nudges(Holder))
Spec == Init /\ [][Next]_vars
FairSpec == Spec /\ Fairness

-----------------------------------------------------------------------------
InWait(t) == w[t].entered

(* Nothing in the domain can run before time moves: every participant is    *)
(* parked, with nothing to read, a deadline ahead of it and no lease held.  *)
Quiet ==
  /\ ~lease
  /\ \A t \in live : w[t].entered /\ ~Ready(t) /\ ~Passed(t)

(* Where every wait has a deadline and no lease is taken, time_skip moves   *)
(* the clock only when nothing can run before it does, and never past an    *)
(* arrival or the deadline of a wait: what a thread does and reads does not *)
(* depend on how fast the others were to check.                             *)
AllTimed == "lease" \notin setup.events /\ \A kind \in setup.kinds : kind[1] > 0
SkipIsQuiet ==
  [][\A t \in Threads :
       AllTimed /\ ~found[t].moved /\ found'[t].moved =>
         /\ Quiet
         /\ \A u \in live : now' <= wait[u].deadline
         /\ \A k \in Keys : coming[k] > now => now' <= coming[k]]_vars

(* A wait gives up only when nothing can run: no participant has anything   *)
(* left to read, to return from or to do, unless another thread is inside   *)
(* time_skip, whose move of the clock it has yet to hear of.                *)
GivesUp(t) == found[t].result # "stuck" /\ found'[t].result = "stuck"
GiveUpIsQuiet == [][\A t \in Threads : GivesUp(t) => Quiet \/ gate \notin {None, t}]_vars

(* A wait gives up only in a deadlock: no timer is left to move time to.    *)
(* This does not hold, for a poll whose skip was refused for another reason.*)
GiveUpIsReal == [][\A t \in Threads : GivesUp(t) => Ahead = {}]_vars

(* A bump wakes a sleeper at once: one whose data is there is signalled or  *)
(* about to be, whatever was checked, tuned and bumped meanwhile.  It never *)
(* waits out its poll.                                                      *)
NoLostWake ==
  \A t \in Threads :
    pc[t] \in {"asleep", "settle"} /\ Ready(t) =>
      \/ w[t].sig
      \/ \E u \in Actors : t \in ring[u] \/ (pc[u] = "bump" /\ Reached(w, note[u], t))

(* A stale mark holds time for its domain until its waiter takes it, so     *)
(* none outlives the sleep it was made in.                                  *)
MarksTaken ==
  \A t \in Threads :
    w[t].stale => /\ w[t].sleeping
                  /\ w[t].hit \/ pc[t] \in {"recheck", "rechecked"}

(* A wait whose data is there returns, unless another thread takes it. *)
ReadyReturns ==
  \A t \in Threads : (InWait(t) /\ Ready(t)) ~> (pc[t] = "run" \/ ~Ready(t))

(* Once every participant is parked, one of them runs again: time moves to  *)
(* the next timer, or the waits give up.  Only a lease holds them longer.   *)
StillEnds ==
  (live # {} /\ \A t \in live : InWait(t)) ~> (lease \/ \E t \in live : pc[t] \in {"return", "run"})
=============================================================================
