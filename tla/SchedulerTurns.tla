-------------------------- MODULE SchedulerTurns ---------------------------
(***************************************************************************)
(* More about Scheduler, from the invariant of SchedulerProofs: threads of *)
(* the schedule take turns, and an idle schedule has somebody to move it   *)
(* on, as long as no thread let go is overtaken on its way into `block`.   *)
(***************************************************************************)
EXTENDS SchedulerProofs

(* Going on from s to r, the baton is not taken from a holder, and no wait  *)
(* begins.                                                                  *)
Idles(s, r) == (s.holder # None => r.holder = s.holder) /\ r.waiting \subseteq s.waiting
Keeps(s, r) == Idles(s, r) /\ r.threads = s.threads /\ r.letGo = s.letGo

(* The same of grant_if_idle: in particular, a holder keeps the baton. *)
LEMMA GrantIfIdleFrame ==
  ASSUME NEW s, Books(s), GrantIfIdle(s)
  PROVE  /\ Keeps(s, st') /\ st'.waiting = s.waiting
         /\ st'.wait = s.wait /\ st'.older = s.older
         /\ \/ st' = s /\ flight' = flight
            \/ \E n \in s.ready :
                 /\ st'.holder = n /\ st'.ready = s.ready \ {n}
                 /\ flight' = [flight EXCEPT ![n] = s.why[n]]
                 /\ \A t \in Threads \ {n} : st'.why[t] = s.why[t]
<1>1. CASE s.holder = None
  BY <1>1, GrantNextFrame, Zenon DEF GrantIfIdle, Keeps, Idles
<1>2. CASE s.holder # None
  BY <1>2, Zenon DEF GrantIfIdle, Keeps, Idles
<1> QED
  BY <1>1, <1>2, Zenon

(* Steps that only wake, and then grant if idle. *)
LEMMA WakeKeeps ==
  ASSUME NEW s, Wakes(st, s), st' = s \/ GrantIfIdle(s)
  PROVE  Keeps(st, st')
<1>1. Keeps(st, s) /\ Books(s)
  BY Zenon DEF Wakes, Keeps, Idles
<1>2. Keeps(s, st')
  BY <1>1, GrantIfIdleFrame, Zenon DEF Keeps, Idles
<1> QED
  BY <1>1, <1>2, Zenon DEF Keeps, Idles

-----------------------------------------------------------------------------
(* Turns. *)

Active == Running \cup Native
Turn(t) == t \in part /\ t \in st.threads /\ pc[t] \in Active /\ t \notin st.letGo => st.holder = t
Turned == \A t \in Threads : Turn(t)

(* Nothing happens to t that its turn depends on. *)
Calm(t) ==
  /\ t \in part' => t \in part
  /\ t \in st'.threads => t \in st.threads
  /\ t \in st.letGo => t \in st'.letGo
  /\ pc'[t] \in Active => pc[t] \in Active
  /\ st.holder = t => st'.holder = t

(* A step keeps the turns if it leaves each thread alone or to its turn. *)
LEMMA TurnStep ==
  ASSUME Turned, \A t \in Threads : Calm(t) \/ Turn(t)'
  PROVE  Turned'
  BY Zenon DEF Turned, Turn, Calm

(* A step that moves only t, and begins no wait. *)
LEMMA KeepsTurns ==
  ASSUME Turned, Keeps(st, st'), part' \subseteq part, NEW t \in Threads,
         \A u \in Threads \ {t} : pc'[u] = pc[u], pc'[t] \in Active => pc[t] \in Active
  PROVE  Turned'
<1>1. ASSUME NEW u \in Threads
      PROVE  Calm(u)
  BY SchedulerAssumption, Zenon DEF Calm, Keeps, Idles
<1> QED
  BY <1>1, TurnStep, Zenon

(* spawned, whoever creates the child c. *)
LEMMA QueueFrame ==
  ASSUME IInv, NEW c \in Threads, NEW s, Same(st, s), Queue(c, s)
  PROVE  Idles(st, st') /\ st'.threads \subseteq st.threads \cup {c} /\ st'.letGo = st.letGo
<1> DEFINE s1 == [s EXCEPT !.threads = @ \cup {c}]
           s2 == SetRunnable(s1, c, "Woken")
<1>1. /\ Core /\ Books(s) /\ s \in State /\ pc[c] = "out"
  BY SameBooks, Zenon DEF Queue, IInv, Core, Same
<1>2. c \notin st.waiting
  BY <1>1, Zenon DEF Core, AllFit, Fits, InWait, Locked, Asleep
<1>3. CASE detached
  BY <1>3, Zenon DEF Queue, Same, Idles
<1>4. CASE ~detached
  <2>1. GrantIfIdle(s2)
    BY <1>4, Zenon DEF Queue
  <2>2. /\ s1 \in State /\ s1.threads = s.threads \cup {c} /\ s1.ready = s.ready
        /\ s1.waiting = s.waiting /\ s1.letGo = s.letGo /\ s1.holder = s.holder
        /\ s1.runnable = s.runnable /\ s1.blocked = s.blocked
    BY <1>1, ZenonT(60) DEF State
  <2> HIDE DEF s1
  <2>3. Books(s1) /\ c \in s1.threads /\ c \notin s1.waiting
    BY <1>1, <1>2, <2>2, Zenon DEF Books, Same
  <2>4. /\ Books(s2) /\ s2.holder = s1.holder /\ s2.threads = s1.threads
        /\ s2.letGo = s1.letGo /\ s2.waiting = s1.waiting
    BY <2>3, SetRunnableBooks, Zenon DEF Why
  <2> HIDE DEF s2
  <2>5. Keeps(s2, st')
    BY <2>1, <2>4, GrantIfIdleFrame, Zenon
  <2> QED
    BY <2>2, <2>4, <2>5, Zenon DEF Keeps, Idles, Same
<1> QED
  BY <1>3, <1>4, Zenon

(* exit: the slot of t goes, and the baton if t has it. *)
LEMMA ExitFrame ==
  ASSUME IInv, NEW t \in Threads, ExitThread(t)
  PROVE  /\ st'.threads = st.threads \ {t} /\ st'.letGo = st.letGo \ {t}
         /\ st.holder # t => Idles(st, st')
<1> DEFINE s == Left(st, t)
           z == [s EXCEPT !.holder = None]
<1>1. /\ Books(s) /\ s.holder = st.holder
      /\ s.threads = st.threads \ {t} /\ s.letGo = st.letGo \ {t}
      /\ s.waiting \subseteq st.waiting \ {t}
  BY LeftBooks, Zenon DEF IInv, Core
<1>2. /\ st.holder = t => HandOn(s, latch)
      /\ st.holder # t => GrantIfIdle(s)
  BY Zenon DEF ExitThread
<1> HIDE DEF s
<1>3. CASE st.holder = t
  <2>1. Books(z) /\ z.threads = s.threads /\ z.letGo = s.letGo
    BY <1>1, NoHolder, Zenon
  <2>2. GrantNext(z)
    BY <1>2, <1>3, Zenon DEF HandOn
  <2> HIDE DEF z
  <2> QED
    BY <1>1, <1>3, <2>1, <2>2, GrantNextFrame, Zenon
<1>4. CASE st.holder # t
  <2>1. Keeps(s, st')
    BY <1>1, <1>2, <1>4, GrantIfIdleFrame, Zenon
  <2> QED
    BY <1>1, <1>4, <2>1, Zenon DEF Keeps, Idles
<1> QED
  BY <1>3, <1>4, Zenon

(* detach_thread: t keeps its slot, and gives up the baton if it has it. *)
LEMMA LeaveClassFrame ==
  ASSUME IInv, NEW t \in Threads, LeaveClass(t)
  PROVE  /\ st'.threads = st.threads /\ st'.letGo = st.letGo
         /\ st.holder # t => Idles(st, st')
<1> DEFINE s0 == [st EXCEPT !.spinner[t] = "no"]
           s == Disown(TakeBlocked(TakeRunnable(s0, t), {t}), t, {})
           z == [s EXCEPT !.holder = None]
           l == IF t \in st.threads THEN [latch EXCEPT ![t] = "none"] ELSE latch
<1>1. /\ st.holder = t => HandOn(s, l)
      /\ st.holder # t => GrantIfIdle(s) \/ st' = s
  BY Zenon DEF LeaveClass
<1>2. Wakes(st, s)
  BY LeaveClassWakes, Zenon DEF LeaveClass
<1> HIDE DEF s
<1>3. CASE st.holder = t
  <2>1. Books(z) /\ z.threads = s.threads /\ z.letGo = s.letGo
    BY <1>2, NoHolder, Zenon DEF Wakes
  <2>2. GrantNext(z)
    BY <1>1, <1>3, Zenon DEF HandOn
  <2> HIDE DEF z
  <2> QED
    BY <1>2, <1>3, <2>1, <2>2, GrantNextFrame, Zenon DEF Wakes
<1>4. CASE st.holder # t
  BY <1>1, <1>2, <1>4, WakeKeeps, Zenon DEF Keeps
<1> QED
  BY <1>3, <1>4, Zenon

(* attach_thread. *)
LEMMA JoinClassFrame ==
  ASSUME IInv, NEW t \in Threads, JoinClass(t)
  PROVE  Idles(st, st') /\ st'.threads = st.threads \cup {t} /\ st'.letGo = st.letGo
<1> DEFINE s0 == [st EXCEPT !.spinner[t] = "no"]
           s == [st EXCEPT !.threads = @ \cup {t}, !.spinner[t] = "no"]
           r == SetRunnable(s, t, "Woken")
<1>1. /\ Core /\ Books(st) /\ st \in State /\ pc[t] = "user"
      /\ st.holder = t => st' = s
      /\ st.holder # t => GrantIfIdle(r)
  BY Zenon DEF JoinClass, IInv, Core, Books
<1>2. /\ s \in State /\ s.threads = st.threads \cup {t} /\ s.ready = st.ready
      /\ s.waiting = st.waiting /\ s.letGo = st.letGo
      /\ s.holder = st.holder /\ s.runnable = st.runnable /\ s.blocked = st.blocked
  <2>1. Same(st, s0)
    BY <1>1, SpinnerSame, Zenon DEF Books
  <2>2. s = [s0 EXCEPT !.threads = @ \cup {t}]
    BY <1>1, Zenon DEF State
  <2> HIDE DEF s, s0
  <2>3. s0 \in State
    BY <2>1, Zenon DEF Same
  <2>4. /\ s \in State /\ s.threads = s0.threads \cup {t} /\ s.ready = s0.ready
        /\ s.waiting = s0.waiting /\ s.letGo = s0.letGo
        /\ s.holder = s0.holder /\ s.runnable = s0.runnable /\ s.blocked = s0.blocked
    BY <2>2, <2>3, ZenonT(40) DEF State
  <2> QED
    BY <2>1, <2>4, Zenon DEF Same
<1> HIDE DEF s
<1>3. Books(s) /\ t \in s.threads /\ t \notin s.waiting
  BY <1>1, <1>2, InUser, Zenon DEF Books
<1>4. CASE st.holder = t
  BY <1>1, <1>2, <1>4, Zenon DEF Idles
<1>5. CASE st.holder # t
  <2>1. /\ Books(r) /\ r.holder = s.holder /\ r.threads = s.threads
        /\ r.letGo = s.letGo /\ r.waiting = s.waiting
    BY <1>3, SetRunnableBooks, Zenon DEF Why
  <2> HIDE DEF r
  <2>2. Keeps(r, st')
    BY <1>1, <1>5, <2>1, GrantIfIdleFrame, Zenon
  <2> QED
    BY <1>2, <2>1, <2>2, Zenon DEF Keeps, Idles
<1> QED
  BY <1>4, <1>5, Zenon

(* block by the holder: over before it begins, or begun with the lock kept. *)
LEMMA BlockFrame ==
  ASSUME IInv, NEW t \in Threads, NEW w \in Waits, NEW raced \in BOOLEAN, Block(t, w, raced)
  PROVE  \/ Keeps(st, st') /\ UNCHANGED <<locker, pc>>
         \/ /\ st'.threads = st.threads /\ st'.letGo = st.letGo
            /\ locker' = t /\ Goto(t, "dispatch")
<1> DEFINE s0 == [st EXCEPT !.spinner[t] = "no"]
           s == WakeForeign(s0, queued)
           r == SetBlocked(s, t, Blocked(w))
<1>1. /\ Core /\ Rest /\ st \in State /\ pc[t] = "user" /\ t \in st.threads /\ now + w.after <= MaxTime
      /\ \/ st' = [s EXCEPT !.foreign = @ \ {w.key}] /\ UNCHANGED <<locker, pc>>
         \/ st' = [r EXCEPT !.holder = None] /\ locker' = t /\ Goto(t, "dispatch")
  BY Zenon DEF Block, IInv, Core, Books
<1>2. Same(st, s0)
  BY <1>1, SpinnerSame, Zenon
<1> HIDE DEF s0
<1>3. Wakes(st, s) /\ Books(s) /\ s \in State
  BY <1>2, QueuedWakes, Zenon DEF Wakes, Books
<1> HIDE DEF s
<1>4. CASE st' = [s EXCEPT !.foreign = @ \ {w.key}] /\ UNCHANGED <<locker, pc>>
  <2>1. Same(s, st')
    BY <1>3, <1>4, Zenon DEF Same, State
  <2> QED
    BY <1>3, <1>4, <2>1, Zenon DEF Keeps, Idles, Wakes, Same
<1>5. CASE st' = [r EXCEPT !.holder = None] /\ locker' = t /\ Goto(t, "dispatch")
  <2>1. t \in s.threads /\ t \notin s.ready /\ Blocked(w) \in Wait
    BY <1>1, <1>3, InUser, TimeTypes, Zenon DEF Wakes
  <2>2. Books(r) /\ r.threads = s.threads /\ r.letGo = s.letGo
    BY <1>3, <2>1, SetBlockedBooks, Zenon
  <2> HIDE DEF r
  <2>3. st'.threads = r.threads /\ st'.letGo = r.letGo
    BY <1>5, <2>2, NoHolder, Zenon
  <2> QED
    BY <1>3, <1>5, <2>2, <2>3, Zenon DEF Wakes
<1> QED
  BY <1>1, <1>4, <1>5, Zenon

(* yield_now: the thread goes on, or gives the baton to one that is queued. *)
LEMMA YieldFrame ==
  ASSUME IInv, NEW t \in Threads, YieldNow(t)
  PROVE  /\ st'.threads = st.threads /\ st'.letGo = st.letGo /\ st'.holder # None
         /\ \/ st'.holder = t /\ Goto(t, "user")
            \/ Goto(t, "parked")
<1> DEFINE s == WakeForeign(st, queued)
           r == SetRunnable(s, t, "Woken")
           z == [r EXCEPT !.holder = None]
<1>1. /\ Core /\ Books(st) /\ st \in State /\ pc[t] \in {"yield", "user"} /\ st.holder = t
      /\ \/ st' = s /\ Goto(t, "user")
         \/ GrantNext(z) /\ Goto(t, "parked")
  BY Zenon DEF YieldNow, IInv, Core, Books
<1>2. Wakes(st, s) /\ Books(s)
  BY <1>1, QueuedWakes, Zenon DEF Wakes, Same
<1> HIDE DEF s
<1>3. CASE st' = s /\ Goto(t, "user")
  BY <1>1, <1>2, <1>3, SchedulerAssumption, Zenon DEF Wakes
<1>4. CASE GrantNext(z) /\ Goto(t, "parked")
  <2>1. t \notin st.waiting /\ t \in st.threads
    BY <1>1, Zenon DEF Core, AllFit, Fits
  <2>2. /\ Books(r) /\ r.threads = s.threads /\ r.letGo = s.letGo /\ r.ready = s.ready \cup {t}
    BY <1>2, <2>1, SetRunnableBooks DEF Why, Wakes
  <2> HIDE DEF r
  <2>3. Books(z) /\ z.threads = r.threads /\ z.letGo = r.letGo /\ z.ready = r.ready
    BY <2>2, NoHolder, Zenon
  <2> HIDE DEF z
  <2>4. st'.threads = z.threads /\ st'.letGo = z.letGo /\ st'.holder \in z.ready
    BY <1>4, <2>2, <2>3, GrantNextFrame
  <2>5. st'.holder # None
    BY <2>3, <2>4, SchedulerAssumption, StateFields, Zenon DEF Books
  <2> QED
    BY <1>2, <1>4, <2>2, <2>3, <2>4, <2>5, Zenon DEF Wakes
<1> QED
  BY <1>1, <1>3, <1>4, Zenon

(* rejoin: no baton is taken, and the thread parks unless the schedule has  *)
(* detached.                                                                *)
LEMMA RejoinFrame ==
  ASSUME IInv, NEW t \in Threads, Rejoin(t)
  PROVE  /\ Idles(st, st') /\ st'.threads = st.threads
         /\ \/ st'.letGo = st.letGo /\ Goto(t, IF pc[t] = "rejoin" THEN "user" ELSE "hook")
            \/ st'.letGo = st.letGo \ {t} /\ Goto(t, "parked")
<1> DEFINE s == [st EXCEPT !.outside[t] = NoKey]
           s1 == [s EXCEPT !.letGo = @ \ {t}]
           r == SetRunnableIfNot(s1, t)
<1>1. /\ Core /\ Books(st) /\ st \in State /\ pc[t] \in {"rejoin", "active"}
      /\ detached \/ t \notin st.letGo =>
           /\ st' = IF st.letGo = {} THEN st ELSE s
           /\ Goto(t, IF pc[t] = "rejoin" THEN "user" ELSE "hook")
      /\ ~(detached \/ t \notin st.letGo) =>
           /\ IF st.holder # t THEN GrantIfIdle(r) ELSE st' = s1
           /\ Goto(t, "parked")
  BY Zenon DEF IInv, Core, Books, Rejoin
<1>2. /\ s \in State /\ s.threads = st.threads /\ s.ready = st.ready
      /\ s.waiting = st.waiting /\ s.letGo = st.letGo /\ s.holder = st.holder
      /\ s.runnable = st.runnable /\ s.blocked = st.blocked
  <2>1. [st.outside EXCEPT ![t] = NoKey] \in [Threads -> Keys \cup {NoKey}]
    BY <1>1, Zenon DEF State
  <2> QED
    BY <1>1, <2>1, ZenonT(40) DEF State
<1> HIDE DEF s
<1>3. CASE detached \/ t \notin st.letGo
  BY <1>1, <1>2, <1>3, Zenon DEF Idles
<1>4. CASE ~(detached \/ t \notin st.letGo)
  <2>1. /\ s1 \in State /\ s1.letGo = st.letGo \ {t} /\ s1.threads = st.threads
        /\ s1.ready = st.ready /\ s1.waiting = st.waiting /\ s1.holder = st.holder
        /\ s1.runnable = st.runnable /\ s1.blocked = st.blocked
    BY <1>2, Zenon DEF State
  <2> HIDE DEF s1
  <2>2. Books(s1) /\ t \in s1.threads /\ t \notin s1.waiting
    BY <1>1, <1>4, <2>1, Zenon DEF Books, Core, AllFit, Fits
  <2>3. /\ Books(r) /\ r.threads = s1.threads /\ r.waiting = s1.waiting /\ r.letGo = s1.letGo
        /\ r.holder = s1.holder
    BY <2>2, SetRunnableBooks, Zenon DEF SetRunnableIfNot, Why
  <2> HIDE DEF r
  <2> QED
    BY <1>1, <1>4, <2>1, <2>3, GrantIfIdleFrame, Zenon DEF Keeps, Idles
<1> QED
  BY <1>3, <1>4, Zenon

(* Wakes by threads of the domain. *)
LEMMA WakingFrame ==
  ASSUME IInv, NEW t \in Threads, Waking(t)
  PROVE  Keeps(st, st') /\ UNCHANGED <<locker, latch, pc, part>>
<1>1. /\ Core /\ Books(st) /\ st \in State /\ UNCHANGED <<locker, latch, pc, part>>
  BY Zenon DEF IInv, Core, Books, Waking, Wake, WakeReadiness, WakeThread, Took, Released, lockedVars
<1>2. ASSUME NEW s, Wakes(st, s), NEW key \in Keys, NEW n, GrantIfIdle(WakeOutside(s, key, n))
      PROVE  Keeps(st, st')
  <2> DEFINE r == WakeOutside(s, key, n)
  <2>1. Books(s) /\ AllFit(s, pc, latch, flight) /\ key # NoKey
    BY <1>1, <1>2, WakesFit, KeysAreKeys, Zenon DEF Core, Wakes
  <2>2. /\ Books(r) /\ r.holder = s.holder /\ r.waiting = s.waiting
        /\ r.threads = s.threads /\ r.letGo = s.letGo
    BY <2>1, WakeOutsideFits
  <2> HIDE DEF r
  <2>3. Keeps(r, st')
    BY <1>2, <2>2, GrantIfIdleFrame, Zenon DEF r
  <2> QED
    BY <1>2, <2>2, <2>3, Zenon DEF Keeps, Idles, Wakes
<1>3. ASSUME NEW key \in Keys, NEW n, Wake(t, key, n)
      PROVE  Keeps(st, st')
  BY <1>1, <1>2, <1>3, WakeKeyWakes, Zenon DEF Wake, WakeMasked
<1>4. ASSUME NEW S \in SUBSET Threads, WakeReadiness(t, S)
      PROVE  Keeps(st, st')
  <2>1. Wakes(st, Unblock(st, Tell(S, "Woken"))) /\ Readiness \in Keys
    BY <1>1, TellWakes, Zenon DEF Why, Keys
  <2> QED
    BY <1>2, <1>4, <2>1, Zenon DEF WakeReadiness
<1>5. ASSUME NEW u \in Threads, WakeThread(t, u)
      PROVE  Keeps(st, st')
  <2>1. Wakes(st, WakeOne(st, u))
    BY <1>1, TellWakes, Zenon DEF WakeOne, Why
  <2> QED
    BY <1>5, <2>1, WakeKeeps, Zenon DEF WakeThread
<1>6. ASSUME NEW a \in Addrs, Took(t, a)
      PROVE  Keeps(st, st')
  <2>1. st' = [st EXCEPT !.owner[a] = t]
    BY <1>6, Zenon DEF Took
  <2>2. Same(st, st')
    BY <1>1, <2>1, OwnerSame, Zenon
  <2> QED
    BY <2>2, Zenon DEF Keeps, Idles, Same
<1>7. ASSUME NEW a \in Addrs, Released(t, a)
      PROVE  Keeps(st, st')
  <2> DEFINE s0 == [st EXCEPT !.owner[a] = None]
             s == WakeKey(s0, Addr(a), 1, "Woken")
             left == 1 - Cardinality(Oldest(s0, Waiters(s0, Addr(a)), 1))
  <2>1. GrantIfIdle(WakeOutside(s, Addr(a), left))
    BY <1>7, Zenon DEF Released, WakeMasked
  <2>2. Same(st, s0)
    BY <1>1, OwnerSame, Zenon
  <2> HIDE DEF s0
  <2>3. Wakes(s0, s)
    BY <1>1, <2>2, WakeKeyWakes, SameBooks, Zenon
  <2> HIDE DEF s, left
  <2>4. Wakes(st, s) /\ Addr(a) \in Keys
    BY <2>2, <2>3, Zenon DEF Wakes, Same, Keys, AddrKeys
  <2> QED
    BY <1>2, <2>1, <2>4, Zenon
<1> QED
  BY <1>1, <1>3, <1>4, <1>5, <1>6, <1>7, Zenon DEF Waking

(* A pass of dispatch_inner, by d: it goes on with the lock, having woken   *)
(* some waits (or takes the lock again); it lets the lock go to sleep; it   *)
(* grants the baton; it finds nothing to wait for, or detaches; or it finds *)
(* the baton taken.                                                         *)
LEMMA DispatchFrame ==
  ASSUME IInv, NEW d \in Threads, Dispatching(d)
  PROVE  /\ UNCHANGED part /\ st'.threads = st.threads /\ st.letGo \subseteq st'.letGo
         /\ \/ locker' = d /\ Wakes(st, st') /\ \E where \in Locked : Goto(d, where)
            \/ Free' /\ st' = st /\ UNCHANGED latch /\ \E where \in Asleep : Goto(d, where)
            \/ st.holder = None /\ Free' /\ st'.holder \in Threads /\ Goto(d, "parked")
            \/ st.holder = None /\ st'.waiting = {} /\ Goto(d, "parked")
            \/ st' = st /\ st.holder # None /\ Goto(d, "parked")
<1>1. Core /\ Rest /\ Books(st) /\ st \in State /\ Wakes(st, st)
  BY Zenon DEF IInv, Core, Books, Wakes
<1>2. pc[d] \in Locked => st.holder = None /\ locker = d
  BY <1>1, SchedulerAssumption, ZenonT(40) DEF Core, Rest
<1>3. CASE TakeForeign(d)
  <2>1. /\ pc[d] \in Locked /\ st' = WakeForeign(st, queued) /\ Goto(d, "drained")
        /\ UNCHANGED <<locker, part>>
    BY <1>3, Zenon DEF TakeForeign, Locked
  <2>2. Wakes(st, st')
    BY <1>1, <2>1, QueuedWakes, Zenon DEF Same
  <2> QED
    BY <1>2, <2>1, <2>2, Zenon DEF Wakes, Locked
<1>4. CASE DispatchGrants(d)
  <2>1. /\ pc[d] \in Locked /\ GrantNext(st) /\ Goto(d, "parked") /\ Free'
        /\ st.ready # {} /\ UNCHANGED part
    BY <1>4, Zenon DEF DispatchGrants, Leave, Locked, Free
  <2>2. st'.threads = st.threads /\ st'.letGo = st.letGo /\ st'.holder \in st.ready
    BY <1>1, <2>1, GrantNextFrame
  <2> QED
    BY <1>1, <1>2, <2>1, <2>2, StateFields, Zenon
<1>5. CASE NothingBlocked(d)
  <2>1. pc[d] \in Locked /\ st' = st /\ UNCHANGED part /\ Goto(d, "parked") /\ st.blocked = 0
    BY <1>5, Zenon DEF NothingBlocked, Leave, Locked
  <2>2. st.waiting = {}
    BY <1>1, <2>1, StateFields, ThreadSets, FS_EmptySet, Zenon DEF Books
  <2> QED
    BY <1>2, <2>1, <2>2, Zenon
<1>6. CASE Detach(d)
  <2>1. /\ pc[d] \in Locked /\ UNCHANGED part /\ Goto(d, "parked")
        /\ st' = [st EXCEPT !.foreign = {}, !.blocked = 0, !.waiting = {},
                            !.wait = [t \in Threads |-> NoWait],
                            !.older = [t \in Threads |-> {}],
                            !.letGo = @ \cup st.waiting]
    BY <1>6, Zenon DEF Detach, Stuck, Leave, Locked
  <2>2. st'.threads = st.threads /\ st'.letGo = st.letGo \cup st.waiting /\ st'.waiting = {}
    BY <1>1, <2>1, Zenon DEF State
  <2> QED
    BY <1>2, <2>1, <2>2, Zenon
<1>7. ASSUME NEW where \in Locked, GoOn(d, where), pc[d] \in Locked
      PROVE  UNCHANGED <<part, st>> /\ locker' = d /\ Goto(d, where)
  BY <1>2, <1>7, Zenon DEF GoOn, lockedVars
<1>8. CASE StaysOn(d) \/ NoLease(d) \/ LeasedSince(d) \/ NoTimeLeft(d) \/ NoSkip(d)
  <2>1. PICK where \in Locked : GoOn(d, where) /\ pc[d] \in Locked
    BY <1>8, Zenon DEF StaysOn, Stuck, NoLease, LeasedSince, NoTimeLeft, NoSkip, MaySkip,
                       Unready, Locked
  <2> QED
    BY <1>1, <1>7, <2>1, Zenon
<1>9. CASE IdleLeased(d) \/ IdleHeld(d) \/ HeldOff(d) \/ AskHolders(d) \/ ForeignTimeSkip(d)
             \/ PollOutside(d)
  <2>1. PICK where \in Asleep : (GoIdle(d) /\ where = "idle") \/ Unlock(d, where)
    BY <1>9, Zenon DEF IdleLeased, IdleHeld, HeldOff, AskHolders, ForeignTimeSkip, PollOutside, Asleep
  <2> QED
    BY <2>1, Zenon DEF GoIdle, Unlock, Leave, Free
<1>10. ASSUME NEW s, Wakes(st, s), Again(d, s), pc[d] \in Locked
       PROVE  /\ UNCHANGED part /\ st'.threads = st.threads /\ st.letGo \subseteq st'.letGo
              /\ locker' = d /\ Wakes(st, st') /\ Goto(d, "dispatch") /\ "dispatch" \in Locked
  BY <1>2, <1>10, Zenon DEF Again, Wakes, Locked
<1>11. CASE RepollTimerWakes(d)
  BY <1>1, <1>10, <1>11, ClockWakes, Zenon DEF RepollTimerWakes, Locked
<1>12. ASSUME NEW S \in SUBSET Threads, WakeRealReady(d, S)
       PROVE  /\ UNCHANGED part /\ st'.threads = st.threads /\ st.letGo \subseteq st'.letGo
              /\ locker' = d /\ Wakes(st, st') /\ Goto(d, "dispatch") /\ "dispatch" \in Locked
  <2>1. pc[d] \in Locked /\ Again(d, Release(st, {}, S))
    BY <1>12, Zenon DEF WakeRealReady, Locked
  <2>2. Wakes(st, Release(st, {}, S))
    BY <1>1, ReleaseWakes, Zenon
  <2> QED
    BY <1>10, <2>1, <2>2, Zenon
<1>13. CASE TimeSkip(d)
  BY <1>1, <1>10, <1>13, ClockWakes, Zenon DEF TimeSkip, MaySkip, Unready, Locked
<1>14. CASE GiveUp(d)
  <2>1. pc[d] \in Locked /\ Again(d, WakeKeyAll(st, Readiness, "Deadlock"))
    BY <1>14, Zenon DEF GiveUp, NotHeld, Locked
  <2>2. Waiters(st, Readiness) \in SUBSET Threads
    BY <1>1, StateFields, Zenon DEF Waiters
  <2>3. Wakes(st, WakeKeyAll(st, Readiness, "Deadlock"))
    BY <1>1, <2>2, TellWakes, Zenon DEF WakeKeyAll, Why
  <2> QED
    BY <1>10, <2>1, <2>3, Zenon
<1>15. ASSUME NEW s, Wakes(st, s), Relock(d, s)
       PROVE  /\ UNCHANGED part /\ st'.threads = st.threads /\ st.letGo \subseteq st'.letGo
              /\ \/ locker' = d /\ Wakes(st, st') /\ Goto(d, "dispatch") /\ "dispatch" \in Locked
                 \/ st' = st /\ st.holder # None /\ Goto(d, "parked")
  BY <1>15, Zenon DEF Relock, Wakes, Locked
<1>16. CASE IdleOver(d)
  <2> DEFINE due == IF "executive" \in Events THEN {} ELSE DueBy(st, now)
             timed == IF "executive" \in Events \/ now = before[d] THEN {} ELSE Timed(st)
             s == IF st.runnable > 0 THEN st ELSE Release(st, due, timed \cup Repolled(st))
  <2>1. Relock(d, s)
    BY <1>16, Zenon DEF IdleOver
  <2>2. due \in SUBSET Threads /\ timed \cup Repolled(st) \in SUBSET Threads
    BY <1>1, StateFields, Zenon DEF DueBy, Timed, Repolled
  <2> HIDE DEF due, timed
  <2>3. Wakes(st, s)
    BY <1>1, <2>2, ReleaseWakes, Zenon
  <2> HIDE DEF s
  <2> QED
    BY <1>15, <2>1, <2>3, Zenon
<1>17. CASE HoldersAsked(d) \/ SkippedOver(d) \/ PollOver(d)
  <2>1. PICK s : Relock(d, s) /\ Wakes(st, s)
    BY <1>1, <1>17, ClockWakes, Zenon DEF HoldersAsked, SkippedOver, PollOver
  <2> QED
    BY <1>15, <2>1, Zenon
<1> QED
  BY <1>3, <1>4, <1>5, <1>6, <1>8, <1>9, <1>11, <1>12, <1>13, <1>14, <1>16, <1>17, ZenonT(40) DEF Dispatching

(* enter_root: the baton if nobody has it, else a place in the queue. *)
LEMMA EnterRootFrame ==
  ASSUME IInv, NEW t \in Threads, EnterRoot(t)
  PROVE  /\ Idles(st, st') /\ st'.threads = st.threads \cup {t} /\ st'.letGo = st.letGo
         /\ (st'.holder = t /\ Goto(t, "user")) \/ Goto(t, "parked")
<1> DEFINE s == [st EXCEPT !.threads = @ \cup {t}, !.roots = @ + 1]
<1>1. /\ st \in State
      /\ \/ st.holder = None /\ st' = [s EXCEPT !.holder = t, !.last = t] /\ Goto(t, "user")
         \/ st.holder # None /\ st' = SetRunnable(s, t, "Woken") /\ Goto(t, "parked")
  BY Zenon DEF EnterRoot, IInv, Core, Books
<1>2. /\ s \in State /\ s.threads = st.threads \cup {t} /\ s.letGo = st.letGo
      /\ s.holder = st.holder /\ s.waiting = st.waiting
  <2>1. st.roots + 1 \in Nat
    BY <1>1 DEF State
  <2> QED
    BY <1>1, <2>1, Zenon DEF State
<1> HIDE DEF s
<1>3. CASE st.holder = None
  BY <1>1, <1>2, <1>3, ZenonT(40) DEF State, Idles
<1>4. CASE st.holder # None
  <2>1. st' = [s EXCEPT !.ready = @ \cup {t}, !.why[t] = "Woken",
                        !.runnable = IF t \in s.ready THEN @ ELSE @ + 1]
    BY <1>1, <1>2, <1>4, Zenon DEF SetRunnable
  <2> QED
    BY <1>1, <1>2, <1>4, <2>1, Zenon DEF State, Idles
<1> QED
  BY <1>3, <1>4, Zenon

(* unspawned: the child's slot goes. *)
LEMMA CreateFailsFrame ==
  ASSUME IInv, NEW t \in Threads, CreateFails(t)
  PROVE  \E k \in Threads \ {t} :
           /\ Idles(st, st') /\ st'.threads \subseteq st.threads /\ st.letGo \subseteq st'.letGo \cup {k}
           /\ part' = part \ {k} /\ pc[t] = "create" /\ pc[k] = "born"
           /\ pc' = [pc EXCEPT ![t] = "user", ![k] = "gone"]
<1>1. PICK k \in Threads : k = kid[t]
  BY Zenon DEF CreateFails, IInv, Rest
<1> DEFINE s == TakeRunnable(st, k)
<1>2. /\ st \in State /\ pc[t] = "create" /\ pc[k] = "born" /\ k # t /\ part' = part \ {k}
      /\ pc' = [pc EXCEPT ![t] = "user", ![k] = "gone"]
      /\ st' = IF detached THEN st ELSE [s EXCEPT !.threads = @ \ {k}, !.letGo = @ \ {k}]
  BY <1>1, Zenon DEF CreateFails, IInv, Core, Books
<1>3. /\ s \in State /\ s.holder = st.holder /\ s.threads = st.threads /\ s.letGo = st.letGo
      /\ s.waiting = st.waiting
  BY TakeRunnableBooks, ZenonT(40) DEF IInv, Core, Books
<1> HIDE DEF s
<1>4. /\ Idles(st, st') /\ st'.threads \subseteq st.threads /\ st.letGo \subseteq st'.letGo \cup {k}
  BY <1>2, <1>3, Zenon DEF State, Idles
<1> QED
  BY <1>2, <1>4, Zenon

(* block by a thread let go: it begins to wait, if the schedule is active. *)
LEMMA BlockLetGoFrame ==
  ASSUME IInv, NEW t \in Threads, NEW w \in Waits, BlockLetGo(t, w)
  PROVE  /\ st'.threads = st.threads /\ st'.letGo = st.letGo \ {t} /\ st'.holder = st.holder
         /\ pc[t] = "block" /\ UNCHANGED <<locker, latch, part>>
         /\ \/ Goto(t, "parked")
            \/ detached /\ st'.waiting = st.waiting /\ Goto(t, "user")
<1> DEFINE s == [st EXCEPT !.letGo = @ \ {t}, !.spinner[t] = "no"]
<1>1. /\ Core /\ st \in State /\ pc[t] = "block" /\ UNCHANGED <<locker, latch, part>>
      /\ \/ st' = SetBlocked(s, t, Blocked(w)) /\ Goto(t, "parked")
         \/ ~(t \in st.letGo /\ ~detached) /\ st' = s /\ Goto(t, "user")
  BY Zenon DEF BlockLetGo, IInv, Core, Books, lockedVars
<1>2. t \in st.letGo
  BY <1>1, Zenon DEF Core, AllFit, Fits
<1>3. s \in State /\ s.holder = st.holder /\ s.threads = st.threads
      /\ s.letGo = st.letGo \ {t} /\ s.waiting = st.waiting
  BY <1>1, Zenon DEF State
<1> HIDE DEF s
<1>4. /\ st'.holder = s.holder /\ st'.threads = s.threads /\ st'.letGo = s.letGo
      /\ st' = s \/ Goto(t, "parked")
  BY <1>1, <1>3, ZenonT(40) DEF SetBlocked, State
<1> QED
  BY <1>1, <1>2, <1>3, <1>4, Zenon

(* A spin, and the latency of a call: some waits end. *)
LEMMA SpinFrame ==
  ASSUME IInv, NEW t \in Threads,
         SpinAdvance(t) \/ ChargeLatency(t) \/ \E clock \in BOOLEAN : Spin(t, clock)
  PROVE  /\ Wakes(st, st') /\ UNCHANGED <<locker, latch, part>> /\ pc[t] \in Running
         /\ \E where \in {"yield", "advance"} : Goto(t, where)
<1>1. Core /\ Books(st) /\ st \in State /\ Wakes(st, st)
  BY Zenon DEF IInv, Core, Books, Wakes
<1>2. ASSUME NEW clock \in BOOLEAN, Spin(t, clock)
      PROVE  /\ Wakes(st, st') /\ UNCHANGED <<locker, latch, part>> /\ pc[t] \in Running
             /\ \E where \in {"yield", "advance"} : Goto(t, where)
  <2>1. /\ pc[t] \in Running /\ UNCHANGED <<locker, latch, part>>
        /\ st' = [st EXCEPT !.spinner[t] = IF clock THEN "clock" ELSE "yield"]
        /\ \E where \in {"yield", "advance"} : Goto(t, where)
    BY <1>2, Zenon DEF Spin, lockedVars, Running
  <2>2. (IF clock THEN "clock" ELSE "yield") \in {"no", "yield", "clock"}
    OBVIOUS
  <2>3. Same(st, st')
    BY <1>1, <2>1, <2>2, SpinnerSame, Zenon
  <2> QED
    BY <1>1, <2>1, <2>3, SameBooks, Zenon
<1>3. CASE SpinAdvance(t)
  <2>1. /\ pc[t] \in Running /\ Goto(t, "yield") /\ UNCHANGED <<locker, latch, part>>
        /\ st' = st \/ \E fired \in Fires : st' = Moved(st, now', timerWakes \/ fired)
    BY <1>3, Zenon DEF SpinAdvance, lockedVars, Running
  <2> QED
    BY <1>1, <2>1, ClockWakes, Zenon
<1>4. CASE ChargeLatency(t)
  <2> DEFINE s == [st EXCEPT !.spinner[t] = "no"]
  <2>1. /\ pc[t] \in Running /\ Goto(t, "yield") /\ UNCHANGED <<locker, latch, part>>
        /\ st' = ReleaseDueNative(s, now')
    BY <1>4, Zenon DEF ChargeLatency, Awake, lockedVars, Running
  <2>2. Same(st, s) /\ Books(s)
    BY <1>1, SpinnerSame, SameBooks, Zenon
  <2> HIDE DEF s
  <2>3. Wakes(s, st')
    BY <2>1, <2>2, ClockWakes, Zenon
  <2> QED
    BY <2>1, <2>2, <2>3, Zenon DEF Wakes, Same
<1> QED
  BY <1>2, <1>3, <1>4, Zenon

(* native_wait and the rest of the way back. *)
LEMMA NativeFrame ==
  ASSUME IInv, NEW t \in Threads,
         NativeReturns(t) \/ DetActive(t) \/ DetBlock(t)
           \/ \E key \in AddrKeys \cup {NoKey} : NativeWait(t, key)
  PROVE  /\ Keeps(st, st') /\ UNCHANGED <<locker, latch, part>>
         /\ pc[t] \in {"user", "native", "hook"}
         /\ pc[t] = "hook" => t \in st.letGo
         /\ \E where \in {"native", "rejoin", "active", "user", "block"} : Goto(t, where)
<1>1. Core /\ st \in State
  BY Zenon DEF IInv, Core, Books
<1>2. CASE NativeReturns(t) \/ DetActive(t)
  BY <1>1, <1>2, Zenon DEF NativeReturns, DetActive, lockedVars, Keeps, Idles
<1>3. CASE DetBlock(t)
  <2>1. t \in st.letGo
    BY <1>1, <1>3, Zenon DEF DetBlock, Core, AllFit, Fits
  <2> QED
    BY <1>3, <2>1, Zenon DEF DetBlock, lockedVars, Keeps, Idles
<1>4. ASSUME NEW key \in AddrKeys \cup {NoKey}, NativeWait(t, key)
      PROVE  /\ Keeps(st, st') /\ UNCHANGED <<locker, latch, part>>
             /\ pc[t] = "user" /\ Goto(t, "native")
  <2>1. st' = [st EXCEPT !.outside[t] = key] \/ st' = st
    BY <1>4, Zenon DEF NativeWait
  <2>2. Keeps(st, st')
    BY <1>1, <2>1, Zenon DEF State, Keeps, Idles
  <2> QED
    BY <1>4, <2>2, Zenon DEF NativeWait, lockedVars
<1> QED
  BY <1>2, <1>3, <1>4, Zenon

(* What happens outside the schedule. *)
LEMMA OutsideFrame ==
  ASSUME IInv, Outside
  PROVE  /\ UNCHANGED locker
         /\ \/ Keeps(st, st') /\ UNCHANGED <<latch, pc, part>>
            \/ \E t \in Threads : ChargeLatency(t) \/ (Injected(t) /\ Queue(t, st))
            \/ /\ AcquireExternal \/ (ReleaseExternal /\ st.holder = External)
               /\ st'.threads = st.threads /\ st'.letGo = st.letGo /\ UNCHANGED <<pc, part>>
<1>1. Core /\ Books(st) /\ st \in State
  BY Zenon DEF IInv, Core, Books
<1>2. CASE MoveClock \/ SwitchClock \/ TakeLease \/ ReturnLease \/ \E a \in Addrs : OutsideChange(a)
  BY <1>2, Zenon DEF MoveClock, SwitchClock, TakeLease, ReturnLease, OutsideChange,
                     lockedVars, threadVars, Keeps, Idles
<1>3. CASE Kick
  <2>1. /\ UNCHANGED <<locker, latch, pc, part>>
        /\ GrantIfIdle(Moved(st, now, timerWakes)) \/ GrantIfIdle(ReleaseDue(st, now))
    BY <1>3, Zenon DEF Kick, lockedVars
  <2> QED
    BY <1>1, <2>1, ClockWakes, WakeKeeps, Zenon
<1>4. ASSUME NEW t \in Threads, ChargeLatency(t) \/ Injected(t)
      PROVE  UNCHANGED locker /\ (ChargeLatency(t) \/ (Injected(t) /\ Queue(t, st)))
  BY <1>4, Zenon DEF ChargeLatency, Injected, Queue, lockedVars
<1>5. CASE AcquireExternal
  BY <1>1, <1>5, Zenon DEF AcquireExternal, lockedVars, threadVars, State
<1>6. CASE ReleaseExternal
  <2> DEFINE z == [st EXCEPT !.holder = None]
  <2>1. st.holder = External /\ GrantNext(z) /\ UNCHANGED <<locker, pc, part>>
    BY <1>6, Zenon DEF ReleaseExternal, HandOn, lockedVars
  <2>2. Books(z) /\ z.threads = st.threads /\ z.letGo = st.letGo
    BY <1>1, NoHolder, Zenon
  <2> HIDE DEF z
  <2>3. st'.threads = z.threads /\ st'.letGo = z.letGo
    BY <2>1, <2>2, GrantNextFrame, Zenon
  <2> QED
    BY <1>6, <2>1, <2>2, <2>3, Zenon
<1>7. ASSUME NEW a \in Addrs, ForeignWake(a)
      PROVE  Keeps(st, st') /\ UNCHANGED <<locker, latch, pc, part>>
  <2>1. Wakes(st, WakeForeign(st, {Addr(a)}))
    <3>1. {Addr(a)} \in SUBSET Keys
      BY Zenon DEF Keys, AddrKeys
    <3> QED
      BY <1>1, <3>1, WakeForeignWakes, Zenon
  <2>2. st' = st \/ GrantIfIdle(WakeForeign(st, {Addr(a)}))
    BY <1>7, Zenon DEF ForeignWake
  <2> QED
    BY <1>7, <2>1, <2>2, WakeKeeps, Zenon DEF ForeignWake, Keeps, Idles
<1> QED
  BY <1>2, <1>3, <1>4, <1>5, <1>6, <1>7, Zenon DEF Outside

-----------------------------------------------------------------------------
(* OneRuns. *)

(* No thread let go is overtaken by a detach between the moment its hook    *)
(* finds the schedule active (det_block) and the lock of `block`.           *)
StaysActive == \A t \in Threads : pc[t] = "block" => ~detached

(* A spin keeps the turns. *)
LEMMA SpinTurns ==
  ASSUME IInv, Turned, NEW t \in Threads,
         SpinAdvance(t) \/ ChargeLatency(t) \/ \E clock \in BOOLEAN : Spin(t, clock)
  PROVE  Turned'
<1>1. /\ Wakes(st, st') /\ part' = part /\ pc[t] \in Running /\ pc \in [Threads -> PC]
      /\ \E where \in {"yield", "advance"} : Goto(t, where)
  BY SpinFrame, Zenon DEF IInv, Rest
<1> QED
  BY <1>1, KeepsTurns, Zenon DEF Wakes, Keeps, Idles, Goto, Active

(* Threads that come, go and change class keep the turns. *)
LEMMA ComingTurns ==
  ASSUME IInv, Turned, NEW t \in Threads, Coming(t)
  PROVE  Turned'
<1>1. /\ Core /\ st \in State /\ pc \in [Threads -> PC] /\ kid \in [Threads -> Threads \cup {None}]
      /\ None \notin Threads
  BY SchedulerAssumption, Zenon DEF IInv, Core, Rest, Books
<1>2. CASE EnterRoot(t)
  <2>1. /\ Idles(st, st') /\ st'.threads = st.threads \cup {t} /\ st'.letGo = st.letGo
        /\ (st'.holder = t /\ Goto(t, "user")) \/ Goto(t, "parked")
        /\ part' = part \cup {t}
    BY <1>2, EnterRootFrame, Zenon DEF EnterRoot
  <2>2. Turn(t)'
    BY <1>1, <2>1, Zenon DEF Turn, Goto, Active, Running, Native
  <2>3. ASSUME NEW u \in Threads \ {t}
        PROVE  Calm(u)
    BY <1>1, <2>1, Zenon DEF Calm, Goto, Idles
  <2> QED
    BY <2>2, <2>3, TurnStep, Zenon
<1>3. CASE Created(t)
  BY <1>1, <1>3, KeepsTurns, Zenon DEF Created, Goto, Keeps, Idles, Active, Running
<1>4. CASE CreateFails(t)
  <2>1. PICK k \in Threads \ {t} :
           /\ Idles(st, st') /\ st'.threads \subseteq st.threads /\ st.letGo \subseteq st'.letGo \cup {k}
           /\ part' = part \ {k} /\ pc[t] = "create" /\ pc[k] = "born"
           /\ pc' = [pc EXCEPT ![t] = "user", ![k] = "gone"]
    BY <1>4, CreateFailsFrame, Zenon
  <2>2. pc'[k] = "gone" /\ pc'[t] = "user" /\ \A u \in Threads \ {k, t} : pc'[u] = pc[u]
    BY <1>1, <2>1, Zenon
  <2>3. Turn(k)'
    BY <2>2, Zenon DEF Turn, Active, Running, Native
  <2>4. ASSUME NEW u \in Threads \ {k}
        PROVE  Calm(u)
    BY <1>1, <2>1, <2>2, Zenon DEF Calm, Active, Running, Idles
  <2> QED
    BY <2>3, <2>4, TurnStep, Zenon
<1>5. CASE Started(t)
  <2>1. /\ pc[t] = "born" /\ part' = part
        /\ \/ detached /\ t \notin st.ready /\ st.holder # t /\ st' = st /\ Goto(t, "user")
           \/ st' = [st EXCEPT !.threads = @ \cup {t}] /\ Goto(t, "parked")
    BY <1>5, Zenon DEF Started
  <2>2. st'.threads \subseteq st.threads \cup {t} /\ st'.letGo = st.letGo /\ st'.holder = st.holder
    BY <1>1, <2>1, Zenon DEF State
  <2>3. Turn(t)'
    <3>1. t \notin st.threads \/ t \in st.ready \/ st.holder = t
      BY <1>1, <2>1, Zenon DEF Core, AllFit, Fits
    <3> QED
      BY <1>1, <2>1, <3>1, Zenon DEF Turn, Goto, Active, Running, Native
  <2>4. ASSUME NEW u \in Threads \ {t}
        PROVE  Calm(u)
    BY <1>1, <2>1, <2>2, Zenon DEF Calm, Goto
  <2> QED
    BY <2>3, <2>4, TurnStep, Zenon
<1>6. CASE ExitThread(t)
  <2>1. /\ st'.threads = st.threads \ {t} /\ st'.letGo = st.letGo \ {t}
        /\ st.holder # t => Idles(st, st')
        /\ Goto(t, "gone") /\ part' = part \ {t}
    BY <1>6, ExitFrame, Zenon DEF ExitThread
  <2>2. Turn(t)'
    BY <2>1, Zenon DEF Turn
  <2>3. ASSUME NEW u \in Threads \ {t}
        PROVE  Calm(u)
    BY <1>1, <2>1, Zenon DEF Calm, Goto, Idles
  <2> QED
    BY <2>2, <2>3, TurnStep, Zenon
<1>7. CASE LeaveClass(t)
  <2>1. /\ st'.threads = st.threads /\ st'.letGo = st.letGo
        /\ st.holder # t => Idles(st, st')
        /\ pc' = pc /\ part' = part \ {t}
    BY <1>7, LeaveClassFrame, Zenon DEF LeaveClass
  <2>2. Turn(t)'
    BY <2>1, Zenon DEF Turn
  <2>3. ASSUME NEW u \in Threads \ {t}
        PROVE  Calm(u)
    BY <1>1, <2>1, Zenon DEF Calm, Idles
  <2> QED
    BY <2>2, <2>3, TurnStep, Zenon
<1>8. CASE JoinClass(t)
  <2>1. /\ Idles(st, st') /\ st'.threads = st.threads \cup {t} /\ st'.letGo = st.letGo
        /\ part' = part \cup {t}
        /\ (pc' = pc /\ st.holder = t) \/ Goto(t, "parked")
    BY <1>8, JoinClassFrame, Zenon DEF JoinClass
  <2>2. Turn(t)'
    BY <1>1, <2>1, Zenon DEF Turn, Goto, Active, Running, Native, Idles
  <2>3. ASSUME NEW u \in Threads \ {t}
        PROVE  Calm(u)
    BY <1>1, <2>1, Zenon DEF Calm, Idles, Goto
  <2> QED
    BY <2>2, <2>3, TurnStep, Zenon
<1>9. ASSUME NEW c \in Threads, Spawned(t, c)
      PROVE  Turned'
  <2> DEFINE s == [st EXCEPT !.spinner[t] = "no"]
  <2>1. /\ pc[t] = "user" /\ pc[c] = "out" /\ Queue(c, s) /\ part' = part \cup {c}
        /\ pc' = [pc EXCEPT ![t] = "create", ![c] = "born"]
    BY <1>9, Zenon DEF Spawned, Queue
  <2>2. Same(st, s)
    BY <1>1, SpinnerSame, Zenon
  <2> HIDE DEF s
  <2>3. Idles(st, st') /\ st'.threads \subseteq st.threads \cup {c} /\ st'.letGo = st.letGo
    BY <2>1, <2>2, QueueFrame, Zenon
  <2>4. c # t /\ pc'[c] = "born" /\ pc'[t] = "create" /\ \A u \in Threads \ {c, t} : pc'[u] = pc[u]
    BY <1>1, <2>1, Zenon
  <2>5. Turn(c)'
    BY <2>4, Zenon DEF Turn, Active, Running, Native
  <2>6. ASSUME NEW u \in Threads \ {c}
        PROVE  Calm(u)
    BY <1>1, <2>1, <2>3, <2>4, Zenon DEF Calm, Active, Running, Idles
  <2> QED
    BY <2>5, <2>6, TurnStep, Zenon
<1> QED
  BY <1>2, <1>3, <1>4, <1>5, <1>6, <1>7, <1>8, <1>9, Zenon DEF Coming

(* So do threads that run on, wait, park and rejoin, if none is overtaken. *)
LEMMA WaitingTurns ==
  ASSUME IInv, Turned, StaysActive, NEW t \in Threads, Waiting(t)
  PROVE  Turned'
<1>1. /\ Core /\ pc \in [Threads -> PC] /\ None \notin Threads
  BY SchedulerAssumption, Zenon DEF IInv, Core, Rest
<1>2. ASSUME NEW w \in Waits, BlockLetGo(t, w)
      PROVE  Turned'
  <2>1. /\ st'.threads = st.threads /\ st'.letGo = st.letGo \ {t} /\ st'.holder = st.holder
        /\ part' = part /\ Goto(t, "parked")
    BY <1>2, BlockLetGoFrame, Zenon DEF StaysActive
  <2>2. Turn(t)'
    BY <1>1, <2>1, Zenon DEF Turn, Goto, Active, Running, Native
  <2>3. ASSUME NEW u \in Threads \ {t}
        PROVE  Calm(u)
    BY <1>1, <2>1, Zenon DEF Calm, Goto
  <2> QED
    BY <2>2, <2>3, TurnStep, Zenon
<1>3. ASSUME NEW w \in Waits, NEW raced \in BOOLEAN, Block(t, w, raced)
      PROVE  Turned'
  <2>1. /\ part' = part /\ st.holder = t
        /\ \/ Keeps(st, st') /\ pc' = pc
           \/ st'.threads = st.threads /\ st'.letGo = st.letGo /\ Goto(t, "dispatch")
    BY <1>3, BlockFrame, Zenon DEF Block
  <2>2. CASE Keeps(st, st') /\ pc' = pc
    BY <2>1, <2>2, KeepsTurns, Zenon
  <2>3. CASE st'.threads = st.threads /\ st'.letGo = st.letGo /\ Goto(t, "dispatch")
    <3>1. Turn(t)'
      BY <1>1, <2>3, Zenon DEF Turn, Goto, Active, Running, Native
    <3>2. ASSUME NEW u \in Threads \ {t}
          PROVE  Calm(u)
      BY <1>1, <2>1, <2>3, Zenon DEF Calm, Goto
    <3> QED
      BY <3>1, <3>2, TurnStep, Zenon
  <2> QED
    BY <2>1, <2>2, <2>3, Zenon
<1>4. CASE YieldNow(t)
  <2>1. /\ st'.threads = st.threads /\ st'.letGo = st.letGo /\ part' = part /\ st.holder = t
        /\ \/ st'.holder = t /\ Goto(t, "user")
           \/ Goto(t, "parked")
    BY <1>4, YieldFrame, Zenon DEF YieldNow
  <2>2. Turn(t)'
    BY <1>1, <2>1, Zenon DEF Turn, Goto, Active, Running, Native
  <2>3. ASSUME NEW u \in Threads \ {t}
        PROVE  Calm(u)
    BY <1>1, <2>1, Zenon DEF Calm, Goto
  <2> QED
    BY <2>2, <2>3, TurnStep, Zenon
<1>5. CASE SpinAdvance(t) \/ \E clock \in BOOLEAN : Spin(t, clock)
  BY <1>5, SpinTurns, Zenon
<1> QED
  BY <1>2, <1>3, <1>4, <1>5, Zenon DEF Waiting

(* Threads that rejoin, and threads on the latch. *)
LEMMA RejoiningTurns ==
  ASSUME IInv, Turned, NEW t \in Threads, Rejoining(t) \/ Parked(t)
  PROVE  Turned'
<1>1. /\ Core /\ pc \in [Threads -> PC] /\ None \notin Threads
  BY SchedulerAssumption, Zenon DEF IInv, Core, Rest
<1>2. ASSUME NativeReturns(t) \/ DetActive(t) \/ DetBlock(t)
               \/ \E key \in AddrKeys \cup {NoKey} : NativeWait(t, key)
      PROVE  Turned'
  <2>1. /\ Keeps(st, st') /\ part' = part /\ pc[t] \in {"user", "native", "hook"}
        /\ pc[t] = "hook" => t \in st.letGo
        /\ \E where \in {"native", "rejoin", "active", "user", "block"} : Goto(t, where)
    BY <1>2, NativeFrame, Zenon
  <2>2. Calm(t) \/ Turn(t)'
    BY <1>1, <2>1, Zenon DEF Calm, Turn, Goto, Active, Running, Native, Keeps, Idles
  <2>3. ASSUME NEW u \in Threads \ {t}
        PROVE  Calm(u)
    BY <1>1, <2>1, Zenon DEF Calm, Goto, Keeps, Idles
  <2> QED
    BY <2>2, <2>3, TurnStep, Zenon
<1>3. CASE Rejoin(t)
  <2>1. /\ Idles(st, st') /\ st'.threads = st.threads /\ part' = part
        /\ \/ st'.letGo = st.letGo /\ Goto(t, IF pc[t] = "rejoin" THEN "user" ELSE "hook")
           \/ st'.letGo = st.letGo \ {t} /\ Goto(t, "parked")
    BY <1>3, RejoinFrame, Zenon DEF Rejoin
  <2>2. Calm(t) \/ Turn(t)'
    BY <1>1, <2>1, Zenon DEF Calm, Turn, Goto, Active, Running, Native, Idles
  <2>3. ASSUME NEW u \in Threads \ {t}
        PROVE  Calm(u)
    BY <1>1, <2>1, Zenon DEF Calm, Goto, Idles
  <2> QED
    BY <2>2, <2>3, TurnStep, Zenon
<1>4. CASE Parked(t)
  <2>1. /\ st' = st /\ part' = part
        /\ \/ pc' = pc
           \/ Goto(t, "user") /\ latch[t] \in Why
           \/ \E where \in {"parked", "duty", "dispatch"} : Goto(t, where)
    BY <1>4, Zenon DEF Parked, Deliver, Run, TakeDuty, DoDuty
  <2>2. latch[t] \in Why => st.holder = t \/ t \in st.letGo
    BY <1>1, Zenon DEF Core, AllFit, Fits
  <2>3. Calm(t) \/ Turn(t)'
    BY <1>1, <2>1, <2>2, Zenon DEF Calm, Turn, Goto, Active, Running, Native
  <2>4. ASSUME NEW u \in Threads \ {t}
        PROVE  Calm(u)
    BY <1>1, <2>1, Zenon DEF Calm, Goto
  <2> QED
    BY <2>3, <2>4, TurnStep, Zenon
<1> QED
  BY <1>2, <1>3, <1>4, Zenon DEF Rejoining

(* The dispatcher, and what happens outside. *)
LEMMA DispatchTurns ==
  ASSUME IInv, Turned, NEW d \in Threads, Dispatching(d)
  PROVE  Turned'
<1>1. /\ pc \in [Threads -> PC] /\ None \notin Threads
  BY SchedulerAssumption, Zenon DEF IInv, Rest
<1>2. /\ part' = part /\ st'.threads = st.threads /\ st.letGo \subseteq st'.letGo
      /\ st.holder = None \/ st'.holder = st.holder
      /\ \E where \in InWait : Goto(d, where)
  BY DispatchFrame, Zenon DEF Wakes, InWait
<1>3. Turn(d)'
  BY <1>1, <1>2, Zenon DEF Turn, Goto, Active, Running, Native, InWait, Locked, Asleep
<1>4. ASSUME NEW u \in Threads \ {d}
      PROVE  Calm(u)
  BY <1>1, <1>2, Zenon DEF Calm, Goto
<1> QED
  BY <1>3, <1>4, TurnStep, Zenon

(* Steps from outside. *)
LEMMA OutsideTurns ==
  ASSUME IInv, Turned, Outside
  PROVE  Turned'
<1>1. /\ Core /\ st \in State /\ pc \in [Threads -> PC] /\ None \notin Threads /\ External \notin Threads
  BY SchedulerAssumption, Zenon DEF IInv, Core, Rest, Books
<1>2. ASSUME Keeps(st, st'), UNCHANGED <<latch, pc, part>>
      PROVE  Turned'
  BY <1>1, <1>2, TurnStep, Zenon DEF Calm, Keeps, Idles
<1>3. ASSUME NEW c \in Threads, Injected(c), Queue(c, st)
      PROVE  Turned'
  <2>1. /\ Goto(c, "born") /\ part' = part \cup {c}
        /\ Idles(st, st') /\ st'.threads \subseteq st.threads \cup {c} /\ st'.letGo = st.letGo
    BY <1>1, <1>3, QueueFrame, Zenon DEF Injected, Queue, Same
  <2>2. Turn(c)'
    BY <1>1, <2>1, Zenon DEF Turn, Goto, Active, Running, Native
  <2>3. ASSUME NEW u \in Threads \ {c}
        PROVE  Calm(u)
    BY <1>1, <2>1, Zenon DEF Calm, Goto, Idles
  <2> QED
    BY <2>2, <2>3, TurnStep, Zenon
<1>4. ASSUME AcquireExternal \/ st.holder = External, st'.threads = st.threads, st'.letGo = st.letGo,
             UNCHANGED <<pc, part>>
      PROVE  Turned'
  <2>1. st.holder \notin Threads
    BY <1>1, <1>4, Zenon DEF AcquireExternal
  <2>2. ASSUME NEW u \in Threads
        PROVE  Calm(u)
    BY <1>4, <2>1, Zenon DEF Calm
  <2> QED
    BY <2>2, TurnStep, Zenon
<1> QED
  BY <1>2, <1>3, <1>4, OutsideFrame, SpinTurns, Zenon

(* One thread of the schedule runs at a time, as long as no thread let go   *)
(* is overtaken by a detach on its way into `block`: whatever the waits,    *)
(* the timers, the changes of class and the threads outside.                *)
THEOREM TurnsAreTaken ==
  ASSUME "latejoin" \notin Events
  PROVE  Spec /\ []StaysActive => []OneRuns
<1>1. Init => Turned
  BY Zenon DEF Init, Turned, Turn, Active, Running, Native
<1>2. ASSUME IInv, Turned, StaysActive, [Next]_vars
      PROVE  Turned'
  <2>1. CASE UNCHANGED vars
    BY <1>2, <2>1, Zenon DEF vars, threadVars, Turned, Turn
  <2>2. ASSUME NEW t \in Threads, Waking(t)
        PROVE  Turned'
    BY <1>2, <2>2, WakingFrame, KeepsTurns, Zenon
  <2>3. ASSUME NEW t \in Threads, Coming(t) \/ Waiting(t) \/ Rejoining(t) \/ Parked(t) \/ Dispatching(t)
        PROVE  Turned'
    BY <1>2, <2>3, ComingTurns, WaitingTurns, RejoiningTurns, DispatchTurns, Zenon
  <2>4. CASE Outside
    BY <1>2, <2>4, OutsideTurns, Zenon
  <2>5. CASE Next
    BY <2>2, <2>3, <2>4, <2>5, Zenon DEF Next
  <2> QED
    BY <1>2, <2>1, <2>5
<1>3. IInv /\ Turned => OneRuns
  BY Zenon DEF IInv, Rest, Turned, Turn, OneRuns, Active
<1> QED
  BY <1>1, <1>2, <1>3, Invariance, PTL DEF Spec

-----------------------------------------------------------------------------
(* Driven. *)

(* A thread let go that blocks beside an idle schedule finds it waiting for *)
(* something: the schedule has not run out since the thread saw it active.  *)
Watched == \A t \in Threads : pc[t] = "block" /\ Free /\ st.holder = None => st.waiting # {}

(* A step that leaves the baton and the drivers alone, and begins no wait. *)
LEMMA DrivenStep ==
  ASSUME Driven, Idles(st, st'), Free' => Free,
         \A t \in Threads : Drives(t) => Drives(t)'
  PROVE  Driven'
  BY Zenon DEF Driven, Idles

(* A thread that moves was driving, or is no driver's concern. *)
LEMMA DrivenMove ==
  ASSUME Driven, Idles(st, st'), Free' => Free, UNCHANGED latch, pc \in [Threads -> PC],
         NEW t \in Threads, pc[t] \notin Asleep \cup {"duty", "parked"},
         \A u \in Threads \ {t} : pc'[u] = pc[u]
  PROVE  Driven'
<1>1. ASSUME NEW u \in Threads, Drives(u)
      PROVE  Drives(u)'
  BY <1>1, Zenon DEF Drives
<1> QED
  BY <1>1, DrivenStep, Zenon

(* Whoever hands the baton on leaves it with a thread, or the duty with one *)
(* that waits.                                                              *)
LEMMA HandOnDriven ==
  ASSUME NEW s \in State, Books([s EXCEPT !.holder = None]), NEW l, HandOn(s, l), IInv'
  PROVE  Driven'
<1> DEFINE z == [s EXCEPT !.holder = None]
<1>1. GrantNext(z) /\ z.ready = s.ready /\ z.waiting = s.waiting /\ z \in State
  BY Zenon DEF HandOn, State, Books
<1>2. CASE s.ready # {}
  <2>1. st'.holder \in z.ready
    BY <1>1, <1>2, GrantNextFrame, ZenonT(40)
  <2>2. st'.holder # None
    BY <1>1, <2>1, StateFields, SchedulerAssumption, Zenon
  <2> QED
    BY <2>2, Zenon DEF Driven
<1>3. CASE s.ready = {}
  <2>1. st' = z /\ latch' = DelegateFirst(s, l)
    BY <1>1, <1>3, Zenon DEF GrantNext, HandOn
  <2> SUFFICES ASSUME Free', st'.waiting # {}
               PROVE  \E u \in Threads : Drives(u)'
    BY Zenon DEF Driven
  <2>2. s.waiting # {} /\ s.waiting \in SUBSET Threads
    BY <1>1, <2>1, StateFields, Zenon
  <2>3. PICK u \in s.waiting : u = Least(s.waiting)
    BY <2>2, LeastThread, Zenon
  <2>4. /\ u \in Threads /\ Fits(st', pc'[u], latch'[u], flight'[u], u) /\ u \in st'.waiting
        /\ latch' \in [Threads -> Why \cup {"none", "dispatch"}]
        /\ pc'[u] \notin Locked
    BY <1>1, <2>1, <2>2, <2>3, SchedulerAssumption, Zenon DEF IInv, Core, Rest, AllFit, Free
  <2>5. pc'[u] \in {"parked", "duty"} \cup Asleep /\ latch'[u] \in {"none", "dispatch"}
    BY <2>4, Zenon DEF Fits, InWait
  <2>6. latch'[u] # "none"
    <3>1. CASE l[u] = "none"
      <4>1. latch' = [l EXCEPT ![u] = "dispatch"]
        BY <2>1, <2>2, <2>3, <3>1, Zenon DEF DelegateFirst
      <4>2. u \in DOMAIN l
        BY <2>4, <4>1, Zenon
      <4> QED
        BY <4>1, <4>2, Zenon
    <3>2. CASE l[u] # "none"
      BY <2>1, <2>3, <3>2, Zenon DEF DelegateFirst
    <3> QED
      BY <3>1, <3>2, Zenon
  <2> QED
    BY <2>4, <2>5, <2>6, Zenon DEF Drives
<1> QED
  BY <1>2, <1>3, Zenon

(* A spin. *)
LEMMA SpinDriven ==
  ASSUME IInv, Driven, NEW t \in Threads,
         SpinAdvance(t) \/ ChargeLatency(t) \/ \E clock \in BOOLEAN : Spin(t, clock)
  PROVE  Driven'
<1>1. /\ Wakes(st, st') /\ UNCHANGED <<locker, latch>> /\ pc[t] \in Running /\ pc \in [Threads -> PC]
      /\ \E where \in {"yield", "advance"} : Goto(t, where)
  BY SpinFrame, Zenon DEF IInv, Rest
<1> QED
  BY <1>1, DrivenMove, Zenon DEF Wakes, Idles, Goto, Running, Asleep, Free

(* Threads that come, go and change class. *)
LEMMA ComingDriven ==
  ASSUME IInv, IInv', Driven, NEW t \in Threads, Coming(t)
  PROVE  Driven'
<1>1. /\ Core /\ Books(st) /\ st \in State /\ pc \in [Threads -> PC] /\ UNCHANGED locker
  BY Zenon DEF IInv, Core, Rest, Books, Coming, EnterRoot, Created, CreateFails, Started,
     ExitThread, LeaveClass, JoinClass, Spawned, Queue, lockedVars
<1>2. ASSUME NEW u \in Threads, Idles(st, st'), UNCHANGED latch, Free' => Free,
             pc[t] \notin Asleep \cup {"duty", "parked"}, pc[u] \notin Asleep \cup {"duty", "parked"},
             \A v \in Threads \ {t, u} : pc'[v] = pc[v]
      PROVE  Driven'
  <2>1. ASSUME NEW v \in Threads, Drives(v)
        PROVE  Drives(v)'
    BY <1>2, <2>1, Zenon DEF Drives
  <2> QED
    BY <1>2, <2>1, DrivenStep, Zenon
<1>3. CASE EnterRoot(t)
  <2>1. /\ Idles(st, st') /\ UNCHANGED latch /\ pc[t] = "out"
        /\ Goto(t, "user") \/ Goto(t, "parked")
    BY <1>3, EnterRootFrame, Zenon DEF EnterRoot
  <2> QED
    BY <1>1, <2>1, DrivenMove, Zenon DEF Goto, Asleep, Free
<1>4. CASE Created(t)
  BY <1>1, <1>4, DrivenMove, Zenon DEF Created, Goto, Asleep, Free, Idles
<1>5. CASE CreateFails(t)
  <2>1. UNCHANGED latch
    BY <1>5, Zenon DEF CreateFails
  <2>2. PICK k \in Threads \ {t} :
           /\ Idles(st, st') /\ pc[t] = "create" /\ pc[k] = "born"
           /\ pc' = [pc EXCEPT ![t] = "user", ![k] = "gone"]
    BY <1>5, CreateFailsFrame, Zenon
  <2> QED
    BY <1>1, <1>2, <2>1, <2>2, Zenon DEF Asleep, Free
<1>6. CASE Started(t)
  <2>1. /\ pc[t] = "born" /\ UNCHANGED latch
        /\ \/ st' = st /\ Goto(t, "user")
           \/ st' = [st EXCEPT !.threads = @ \cup {t}] /\ Goto(t, "parked")
    BY <1>6, Zenon DEF Started
  <2>2. Idles(st, st')
    BY <1>1, <2>1, Zenon DEF State, Idles
  <2> QED
    BY <1>1, <2>1, <2>2, DrivenMove, Zenon DEF Goto, Asleep, Free
<1>7. CASE ExitThread(t)
  <2> DEFINE s == Left(st, t)
  <2>1. /\ pc[t] = "user" /\ Goto(t, "gone")
        /\ st.holder = t => HandOn(s, latch)
        /\ st.holder # t => Idles(st, st') /\ UNCHANGED latch
    BY <1>7, ExitFrame, Zenon DEF ExitThread
  <2>2. Books(s)
    BY <1>1, LeftBooks, Zenon
  <2> HIDE DEF s
  <2>3. CASE st.holder = t
    <3>1. s \in State /\ Books([s EXCEPT !.holder = None])
      BY <2>2, NoHolder, Zenon DEF Books
    <3> QED
      BY <2>1, <2>3, <3>1, HandOnDriven, Zenon
  <2>4. CASE st.holder # t
    BY <1>1, <2>1, <2>4, DrivenMove, Zenon DEF Goto, Asleep, Free
  <2> QED
    BY <2>3, <2>4, Zenon
<1>8. CASE LeaveClass(t)
  <2> DEFINE s == Disown(TakeBlocked(TakeRunnable([st EXCEPT !.spinner[t] = "no"], t), {t}), t, {})
             l == IF t \in st.threads THEN [latch EXCEPT ![t] = "none"] ELSE latch
  <2>1. /\ pc[t] = "user" /\ pc' = pc
        /\ st.holder = t => HandOn(s, l)
        /\ st.holder # t => latch' = l
    BY <1>8, Zenon DEF LeaveClass
  <2>2. Books(s) /\ (st.holder # t => Idles(st, st'))
    BY <1>8, <2>1, LeaveClassWakes, LeaveClassFrame, Zenon DEF Wakes
  <2> HIDE DEF s
  <2>3. CASE st.holder = t
    <3>1. s \in State /\ Books([s EXCEPT !.holder = None])
      BY <2>2, NoHolder, Zenon DEF Books
    <3> HIDE DEF l
    <3> QED
      BY <2>1, <2>3, <3>1, HandOnDriven, Zenon
  <2>4. CASE st.holder # t
    <3>1. ASSUME NEW u \in Threads, Drives(u)
          PROVE  Drives(u)'
      <4>1. u # t /\ latch'[u] = latch[u]
        BY <1>1, <2>1, <2>4, <3>1, Zenon DEF Drives, Asleep, Core
      <4> QED
        BY <2>1, <3>1, <4>1, Zenon DEF Drives
    <3> QED
      BY <1>1, <2>2, <2>4, <3>1, DrivenStep, Zenon DEF Free
  <2> QED
    BY <2>3, <2>4, Zenon
<1>9. CASE JoinClass(t)
  <2>1. Idles(st, st') /\ pc[t] = "user" /\ UNCHANGED latch /\ (pc' = pc \/ Goto(t, "parked"))
    BY <1>9, JoinClassFrame, Zenon DEF JoinClass
  <2> QED
    BY <1>1, <2>1, DrivenMove, Zenon DEF Goto, Asleep, Free
<1>10. ASSUME NEW c \in Threads, Spawned(t, c)
       PROVE  Driven'
  <2> DEFINE s == [st EXCEPT !.spinner[t] = "no"]
  <2>1. /\ pc[t] = "user" /\ pc[c] = "out" /\ Queue(c, s) /\ UNCHANGED latch
        /\ pc' = [pc EXCEPT ![t] = "create", ![c] = "born"]
    BY <1>10, Zenon DEF Spawned, Queue
  <2>2. Same(st, s)
    BY <1>1, SpinnerSame, Zenon
  <2> HIDE DEF s
  <2>3. Idles(st, st')
    BY <2>1, <2>2, QueueFrame, Zenon
  <2> QED
    BY <1>1, <1>2, <2>1, <2>3, Zenon DEF Asleep, Free
<1> QED
  BY <1>3, <1>4, <1>5, <1>6, <1>7, <1>8, <1>9, <1>10, Zenon DEF Coming

(* Threads that wait, run on, park and rejoin. *)
LEMMA WaitingDriven ==
  ASSUME IInv, Driven, Watched, NEW t \in Threads, Waiting(t)
  PROVE  Driven'
<1>1. /\ Core /\ pc \in [Threads -> PC] /\ None \notin Threads
  BY SchedulerAssumption, Zenon DEF IInv, Core, Rest
<1>2. ASSUME NEW w \in Waits, BlockLetGo(t, w)
      PROVE  Driven'
  <2>1. /\ st'.holder = st.holder /\ pc[t] = "block" /\ UNCHANGED <<locker, latch>>
        /\ Goto(t, "parked") \/ Goto(t, "user")
    BY <1>2, BlockLetGoFrame, Zenon
  <2>2. ASSUME NEW u \in Threads, Drives(u)
        PROVE  Drives(u)'
    BY <1>1, <2>1, <2>2, Zenon DEF Drives, Goto, Asleep
  <2> QED
    BY <2>1, <2>2, Zenon DEF Driven, Watched, Free
<1>3. ASSUME NEW w \in Waits, NEW raced \in BOOLEAN, Block(t, w, raced)
      PROVE  Driven'
  <2>1. UNCHANGED latch /\ ((Keeps(st, st') /\ UNCHANGED <<locker, pc>>) \/ locker' = t)
    BY <1>3, BlockFrame, Zenon DEF Block
  <2> QED
    BY <1>1, <2>1, DrivenStep, Zenon DEF Keeps, Free, Driven, Drives
<1>4. CASE YieldNow(t)
  BY <1>4, YieldFrame, Zenon DEF Driven
<1>5. CASE SpinAdvance(t) \/ \E clock \in BOOLEAN : Spin(t, clock)
  BY <1>5, SpinDriven, Zenon
<1> QED
  BY <1>2, <1>3, <1>4, <1>5, Zenon DEF Waiting

(* Threads that rejoin, and threads on the latch. *)
LEMMA RejoiningDriven ==
  ASSUME IInv, Driven, NEW t \in Threads, Rejoining(t) \/ Parked(t)
  PROVE  Driven'
<1>1. /\ Core /\ pc \in [Threads -> PC] /\ None \notin Threads
      /\ latch \in [Threads -> Why \cup {"none", "dispatch"}]
  BY SchedulerAssumption, Zenon DEF IInv, Core, Rest
<1>2. ASSUME NativeReturns(t) \/ DetActive(t) \/ DetBlock(t)
               \/ \E key \in AddrKeys \cup {NoKey} : NativeWait(t, key)
      PROVE  Driven'
  <2>1. /\ Keeps(st, st') /\ UNCHANGED <<locker, latch>> /\ pc[t] \in {"user", "native", "hook"}
        /\ \E where \in {"native", "rejoin", "active", "user", "block"} : Goto(t, where)
    BY <1>2, NativeFrame, Zenon
  <2> QED
    BY <1>1, <2>1, DrivenMove, Zenon DEF Goto, Asleep, Free, Keeps
<1>3. CASE Rejoin(t)
  <2>1. /\ Idles(st, st') /\ UNCHANGED <<locker, latch>> /\ pc[t] \in {"rejoin", "active"}
        /\ \E where \in {"user", "hook", "parked"} : Goto(t, where)
    BY <1>3, RejoinFrame, Zenon DEF Rejoin, lockedVars
  <2> QED
    BY <1>1, <2>1, DrivenMove, Zenon DEF Goto, Asleep, Free
<1>4. CASE Deliver(t)
  <2>1. st' = st /\ st.holder = t
    BY <1>1, <1>4, Zenon DEF Deliver, Core, AllFit, Fits
  <2> QED
    BY <1>1, <2>1, Zenon DEF Driven
<1>5. CASE Run(t) \/ TakeDuty(t)
  <2>1. /\ st' = st /\ UNCHANGED locker /\ pc[t] = "parked"
        /\ latch' = [latch EXCEPT ![t] = "none"]
        /\ \/ latch[t] \in Why /\ Goto(t, "user")
           \/ latch[t] = "dispatch" /\ Goto(t, "duty")
    BY <1>5, Zenon DEF Run, TakeDuty, lockedVars
  <2>2. ASSUME NEW u \in Threads, Drives(u)
        PROVE  Drives(u)'
    <3>1. CASE u = t
      <4>1. pc[u] = "parked" /\ latch[u] = "dispatch"
        BY <2>1, <2>2, <3>1, Zenon DEF Drives, Asleep
      <4>2. pc'[u] = "duty"
        BY <1>1, <2>1, <3>1, <4>1, Zenon DEF Goto, Why
      <4> QED
        BY <4>2, Zenon DEF Drives
    <3>2. CASE u # t
      <4>1. pc'[u] = pc[u] /\ latch'[u] = latch[u]
        BY <1>1, <2>1, <3>2, Zenon DEF Goto
      <4> QED
        BY <2>2, <4>1, Zenon DEF Drives
    <3> QED
      BY <3>1, <3>2, Zenon
  <2> QED
    BY <2>1, <2>2, DrivenStep, Zenon DEF Idles, Free
<1>6. CASE DoDuty(t)
  BY <1>1, <1>6, Zenon DEF DoDuty, Driven, Free
<1> QED
  BY <1>2, <1>3, <1>4, <1>5, <1>6, Zenon DEF Rejoining, Parked

(* A dispatcher that lets the lock go of an idle schedule stays to drive it. *)
LEMMA DispatchDriven ==
  ASSUME IInv, Driven, NEW d \in Threads, Dispatching(d)
  PROVE  Driven'
<1>1. pc \in [Threads -> PC] /\ None \notin Threads
  BY SchedulerAssumption, Zenon DEF IInv, Rest
<1>2. ASSUME NEW where \in Asleep, Goto(d, where)
      PROVE  Drives(d)'
  BY <1>1, <1>2, Zenon DEF Goto, Drives
<1> QED
  BY <1>1, <1>2, DispatchFrame, Zenon DEF Driven, Free

(* Steps from outside. *)
LEMMA OutsideDriven ==
  ASSUME IInv, IInv', Driven, Outside
  PROVE  Driven'
<1>1. /\ Core /\ Books(st) /\ st \in State /\ pc \in [Threads -> PC] /\ UNCHANGED locker
  BY OutsideFrame, Zenon DEF IInv, Core, Rest, Books
<1>2. ASSUME Keeps(st, st'), UNCHANGED <<latch, pc, part>>
      PROVE  Driven'
  BY <1>1, <1>2, DrivenStep, Zenon DEF Drives, Keeps, Free
<1>3. ASSUME NEW c \in Threads, Injected(c), Queue(c, st)
      PROVE  Driven'
  <2>1. /\ Goto(c, "born") /\ pc[c] = "out" /\ UNCHANGED latch /\ Idles(st, st')
    BY <1>1, <1>3, QueueFrame, Zenon DEF Injected, Queue, Same
  <2> QED
    BY <1>1, <2>1, DrivenMove, Zenon DEF Goto, Asleep, Free
<1>4. CASE AcquireExternal
  <2>1. st'.holder = External
    BY <1>1, <1>4, Zenon DEF AcquireExternal, State
  <2> QED
    BY <2>1, SchedulerAssumption, Zenon DEF Driven
<1>5. CASE ReleaseExternal
  <2>1. HandOn(st, latch) /\ Books([st EXCEPT !.holder = None])
    BY <1>1, <1>5, NoHolder, Zenon DEF ReleaseExternal
  <2> QED
    BY <1>1, <2>1, HandOnDriven, Zenon
<1> QED
  BY <1>2, <1>3, <1>4, <1>5, OutsideFrame, SpinDriven, Zenon

(* An idle schedule with waiting threads has a thread to move it on, as     *)
(* long as no thread let go blocks into a schedule that has run out: the    *)
(* duty is delegated, or taken back, at every step that leaves no holder.   *)
THEOREM IdleIsDriven ==
  ASSUME "latejoin" \notin Events
  PROVE  Spec /\ []Watched => []Driven
<1>1. Init => Driven
  BY DEF Init, Driven
<1>2. ASSUME IInv, IInv', Driven, Watched, [Next]_vars
      PROVE  Driven'
  <2>1. CASE UNCHANGED vars
    BY <1>2, <2>1, Zenon DEF vars, threadVars, Driven, Drives, Free
  <2>2. ASSUME NEW t \in Threads, Waking(t)
        PROVE  Driven'
    BY <1>2, <2>2, WakingFrame, DrivenStep, Zenon DEF Keeps, Drives, Free
  <2>3. ASSUME NEW t \in Threads, Coming(t) \/ Waiting(t) \/ Rejoining(t) \/ Parked(t) \/ Dispatching(t)
        PROVE  Driven'
    BY <1>2, <2>3, ComingDriven, WaitingDriven, RejoiningDriven, DispatchDriven, Zenon
  <2>4. CASE Outside
    BY <1>2, <2>4, OutsideDriven, Zenon
  <2>5. CASE Next
    BY <2>2, <2>3, <2>4, <2>5, Zenon DEF Next
  <2> QED
    BY <1>2, <2>1, <2>5
<1> QED
  BY <1>1, <1>2, Invariance, PTL DEF Spec
=============================================================================
