-------------------------- MODULE SchedulerProofs --------------------------
(***************************************************************************)
(* Proofs about Scheduler, for any number of threads, roots, addresses and *)
(* waits and any bound on time: the operators on State, the inductive      *)
(* invariant `IInv`, which every step keeps, and the properties of         *)
(* Scheduler that follow from it.                                          *)
(*                                                                         *)
(* `Books` is what the functions of sched.rs on State keep whatever thread *)
(* calls them; `Fits` is what ties one thread's slot to where the thread   *)
(* is and to what is in its latch.  Each function on State gets a lemma    *)
(* that says what it does to the fields these speak of.                    *)
(***************************************************************************)
EXTENDS Scheduler, FiniteSetTheorems, TLAPS

(* A set of threads is finite. *)
LEMMA ThreadSets ==
  ASSUME NEW A \in SUBSET Threads
  PROVE  IsFiniteSet(A) /\ Cardinality(A) \in Nat
  BY FS_Subset, FS_CardinalityType, SchedulerAssumption, Zenon

(* A finite set of numbers has a least member, and Least finds it. *)
LEMMA LeastMember ==
  ASSUME NEW A \in SUBSET Nat, IsFiniteSet(A), A # {}
  PROVE  Least(A) \in A /\ \A u \in A : Least(A) <= u
<1> DEFINE Below(t) == {u \in A : u < t}
           Segments == {Below(t) : t \in A}
<1>1. A \subseteq Nat /\ IsFiniteSet(A)
  OBVIOUS
<1>2. Segments \subseteq FiniteSubsetsOf(A)
  BY <1>1, FS_Subset, Zenon DEF FiniteSubsetsOf
<1>3. \E X \in Segments : \A Y \in Segments : ~(<<Y, X>> \in StrictSubsetOrdering(A))
  <2>1. IsWellFoundedOn(StrictSubsetOrdering(A), FiniteSubsetsOf(A))
    BY FS_StrictSubsetOrderingWellFounded, Zenon
  <2>2. Segments # {}
    BY ZenonT(40)
  <2> HIDE DEF Segments
  <2> QED
    BY <1>2, <2>1, <2>2, WFMin, Zenon
<1>4. PICK n \in A : \A m \in A : ~(<<Below(m), Below(n)>> \in StrictSubsetOrdering(A))
  BY <1>3, Zenon
<1>5. \A m \in A : n <= m
  <2> SUFFICES ASSUME NEW m \in A, m < n
               PROVE  FALSE
    BY <1>1
  <2>0. ~(m < m) /\ \A u \in A : u < m => u < n
    BY <1>1
  <2>1. m \in Below(n) /\ m \notin Below(m) /\ Below(m) \subseteq Below(n)
    BY <2>0, Zenon
  <2> QED
    BY <2>1, <1>4, <1>2, Zenon DEF StrictSubsetOrdering, FiniteSubsetsOf
<1> QED
  BY <1>5, Zenon DEF Least

(* Least of a set of threads, which NextReady and DelegateFirst take. *)
LEMMA LeastThread ==
  ASSUME NEW A \in SUBSET Threads, A # {}
  PROVE  Least(A) \in A
  BY ThreadSets, LeastMember, SchedulerAssumption, Zenon

(* Adding threads to a set adds those that are new to its count. *)
LEMMA CardPlus ==
  ASSUME NEW A \in SUBSET Threads, NEW B \in SUBSET Threads
  PROVE  Cardinality(A \cup B) = Cardinality(A) + Cardinality(B \ A)
<1>1. IsFiniteSet(A) /\ IsFiniteSet(B \ A)
  BY ThreadSets, Zenon
<1>2. Cardinality(A \cup (B \ A)) = Cardinality(A) + Cardinality(B \ A) - Cardinality(A \cap (B \ A))
  BY <1>1, FS_Union, Zenon
<1>3. A \cup (B \ A) = A \cup B
  OBVIOUS
<1>4. A \cap (B \ A) = {}
  OBVIOUS
<1>5. Cardinality(A) \in Nat /\ Cardinality(B \ A) \in Nat
  BY ThreadSets, Zenon
<1>6. Cardinality(A \cap (B \ A)) = 0
  BY <1>4, FS_EmptySet, Zenon
<1>7. Cardinality(A \cup B) = Cardinality(A) + Cardinality(B \ A) - 0
  BY <1>2, <1>3, <1>6, Zenon
<1> QED
  BY <1>7, <1>5

(* Taking threads of a set out of it takes their number off its count. *)
LEMMA CardMinus ==
  ASSUME NEW A \in SUBSET Threads, NEW B \in SUBSET A
  PROVE  Cardinality(A \ B) = Cardinality(A) - Cardinality(B)
<1>1. Cardinality(B \cup A) = Cardinality(B) + Cardinality(A \ B)
  BY CardPlus, Zenon
<1>2. B \cup A = A
  OBVIOUS
<1>3. Cardinality(A) \in Nat /\ Cardinality(B) \in Nat /\ Cardinality(A \ B) \in Nat
  BY ThreadSets, Zenon
<1>4. Cardinality(A) = Cardinality(B) + Cardinality(A \ B)
  BY <1>1, <1>2, Zenon
<1> QED
  BY <1>4, <1>3

-----------------------------------------------------------------------------
(* What the functions on State do. *)

Books(s) ==
  /\ s \in State
  /\ s.ready \cap s.waiting = {}
  /\ s.ready \cup s.waiting \cup s.letGo \subseteq s.threads
  /\ s.runnable = Cardinality(s.ready)
  /\ s.blocked = Cardinality(s.waiting)

(* r is s after some waits have ended. *)
Wakes(s, r) ==
  /\ Books(r)
  /\ r.holder = s.holder /\ r.threads = s.threads
  /\ r.letGo = s.letGo /\ r.outside = s.outside
  /\ r.waiting \subseteq s.waiting
  /\ r.ready = s.ready \cup (s.waiting \ r.waiting)

(* r differs from s only in fields the books do not speak of. *)
Same(s, r) ==
  /\ r \in State
  /\ r.holder = s.holder /\ r.threads = s.threads
  /\ r.letGo = s.letGo /\ r.outside = s.outside
  /\ r.ready = s.ready /\ r.waiting = s.waiting
  /\ r.runnable = s.runnable /\ r.blocked = s.blocked

(* Such a change keeps the books, and adds nothing to what a wake did. *)
LEMMA SameBooks ==
  ASSUME NEW s, NEW r, Books(s), Same(s, r)
  PROVE  Books(r) /\ Wakes(s, r) /\ \A z : Wakes(z, s) => Wakes(z, r)
<1>1. Books(r)
  BY Zenon DEF Books, Same
<1> QED
  BY <1>1, Zenon DEF Wakes, Same, Books

(* The types of State's fields. *)
LEMMA StateFields ==
  ASSUME NEW s \in State
  PROVE  /\ s.holder \in Threads \cup {None, External}
         /\ s.threads \in SUBSET Threads /\ s.ready \in SUBSET Threads
         /\ s.waiting \in SUBSET Threads /\ s.letGo \in SUBSET Threads
         /\ s.why \in [Threads -> Why] /\ s.wait \in [Threads -> Wait]
         /\ s.older \in [Threads -> SUBSET Threads]
         /\ s.runnable \in Nat /\ s.blocked \in Nat
  BY Zenon DEF State

(* take_blocked: the waits of S end, and are counted off. *)
LEMMA TakeBlockedBooks ==
  ASSUME NEW s, Books(s), NEW S \in SUBSET Threads
  PROVE  LET r == TakeBlocked(s, S) IN
         /\ Books(r)
         /\ r.holder = s.holder /\ r.threads = s.threads /\ r.letGo = s.letGo
         /\ r.outside = s.outside /\ r.ready = s.ready /\ r.waiting = s.waiting \ S
         /\ r.runnable = s.runnable /\ r.why = s.why
<1> DEFINE r == TakeBlocked(s, S)
           gone == S \cap s.waiting
<1>1. s \in State /\ s.waiting \in SUBSET Threads /\ gone \in SUBSET s.waiting
  BY StateFields, Zenon DEF Books
<1>2. /\ r.holder = s.holder /\ r.threads = s.threads /\ r.letGo = s.letGo
      /\ r.outside = s.outside /\ r.ready = s.ready /\ r.waiting = s.waiting \ gone
      /\ r.runnable = s.runnable /\ r.why = s.why
      /\ r.blocked = s.blocked - Cardinality(gone)
  BY <1>1, Zenon DEF TakeBlocked, State
<1>3. r.waiting = s.waiting \ S
  BY <1>2, Zenon
<1>4. Cardinality(s.waiting \ gone) = Cardinality(s.waiting) - Cardinality(gone)
  BY <1>1, CardMinus, Zenon
<1>5. r.blocked = Cardinality(r.waiting) /\ r.blocked \in Nat
  BY <1>2, <1>4, <1>1, ThreadSets, Zenon DEF Books
<1>6. NoWait \in Wait
  BY SchedulerAssumption DEF NoWait, Wait, Keys, Times, Never
<1>7. r \in State
  BY <1>1, <1>2, <1>5, <1>6, Zenon DEF TakeBlocked, State
<1> QED
  BY <1>2, <1>3, <1>5, <1>7, Zenon DEF Books

(* unblock: the threads told are woken, and the counters follow. *)
LEMMA UnblockWakes ==
  ASSUME NEW s, Books(s), NEW D \in SUBSET Threads, NEW told \in [D -> Why]
  PROVE  Wakes(s, Unblock(s, told))
<1> DEFINE woken == D \cap s.waiting
           s1 == TakeBlocked(s, woken)
           r == Unblock(s, told)
<1>1. woken \in SUBSET Threads /\ woken \subseteq s.waiting /\ DOMAIN told = D
  BY StateFields, Zenon DEF Books
<1>2. /\ Books(s1)
      /\ s1.holder = s.holder /\ s1.threads = s.threads /\ s1.letGo = s.letGo
      /\ s1.outside = s.outside /\ s1.ready = s.ready /\ s1.waiting = s.waiting \ woken
      /\ s1.runnable = s.runnable /\ s1.why = s.why
  BY <1>1, TakeBlockedBooks, Zenon
<1>3. r = [s1 EXCEPT !.ready = @ \cup woken,
                     !.why = [t \in Threads |-> IF t \in woken THEN told[t] ELSE @[t]],
                     !.runnable = @ + Cardinality(woken \ s.ready)]
  BY <1>1, Zenon DEF Unblock
<1> HIDE DEF s1, r
<1>4. s1 \in State /\ s1.ready \in SUBSET Threads /\ s1.why \in [Threads -> Why]
  BY <1>2, StateFields, Zenon DEF Books
<1>5. /\ r.holder = s.holder /\ r.threads = s.threads /\ r.letGo = s.letGo
      /\ r.outside = s.outside /\ r.waiting = s.waiting \ woken /\ r.ready = s.ready \cup woken
      /\ r.runnable = s.runnable + Cardinality(woken \ s.ready)
      /\ r.blocked = s1.blocked
  BY <1>2, <1>3, <1>4, Zenon DEF State
<1>6. Cardinality(s.ready \cup woken) = Cardinality(s.ready) + Cardinality(woken \ s.ready)
  BY <1>1, <1>2, <1>4, CardPlus, Zenon
<1>7. r.runnable = Cardinality(r.ready) /\ r.runnable \in Nat
  BY <1>5, <1>6, <1>1, <1>2, <1>4, ThreadSets DEF Books
<1>8. r \in State
  BY <1>1, <1>3, <1>4, <1>5, <1>7, ZenonT(60) DEF State
<1>9. r.blocked = Cardinality(r.waiting)
  BY <1>5, <1>2, Zenon DEF Books
<1>10. r.ready = s.ready \cup (s.waiting \ r.waiting) /\ r.waiting \subseteq s.waiting
  BY <1>5, <1>1, Zenon
<1>11. r.ready \cap r.waiting = {} /\ r.ready \cup r.waiting \cup r.letGo \subseteq r.threads
  BY <1>5, <1>1, Zenon DEF Books
<1>12. Books(r)
  BY <1>7, <1>8, <1>9, <1>11, Zenon DEF Books
<1> QED
  BY <1>5, <1>10, <1>12, Zenon DEF Wakes, r

(* release_due and what wakes for more waits to be looked at again. *)
LEMMA ReleaseWakes ==
  ASSUME NEW s, Books(s), NEW due \in SUBSET Threads, NEW more \in SUBSET Threads
  PROVE  Wakes(s, Release(s, due, more))
<1> DEFINE told == [t \in due \cup more |-> IF t \in due THEN "TimedOut" ELSE "Woken"]
<1>1. due \cup more \in SUBSET Threads /\ told \in [due \cup more -> Why]
  BY Zenon DEF Why
<1>2. Wakes(s, Unblock(s, told))
  BY <1>1, UnblockWakes, Zenon
<1> QED
  BY <1>2, Zenon DEF Release

(* The same of a wake that gives every thread one reason. *)
LEMMA TellWakes ==
  ASSUME NEW s, Books(s), NEW S \in SUBSET Threads, NEW why \in Why
  PROVE  Wakes(s, Unblock(s, Tell(S, why)))
<1>1. Tell(S, why) \in [S -> Why]
  BY Zenon DEF Tell
<1> QED
  BY <1>1, UnblockWakes, Zenon

(* The clock's wakes: a move of it, and releases of what is due. *)
LEMMA ClockWakes ==
  ASSUME NEW s, Books(s), NEW time
  PROVE  /\ \A fired : Wakes(s, Moved(s, time, fired))
         /\ Wakes(s, ReleaseDue(s, time)) /\ Wakes(s, ReleaseDueNative(s, time))
         /\ Wakes(s, Release(s, {}, Repolled(s)))
<1>1. s.waiting \in SUBSET Threads
  BY StateFields, Zenon DEF Books
<1>2. /\ DueBy(s, time) \in SUBSET Threads /\ Timed(s) \in SUBSET Threads
      /\ Repolled(s) \in SUBSET Threads
      /\ {t \in DueBy(s, time) : s.wait[t].key \in AddrKeys} \in SUBSET Threads
  BY <1>1, Zenon DEF DueBy, Timed, Repolled
<1>3. Wakes(s, s)
  BY Zenon DEF Wakes, Books
<1>4. ASSUME NEW fired
      PROVE  Wakes(s, Moved(s, time, fired))
  <2>1. Timed(s) \cup (IF fired THEN Repolled(s) ELSE {}) \in SUBSET Threads
    BY <1>2, Zenon
  <2> QED
    BY <1>2, <2>1, ReleaseWakes, Zenon DEF Moved
<1>5. Wakes(s, ReleaseDue(s, time)) /\ Wakes(s, Release(s, {}, Repolled(s)))
  BY <1>2, ReleaseWakes, Zenon DEF ReleaseDue
<1>6. Wakes(s, ReleaseDueNative(s, time))
  BY <1>2, <1>3, ReleaseWakes, Zenon DEF ReleaseDueNative
<1> QED
  BY <1>4, <1>5, <1>6, Zenon

(* wake_foreign_locked and take_foreign. *)
LEMMA WakeForeignWakes ==
  ASSUME NEW s, Books(s), NEW K \in SUBSET Keys
  PROVE  Wakes(s, WakeForeign(s, K))
<1> DEFINE woken == UNION {Oldest(s, Waiters(s, k), 1) : k \in K}
           s1 == Unblock(s, Tell(woken, "Woken"))
           kept == {k \in K : Waiters(s, k) = {}}
<1>1. woken \in SUBSET Threads
  BY StateFields, Zenon DEF Books, Oldest, Waiters
<1>2. Wakes(s, s1)
  BY <1>1, TellWakes, Zenon DEF Why
<1>3. WakeForeign(s, K) = [s1 EXCEPT !.foreign = @ \cup kept] /\ kept \in SUBSET Keys
  BY Zenon DEF WakeForeign
<1>4. s1 \in State /\ Books(s1)
  BY <1>2, Zenon DEF Wakes, Books
<1> HIDE DEF s1, kept
<1>5. Same(s1, WakeForeign(s, K))
  BY <1>3, <1>4, SMTT(30) DEF Same, State
<1> QED
  BY <1>2, <1>4, <1>5, SameBooks, Zenon

(* disown. *)
LEMMA DisownWakes ==
  ASSUME NEW s, Books(s), NEW t, NEW K
  PROVE  Wakes(s, Disown(s, t, K))
<1> DEFINE mine == {a \in Addrs : s.owner[a] = t}
           freed == {u \in s.waiting : s.wait[u].key \in K \cup {Addr(a) : a \in mine}}
           s1 == Unblock(s, Tell(freed, "Woken"))
<1>1. freed \in SUBSET Threads
  BY StateFields, Zenon DEF Books
<1>2. Wakes(s, s1)
  BY <1>1, TellWakes, Zenon DEF Why
<1>3. Disown(s, t, K) = [s1 EXCEPT !.owner = [a \in Addrs |-> IF a \in mine THEN None ELSE @[a]]]
  BY Zenon DEF Disown
<1>4. s1 \in State /\ Books(s1)
  BY <1>2, Zenon DEF Wakes, Books
<1> HIDE DEF s1, mine
<1>5. Same(s1, Disown(s, t, K))
  BY <1>3, <1>4 DEF Same, State
<1> QED
  BY <1>2, <1>4, <1>5, SameBooks, Zenon

(* disown, by a thread without mutexes that nobody else's waits ended with. *)
LEMMA DisownNothing ==
  ASSUME NEW s, Books(s), NEW t, \A a \in Addrs : s.owner[a] # t
  PROVE  Disown(s, t, {}).ready = s.ready
<1> DEFINE s1 == Unblock(s, Tell({}, "Woken"))
<1>1. {a \in Addrs : s.owner[a] = t} = {}
  OBVIOUS
<1>2. {u \in s.waiting : s.wait[u].key \in {} \cup {Addr(a) : a \in {}}} = {}
  OBVIOUS
<1>3. Disown(s, t, {}) = [s1 EXCEPT !.owner = [a \in Addrs |-> IF a \in {} THEN None ELSE @[a]]]
  BY <1>1, <1>2, Zenon DEF Disown
<1>4. Wakes(s, s1)
  BY TellWakes, Zenon DEF Why
<1>5. TakeBlocked(s, {}).ready = s.ready
  BY TakeBlockedBooks, Zenon
<1>6. DOMAIN Tell({}, "Woken") \cap s.waiting = {}
  BY Zenon DEF Tell
<1>7. s1.ready = s.ready
  BY <1>5, <1>6, TakeBlockedBooks DEF Unblock, Books, State
<1> HIDE DEF s1
<1> QED
  BY <1>3, <1>4, <1>7, Zenon DEF Wakes, Books, State

(* set_runnable: t is queued, and counted if it was not. *)
LEMMA SetRunnableBooks ==
  ASSUME NEW s, Books(s), NEW t \in s.threads, t \notin s.waiting, NEW why \in Why
  PROVE  LET r == SetRunnable(s, t, why) IN
         /\ Books(r) /\ r.ready = s.ready \cup {t}
         /\ r.holder = s.holder /\ r.threads = s.threads /\ r.letGo = s.letGo
         /\ r.outside = s.outside /\ r.waiting = s.waiting
<1> DEFINE r == SetRunnable(s, t, why)
<1>1. s \in State /\ t \in Threads /\ s.ready \in SUBSET Threads
  BY StateFields, Zenon DEF Books
<1>2. /\ r.ready = s.ready \cup {t} /\ r.holder = s.holder /\ r.threads = s.threads
      /\ r.letGo = s.letGo /\ r.outside = s.outside /\ r.waiting = s.waiting
      /\ r.blocked = s.blocked
      /\ r.runnable = IF t \in s.ready THEN s.runnable ELSE s.runnable + 1
  BY <1>1, Zenon DEF SetRunnable, State
<1>3. Cardinality(r.ready) = IF t \in s.ready THEN Cardinality(s.ready) ELSE Cardinality(s.ready) + 1
  BY <1>1, <1>2, ThreadSets, FS_AddElement
<1>4. r.runnable = Cardinality(r.ready) /\ r.runnable \in Nat
  BY <1>1, <1>2, <1>3, ThreadSets, Zenon DEF Books
<1>5. r \in State
  BY <1>1, <1>2, <1>4, ZenonT(60) DEF SetRunnable, State
<1> HIDE DEF r
<1>6. Books(r)
  BY <1>2, <1>4, <1>5, Zenon DEF Books
<1> QED
  BY <1>2, <1>6, Zenon DEF r

(* take_runnable: t leaves the queue, and is counted off if it was there. *)
LEMMA TakeRunnableBooks ==
  ASSUME NEW s, Books(s), NEW t \in Threads
  PROVE  LET r == TakeRunnable(s, t) IN
         /\ Books(r) /\ r.ready = s.ready \ {t}
         /\ r.holder = s.holder /\ r.threads = s.threads /\ r.letGo = s.letGo
         /\ r.outside = s.outside /\ r.waiting = s.waiting
<1> DEFINE r == TakeRunnable(s, t)
<1>1. s \in State /\ s.ready \in SUBSET Threads
  BY StateFields, Zenon DEF Books
<1>2. /\ r.ready = s.ready \ {t} /\ r.holder = s.holder /\ r.threads = s.threads
      /\ r.letGo = s.letGo /\ r.outside = s.outside /\ r.waiting = s.waiting
      /\ r.blocked = s.blocked
      /\ r.runnable = IF t \in s.ready THEN s.runnable - 1 ELSE s.runnable
  BY <1>1, Zenon DEF TakeRunnable, State
<1>3. Cardinality(r.ready) = IF t \in s.ready THEN Cardinality(s.ready) - 1 ELSE Cardinality(s.ready)
  BY <1>1, <1>2, ThreadSets, FS_RemoveElement
<1>4. r.runnable = Cardinality(r.ready) /\ r.runnable \in Nat
  BY <1>1, <1>2, <1>3, ThreadSets, Zenon DEF Books
<1>5. r \in State
  BY <1>1, <1>2, <1>4, ZenonT(40) DEF TakeRunnable, State, Why
<1> HIDE DEF r
<1>6. Books(r)
  BY <1>2, <1>4, <1>5, Zenon DEF Books
<1> QED
  BY <1>2, <1>6, Zenon DEF r

(* set_blocked: t, which was not queued, waits and is counted. *)
LEMMA SetBlockedBooks ==
  ASSUME NEW s, Books(s), NEW t \in s.threads, t \notin s.ready, NEW w \in Wait
  PROVE  LET r == SetBlocked(s, t, w) IN
         /\ Books(r) /\ r.waiting = s.waiting \cup {t}
         /\ r.holder = s.holder /\ r.threads = s.threads /\ r.letGo = s.letGo
         /\ r.outside = s.outside /\ r.ready = s.ready
<1> DEFINE r == SetBlocked(s, t, w)
<1>1. s \in State /\ t \in Threads /\ s.waiting \in SUBSET Threads
  BY StateFields, Zenon DEF Books
<1>2. /\ r.ready = s.ready /\ r.holder = s.holder /\ r.threads = s.threads
      /\ r.letGo = s.letGo /\ r.outside = s.outside /\ r.waiting = s.waiting \cup {t}
      /\ r.runnable = s.runnable
      /\ r.blocked = IF t \in s.waiting THEN s.blocked ELSE s.blocked + 1
  BY <1>1, Zenon DEF SetBlocked, State
<1>3. Cardinality(r.waiting) = IF t \in s.waiting THEN Cardinality(s.waiting) ELSE Cardinality(s.waiting) + 1
  BY <1>1, <1>2, ThreadSets, FS_AddElement
<1>4. r.blocked = Cardinality(r.waiting) /\ r.blocked \in Nat
  BY <1>1, <1>2, <1>3, ThreadSets, Zenon DEF Books
<1>5. r \in State
  BY <1>1, <1>2, <1>4, ZenonT(60) DEF SetBlocked, State
<1> HIDE DEF r
<1>6. Books(r)
  BY <1>2, <1>4, <1>5, Zenon DEF Books
<1> QED
  BY <1>2, <1>6, Zenon DEF r

(* grant_next's choice is a queued thread. *)
LEMMA NextReadyIsReady ==
  ASSUME NEW s, Books(s), s.ready # {}
  PROVE  NextReady(s) \in s.ready
<1>1. s.ready \in SUBSET Threads /\ {t \in s.ready : t > s.last} \in SUBSET Threads
  BY StateFields, Zenon DEF Books
<1> QED
  BY <1>1, LeastThread, Zenon DEF NextReady

-----------------------------------------------------------------------------
(* What ties a thread to its slot: `where` is its pc, `grant` what is in    *)
(* its latch and `fly` what is on the way there.                            *)

InWait == {"parked", "duty"} \cup Locked \cup Asleep
Native == {"native", "rejoin"}

Fits(s, where, grant, fly, t) ==
  /\ t \in s.threads => where \notin {"out", "gone"}
  /\ s.holder = t => where # "out" /\ (t \in s.threads \/ where = "gone")
  /\ s.holder = t => where \in Running \/ where = "gone" \/ fly # "none" \/ grant \in Why
  /\ s.holder = t /\ "fail" \notin Events => where # "gone"
  /\ where = "born" /\ t \in s.threads => t \in s.ready \/ s.holder = t
  /\ where = "born" /\ "latespawn" \notin Events => t \in s.threads
  /\ where \in InWait /\ "latespawn" \notin Events =>
       t \in s.ready \/ t \in s.waiting \/ fly # "none" \/ grant \in Why
  /\ t \in s.waiting => where \in InWait /\ t \notin s.letGo /\ s.holder # t
  /\ t \in s.ready => where \in InWait \cup Native \cup {"born"} /\ s.holder # t
  /\ fly # "none" \/ grant \in Why =>
       /\ s.holder = t \/ t \in s.letGo
       /\ where \in InWait \cup Native \cup {"born", "gone"}
       /\ where \in Native => s.holder = t
       /\ fly # "none" => grant \notin Why /\ s.holder = t
  /\ t \in s.letGo =>
       /\ where \notin {"out", "born", "gone"}
       /\ t \in s.ready \/ s.holder = t => where \in Native
  /\ s.outside[t] # NoKey => t \in s.letGo /\ where \in Native /\ t \notin s.ready /\ s.holder # t
  /\ where \in Native /\ (t \in s.ready \/ s.holder = t) => t \in s.letGo
  /\ where \in {"active", "hook", "block"} => t \in s.letGo
  /\ where \in {"yield", "advance"} => s.holder = t

AllFit(s, p, l, f) == \A t \in Threads : Fits(s, p[t], l[t], f[t], t)

(* A thread that fits still does when waits, its own perhaps, have ended. *)
LEMMA WakesFit ==
  ASSUME NEW s, NEW r, Books(s), Wakes(s, r), NEW p, NEW l, NEW f, AllFit(s, p, l, f)
  PROVE  AllFit(r, p, l, f)
<1> SUFFICES ASSUME NEW t \in Threads, Fits(s, p[t], l[t], f[t], t)
             PROVE  Fits(r, p[t], l[t], f[t], t)
  BY Zenon DEF AllFit
<1> QED
  BY DEF Fits, Wakes, InWait, Native, Locked, Asleep

(* wake_outside: threads in native waits on a key are queued. *)
LEMMA WakeOutsideFits ==
  ASSUME NEW s, Books(s), NEW p, NEW l, NEW f, AllFit(s, p, l, f), NEW key, key # NoKey, NEW n
  PROVE  LET r == WakeOutside(s, key, n) IN
         /\ Books(r) /\ AllFit(r, p, l, f)
         /\ r.holder = s.holder /\ r.waiting = s.waiting
         /\ r.threads = s.threads /\ r.letGo = s.letGo
<1> DEFINE woken == Lowest({t \in s.threads : s.outside[t] = key}, n)
           r == WakeOutside(s, key, n)
<1>1. s \in State /\ s.threads \in SUBSET Threads /\ s.ready \in SUBSET Threads
  BY StateFields, Zenon DEF Books
<1>2. /\ woken \in SUBSET Threads /\ woken \subseteq s.threads
      /\ \A t \in woken : s.outside[t] # NoKey
  BY <1>1, Zenon DEF Lowest
<1>3. r = [s EXCEPT !.outside = [t \in Threads |-> IF t \in woken THEN NoKey ELSE @[t]],
                    !.ready = @ \cup woken,
                    !.why = [t \in Threads |-> IF t \in woken THEN "Woken" ELSE @[t]],
                    !.runnable = @ + Cardinality(woken \ s.ready)]
  BY Zenon DEF WakeOutside
<1> HIDE DEF woken, r
<1>4. /\ r.holder = s.holder /\ r.threads = s.threads /\ r.letGo = s.letGo
      /\ r.waiting = s.waiting /\ r.blocked = s.blocked /\ r.ready = s.ready \cup woken
      /\ r.outside = [t \in Threads |-> IF t \in woken THEN NoKey ELSE s.outside[t]]
      /\ r.runnable = s.runnable + Cardinality(woken \ s.ready)
  BY <1>1, <1>3, Zenon DEF State
<1>5. r.runnable = Cardinality(r.ready) /\ r.runnable \in Nat
  <2>1. Cardinality(s.ready \cup woken) = Cardinality(s.ready) + Cardinality(woken \ s.ready)
    BY <1>1, <1>2, CardPlus, Zenon
  <2> QED
    BY <2>1, <1>1, <1>2, <1>4, ThreadSets DEF Books
<1>6. r \in State
  BY <1>1, <1>2, <1>3, <1>4, <1>5, Zenon DEF State, Why
<1>7. \A t \in woken : t \in s.letGo /\ t \notin s.waiting /\ s.holder # t /\ p[t] \in Native
  BY <1>2, Zenon DEF AllFit, Fits
<1>8. Books(r)
  BY <1>2, <1>4, <1>5, <1>6, <1>7, Zenon DEF Books
<1>9. AllFit(r, p, l, f)
  <2> SUFFICES ASSUME NEW t \in Threads, Fits(s, p[t], l[t], f[t], t)
               PROVE  Fits(r, p[t], l[t], f[t], t)
    BY Zenon DEF AllFit
  <2>1. CASE t \in woken
    BY <2>1, <1>2, <1>4, <1>7, Zenon DEF Fits, InWait, Native, Locked, Asleep
  <2>2. CASE t \notin woken
    BY <2>2, <1>4, Zenon DEF Fits
  <2> QED
    BY <2>1, <2>2, Zenon
<1> QED
  BY <1>4, <1>8, <1>9, Zenon DEF r

(* What grant_next on s leaves alone, and what it does. *)
LEMMA GrantNextFrame ==
  ASSUME NEW s, Books(s), GrantNext(s)
  PROVE  /\ st'.threads = s.threads /\ st'.letGo = s.letGo /\ st'.waiting = s.waiting
         /\ st'.wait = s.wait /\ st'.older = s.older
         /\ \/ s.ready = {} /\ st' = s /\ flight' = flight
            \/ \E n \in s.ready :
                 /\ st'.holder = n /\ st'.ready = s.ready \ {n}
                 /\ flight' = [flight EXCEPT ![n] = s.why[n]]
                 /\ \A t \in Threads \ {n} : st'.why[t] = s.why[t]
<1>1. CASE s.ready = {}
  BY <1>1, Zenon DEF GrantNext
<1>2. CASE s.ready # {}
  <2> DEFINE n == NextReady(s)
             s1 == TakeRunnable(s, n)
  <2>1. n \in s.ready /\ n \in Threads /\ s \in State
    BY <1>2, NextReadyIsReady, StateFields, Zenon DEF Books
  <2>2. /\ s1 \in State /\ s1.ready = s.ready \ {n} /\ s1.threads = s.threads
        /\ s1.letGo = s.letGo /\ s1.waiting = s.waiting
    BY <2>1, TakeRunnableBooks DEF Books
  <2>3. s1.wait = s.wait /\ s1.older = s.older /\ s1.why = [s.why EXCEPT ![n] = "Woken"]
    BY <2>1, Zenon DEF TakeRunnable, State
  <2>4. st' = [s1 EXCEPT !.holder = n, !.last = n] /\ flight' = [flight EXCEPT ![n] = s.why[n]]
    BY <1>2, Zenon DEF GrantNext, Granted
  <2> HIDE DEF n, s1
  <2>5. /\ st'.holder = n /\ st'.ready = s1.ready /\ st'.threads = s1.threads
        /\ st'.letGo = s1.letGo /\ st'.waiting = s1.waiting
        /\ st'.wait = s1.wait /\ st'.older = s1.older /\ st'.why = s1.why
    BY <2>2, <2>4, Zenon DEF State
  <2>6. \A t \in Threads \ {n} : st'.why[t] = s.why[t]
    BY <2>1, <2>3, <2>5, StateFields, Zenon
  <2> QED
    BY <2>1, <2>2, <2>3, <2>4, <2>5, <2>6, Zenon
<1> QED
  BY <1>1, <1>2, Zenon

(* A grant: s without a holder gives the baton to a queued thread. *)
LEMMA GrantNextFits ==
  ASSUME NEW s, Books(s), s.holder = None, flight \in [Threads -> Why \cup {"none"}],
         NEW p, NEW l, AllFit(s, p, l, flight), GrantNext(s)
  PROVE  /\ Books(st') /\ AllFit(st', p, l, flight')
         /\ flight' \in [Threads -> Why \cup {"none"}]
         /\ st'.holder = None => st'.ready = {}
         /\ s.ready = {} => st' = s
         /\ st'.waiting = s.waiting
<1>1. CASE s.ready = {}
  BY <1>1, Zenon DEF GrantNext
<1>2. CASE s.ready # {}
  <2> DEFINE n == NextReady(s)
             s1 == TakeRunnable(s, n)
  <2>1. n \in s.ready /\ n \in Threads /\ s.why[n] \in Why
    BY <1>2, NextReadyIsReady, StateFields, Zenon DEF Books
  <2>2. /\ Books(s1) /\ s1.ready = s.ready \ {n} /\ s1.threads = s.threads
        /\ s1.letGo = s.letGo /\ s1.outside = s.outside /\ s1.waiting = s.waiting
    BY <2>1, TakeRunnableBooks
  <2>3. st' = [s1 EXCEPT !.holder = n, !.last = n] /\ flight' = [flight EXCEPT ![n] = s.why[n]]
    BY <1>2, Zenon DEF GrantNext, Granted
  <2> HIDE DEF n, s1
  <2>4. /\ st'.holder = n /\ st'.ready = s.ready \ {n} /\ st'.threads = s.threads
        /\ st'.letGo = s.letGo /\ st'.outside = s.outside /\ st'.waiting = s.waiting
    BY <2>2, <2>3, Zenon DEF Books, State
  <2>5. Books(st')
    <3>1. st' \in State
      BY <2>1, <2>2, <2>3, ZenonT(60) DEF Books, State
    <3>2. st'.runnable = s1.runnable /\ st'.blocked = s1.blocked
      BY <2>2, <2>3, Zenon DEF Books, State
    <3> QED
      BY <3>1, <3>2, <2>2, <2>4, Zenon DEF Books
  <2>6. AllFit(st', p, l, flight')
    <3> SUFFICES ASSUME NEW t \in Threads, Fits(s, p[t], l[t], flight[t], t)
                 PROVE  Fits(st', p[t], l[t], flight'[t], t)
      BY Zenon DEF AllFit
    <3>0. None # t
      BY SchedulerAssumption, Zenon
    <3>1. CASE t = n
      <4>1. l[t] \notin Why /\ t \notin s.waiting /\ t \in s.threads
        BY <3>0, <3>1, <2>1, Zenon DEF Fits, Books
      <4>2. p[t] \notin {"out", "gone"} /\ flight'[t] # "none"
        BY <3>1, <2>1, <2>3, Zenon DEF Fits, InWait, Native, Locked, Asleep, Why
      <4> QED
        BY <4>1, <4>2, <3>0, <3>1, <2>1, <2>3, <2>4, Zenon DEF Fits
    <3>2. CASE t # n
      <4>1. /\ flight'[t] = flight[t] /\ (t \in st'.ready <=> t \in s.ready)
            /\ st'.holder # t /\ s.holder # t
        BY <3>0, <3>2, <2>3, <2>4, Zenon
      <4> QED
        BY <4>1, <2>4, Zenon DEF Fits
    <3> QED
      BY <3>1, <3>2, Zenon
  <2>7. st'.holder # None
    BY <2>1, <2>4, SchedulerAssumption, Zenon
  <2> QED
    BY <1>2, <2>1, <2>3, <2>4, <2>5, <2>6, <2>7, Zenon
<1> QED
  BY <1>1, <1>2, Zenon

(* grant_if_idle: the same, and nothing if there is a holder. *)
LEMMA GrantIfIdleFits ==
  ASSUME NEW s, Books(s), flight \in [Threads -> Why \cup {"none"}],
         NEW p, NEW l, AllFit(s, p, l, flight), GrantIfIdle(s)
  PROVE  /\ Books(st') /\ AllFit(st', p, l, flight')
         /\ flight' \in [Threads -> Why \cup {"none"}]
         /\ st'.holder = None => st'.ready = {}
         /\ s.ready = {} => st' = s
         /\ st'.waiting = s.waiting
  BY GrantNextFits, Zenon DEF GrantIfIdle

(* hand_on: the baton is passed on, or the duty to dispatch given out. *)
LEMMA HandOnFits ==
  ASSUME NEW s, s \in State, NEW z, z = [s EXCEPT !.holder = None], Books(z),
         flight \in [Threads -> Why \cup {"none"}],
         NEW l \in [Threads -> Why \cup {"none", "dispatch"}],
         NEW p, AllFit(z, p, l, flight), HandOn(s, l)
  PROVE  /\ Books(st') /\ AllFit(st', p, latch', flight')
         /\ flight' \in [Threads -> Why \cup {"none"}]
         /\ latch' \in [Threads -> Why \cup {"none", "dispatch"}]
         /\ st'.holder = None => st'.ready = {}
         /\ s.ready = {} => st' = z
         /\ st'.waiting = z.waiting
<1>1. z.holder = None /\ z.ready = s.ready /\ z.waiting = s.waiting
  BY Zenon DEF State
<1>2. GrantNext(z)
  BY Zenon DEF HandOn
<1>3. /\ Books(st') /\ AllFit(st', p, l, flight')
      /\ flight' \in [Threads -> Why \cup {"none"}]
      /\ st'.holder = None => st'.ready = {}
      /\ s.ready = {} => st' = z
      /\ st'.waiting = z.waiting
  BY <1>1, <1>2, GrantNextFits, Zenon
<1>4. \/ latch' = l
      \/ \E u \in Threads : latch' = [l EXCEPT ![u] = "dispatch"] /\ l[u] = "none"
  <2>1. CASE s.ready = {} /\ s.waiting # {} /\ l[Least(s.waiting)] = "none"
    BY <2>1, LeastThread, StateFields, Zenon DEF HandOn, DelegateFirst
  <2>2. CASE ~(s.ready = {} /\ s.waiting # {} /\ l[Least(s.waiting)] = "none")
    BY <2>2, Zenon DEF HandOn, DelegateFirst
  <2> QED
    BY <2>1, <2>2, Zenon
<1>5. latch' \in [Threads -> Why \cup {"none", "dispatch"}]
  BY <1>4, Zenon
<1>6. \A t \in Threads : latch'[t] \in Why <=> l[t] \in Why
  BY <1>4, Zenon DEF Why
<1>7. AllFit(st', p, latch', flight')
  <2> SUFFICES ASSUME NEW t \in Threads, Fits(st', p[t], l[t], flight'[t], t)
               PROVE  Fits(st', p[t], latch'[t], flight'[t], t)
    BY <1>3, Zenon DEF AllFit
  <2> QED
    BY <1>6, Zenon DEF Fits
<1> QED
  BY <1>3, <1>5, <1>7, Zenon

-----------------------------------------------------------------------------
(* The inductive invariant: `Core` speaks of the State and the grants,      *)
(* `Rest` of everything else.                                               *)

(* Past the point of a pass where dispatch has found nothing to grant. *)
Past == {"stuck", "unleased", "noskip", "timeless"}
Quiet == \A t \in Threads : locker = t /\ pc[t] \in Past => st.ready = {}

Core ==
  /\ Books(st) /\ AllFit(st, pc, latch, flight)
  /\ latch \in [Threads -> Why \cup {"none", "dispatch"}]
  /\ flight \in [Threads -> Why \cup {"none"}]
  /\ locker # None => st.holder = None
  /\ DetachedEmpty /\ WorkConserving /\ Quiet

Rest ==
  /\ locker \in Threads \cup {None} /\ detached \in BOOLEAN /\ queued \subseteq AddrKeys
  /\ pc \in [Threads -> PC] /\ kid \in [Threads -> Threads \cup {None}]
  /\ part \subseteq Threads
  /\ timers \in [Threads -> Times] /\ before \in [Threads -> Times]
  /\ changed \subseteq Threads /\ cleared \subseteq Threads /\ now \in 0 .. MaxTime
  /\ held \in BOOLEAN /\ leased \in BOOLEAN /\ kicks \in BOOLEAN /\ timerWakes \in BOOLEAN
  /\ \A t \in Threads : pc[t] \in Locked <=> locker = t
  /\ \A t \in Threads : pc[t] = "create" => kid[t] \in Threads

IInv == Core /\ Rest

(* The invariant implies the properties. *)
LEMMA IInvImplies ==
  IInv => TypeOK /\ Balanced /\ GrantsHonest /\ DetachedEmpty /\ WorkConserving
<1> SUFFICES ASSUME IInv
             PROVE  TypeOK /\ Balanced /\ GrantsHonest /\ DetachedEmpty /\ WorkConserving
  OBVIOUS
<1>1. st \in State /\ st.threads \in SUBSET Threads
  BY StateFields, Zenon DEF IInv, Core, Books
<1>2. TypeOK
  BY <1>1, Zenon DEF TypeOK, IInv, Core, Rest
<1>3. st.holder \notin st.ready \cup st.waiting
  BY <1>1, Zenon DEF IInv, Core, Books, AllFit, Fits
<1>4. Balanced
  BY <1>3, Zenon DEF IInv, Core, Books, Balanced
<1>5. GrantsHonest
  BY Zenon DEF GrantsHonest, HasGrant, IInv, Core, AllFit, Fits
<1> QED
  BY <1>2, <1>4, <1>5, Zenon DEF IInv, Core

(* It holds at first. *)
LEMMA InitIInv == Init => IInv
<1> SUFFICES ASSUME Init
             PROVE  IInv
  OBVIOUS
<1>1. NoWait \in Wait
  BY SchedulerAssumption DEF NoWait, Wait, Keys, Times, Never
<1>2. /\ st.holder = None /\ st.threads = {} /\ st.ready = {} /\ st.waiting = {}
      /\ st.letGo = {} /\ st.outside = [t \in Threads |-> NoKey]
      /\ st.runnable = 0 /\ st.blocked = 0
  BY Zenon DEF Init
<1>3. st \in State
  BY <1>1, Zenon DEF Init, State, Why
<1>4. Books(st)
  BY <1>2, <1>3, FS_EmptySet, Zenon DEF Books
<1>5. AllFit(st, pc, latch, flight)
  BY <1>2, SchedulerAssumption, Zenon DEF Init, AllFit, Fits, Native, Why, Running, InWait, Locked, Asleep
<1>6. Core
  BY <1>2, <1>4, <1>5, SchedulerAssumption, Zenon DEF Core, Init, DetachedEmpty, WorkConserving, Quiet
<1>7. 0 \in Times /\ Never \in Times /\ 0 \in 0 .. MaxTime
  BY SchedulerAssumption DEF Times, Never
<1>8. pc \in [Threads -> PC] /\ \A t \in Threads : pc[t] = "out"
  BY Zenon DEF Init, PC
<1>9. Rest
  BY <1>7, <1>8, SchedulerAssumption, Zenon DEF Rest, Init, Locked
<1> QED
  BY <1>6, <1>9, Zenon DEF IInv

(* The deadlines of waits, and where time is moved to. *)
LEMMA TimeTypes ==
  ASSUME Rest
  PROVE  /\ 0 \in Times /\ Never \in Times /\ now \in Times
         /\ now < MaxTime => now + 1 \in 0 .. MaxTime
         /\ Ahead # {} => NextTimer \in 0 .. MaxTime /\ \A u \in Ahead : NextTimer <= u
         /\ \A w \in Waits : now + w.after <= MaxTime => Deadline(w) \in Times /\ Blocked(w) \in Wait
<1>1. /\ 0 \in Times /\ Never \in Times /\ now \in Times
      /\ now < MaxTime => now + 1 \in 0 .. MaxTime
  BY SchedulerAssumption DEF Rest, Times, Never
<1>2. ASSUME Ahead # {}
      PROVE  NextTimer \in 0 .. MaxTime /\ \A u \in Ahead : NextTimer <= u
  <2>1. now + 1 \in Int /\ MaxTime \in Int /\ (now + 1) .. MaxTime \subseteq 0 .. MaxTime
    BY SchedulerAssumption DEF Rest
  <2>2. IsFiniteSet((now + 1) .. MaxTime) /\ Ahead \subseteq (now + 1) .. MaxTime
    BY <2>1, FS_Interval, Zenon DEF Ahead
  <2>3. IsFiniteSet(Ahead)
    BY <2>2, FS_Subset, Zenon
  <2>4. Ahead \in SUBSET Nat
    BY <2>1, <2>2, SchedulerAssumption
  <2>5. Least(Ahead) \in Ahead /\ \A u \in Ahead : Least(Ahead) <= u
    BY <1>2, <2>3, <2>4, LeastMember, Zenon
  <2> QED
    BY <2>1, <2>2, <2>5, Zenon DEF NextTimer
<1>3. ASSUME NEW w \in Waits, now + w.after <= MaxTime
      PROVE  Deadline(w) \in Times /\ Blocked(w) \in Wait
  <2>1. w \in [key : Keys, after : Nat, timed : BOOLEAN, word : BOOLEAN, shared : BOOLEAN]
    BY WaitsAssumption, Zenon
  <2>2. w.after \in Nat /\ w.key \in Keys
    BY <2>1, Zenon
  <2>3. Deadline(w) \in Times
    BY <1>3, <2>2, SchedulerAssumption DEF Rest, Deadline, Times, Never
  <2> QED
    BY <2>1, <2>3, Zenon DEF Blocked, Wait
<1> QED
  BY <1>1, <1>2, <1>3, Zenon

-----------------------------------------------------------------------------
(* Every step keeps Core.  A step made with the state lock free either      *)
(* grants if idle, hands the baton on, or changes the State without either. *)

(* Steps that end in grant_if_idle. *)
LEMMA GrantCore ==
  ASSUME Core, Free, UNCHANGED <<locker, detached, latch>>, NEW s, Books(s),
         AllFit(s, pc', latch, flight), GrantIfIdle(s),
         detached => s.holder \notin Threads /\ s.ready = {} /\ s.waiting = {}
  PROVE  Core'
<1>1. /\ Books(st') /\ AllFit(st', pc', latch, flight')
      /\ flight' \in [Threads -> Why \cup {"none"}]
      /\ st'.holder = None => st'.ready = {}
      /\ s.ready = {} => st' = s
  BY GrantIfIdleFits, Zenon DEF Core
<1>2. DetachedEmpty' /\ WorkConserving' /\ Quiet'
  BY <1>1, SchedulerAssumption, Zenon DEF DetachedEmpty, WorkConserving, Quiet, Free
<1> QED
  BY <1>1, <1>2, Zenon DEF Core, Free

(* In particular those that only wake. *)
LEMMA WakeCore ==
  ASSUME Core, Free, UNCHANGED <<locker, detached, latch, pc>>, NEW s, Wakes(st, s), GrantIfIdle(s)
  PROVE  Core'
<1>1. Books(s) /\ AllFit(s, pc, latch, flight)
  BY WakesFit, Zenon DEF Core, Wakes
<1>2. detached => s.holder \notin Threads /\ s.ready = {} /\ s.waiting = {}
  BY Zenon DEF Core, DetachedEmpty, Wakes
<1> QED
  BY <1>1, <1>2, GrantCore, Zenon

(* Steps that hand the baton on. *)
LEMMA HandOnCore ==
  ASSUME Core, Free, UNCHANGED <<locker, detached>>, NEW s \in State,
         NEW z, z = [s EXCEPT !.holder = None], Books(z),
         NEW l \in [Threads -> Why \cup {"none", "dispatch"}],
         AllFit(z, pc', l, flight), HandOn(s, l),
         detached => s.ready = {} /\ s.waiting = {}
  PROVE  Core'
<1>1. /\ Books(st') /\ AllFit(st', pc', latch', flight')
      /\ flight' \in [Threads -> Why \cup {"none"}]
      /\ latch' \in [Threads -> Why \cup {"none", "dispatch"}]
      /\ st'.holder = None => st'.ready = {}
      /\ s.ready = {} => st' = z
  BY HandOnFits, Zenon DEF Core
<1>2. z.holder = None /\ z.ready = s.ready /\ z.waiting = s.waiting
  BY Zenon DEF State
<1>3. DetachedEmpty' /\ WorkConserving' /\ Quiet'
  BY <1>1, <1>2, SchedulerAssumption, Zenon DEF DetachedEmpty, WorkConserving, Quiet, Free
<1> QED
  BY <1>1, <1>3, Zenon DEF Core, Free

(* The others. *)
LEMMA PlainCore ==
  ASSUME Core, Free, UNCHANGED <<locker, latch, flight>>, Books(st'),
         AllFit(st', pc', latch, flight), DetachedEmpty',
         st'.holder = None => st'.ready = {}
  PROVE  Core'
<1>1. WorkConserving' /\ Quiet'
  BY SchedulerAssumption, Zenon DEF WorkConserving, Quiet, Free
<1> QED
  BY <1>1, Zenon DEF Core, Free

(* exit, before the waits on t end. *)
Gone(s, t) ==
  LET s1 == TakeBlocked(TakeRunnable(s, t), {t})
  IN  [s1 EXCEPT !.roots = IF t \in Roots /\ @ > 0 THEN @ - 1 ELSE @,
                 !.exited = @ \cup {t},
                 !.threads = @ \ {t}, !.letGo = @ \ {t},
                 !.outside[t] = NoKey, !.spinner[t] = "no"]

(* t's slot goes. *)
LEMMA GoneBooks ==
  ASSUME NEW s, Books(s), NEW t \in Threads
  PROVE  LET r == Gone(s, t) IN
         /\ Books(r) /\ r.holder = s.holder
         /\ r.threads = s.threads \ {t} /\ r.letGo = s.letGo \ {t}
         /\ r.outside = [s.outside EXCEPT ![t] = NoKey]
         /\ r.ready = s.ready \ {t} /\ r.waiting = s.waiting \ {t}
<1> DEFINE s0 == TakeRunnable(s, t)
           s1 == TakeBlocked(s0, {t})
           s2 == [s1 EXCEPT !.roots = IF t \in Roots /\ @ > 0 THEN @ - 1 ELSE @,
                            !.exited = @ \cup {t},
                            !.threads = @ \ {t}, !.letGo = @ \ {t},
                            !.outside[t] = NoKey, !.spinner[t] = "no"]
<1>1. /\ Books(s0) /\ s0.ready = s.ready \ {t}
      /\ s0.holder = s.holder /\ s0.threads = s.threads /\ s0.letGo = s.letGo
      /\ s0.outside = s.outside /\ s0.waiting = s.waiting
  BY TakeRunnableBooks, Zenon
<1> HIDE DEF s0
<1>2. /\ Books(s1) /\ s1.ready = s0.ready /\ s1.waiting = s0.waiting \ {t}
      /\ s1.holder = s0.holder /\ s1.threads = s0.threads /\ s1.letGo = s0.letGo
      /\ s1.outside = s0.outside
  BY <1>1, TakeBlockedBooks
<1> HIDE DEF s1
<1>3. s1 \in State
  BY <1>2, Zenon DEF Books
<1>4. s2 \in State
  <2>1. /\ (IF t \in Roots /\ s1.roots > 0 THEN s1.roots - 1 ELSE s1.roots) \in Nat
        /\ s1.exited \cup {t} \in SUBSET Threads
    BY <1>3 DEF State
  <2>2. /\ [s1.outside EXCEPT ![t] = NoKey] \in [Threads -> Keys \cup {NoKey}]
        /\ [s1.spinner EXCEPT ![t] = "no"] \in [Threads -> {"no", "yield", "clock"}]
    BY <1>3, Zenon DEF State
  <2> DEFINE roots == IF t \in Roots /\ s1.roots > 0 THEN s1.roots - 1 ELSE s1.roots
             outside == [s1.outside EXCEPT ![t] = NoKey]
             spinner == [s1.spinner EXCEPT ![t] = "no"]
  <2>3. s2 = [s1 EXCEPT !.roots = roots, !.exited = @ \cup {t},
                        !.threads = @ \ {t}, !.letGo = @ \ {t},
                        !.outside = outside, !.spinner = spinner]
    OBVIOUS
  <2> HIDE DEF roots, outside, spinner, s2
  <2> QED
    <3>1. /\ roots \in Nat /\ outside \in [Threads -> Keys \cup {NoKey}]
          /\ spinner \in [Threads -> {"no", "yield", "clock"}]
      BY <2>1, <2>2, Zenon DEF roots, outside, spinner
    <3> QED
      BY <1>3, <2>1, <2>3, <3>1, Zenon DEF State
<1>5. /\ s2.threads = s.threads \ {t} /\ s2.letGo = s.letGo \ {t}
      /\ s2.outside = [s.outside EXCEPT ![t] = NoKey]
      /\ s2.ready = s.ready \ {t} /\ s2.waiting = s.waiting \ {t}
      /\ s2.holder = s.holder /\ s2.runnable = s1.runnable /\ s2.blocked = s1.blocked
  BY <1>1, <1>2, <1>3, Zenon DEF State
<1> HIDE DEF s2
<1>6. Books(s2)
  BY <1>1, <1>2, <1>4, <1>5, ZenonT(60) DEF Books
<1> QED
  BY <1>5, <1>6, Zenon DEF Gone, s2, s1, s0

(* exit: t's slot goes, and the waits on its exit and its mutexes end. *)
LEMMA LeftBooks ==
  ASSUME NEW s, Books(s), NEW t \in Threads
  PROVE  LET r == Left(s, t) IN
         /\ Books(r) /\ r.holder = s.holder
         /\ r.threads = s.threads \ {t} /\ r.letGo = s.letGo \ {t}
         /\ r.outside = [s.outside EXCEPT ![t] = NoKey]
         /\ r.waiting \subseteq s.waiting \ {t}
         /\ r.ready = (s.ready \ {t}) \cup ((s.waiting \ {t}) \ r.waiting)
<1> DEFINE s1 == Gone(s, t)
<1>1. /\ Books(s1) /\ s1.holder = s.holder
      /\ s1.threads = s.threads \ {t} /\ s1.letGo = s.letGo \ {t}
      /\ s1.outside = [s.outside EXCEPT ![t] = NoKey]
      /\ s1.ready = s.ready \ {t} /\ s1.waiting = s.waiting \ {t}
  BY GoneBooks, Zenon
<1>2. Left(s, t) = Disown(s1, t, {Exit(t)})
  BY Zenon DEF Left, Gone
<1> HIDE DEF s1
<1>3. Wakes(s1, Disown(s1, t, {Exit(t)}))
  BY <1>1, DisownWakes, Zenon
<1> QED
  BY <1>1, <1>2, <1>3, Zenon DEF Wakes

(* enter_root keeps Core. *)
LEMMA EnterRootCore ==
  ASSUME IInv, NEW t \in Threads, EnterRoot(t)
  PROVE  Core'
<1> DEFINE s == [st EXCEPT !.threads = @ \cup {t}, !.roots = @ + 1]
<1>1. /\ Core /\ Books(st) /\ st \in State /\ Free /\ None # t /\ pc[t] = "out"
      /\ pc \in [Threads -> PC]
      /\ UNCHANGED <<locker, latch, flight>> /\ detached' = FALSE
  BY SchedulerAssumption, Zenon DEF EnterRoot, IInv, Core, Rest, Books
<1>2. /\ t \notin st.threads /\ t \notin st.ready /\ t \notin st.waiting /\ t \notin st.letGo
      /\ st.outside[t] = NoKey /\ latch[t] \notin Why /\ flight[t] = "none" /\ st.holder # t
  BY <1>1, Zenon DEF Core, AllFit, Fits, Books, InWait, Native, Locked, Asleep
<1>3. /\ s \in State /\ s.threads = st.threads \cup {t} /\ s.ready = st.ready
      /\ s.waiting = st.waiting /\ s.letGo = st.letGo /\ s.outside = st.outside
      /\ s.holder = st.holder /\ s.runnable = st.runnable /\ s.blocked = st.blocked
  <2>1. st.threads \cup {t} \in SUBSET Threads /\ st.roots + 1 \in Nat
    BY <1>1 DEF State
  <2>2. s \in State
    BY <1>1, <2>1, Zenon DEF State
  <2> QED
    BY <1>1, <2>2, Zenon DEF State
<1>4. Books(s)
  BY <1>1, <1>3, Zenon DEF Books
<1>5. /\ st.holder = None => st' = [s EXCEPT !.holder = t, !.last = t] /\ Goto(t, "user")
      /\ st.holder # None => st' = SetRunnable(s, t, "Woken") /\ Goto(t, "parked")
  BY Zenon DEF EnterRoot
<1> HIDE DEF s
<1>6. CASE st.holder = None
  <2>0. s \in State /\ st' = [s EXCEPT !.holder = t, !.last = t]
    BY <1>3, <1>5, <1>6, Zenon
  <2>1. /\ st' \in State /\ st'.holder = t /\ st'.threads = s.threads /\ st'.ready = s.ready
        /\ st'.waiting = s.waiting /\ st'.letGo = s.letGo /\ st'.outside = s.outside
        /\ st'.runnable = s.runnable /\ st'.blocked = s.blocked
    BY <2>0, Zenon DEF State
  <2>2. Books(st')
    BY <1>4, <2>1, Zenon DEF Books
  <2>3. AllFit(st', pc', latch, flight)
    <3> SUFFICES ASSUME NEW u \in Threads, Fits(st, pc[u], latch[u], flight[u], u)
                 PROVE  Fits(st', pc'[u], latch[u], flight[u], u)
      BY <1>1, Zenon DEF Core, AllFit
    <3>1. pc'[u] = IF u = t THEN "user" ELSE pc[u]
      BY <1>1, <1>5, <1>6, Zenon DEF Goto
    <3>2. CASE u = t
      BY <1>2, <1>3, <2>1, <3>1, <3>2, Zenon DEF Fits, Native, Running, InWait, Locked, Asleep
    <3>3. CASE u # t
      BY <1>3, <1>6, <2>1, <3>1, <3>3, SchedulerAssumption, ZenonT(40) DEF Fits
    <3> QED
      BY <3>2, <3>3, Zenon
  <2> QED
    BY <1>1, <2>1, <2>2, <2>3, PlainCore, Zenon DEF DetachedEmpty
<1>7. CASE st.holder # None
  <2>1. /\ Books(st') /\ st'.ready = s.ready \cup {t} /\ st'.holder = s.holder
        /\ st'.threads = s.threads /\ st'.letGo = s.letGo
        /\ st'.outside = s.outside /\ st'.waiting = s.waiting
    BY <1>2, <1>3, <1>4, <1>5, <1>7, SetRunnableBooks DEF Why
  <2>2. AllFit(st', pc', latch, flight)
    BY <1>1, <1>2, <1>3, <1>5, <1>7, <2>1 DEF Core, AllFit, Fits, Goto, Native, InWait
  <2> QED
    BY <1>1, <1>3, <1>7, <2>1, <2>2, PlainCore, Zenon DEF DetachedEmpty
<1> QED
  BY <1>6, <1>7, Zenon

(* Whether a thread fits is a matter of what the State says of it. *)
LEMMA FitsAlike ==
  ASSUME NEW s, NEW r, NEW where, NEW grant, NEW fly, NEW t, Fits(s, where, grant, fly, t),
         t \in r.threads <=> t \in s.threads, t \in r.letGo <=> t \in s.letGo,
         t \in r.ready <=> t \in s.ready, t \in r.waiting <=> t \in s.waiting,
         r.holder = t <=> s.holder = t, r.outside[t] = s.outside[t]
  PROVE  Fits(r, where, grant, fly, t)
  BY Zenon DEF Fits

(* A thread that calls pthread_create still fits, and a new one does. *)
LEMMA FitsCreate ==
  ASSUME NEW s, NEW grant, NEW fly, NEW t
  PROVE  /\ Fits(s, "user", grant, fly, t) => Fits(s, "create", grant, fly, t)
         /\ /\ t \in s.threads => t \in s.ready
            /\ t \in s.threads \/ "latespawn" \in Events
            /\ t \notin s.waiting /\ t \notin s.letGo /\ s.holder # t
            /\ s.outside[t] = NoKey /\ grant \notin Why /\ fly = "none"
            => Fits(s, "born", grant, fly, t)
<1>1. Fits(s, "user", grant, fly, t) => Fits(s, "create", grant, fly, t)
  BY Zenon DEF Fits, InWait, Native, Locked, Asleep, Running
<1>2. ASSUME t \in s.threads => t \in s.ready, t \in s.threads \/ "latespawn" \in Events,
             t \notin s.waiting, t \notin s.letGo, s.holder # t, s.outside[t] = NoKey, grant \notin Why, fly = "none"
      PROVE  Fits(s, "born", grant, fly, t)
  BY <1>2, Zenon DEF Fits, InWait, Native, Locked, Asleep, Running
<1> QED
  BY <1>1, <1>2, Zenon

(* spawned keeps Core, whoever creates the child. *)
LEMMA QueueCore ==
  ASSUME IInv, NEW c \in Threads, NEW s, Same(st, s), Queue(c, s),
         pc' \in [Threads -> PC], pc'[c] = "born",
         \A u \in Threads \ {c} : pc'[u] = pc[u] \/ (pc[u] = "user" /\ pc'[u] = "create")
  PROVE  Core'
<1> DEFINE s1 == [s EXCEPT !.threads = @ \cup {c}]
           s2 == SetRunnable(s1, c, "Woken")
<1>1. /\ Core /\ Books(s) /\ s \in State /\ Free /\ pc[c] = "out"
      /\ UNCHANGED <<locker, latch, detached>>
  BY SameBooks, Zenon DEF Queue, IInv, Core, lockedVars, Same
<1>2. /\ c \notin st.threads /\ c \notin st.ready /\ c \notin st.waiting /\ c \notin st.letGo
      /\ st.outside[c] = NoKey /\ latch[c] \notin Why /\ flight[c] = "none" /\ st.holder # c
  BY <1>1, Zenon DEF Core, AllFit, Fits, Books, InWait, Native, Locked, Asleep
<1>3. CASE detached
  <2>1. st' = s /\ flight' = flight /\ "latespawn" \in Events
    BY <1>3, Zenon DEF Queue
  <2>2. AllFit(st', pc', latch, flight)
    <3> SUFFICES ASSUME NEW u \in Threads, Fits(st, pc[u], latch[u], flight[u], u)
                 PROVE  Fits(s, pc'[u], latch[u], flight[u], u)
      BY <1>1, <2>1, Zenon DEF Core, AllFit
    <3>1. CASE u = c
      BY <3>1, <1>2, <2>1, FitsCreate DEF Same
    <3>2. CASE u # c
      <4>1. Fits(s, pc[u], latch[u], flight[u], u)
        BY FitsAlike, Zenon DEF Same
      <4> QED
        BY <3>2, <4>1, FitsCreate, Zenon
    <3> QED
      BY <3>1, <3>2, Zenon
  <2>3. DetachedEmpty' /\ (st'.holder = None => st'.ready = {})
    BY <1>1, <1>3, <2>1, Zenon DEF Core, DetachedEmpty, Same
  <2> QED
    BY <1>1, <2>1, <2>2, <2>3, PlainCore, Zenon
<1>4. CASE ~detached
  <2>1. GrantIfIdle(s2)
    BY <1>4, Zenon DEF Queue
  <2>2. /\ s1 \in State /\ s1.threads = s.threads \cup {c} /\ s1.ready = s.ready
        /\ s1.waiting = s.waiting /\ s1.letGo = s.letGo /\ s1.outside = s.outside
        /\ s1.holder = s.holder /\ s1.runnable = s.runnable /\ s1.blocked = s.blocked
    BY <1>1, ZenonT(60) DEF State
  <2> HIDE DEF s1
  <2>3. Books(s1)
    BY <1>1, <2>2, Zenon DEF Books
  <2>4. /\ Books(s2) /\ s2.ready = s1.ready \cup {c} /\ s2.holder = s1.holder
        /\ s2.threads = s1.threads /\ s2.letGo = s1.letGo
        /\ s2.outside = s1.outside /\ s2.waiting = s1.waiting
    BY <1>2, <2>2, <2>3, SetRunnableBooks, SMTT(30) DEF Why, Same
  <2> HIDE DEF s2
  <2>5. AllFit(s2, pc', latch, flight)
    <3> SUFFICES ASSUME NEW u \in Threads, Fits(st, pc[u], latch[u], flight[u], u)
                 PROVE  Fits(s2, pc'[u], latch[u], flight[u], u)
      BY <1>1, Zenon DEF Core, AllFit
    <3>1. CASE u = c
      BY <3>1, <1>2, <2>2, <2>4, FitsCreate DEF Same
    <3>2. CASE u # c
      <4>1. Fits(s2, pc[u], latch[u], flight[u], u)
        BY <3>2, <2>2, <2>4, FitsAlike DEF Same
      <4> QED
        BY <3>2, <4>1, FitsCreate, Zenon
    <3> QED
      BY <3>1, <3>2, Zenon
  <2> QED
    BY <1>1, <1>4, <2>1, <2>4, <2>5, GrantCore, Zenon
<1> QED
  BY <1>3, <1>4, Zenon

(* Spin steps are not in the books. *)
LEMMA SpinnerSame ==
  ASSUME NEW s \in State, NEW t \in Threads, NEW x \in {"no", "yield", "clock"}
  PROVE  Same(s, [s EXCEPT !.spinner[t] = x])
<1>1. [s.spinner EXCEPT ![t] = x] \in [Threads -> {"no", "yield", "clock"}]
  BY Zenon DEF State
<1>2. [s EXCEPT !.spinner[t] = x] \in State
  BY <1>1, Zenon DEF State
<1> QED
  BY <1>2, Zenon DEF Same, State

(* Nor is the holder, which a State may be without. *)
LEMMA NoHolder ==
  ASSUME NEW s, Books(s)
  PROVE  LET z == [s EXCEPT !.holder = None] IN
         /\ Books(z) /\ z.holder = None
         /\ z.threads = s.threads /\ z.letGo = s.letGo /\ z.outside = s.outside
         /\ z.ready = s.ready /\ z.waiting = s.waiting
<1> DEFINE z == [s EXCEPT !.holder = None]
<1>1. /\ z \in State /\ z.holder = None
      /\ z.threads = s.threads /\ z.letGo = s.letGo /\ z.outside = s.outside
      /\ z.ready = s.ready /\ z.waiting = s.waiting
      /\ z.runnable = s.runnable /\ z.blocked = s.blocked
  BY Zenon DEF Books, State
<1> HIDE DEF z
<1>2. Books(z)
  BY <1>1, Zenon DEF Books
<1> QED
  BY <1>1, <1>2, Zenon DEF z

(* inherit_with: a thread creates a child. *)
LEMMA SpawnedCore ==
  ASSUME IInv, NEW p \in Threads, NEW c \in Threads, Spawned(p, c)
  PROVE  Core'
<1> DEFINE s == [st EXCEPT !.spinner[p] = "no"]
<1>1. pc[p] = "user" /\ pc[c] = "out" /\ Queue(c, s) /\ pc \in [Threads -> PC]
      /\ pc' = [pc EXCEPT ![p] = "create", ![c] = "born"]
  BY Zenon DEF Spawned, Queue, IInv, Rest
<1>2. Same(st, s)
  BY SpinnerSame, Zenon DEF IInv, Core, Books
<1>3. pc' \in [Threads -> PC] /\ pc'[c] = "born"
  BY <1>1, Zenon DEF PC
<1>4. \A u \in Threads \ {c} : pc'[u] = pc[u] \/ (pc[u] = "user" /\ pc'[u] = "create")
  BY <1>1, Zenon
<1> HIDE DEF s
<1> QED
  BY <1>1, <1>2, <1>3, <1>4, QueueCore, Zenon

(* spawn_injected. *)
LEMMA InjectedCore ==
  ASSUME IInv, NEW c \in Threads, Injected(c)
  PROVE  Core'
<1>1. Queue(c, st) /\ pc \in [Threads -> PC] /\ pc' = [pc EXCEPT ![c] = "born"]
  BY Zenon DEF Injected, Goto, IInv, Rest
<1>2. Same(st, st)
  BY Zenon DEF Same, IInv, Core, Books
<1>3. /\ pc' \in [Threads -> PC] /\ pc'[c] = "born"
      /\ \A u \in Threads \ {c} : pc'[u] = pc[u]
  BY <1>1, Zenon DEF PC
<1> QED
  BY <1>1, <1>2, <1>3, QueueCore, Zenon

(* unspawned: the OS made no thread, and the slot goes. *)
LEMMA CreateFailsCore ==
  ASSUME IInv, NEW p \in Threads, CreateFails(p)
  PROVE  Core'
<1> DEFINE c == kid[p]
           s == TakeRunnable(st, c)
           r == [s EXCEPT !.threads = @ \ {c}, !.letGo = @ \ {c}]
<1>1. /\ Core /\ Books(st) /\ Free /\ c \in Threads /\ pc[p] = "create" /\ pc[c] = "born"
      /\ "fail" \in Events
      /\ pc \in [Threads -> PC] /\ pc' = [pc EXCEPT ![p] = "user", ![c] = "gone"]
      /\ UNCHANGED <<locker, detached, latch, flight>>
      /\ st' = IF detached THEN st ELSE r
  BY Zenon DEF CreateFails, IInv, Core, Rest, lockedVars
<1>2. /\ Books(s) /\ s.ready = st.ready \ {c}
      /\ s.holder = st.holder /\ s.threads = st.threads /\ s.letGo = st.letGo
      /\ s.outside = st.outside /\ s.waiting = st.waiting
  BY <1>1, TakeRunnableBooks, Zenon
<1> HIDE DEF s, c
<1>3. /\ r \in State /\ r.threads = st.threads \ {c} /\ r.letGo = st.letGo \ {c}
      /\ r.ready = st.ready \ {c} /\ r.waiting = st.waiting /\ r.holder = st.holder
      /\ r.outside = st.outside /\ r.runnable = s.runnable /\ r.blocked = s.blocked
  BY <1>2, Zenon DEF Books, State
<1> HIDE DEF r
<1>4. c \notin st.waiting /\ c \notin st.letGo
  BY <1>1, Zenon DEF Core, AllFit, Fits, InWait, Locked, Asleep
<1>5. Books(r)
  BY <1>2, <1>3, <1>4, Zenon DEF Books
<1>6. detached => c \notin st.threads
  BY <1>1, Zenon DEF Core, DetachedEmpty, AllFit, Fits
<1>7. /\ Books(st') /\ st'.threads = st.threads \ {c} /\ st'.letGo = st.letGo
      /\ st'.ready = st.ready \ {c} /\ st'.waiting = st.waiting /\ st'.holder = st.holder
      /\ st'.outside = st.outside
  BY <1>1, <1>3, <1>4, <1>5, <1>6, ZenonT(60) DEF Books
<1>8. AllFit(st', pc', latch, flight)
  <2> SUFFICES ASSUME NEW u \in Threads, Fits(st, pc[u], latch[u], flight[u], u)
               PROVE  Fits(st', pc'[u], latch[u], flight[u], u)
    BY <1>1, Zenon DEF Core, AllFit
  <2>1. CASE u = c
    <3>1. pc'[u] = "gone"
      BY <1>1, <2>1, Zenon
    <3> QED
      BY <1>1, <1>4, <1>7, <2>1, <3>1, Zenon DEF Fits, Native, Running, InWait, Locked, Asleep
  <2>2. CASE u = p
    <3>1. pc'[u] = "user" /\ u # c
      BY <1>1, <2>2, Zenon
    <3> QED
      BY <1>1, <1>7, <2>2, <3>1, Zenon DEF Fits, Native, InWait, Locked, Asleep, Running
  <2>3. CASE u # c /\ u # p
    <3>1. pc'[u] = pc[u]
      BY <1>1, <2>3, Zenon
    <3> QED
      BY <1>7, <2>3, <3>1, Zenon DEF Fits
  <2> QED
    BY <2>1, <2>2, <2>3, Zenon
<1> QED
  BY <1>1, <1>7, <1>8, PlainCore, Zenon DEF Core, DetachedEmpty, WorkConserving

(* A step t makes without the State: Core follows from t's new place. *)
LEMMA GotoCore ==
  ASSUME Core, NEW t \in Threads, pc \in [Threads -> PC], NEW where, Goto(t, where),
         where \notin Past,
         UNCHANGED <<st, locker, detached, latch, flight>>,
         Fits(st, where, latch[t], flight[t], t)
  PROVE  Core'
<1>1. AllFit(st', pc', latch', flight')
  <2> SUFFICES ASSUME NEW u \in Threads, Fits(st, pc[u], latch[u], flight[u], u)
               PROVE  Fits(st, pc'[u], latch[u], flight[u], u)
    BY Zenon DEF Core, AllFit
  <2>1. pc'[u] = IF u = t THEN where ELSE pc[u]
    BY Zenon DEF Goto
  <2> QED
    BY <2>1, Zenon
<1>2. Quiet'
  BY Zenon DEF Core, Quiet, Goto
<1> QED
  BY <1>1, <1>2, Zenon DEF Core, DetachedEmpty, WorkConserving, Free

(* pthread_create returns, and adopt. *)
LEMMA StartedCore ==
  ASSUME IInv, NEW t \in Threads, Created(t) \/ Started(t)
  PROVE  Core'
<1>1. Core /\ Books(st) /\ st \in State /\ pc \in [Threads -> PC]
  BY Zenon DEF IInv, Core, Rest, Books
<1>2. Fits(st, pc[t], latch[t], flight[t], t)
  BY <1>1, Zenon DEF Core, AllFit
<1>3. CASE Created(t)
  <2>1. pc[t] = "create" /\ Goto(t, "user") /\ UNCHANGED <<st, locker, detached, latch, flight>>
    BY <1>3, Zenon DEF Created, lockedVars
  <2>2. Fits(st, "user", latch[t], flight[t], t)
    BY <1>2, <2>1, Zenon DEF Fits, Native, InWait, Locked, Asleep, Running
  <2> QED
    BY <1>1, <2>1, <2>2, GotoCore, Zenon DEF Past
<1>4. CASE Started(t)
  <2>1. pc[t] = "born" /\ Free /\ UNCHANGED <<locker, detached, latch, flight>>
    BY <1>4, Zenon DEF Started, lockedVars
  <2>2. CASE detached /\ t \notin st.ready /\ st.holder # t
    <3>1. st' = st /\ Goto(t, "user")
      BY <1>4, <2>2, Zenon DEF Started
    <3>2. Fits(st, "user", latch[t], flight[t], t)
      BY <1>2, <2>1, <2>2, Zenon DEF Fits, Native, InWait, Locked, Asleep
    <3> QED
      BY <1>1, <2>1, <3>1, <3>2, GotoCore, Zenon DEF Past
  <2>3. CASE ~(detached /\ t \notin st.ready /\ st.holder # t)
    <3>1. st' = [st EXCEPT !.threads = @ \cup {t}] /\ Goto(t, "parked")
      BY <1>4, <2>3, Zenon DEF Started
    <3>2. /\ st' \in State /\ st'.threads = st.threads \cup {t} /\ st'.ready = st.ready
          /\ st'.waiting = st.waiting /\ st'.letGo = st.letGo /\ st'.outside = st.outside
          /\ st'.holder = st.holder /\ st'.runnable = st.runnable /\ st'.blocked = st.blocked
      BY <1>1, <3>1, ZenonT(40) DEF State
    <3>3. Books(st')
      BY <1>1, <3>2, Zenon DEF Books
    <3>4. AllFit(st', pc', latch, flight)
      <4> SUFFICES ASSUME NEW u \in Threads, Fits(st, pc[u], latch[u], flight[u], u)
                   PROVE  Fits(st', pc'[u], latch[u], flight[u], u)
        BY <1>1, Zenon DEF Core, AllFit
      <4>1. pc'[u] = IF u = t THEN "parked" ELSE pc[u]
        BY <1>1, <3>1, Zenon DEF Goto
      <4>2. CASE u = t
        BY <2>1, <3>2, <4>1, <4>2, Zenon DEF Fits, InWait, Native, Locked, Asleep, Running
      <4>3. CASE u # t
        BY <3>2, <4>1, <4>3, Zenon DEF Fits
      <4> QED
        BY <4>2, <4>3, Zenon
    <3> QED
      BY <1>1, <2>1, <3>2, <3>3, <3>4, PlainCore, Zenon DEF Core, DetachedEmpty, WorkConserving
  <2> QED
    BY <2>2, <2>3, Zenon
<1> QED
  BY <1>3, <1>4, Zenon

-----------------------------------------------------------------------------
(* Threads that exit, change class, run on, wait and wake others. *)

(* A thread in the code under test is not listed and has no grant. *)
LEMMA InUser ==
  ASSUME Core, NEW t \in Threads, pc[t] = "user"
  PROVE  /\ t \notin st.ready /\ t \notin st.waiting /\ st.outside[t] = NoKey
         /\ latch[t] \notin Why /\ flight[t] = "none"
         /\ t \in st.letGo => st.holder # t
  BY Zenon DEF Core, AllFit, Fits, InWait, Native, Locked, Asleep

(* exit keeps Core, whether or not the thread held the baton. *)
LEMMA ExitCore ==
  ASSUME IInv, NEW t \in Threads, ExitThread(t)
  PROVE  Core'
<1> DEFINE s == Left(st, t)
           z == [s EXCEPT !.holder = None]
<1>0. st.outside \in [Threads -> Keys \cup {NoKey}]
  BY Zenon DEF IInv, Core, Books, State
<1>1. /\ Core /\ Books(st) /\ Free /\ pc[t] = "user" /\ pc \in [Threads -> PC]
      /\ UNCHANGED <<locker, detached>> /\ pc' = [pc EXCEPT ![t] = "gone"]
      /\ latch \in [Threads -> Why \cup {"none", "dispatch"}]
  BY Zenon DEF ExitThread, IInv, Core, Rest, Goto, lockedVars
<1>2. /\ Books(s) /\ s.holder = st.holder
      /\ s.threads = st.threads \ {t} /\ s.letGo = st.letGo \ {t}
      /\ s.outside = [st.outside EXCEPT ![t] = NoKey]
      /\ s.waiting \subseteq st.waiting \ {t}
      /\ s.ready = (st.ready \ {t}) \cup ((st.waiting \ {t}) \ s.waiting)
  BY <1>1, LeftBooks, Zenon
<1>3. /\ st.holder = t => HandOn(s, latch)
      /\ st.holder # t => GrantIfIdle(s) /\ latch' = latch
  BY Zenon DEF ExitThread
<1> HIDE DEF s
<1>4. detached => s.holder \notin Threads /\ s.ready = {} /\ s.waiting = {}
  BY <1>1, <1>2, Zenon DEF Core, DetachedEmpty
<1> DEFINE Passed(r) == /\ r.threads = s.threads /\ r.letGo = s.letGo /\ r.outside = s.outside
                       /\ r.ready = s.ready /\ r.waiting = s.waiting
                       /\ r.holder = IF s.holder = t THEN None ELSE s.holder
<1>5. ASSUME NEW r, Passed(r)
      PROVE  AllFit(r, pc', latch, flight)
  <2> SUFFICES ASSUME NEW u \in Threads, Fits(st, pc[u], latch[u], flight[u], u)
               PROVE  Fits(r, pc'[u], latch[u], flight[u], u)
    BY <1>1, Zenon DEF Core, AllFit
  <2>1. CASE u = t
    <3>1. pc'[u] = "gone" /\ u \notin r.threads /\ u \notin r.ready /\ u \notin r.waiting
          /\ u \notin r.letGo /\ r.outside[u] = NoKey /\ latch[u] \notin Why /\ flight[u] = "none"
          /\ r.holder # u
      BY <1>0, <1>1, <1>2, <1>5, <2>1, InUser, SchedulerAssumption
    <3> QED
      BY <3>1, Zenon DEF Fits, Native, Running, InWait, Locked, Asleep
  <2>2. CASE u # t
    <3>1. pc'[u] = pc[u] /\ r.outside[u] = st.outside[u]
      BY <1>0, <1>1, <1>2, <1>5, <2>2, Zenon
    <3>2. r.holder = u <=> st.holder = u
      BY <1>2, <1>5, <2>2, SchedulerAssumption, Zenon
    <3>3. /\ u \in r.threads <=> u \in st.threads
          /\ u \in r.letGo <=> u \in st.letGo
          /\ u \in r.waiting => u \in st.waiting
          /\ u \in r.ready <=> u \in st.ready \/ (u \in st.waiting /\ u \notin r.waiting)
      BY <1>2, <1>5, <2>2, Zenon
    <3> QED
      BY <3>1, <3>2, <3>3, ZenonT(40) DEF Fits, InWait, Native, Locked, Asleep
  <2> QED
    BY <2>1, <2>2, Zenon
<1>6. CASE st.holder = t
  <2>1. /\ Books(z) /\ z.holder = None /\ s \in State
        /\ z.threads = s.threads /\ z.letGo = s.letGo /\ z.outside = s.outside
        /\ z.ready = s.ready /\ z.waiting = s.waiting
    BY <1>2, NoHolder, ZenonT(40) DEF Books
  <2>2. AllFit(z, pc', latch, flight)
    <3>1. Passed(z)
      BY <1>2, <1>6, <2>1, Zenon
    <3> HIDE DEF Passed
    <3> QED
      BY <1>5, <3>1, Zenon
  <2> QED
    BY <1>1, <1>3, <1>4, <1>6, <2>1, <2>2, HandOnCore, Zenon
<1>7. CASE st.holder # t
  <2>1. AllFit(s, pc', latch, flight)
    <3>1. Passed(s)
      BY <1>2, <1>7, Zenon
    <3> HIDE DEF Passed
    <3> QED
      BY <1>5, <3>1, Zenon
  <2> QED
    BY <1>1, <1>2, <1>3, <1>4, <1>7, <2>1, GrantCore, Zenon
<1> QED
  BY <1>6, <1>7, Zenon

(* What detach_thread does to the State before it hands the baton on. *)
LEMMA LeaveClassWakes ==
  ASSUME IInv, NEW t \in Threads, pc[t] = "user"
  PROVE  LET s == Disown(TakeBlocked(TakeRunnable([st EXCEPT !.spinner[t] = "no"], t), {t}), t, {})
         IN  Wakes(st, s) /\ ((\A a \in Addrs : st.owner[a] # t) => s.ready = st.ready)
<1> DEFINE s0 == [st EXCEPT !.spinner[t] = "no"]
           s1 == TakeRunnable(s0, t)
           s2 == TakeBlocked(s1, {t})
           s == Disown(s2, t, {})
<1>1. Core /\ Books(st) /\ pc[t] = "user"
  BY Zenon DEF IInv, Core
<1>2. Same(st, s0) /\ s0.owner = st.owner
  BY <1>1, SpinnerSame, ZenonT(40) DEF Books, State
<1> HIDE DEF s0
<1>3. Same(st, s0) /\ Books(s0)
  BY <1>1, <1>2, SameBooks, Zenon
<1>4. /\ Books(s1) /\ s1.ready = s0.ready \ {t} /\ s1.waiting = s0.waiting
      /\ s1.holder = s0.holder /\ s1.threads = s0.threads /\ s1.letGo = s0.letGo
      /\ s1.outside = s0.outside
  BY <1>3, TakeRunnableBooks, Zenon
<1>5. s1.owner = s0.owner
  BY <1>3, Zenon DEF TakeRunnable, Books, State
<1> HIDE DEF s1
<1>6. /\ Books(s2) /\ s2.ready = s1.ready /\ s2.waiting = s1.waiting \ {t}
      /\ s2.holder = s1.holder /\ s2.threads = s1.threads /\ s2.letGo = s1.letGo
      /\ s2.outside = s1.outside
  BY <1>4, TakeBlockedBooks, SMTT(30)
<1>7. s2.owner = s1.owner
  BY <1>4, Zenon DEF TakeBlocked, Books, State
<1> HIDE DEF s2
<1>8. Wakes(s2, s)
  BY <1>6, DisownWakes, Zenon
<1>9. s2.ready = st.ready /\ s2.waiting = st.waiting
  BY <1>1, <1>3, <1>4, <1>6, InUser DEF Same
<1>10. (\A a \in Addrs : st.owner[a] # t) => s.ready = s2.ready
  BY <1>2, <1>6, <1>5, <1>7, DisownNothing, SMTT(30)
<1> QED
  BY <1>3, <1>4, <1>6, <1>8, <1>9, <1>10, Zenon DEF Wakes, Same

(* detach_thread: a participant leaves the schedule. *)
LEMMA LeaveClassCore ==
  ASSUME IInv, NEW t \in Threads, LeaveClass(t)
  PROVE  Core'
<1> DEFINE s0 == [st EXCEPT !.spinner[t] = "no"]
           s1 == TakeRunnable(s0, t)
           s2 == TakeBlocked(s1, {t})
           s == Disown(s2, t, {})
           z == [s EXCEPT !.holder = None]
           l == IF t \in st.threads THEN [latch EXCEPT ![t] = "none"] ELSE latch
<1>1. /\ Core /\ Books(st) /\ Free /\ pc[t] = "user" /\ UNCHANGED <<locker, detached, pc>>
      /\ latch \in [Threads -> Why \cup {"none", "dispatch"}]
  BY Zenon DEF LeaveClass, IInv, Core, Rest, lockedVars
<1>2. /\ st.holder = t => HandOn(s, l)
      /\ st.holder # t =>
           /\ GrantIfIdle(s) \/ (st' = s /\ flight' = flight /\ \A a \in Addrs : st.owner[a] # t)
           /\ latch' = l
  BY Zenon DEF LeaveClass
<1>3. Wakes(st, s) /\ ((\A a \in Addrs : st.owner[a] # t) => s.ready = st.ready)
  BY <1>1, LeaveClassWakes, Zenon
<1> HIDE DEF s
<1>4. /\ l \in [Threads -> Why \cup {"none", "dispatch"}]
      /\ \A u \in Threads : l[u] \in Why <=> latch[u] \in Why
  BY <1>1, InUser, Zenon DEF Why
<1> HIDE DEF l
<1>5. AllFit(s, pc', l, flight)
  <2>1. AllFit(s, pc, latch, flight)
    BY <1>1, <1>3, WakesFit, Zenon DEF Core
  <2> SUFFICES ASSUME NEW u \in Threads, Fits(s, pc[u], latch[u], flight[u], u)
               PROVE  Fits(s, pc[u], l[u], flight[u], u)
    BY <1>1, <2>1, Zenon DEF AllFit
  <2> QED
    BY <1>4, Zenon DEF Fits
<1>6. /\ detached => s.ready = {} /\ s.waiting = {} /\ s.holder \notin Threads
      /\ Books(s) /\ s.holder = st.holder
  BY <1>1, <1>3, Zenon DEF Core, DetachedEmpty, Wakes
<1>7. CASE st.holder = t
  <2>1. /\ Books(z) /\ z.holder = None /\ s \in State
        /\ z.threads = s.threads /\ z.letGo = s.letGo /\ z.outside = s.outside
        /\ z.ready = s.ready /\ z.waiting = s.waiting
    BY <1>6, NoHolder, Zenon DEF Books
  <2>2. AllFit(z, pc', l, flight)
    <3> SUFFICES ASSUME NEW u \in Threads, Fits(s, pc[u], l[u], flight[u], u)
                 PROVE  Fits(z, pc[u], l[u], flight[u], u)
      BY <1>1, <1>5, Zenon DEF AllFit
    <3>1. z.holder # u /\ (s.holder = u <=> u = t)
      BY <1>6, <1>7, <2>1, SchedulerAssumption, Zenon
    <3>2. CASE u = t
      <4>1. flight[u] = "none" /\ l[u] \notin Why /\ pc[u] = "user"
        BY <1>1, <1>4, <3>2, InUser, Zenon
      <4> QED
        BY <2>1, <3>1, <3>2, <4>1, Zenon DEF Fits, Native
    <3>3. CASE u # t
      BY <2>1, <3>1, <3>3, Zenon DEF Fits
    <3> QED
      BY <3>2, <3>3, Zenon
  <2> QED
    BY <1>1, <1>2, <1>4, <1>6, <1>7, <2>1, <2>2, HandOnCore
<1>8. CASE st.holder # t
  <2>1. /\ Books(st') /\ AllFit(st', pc', l, flight')
        /\ flight' \in [Threads -> Why \cup {"none"}]
        /\ st'.holder = None => st'.ready = {}
        /\ s.ready = {} => st' = s
    <3>1. CASE GrantIfIdle(s)
      BY <1>1, <1>5, <1>6, <3>1, GrantIfIdleFits, Zenon DEF Core
    <3>2. CASE st' = s /\ flight' = flight /\ \A a \in Addrs : st.owner[a] # t
      <4>1. st'.holder = None => st'.ready = {}
        BY <1>1, <1>3, <1>6, <3>2, Zenon DEF Core, WorkConserving
      <4> QED
        BY <1>1, <1>5, <1>6, <3>2, <4>1, Zenon DEF Core
    <3> QED
      BY <1>2, <1>8, <3>1, <3>2, Zenon
  <2>2. DetachedEmpty' /\ WorkConserving' /\ Quiet'
    BY <1>1, <1>6, <2>1, SchedulerAssumption, Zenon DEF DetachedEmpty, WorkConserving, Quiet, Free
  <2> QED
    BY <1>1, <1>2, <1>4, <1>8, <2>1, <2>2, Zenon DEF Core, Free
<1> QED
  BY <1>7, <1>8

(* attach_thread: a thread beside an active schedule joins it. *)
LEMMA JoinClassCore ==
  ASSUME IInv, "latejoin" \notin Events, NEW t \in Threads, JoinClass(t)
  PROVE  Core'
<1> DEFINE s == [st EXCEPT !.threads = @ \cup {t}, !.spinner[t] = "no"]
           r == SetRunnable(s, t, "Woken")
<1>1. /\ Core /\ Books(st) /\ Free /\ pc[t] = "user" /\ pc \in [Threads -> PC]
      /\ UNCHANGED <<locker, detached, latch>> /\ ~detached /\ t \notin st.letGo
      /\ st.holder = t => st' = s /\ UNCHANGED <<flight, pc>>
      /\ st.holder # t => GrantIfIdle(r) /\ Goto(t, "parked")
  BY Zenon DEF JoinClass, IInv, Core, Rest, lockedVars
<1>2. /\ s \in State /\ s.threads = st.threads \cup {t} /\ s.ready = st.ready
      /\ s.waiting = st.waiting /\ s.letGo = st.letGo /\ s.outside = st.outside
      /\ s.holder = st.holder /\ s.runnable = st.runnable /\ s.blocked = st.blocked
  <2> DEFINE s0 == [st EXCEPT !.spinner[t] = "no"]
  <2>1. Same(st, s0)
    BY <1>1, SpinnerSame, Zenon DEF Books
  <2>2. s = [s0 EXCEPT !.threads = @ \cup {t}]
    BY <1>1, Zenon DEF Books, State
  <2> HIDE DEF s, s0
  <2>3. s0 \in State /\ st \in State
    BY <1>1, <2>1, Zenon DEF Same, Books
  <2>4. /\ s \in State /\ s.threads = s0.threads \cup {t} /\ s.ready = s0.ready
        /\ s.waiting = s0.waiting /\ s.letGo = s0.letGo /\ s.outside = s0.outside
        /\ s.holder = s0.holder /\ s.runnable = s0.runnable /\ s.blocked = s0.blocked
    BY <2>2, <2>3, ZenonT(40) DEF State
  <2> QED
    BY <2>1, <2>4, Zenon DEF Same
<1> HIDE DEF s
<1>3. Books(s)
  BY <1>1, <1>2, Zenon DEF Books
<1>4. CASE st.holder = t
  <2>1. AllFit(st', pc', latch, flight)
    <3> SUFFICES ASSUME NEW u \in Threads, Fits(st, pc[u], latch[u], flight[u], u)
                 PROVE  Fits(s, pc[u], latch[u], flight[u], u)
      BY <1>1, <1>4, Zenon DEF Core, AllFit
    <3> QED
      BY <1>1, <1>2, Zenon DEF Fits
  <2> QED
    BY <1>1, <1>2, <1>3, <1>4, <2>1, SchedulerAssumption, PlainCore, Zenon DEF DetachedEmpty
<1>5. CASE st.holder # t
  <2>1. /\ Books(r) /\ r.ready = s.ready \cup {t} /\ r.holder = s.holder
        /\ r.threads = s.threads /\ r.letGo = s.letGo
        /\ r.outside = s.outside /\ r.waiting = s.waiting
    BY <1>1, <1>2, <1>3, InUser, SetRunnableBooks, SMTT(30) DEF Why
  <2> HIDE DEF r
  <2>2. AllFit(r, pc', latch, flight)
    <3> SUFFICES ASSUME NEW u \in Threads, Fits(st, pc[u], latch[u], flight[u], u)
                 PROVE  Fits(r, pc'[u], latch[u], flight[u], u)
      BY <1>1, Zenon DEF Core, AllFit
    <3>1. pc'[u] = IF u = t THEN "parked" ELSE pc[u]
      BY <1>1, <1>5, Zenon DEF Goto
    <3>2. CASE u = t
      <4>1. u \notin st.waiting /\ st.outside[u] = NoKey /\ latch[u] \notin Why /\ flight[u] = "none"
        BY <1>1, <3>2, InUser, Zenon
      <4> QED
        BY <1>1, <1>2, <1>5, <2>1, <3>1, <3>2, <4>1, Zenon DEF Fits, Native, InWait
    <3>3. CASE u # t
      BY <1>2, <2>1, <3>1, <3>3, FitsAlike
    <3> QED
      BY <3>2, <3>3, Zenon
  <2> QED
    BY <1>1, <1>5, <2>1, <2>2, GrantCore, Zenon
<1> QED
  BY <1>4, <1>5, Zenon

-----------------------------------------------------------------------------
(* The holder goes on running, having woken some waits. *)
LEMMA RunsOnCore ==
  ASSUME Core, Free, NEW t \in Threads, pc \in [Threads -> PC], st.holder = t, Wakes(st, st'),
         UNCHANGED <<locker, detached, latch, flight>>,
         pc[t] \in {"user", "yield", "advance"},
         NEW where \in {"user", "yield", "advance"}, Goto(t, where)
  PROVE  Core'
<1>1. AllFit(st', pc, latch, flight)
  BY WakesFit, Zenon DEF Core
<1>2. AllFit(st', pc', latch, flight)
  <2> SUFFICES ASSUME NEW u \in Threads, Fits(st', pc[u], latch[u], flight[u], u)
               PROVE  Fits(st', pc'[u], latch[u], flight[u], u)
    BY <1>1, Zenon DEF AllFit
  <2>1. pc'[u] = IF u = t THEN where ELSE pc[u]
    BY Zenon DEF Goto
  <2>2. CASE u = t
    BY <2>1, <2>2, Zenon DEF Wakes, Fits, InWait, Native, Locked, Asleep, Running
  <2>3. CASE u # t
    BY <2>1, <2>3, Zenon
  <2> QED
    BY <2>2, <2>3, Zenon
<1>3. DetachedEmpty' /\ (st'.holder = None => st'.ready = {})
  BY SchedulerAssumption, Zenon DEF Core, DetachedEmpty, Wakes
<1> QED
  BY <1>2, <1>3, PlainCore, Zenon DEF Wakes

(* A step that moves grants of t, or t itself, and leaves the State alone. *)
LEMMA ThreadFits ==
  ASSUME Core, NEW t \in Threads, UNCHANGED st,
         \A u \in Threads \ {t} : pc'[u] = pc[u] /\ latch'[u] = latch[u] /\ flight'[u] = flight[u],
         Fits(st, pc[t], latch[t], flight[t], t) => Fits(st, pc'[t], latch'[t], flight'[t], t)
  PROVE  AllFit(st', pc', latch', flight')
<1> SUFFICES ASSUME NEW u \in Threads, Fits(st, pc[u], latch[u], flight[u], u)
             PROVE  Fits(st, pc'[u], latch'[u], flight'[u], u)
  BY Zenon DEF Core, AllFit
<1>1. CASE u = t
  BY <1>1, Zenon
<1>2. CASE u # t
  BY <1>2, Zenon
<1> QED
  BY <1>1, <1>2, Zenon

(* The parked thread. *)
LEMMA ParkedCore ==
  ASSUME IInv, NEW t \in Threads, Parked(t)
  PROVE  Core'
<1>1. /\ Core /\ st' = st /\ UNCHANGED detached /\ pc \in [Threads -> PC]
      /\ latch \in [Threads -> Why \cup {"none", "dispatch"}]
      /\ flight \in [Threads -> Why \cup {"none"}]
  BY Zenon DEF IInv, Core, Rest, Parked, Deliver, Run, TakeDuty, DoDuty, lockedVars
<1>2. CASE Deliver(t)
  <2>1. /\ flight[t] \in Why /\ UNCHANGED <<locker, pc>>
        /\ latch' = [latch EXCEPT ![t] = flight[t]] /\ flight' = [flight EXCEPT ![t] = "none"]
    BY <1>1, <1>2, Zenon DEF Deliver, lockedVars
  <2>2. /\ latch'[t] \in Why /\ flight'[t] = "none" /\ flight[t] # "none"
        /\ \A u \in Threads \ {t} : latch'[u] = latch[u] /\ flight'[u] = flight[u]
    BY <1>1, <2>1, Zenon DEF Why
  <2>3. AllFit(st', pc', latch', flight')
    <3>1. Fits(st, pc[t], latch[t], flight[t], t) => Fits(st, pc'[t], latch'[t], flight'[t], t)
      BY <2>1, <2>2, Zenon DEF Fits
    <3> QED
      BY <1>1, <2>1, <2>2, <3>1, ThreadFits, Zenon
  <2>4. Quiet'
    BY <1>1, <2>1, <2>2, SchedulerAssumption, Zenon DEF Core, Quiet, Past, Free
  <2> QED
    BY <1>1, <2>1, <2>3, <2>4, Zenon DEF Core, DetachedEmpty, WorkConserving, Free
<1>3. CASE Run(t)
  <2>1. /\ pc[t] = "parked" /\ latch[t] \in Why /\ UNCHANGED <<locker, flight>>
        /\ latch' = [latch EXCEPT ![t] = "none"] /\ pc' = [pc EXCEPT ![t] = "user"]
    BY <1>3, Zenon DEF Run, Goto, lockedVars
  <2>2. /\ latch'[t] \notin Why /\ pc'[t] = "user"
        /\ \A u \in Threads \ {t} : latch'[u] = latch[u] /\ pc'[u] = pc[u]
    BY <1>1, <2>1, Zenon DEF Why
  <2>3. AllFit(st', pc', latch', flight')
    <3>1. Fits(st, pc[t], latch[t], flight[t], t) => Fits(st, pc'[t], latch'[t], flight'[t], t)
      BY <2>1, <2>2, Zenon DEF Fits, Native, Running, InWait, Locked, Asleep
    <3> QED
      BY <1>1, <2>1, <2>2, <3>1, ThreadFits, Zenon
  <2>4. Quiet'
    BY <1>1, <2>1, <2>2, SchedulerAssumption, Zenon DEF Core, Quiet, Past, Free
  <2> QED
    BY <1>1, <2>1, <2>3, <2>4, Zenon DEF Core, DetachedEmpty, WorkConserving, Free
<1>4. CASE TakeDuty(t)
  <2>1. /\ pc[t] = "parked" /\ latch[t] = "dispatch" /\ UNCHANGED <<locker, flight>>
        /\ latch' = [latch EXCEPT ![t] = "none"] /\ pc' = [pc EXCEPT ![t] = "duty"]
    BY <1>4, Zenon DEF TakeDuty, Goto, lockedVars
  <2>2. /\ latch'[t] \notin Why /\ latch[t] \notin Why /\ pc'[t] = "duty"
        /\ \A u \in Threads \ {t} : latch'[u] = latch[u] /\ pc'[u] = pc[u]
    BY <1>1, <2>1, Zenon DEF Why
  <2>3. AllFit(st', pc', latch', flight')
    <3>1. Fits(st, pc[t], latch[t], flight[t], t) => Fits(st, pc'[t], latch'[t], flight'[t], t)
      BY <2>1, <2>2, Zenon DEF Fits, Native, InWait, Running
    <3> QED
      BY <1>1, <2>1, <2>2, <3>1, ThreadFits, Zenon
  <2>4. Quiet'
    BY <1>1, <2>1, <2>2, SchedulerAssumption, Zenon DEF Core, Quiet, Past, Free
  <2> QED
    BY <1>1, <2>1, <2>3, <2>4, Zenon DEF Core, DetachedEmpty, WorkConserving, Free
<1>5. CASE DoDuty(t)
  <2>1. /\ pc[t] = "duty" /\ Free /\ UNCHANGED <<latch, flight>>
        /\ \/ st.holder = None /\ locker' = t /\ pc' = [pc EXCEPT ![t] = "dispatch"]
           \/ st.holder # None /\ UNCHANGED locker /\ pc' = [pc EXCEPT ![t] = "parked"]
    BY <1>5, Zenon DEF DoDuty, Goto
  <2>2. pc'[t] \in {"dispatch", "parked"} /\ \A u \in Threads \ {t} : pc'[u] = pc[u]
    BY <1>1, <2>1, Zenon
  <2>3. AllFit(st', pc', latch', flight')
    <3>1. Fits(st, pc[t], latch[t], flight[t], t) => Fits(st, pc'[t], latch'[t], flight'[t], t)
      BY <2>1, <2>2, Zenon DEF Fits, Native, InWait, Locked, Running
    <3> QED
      BY <1>1, <2>1, <2>2, <3>1, ThreadFits, Zenon
  <2>4. Quiet'
    BY <1>1, <2>1, <2>2, SchedulerAssumption, Zenon DEF Core, Quiet, Past, Free
  <2> QED
    BY <1>1, <2>1, <2>3, <2>4, Zenon DEF Core, DetachedEmpty, WorkConserving, Free
<1> QED
  BY <1>2, <1>3, <1>4, <1>5, Zenon DEF Parked

(* Spins and the latency of calls. *)
LEMMA SpinCore ==
  ASSUME IInv, NEW t \in Threads,
         SpinAdvance(t) \/ ChargeLatency(t) \/ \E clock \in BOOLEAN : Spin(t, clock)
  PROVE  Core'
<1>1. Core /\ Books(st) /\ st \in State /\ pc \in [Threads -> PC]
  BY Zenon DEF IInv, Core, Rest, Books
<1>2. ASSUME NEW clock \in BOOLEAN, Spin(t, clock)
      PROVE  Core'
  <2>1. /\ Free /\ st.holder = t /\ pc[t] = "user" /\ UNCHANGED <<locker, detached, latch, flight>>
        /\ st' = [st EXCEPT !.spinner[t] = IF clock THEN "clock" ELSE "yield"]
        /\ \E where \in {"yield", "advance"} : Goto(t, where)
    BY <1>2, Zenon DEF Spin, lockedVars
  <2>2. Same(st, st')
    <3>1. (IF clock THEN "clock" ELSE "yield") \in {"no", "yield", "clock"}
      OBVIOUS
    <3> QED
      BY <1>1, <2>1, <3>1, SpinnerSame, Zenon
  <2>3. Wakes(st, st')
    BY <1>1, <2>2, SameBooks, Zenon
  <2> QED
    BY <1>1, <2>1, <2>3, RunsOnCore, Zenon
<1>3. CASE SpinAdvance(t)
  <2>1. /\ Free /\ pc[t] = "advance" /\ Goto(t, "yield") /\ UNCHANGED <<locker, detached, latch, flight>>
        /\ st' = st \/ \E fired \in Fires : st' = Moved(st, now', timerWakes \/ fired)
    BY <1>3, Zenon DEF SpinAdvance, lockedVars
  <2>2. Wakes(st, st')
    <3>1. Wakes(st, st)
      BY <1>1, Zenon DEF Wakes, Books
    <3> QED
      BY <1>1, <2>1, <3>1, ClockWakes, Zenon
  <2>3. st.holder = t
    BY <1>1, <2>1, Zenon DEF Core, AllFit, Fits
  <2> QED
    BY <1>1, <2>1, <2>2, <2>3, RunsOnCore, Zenon
<1>4. CASE ChargeLatency(t)
  <2> DEFINE s == [st EXCEPT !.spinner[t] = "no"]
  <2>1. /\ Free /\ pc[t] = "user" /\ st.holder = t /\ Goto(t, "yield")
        /\ UNCHANGED <<locker, detached, latch, flight>> /\ st' = ReleaseDueNative(s, now')
    BY <1>4, Zenon DEF ChargeLatency, Awake, lockedVars
  <2>2. Same(st, s) /\ Books(s)
    BY <1>1, SpinnerSame, SameBooks, Zenon
  <2> HIDE DEF s
  <2>3. Wakes(s, st')
    BY <2>1, <2>2, ClockWakes, Zenon
  <2>4. Wakes(st, st')
    BY <2>2, <2>3, Zenon DEF Wakes, Same
  <2> QED
    BY <1>1, <2>1, <2>4, RunsOnCore, Zenon
<1> QED
  BY <1>2, <1>3, <1>4, Zenon

(* What the outside wakes queued meanwhile do to a State. *)
LEMMA QueuedWakes ==
  ASSUME IInv, NEW s, Same(st, s)
  PROVE  LET r == WakeForeign(s, queued) IN Wakes(s, r) /\ Wakes(st, r)
<1>1. queued \in SUBSET Keys /\ Books(s)
  BY SameBooks, Zenon DEF IInv, Core, Rest, Keys
<1>2. Wakes(s, WakeForeign(s, queued))
  BY <1>1, WakeForeignWakes, Zenon
<1> QED
  BY <1>2, Zenon DEF Wakes, Same

(* block, by the holder. *)
LEMMA BlockCore ==
  ASSUME IInv, NEW t \in Threads, NEW w \in Waits, NEW raced \in BOOLEAN, Block(t, w, raced)
  PROVE  Core'
<1> DEFINE s0 == [st EXCEPT !.spinner[t] = "no"]
           s == WakeForeign(s0, queued)
           r == SetBlocked(s, t, Blocked(w))
<1>1. /\ Core /\ Books(st) /\ st \in State /\ pc \in [Threads -> PC]
      /\ pc[t] = "user" /\ Free /\ ~detached /\ st.holder = t /\ t \in st.threads
      /\ now + w.after <= MaxTime /\ UNCHANGED <<detached, latch, flight>>
      /\ \/ st' = [s EXCEPT !.foreign = @ \ {w.key}] /\ UNCHANGED <<locker, pc>>
         \/ st' = [r EXCEPT !.holder = None] /\ locker' = t /\ Goto(t, "dispatch")
  BY Zenon DEF Block, IInv, Core, Rest, Books
<1>2. Same(st, s0)
  BY <1>1, SpinnerSame, Zenon
<1> HIDE DEF s0
<1>3. Wakes(st, s) /\ Books(s) /\ s \in State
  BY <1>2, QueuedWakes, Zenon DEF Wakes, Books
<1> HIDE DEF s
<1>4. CASE st' = [s EXCEPT !.foreign = @ \ {w.key}] /\ UNCHANGED <<locker, pc>>
  <2>1. Same(s, st')
    BY <1>3, <1>4, Zenon DEF Same, State
  <2>2. Wakes(st, st')
    BY <1>3, <2>1, SameBooks, Zenon
  <2>3. Goto(t, "user")
    BY <1>1, <1>4, Zenon DEF Goto
  <2> QED
    BY <1>1, <1>4, <2>2, <2>3, RunsOnCore, Zenon
<1>5. CASE st' = [r EXCEPT !.holder = None] /\ locker' = t /\ Goto(t, "dispatch")
  <2>1. t \notin st.ready /\ t \notin st.waiting /\ t \notin st.letGo /\ st.outside[t] = NoKey
        /\ latch[t] \notin Why /\ flight[t] = "none"
    BY <1>1, InUser, Zenon
  <2>2. Blocked(w) \in Wait
    BY <1>1, TimeTypes, Zenon DEF IInv
  <2>3. t \in s.threads /\ t \notin s.ready
    BY <1>1, <1>3, <2>1, Zenon DEF Wakes
  <2>4. /\ Books(r) /\ r.waiting = s.waiting \cup {t}
        /\ r.holder = s.holder /\ r.threads = s.threads /\ r.letGo = s.letGo
        /\ r.outside = s.outside /\ r.ready = s.ready
    BY <1>3, <2>2, <2>3, SetBlockedBooks, Zenon
  <2> HIDE DEF r
  <2>5. /\ Books(st') /\ st'.holder = None
        /\ st'.threads = r.threads /\ st'.letGo = r.letGo /\ st'.outside = r.outside
        /\ st'.ready = r.ready /\ st'.waiting = r.waiting
    BY <1>5, <2>4, NoHolder, Zenon
  <2>6. AllFit(st', pc', latch', flight')
    <3>1. AllFit(s, pc, latch, flight)
      BY <1>1, <1>3, WakesFit, Zenon DEF Core
    <3> SUFFICES ASSUME NEW u \in Threads, Fits(s, pc[u], latch[u], flight[u], u)
                 PROVE  Fits(st', pc'[u], latch[u], flight[u], u)
      BY <1>1, <3>1, Zenon DEF AllFit
    <3>2. pc'[u] = (IF u = t THEN "dispatch" ELSE pc[u]) /\ st'.holder # u
      BY <1>1, <1>5, <2>5, SchedulerAssumption, Zenon DEF Goto
    <3>3. CASE u = t
      <4>1. u \in st'.waiting /\ u \notin st'.letGo /\ u \notin st'.ready /\ st'.outside[u] = NoKey
        BY <1>3, <2>1, <2>3, <2>4, <2>5, <3>3, Zenon DEF Wakes
      <4> QED
        BY <2>1, <3>2, <3>3, <4>1, Zenon DEF Fits, InWait, Native, Locked
    <3>4. CASE u # t
      <4>1. s.holder # u /\ (u \in st'.waiting <=> u \in s.waiting)
        BY <1>1, <1>3, <2>4, <2>5, <3>4, Zenon DEF Wakes
      <4> QED
        BY <2>4, <2>5, <3>2, <3>4, <4>1, Zenon DEF Fits
    <3> QED
      BY <3>3, <3>4, Zenon
  <2>7. Quiet'
    BY <1>1, <1>5, SchedulerAssumption, Zenon DEF Quiet, Past, Goto
  <2> QED
    BY <1>1, <1>5, <2>5, <2>6, <2>7, SchedulerAssumption, Zenon DEF Core, DetachedEmpty, WorkConserving, Free
<1> QED
  BY <1>1, <1>4, <1>5, Zenon

(* block, by a thread let go. *)
LEMMA BlockLetGoCore ==
  ASSUME IInv, NEW t \in Threads, NEW w \in Waits, BlockLetGo(t, w)
  PROVE  Core'
<1> DEFINE s == [st EXCEPT !.letGo = @ \ {t}, !.spinner[t] = "no"]
           r == SetBlocked(s, t, Blocked(w))
<1>1. /\ Core /\ Books(st) /\ st \in State /\ pc \in [Threads -> PC]
      /\ pc[t] = "block" /\ Free /\ st.holder # t /\ now + w.after <= MaxTime
      /\ UNCHANGED <<locker, detached, latch, flight>>
      /\ \/ ~detached /\ st' = r /\ Goto(t, "parked")
         \/ st' = s /\ Goto(t, "user")
  BY Zenon DEF BlockLetGo, IInv, Core, Rest, Books, lockedVars
<1>2. /\ t \in st.letGo /\ t \in st.threads /\ t \notin st.ready /\ t \notin st.waiting
      /\ st.outside[t] = NoKey /\ latch[t] \notin Why /\ flight[t] = "none"
  BY <1>1, Zenon DEF Core, Books, AllFit, Fits, InWait, Native, Locked, Asleep
<1>3. /\ s \in State /\ s.letGo = st.letGo \ {t} /\ s.threads = st.threads /\ s.ready = st.ready
      /\ s.waiting = st.waiting /\ s.outside = st.outside
      /\ s.holder = st.holder /\ s.runnable = st.runnable /\ s.blocked = st.blocked
  <2> DEFINE s0 == [st EXCEPT !.spinner[t] = "no"]
  <2>1. Same(st, s0)
    BY <1>1, SpinnerSame, Zenon
  <2>2. s = [s0 EXCEPT !.letGo = @ \ {t}]
    BY <1>1, Zenon DEF State
  <2> HIDE DEF s, s0
  <2>3. s0 \in State
    BY <2>1, Zenon DEF Same
  <2>4. /\ s \in State /\ s.letGo = s0.letGo \ {t} /\ s.threads = s0.threads /\ s.ready = s0.ready
        /\ s.waiting = s0.waiting /\ s.outside = s0.outside
        /\ s.holder = s0.holder /\ s.runnable = s0.runnable /\ s.blocked = s0.blocked
    BY <2>2, <2>3, SMTT(30) DEF State
  <2> QED
    BY <2>1, <2>4, Zenon DEF Same
<1> HIDE DEF s
<1>4. Books(s)
  BY <1>1, <1>3, Zenon DEF Books
<1>5. CASE ~detached /\ st' = r /\ Goto(t, "parked")
  <2>1. Blocked(w) \in Wait
    BY <1>1, TimeTypes, Zenon DEF IInv
  <2>2. /\ Books(st') /\ st'.waiting = s.waiting \cup {t}
        /\ st'.holder = s.holder /\ st'.threads = s.threads /\ st'.letGo = s.letGo
        /\ st'.outside = s.outside /\ st'.ready = s.ready
    BY <1>2, <1>3, <1>4, <1>5, <2>1, SetBlockedBooks
  <2>3. AllFit(st', pc', latch, flight)
    <3> SUFFICES ASSUME NEW u \in Threads, Fits(st, pc[u], latch[u], flight[u], u)
                 PROVE  Fits(st', pc'[u], latch[u], flight[u], u)
      BY <1>1, Zenon DEF Core, AllFit
    <3>1. pc'[u] = IF u = t THEN "parked" ELSE pc[u]
      BY <1>1, <1>5, Zenon DEF Goto
    <3>2. CASE u = t
      BY <1>1, <1>2, <1>3, <2>2, <3>1, <3>2, ZenonT(40) DEF Fits, Native, InWait
    <3>3. CASE u # t
      BY <1>3, <2>2, <3>1, <3>3, ZenonT(40) DEF Fits
    <3> QED
      BY <3>2, <3>3, Zenon
  <2> QED
    BY <1>1, <1>3, <1>5, <2>2, <2>3, PlainCore, Zenon DEF Core, DetachedEmpty, WorkConserving
<1>6. CASE st' = s /\ Goto(t, "user")
  <2>1. AllFit(st', pc', latch, flight)
    <3> SUFFICES ASSUME NEW u \in Threads, Fits(st, pc[u], latch[u], flight[u], u)
                 PROVE  Fits(s, pc'[u], latch[u], flight[u], u)
      BY <1>1, <1>6, Zenon DEF Core, AllFit
    <3>1. pc'[u] = IF u = t THEN "user" ELSE pc[u]
      BY <1>1, <1>6, Zenon DEF Goto
    <3>2. CASE u = t
      BY <1>1, <1>2, <1>3, <3>1, <3>2, Zenon DEF Fits, Native, InWait, Locked, Asleep
    <3>3. CASE u # t
      BY <1>3, <3>1, <3>3, Zenon DEF Fits
    <3> QED
      BY <3>2, <3>3, Zenon
  <2> QED
    BY <1>1, <1>3, <1>4, <1>6, <2>1, PlainCore, Zenon DEF Core, DetachedEmpty, WorkConserving
<1> QED
  BY <1>1, <1>5, <1>6, Zenon

(* yield_now. *)
LEMMA YieldCore ==
  ASSUME IInv, NEW t \in Threads, YieldNow(t)
  PROVE  Core'
<1> DEFINE s == WakeForeign(st, queued)
           r == SetRunnable(s, t, "Woken")
           z == [r EXCEPT !.holder = None]
<1>1. /\ Core /\ Books(st) /\ st \in State /\ pc \in [Threads -> PC]
      /\ pc[t] \in {"yield", "user"} /\ Free /\ ~detached /\ st.holder = t
      /\ UNCHANGED <<locker, detached, latch>>
      /\ \/ st' = s /\ Goto(t, "user") /\ UNCHANGED flight
         \/ GrantNext(z) /\ Goto(t, "parked") /\ s.runnable # 0
  BY Zenon DEF YieldNow, IInv, Core, Rest, Books
<1>2. Wakes(st, s) /\ Books(s)
  BY <1>1, QueuedWakes, Zenon DEF Wakes, Same
<1> HIDE DEF s
<1>3. CASE st' = s /\ Goto(t, "user") /\ UNCHANGED flight
  BY <1>1, <1>2, <1>3, RunsOnCore, Zenon
<1>4. CASE GrantNext(z) /\ Goto(t, "parked")
  <2>1. /\ t \notin st.waiting /\ t \notin st.letGo /\ t \notin st.ready
        /\ st.outside[t] = NoKey /\ latch[t] \notin Why /\ flight[t] = "none"
    BY <1>1, Zenon DEF Core, AllFit, Fits, InWait, Native, Locked, Asleep
  <2>2. t \in st.threads
    BY <1>1, Zenon DEF Core, AllFit, Fits
  <2>3. /\ Books(r) /\ r.ready = s.ready \cup {t} /\ r.holder = s.holder
        /\ r.threads = s.threads /\ r.letGo = s.letGo
        /\ r.outside = s.outside /\ r.waiting = s.waiting
    BY <1>2, <2>1, <2>2, SetRunnableBooks DEF Why, Wakes
  <2> HIDE DEF r
  <2>4. /\ Books(z) /\ z.holder = None
        /\ z.threads = r.threads /\ z.letGo = r.letGo /\ z.outside = r.outside
        /\ z.ready = r.ready /\ z.waiting = r.waiting
    BY <2>3, NoHolder, Zenon
  <2> HIDE DEF z
  <2>5. AllFit(z, pc', latch, flight)
    <3>1. AllFit(s, pc, latch, flight)
      BY <1>1, <1>2, WakesFit, Zenon DEF Core
    <3> SUFFICES ASSUME NEW u \in Threads, Fits(s, pc[u], latch[u], flight[u], u)
                 PROVE  Fits(z, pc'[u], latch[u], flight[u], u)
      BY <3>1, Zenon DEF AllFit
    <3>2. pc'[u] = (IF u = t THEN "parked" ELSE pc[u]) /\ z.holder # u
      BY <1>1, <1>4, <2>4, SchedulerAssumption, Zenon DEF Goto
    <3>3. CASE u = t
      <4>1. u \in z.ready /\ u \notin z.letGo /\ u \notin z.waiting /\ z.outside[u] = NoKey
        BY <1>2, <2>1, <2>3, <2>4, <3>3, Zenon DEF Wakes
      <4> QED
        BY <2>1, <3>2, <3>3, <4>1, Zenon DEF Fits, InWait, Native
    <3>4. CASE u # t
      <4>1. s.holder # u /\ (u \in z.ready <=> u \in s.ready)
        BY <1>1, <1>2, <2>3, <2>4, <3>4, Zenon DEF Wakes
      <4> QED
        BY <2>3, <2>4, <3>2, <3>4, <4>1, Zenon DEF Fits
    <3> QED
      BY <3>3, <3>4, Zenon
  <2>6. GrantIfIdle(z)
    BY <1>4, <2>4, Zenon DEF GrantIfIdle
  <2> QED
    BY <1>1, <2>4, <2>5, <2>6, GrantCore, Zenon
<1> QED
  BY <1>1, <1>3, <1>4, Zenon

(* No key is the absence of one. *)
LEMMA KeysAreKeys == NoKey \notin Keys
<1>1. NoKey # Readiness
  BY Zenon DEF NoKey, Readiness
<1>2. ASSUME NEW x, NEW y
      PROVE  NoKey # <<x, y>>
  BY Zenon DEF NoKey
<1> QED
  BY <1>1, <1>2, Zenon DEF Keys, AddrKeys, Addr, Exit

(* wake_masked: waiters, then threads in native waits on the key. *)
LEMMA MaskedCore ==
  ASSUME Core, Free, ~detached, UNCHANGED <<locker, detached, latch, pc>>,
         NEW s, Wakes(st, s), NEW key \in Keys, NEW n, GrantIfIdle(WakeOutside(s, key, n))
  PROVE  Core'
<1>1. Books(s) /\ AllFit(s, pc, latch, flight)
  BY WakesFit, Zenon DEF Core, Wakes
<1>2. Books(WakeOutside(s, key, n)) /\ AllFit(WakeOutside(s, key, n), pc, latch, flight)
  BY <1>1, KeysAreKeys, WakeOutsideFits, Zenon
<1> QED
  BY <1>2, GrantCore, Zenon

(* wake_key_matching wakes waiters of the key. *)
LEMMA WakeKeyWakes ==
  ASSUME NEW s, Books(s), NEW key, NEW n
  PROVE  Wakes(s, WakeKey(s, key, n, "Woken"))
<1>1. Oldest(s, Waiters(s, key), n) \in SUBSET Threads
  BY StateFields, Zenon DEF Oldest, Waiters, Books
<1> QED
  BY <1>1, TellWakes, Zenon DEF WakeKey, Why

(* A mutex taken or given back is not in the books. *)
LEMMA OwnerSame ==
  ASSUME st \in State, NEW a \in Addrs, NEW x \in Threads \cup {None}
  PROVE  Same(st, [st EXCEPT !.owner[a] = x])
<1>1. [st.owner EXCEPT ![a] = x] \in [Addrs -> Threads \cup {None}]
  BY Zenon DEF State
<1>2. [st EXCEPT !.owner[a] = x] \in State
  BY <1>1, Zenon DEF State
<1> QED
  BY <1>2, Zenon DEF Same, State

(* Wakes by threads of the domain. *)
LEMMA WakingCore ==
  ASSUME IInv, NEW t \in Threads, Waking(t)
  PROVE  Core'
<1>1. /\ Core /\ Books(st) /\ st \in State /\ ~detached /\ Free
      /\ UNCHANGED <<locker, detached, latch, pc>>
  BY Zenon DEF IInv, Core, Books, Waking, Wake, WakeReadiness, WakeThread, Took, Released, Awake, lockedVars
<1>2. ASSUME NEW key \in Keys, NEW n, Wake(t, key, n)
      PROVE  Core'
  <2> DEFINE s == WakeKey(st, key, n, "Woken")
             left == n - Cardinality(Oldest(st, Waiters(st, key), n))
  <2>1. GrantIfIdle(WakeOutside(s, key, left))
    BY <1>2, Zenon DEF Wake, WakeMasked
  <2>2. Wakes(st, s)
    BY <1>1, WakeKeyWakes, Zenon
  <2> HIDE DEF s, left
  <2> QED
    BY <1>1, <2>1, <2>2, MaskedCore, Zenon
<1>3. ASSUME NEW S \in SUBSET Threads, WakeReadiness(t, S)
      PROVE  Core'
  <2> DEFINE s == Unblock(st, Tell(S, "Woken"))
  <2>1. GrantIfIdle(WakeOutside(s, Readiness, All))
    BY <1>3, Zenon DEF WakeReadiness
  <2>2. Wakes(st, s)
    BY <1>1, TellWakes, Zenon DEF Why
  <2>3. Readiness \in Keys
    BY Zenon DEF Keys
  <2> HIDE DEF s
  <2> QED
    BY <1>1, <2>1, <2>2, <2>3, MaskedCore, Zenon
<1>4. ASSUME NEW u \in Threads, WakeThread(t, u)
      PROVE  Core'
  <2>1. GrantIfIdle(WakeOne(st, u))
    BY <1>4, Zenon DEF WakeThread
  <2>2. Wakes(st, WakeOne(st, u))
    BY <1>1, TellWakes, Zenon DEF WakeOne, Why
  <2> QED
    BY <1>1, <2>1, <2>2, WakeCore, Zenon
<1>5. ASSUME NEW a \in Addrs, Took(t, a)
      PROVE  Core'
  <2>1. /\ st' = [st EXCEPT !.owner[a] = t] /\ UNCHANGED flight /\ st.holder = t
    BY <1>5, Zenon DEF Took
  <2>2. Wakes(st, st')
    BY <1>1, OwnerSame, <2>1, SameBooks, Zenon
  <2>3. AllFit(st', pc, latch, flight)
    BY <1>1, <2>2, WakesFit, Zenon DEF Core
  <2> QED
    BY <1>1, <2>1, <2>2, <2>3, SchedulerAssumption, PlainCore, Zenon DEF Wakes, DetachedEmpty
<1>6. ASSUME NEW a \in Addrs, Released(t, a)
      PROVE  Core'
  <2> DEFINE s0 == [st EXCEPT !.owner[a] = None]
             s == WakeKey(s0, Addr(a), 1, "Woken")
             left == 1 - Cardinality(Oldest(s0, Waiters(s0, Addr(a)), 1))
  <2>1. GrantIfIdle(WakeOutside(s, Addr(a), left))
    BY <1>6, Zenon DEF Released, WakeMasked
  <2>2. Same(st, s0)
    BY <1>1, OwnerSame, Zenon
  <2> HIDE DEF s0
  <2>3. Wakes(s0, s)
    BY <1>1, WakeKeyWakes, <2>2, SameBooks, Zenon
  <2> HIDE DEF s, left
  <2>4. Wakes(st, s)
    BY <2>2, <2>3, Zenon DEF Wakes, Same
  <2>5. Addr(a) \in Keys
    BY Zenon DEF Keys, AddrKeys
  <2> QED
    BY <1>1, <2>1, <2>4, <2>5, MaskedCore, Zenon
<1> QED
  BY <1>2, <1>3, <1>4, <1>5, <1>6, Zenon DEF Waking

(* Threads let go: native waits, and the way back. *)
LEMMA NativeCore ==
  ASSUME IInv, NEW t \in Threads,
         NativeReturns(t) \/ DetActive(t) \/ DetBlock(t)
           \/ \E key \in AddrKeys \cup {NoKey} : NativeWait(t, key)
  PROVE  Core'
<1>1. /\ Core /\ Books(st) /\ st \in State /\ pc \in [Threads -> PC]
      /\ UNCHANGED <<locker, detached, latch, flight>>
  BY Zenon DEF IInv, Core, Rest, Books, NativeReturns, DetActive, DetBlock, NativeWait, lockedVars
<1>2. Fits(st, pc[t], latch[t], flight[t], t)
  BY <1>1, Zenon DEF Core, AllFit
<1>3. CASE NativeReturns(t)
  <2>1. Goto(t, "rejoin") /\ UNCHANGED st /\ pc[t] = "native"
    BY <1>3, Zenon DEF NativeReturns
  <2>2. Fits(st, "rejoin", latch[t], flight[t], t)
    BY <1>2, <2>1, Zenon DEF Fits, Native, InWait, Locked, Asleep, Running
  <2> QED
    BY <1>1, <2>1, <2>2, GotoCore, Zenon DEF Past
<1>4. CASE DetActive(t)
  <2>1. Goto(t, "active") /\ UNCHANGED st /\ pc[t] = "user" /\ t \in st.letGo
    BY <1>4, ZenonT(40) DEF DetActive
  <2>2. Fits(st, "active", latch[t], flight[t], t)
    BY <1>2, <2>1, Zenon DEF Fits, Native, InWait, Locked, Asleep
  <2> QED
    BY <1>1, <2>1, <2>2, GotoCore, Zenon DEF Past
<1>5. CASE DetBlock(t)
  <2>1. PICK where \in {"user", "block"} : Goto(t, where) /\ UNCHANGED st /\ pc[t] = "hook"
    BY <1>5, Zenon DEF DetBlock
  <2>2. Fits(st, where, latch[t], flight[t], t)
    BY <1>2, <2>1, Zenon DEF Fits, Native, InWait, Locked, Asleep
  <2> QED
    BY <1>1, <2>1, <2>2, GotoCore, Zenon DEF Past
<1>6. ASSUME NEW key \in AddrKeys \cup {NoKey}, NativeWait(t, key)
      PROVE  Core'
  <2>1. /\ pc[t] = "user" /\ detached /\ Free /\ Goto(t, "native")
        /\ st' = IF key # NoKey /\ t \in st.letGo THEN [st EXCEPT !.outside[t] = key] ELSE st
    BY <1>6, Zenon DEF NativeWait
  <2>2. /\ st' \in State /\ st'.threads = st.threads /\ st'.ready = st.ready
        /\ st'.waiting = st.waiting /\ st'.letGo = st.letGo /\ st'.holder = st.holder
        /\ st'.runnable = st.runnable /\ st'.blocked = st.blocked
        /\ \A u \in Threads : st'.outside[u] # st.outside[u] => u = t /\ t \in st.letGo
    <3>1. key \in Keys \cup {NoKey}
      BY Zenon DEF Keys
    <3>2. [st.outside EXCEPT ![t] = key] \in [Threads -> Keys \cup {NoKey}]
      BY <1>1, <3>1, Zenon DEF State
    <3> QED
      BY <1>1, <2>1, <3>2, ZenonT(40) DEF State
  <2>3. Books(st')
    BY <1>1, <2>2, Zenon DEF Books
  <2>4. AllFit(st', pc', latch, flight)
    <3> SUFFICES ASSUME NEW u \in Threads, Fits(st, pc[u], latch[u], flight[u], u)
                 PROVE  Fits(st', pc'[u], latch[u], flight[u], u)
      BY <1>1, Zenon DEF Core, AllFit
    <3>1. pc'[u] = (IF u = t THEN "native" ELSE pc[u]) /\ u \notin st.ready /\ st.holder # u
      BY <1>1, <2>1, Zenon DEF Goto, Core, DetachedEmpty
    <3>2. CASE u = t
      <4>1. /\ u \notin st.waiting /\ latch[u] \notin Why /\ flight[u] = "none"
            /\ st'.outside[u] # NoKey => u \in st.letGo
        BY <1>1, <2>1, <2>2, <3>2, InUser, Zenon
      <4> QED
        BY <2>1, <2>2, <3>1, <3>2, <4>1, Zenon DEF Fits, Native, InWait, Locked, Asleep
    <3>3. CASE u # t
      <4>1. st'.outside[u] = st.outside[u]
        BY <2>2, <3>3, Zenon
      <4> QED
        BY <2>2, <3>1, <3>3, <4>1, Zenon DEF Fits
    <3> QED
      BY <3>2, <3>3, Zenon
  <2> QED
    BY <1>1, <2>1, <2>2, <2>3, <2>4, PlainCore, Zenon DEF Core, DetachedEmpty
<1> QED
  BY <1>3, <1>4, <1>5, <1>6, Zenon

-----------------------------------------------------------------------------
(* Threads that rejoin or dispatch, the steps outside the lock, and Rest. *)

(* rejoin. *)
LEMMA RejoinCore ==
  ASSUME IInv, NEW t \in Threads, Rejoin(t)
  PROVE  Core'
<1> DEFINE s == [st EXCEPT !.outside[t] = NoKey]
           s1 == [s EXCEPT !.letGo = @ \ {t}]
           r == SetRunnableIfNot(s1, t)
<1>1. /\ Core /\ Books(st) /\ st \in State /\ pc \in [Threads -> PC]
      /\ Free /\ pc[t] \in {"rejoin", "active"} /\ UNCHANGED <<locker, detached, latch>>
  BY Zenon DEF IInv, Core, Rest, Books, Rejoin, lockedVars
<1>2. /\ detached \/ t \notin st.letGo =>
           /\ st' = IF st.letGo = {} THEN st ELSE s
           /\ Goto(t, IF pc[t] = "rejoin" THEN "user" ELSE "hook") /\ UNCHANGED flight
      /\ ~(detached \/ t \notin st.letGo) =>
           /\ IF st.holder # t THEN GrantIfIdle(r) ELSE st' = s1 /\ UNCHANGED flight
           /\ Goto(t, "parked")
  BY Zenon DEF Rejoin
<1>3. /\ s \in State /\ s.threads = st.threads /\ s.ready = st.ready
      /\ s.waiting = st.waiting /\ s.letGo = st.letGo /\ s.holder = st.holder
      /\ s.runnable = st.runnable /\ s.blocked = st.blocked
      /\ s.outside = [st.outside EXCEPT ![t] = NoKey]
  <2>1. [st.outside EXCEPT ![t] = NoKey] \in [Threads -> Keys \cup {NoKey}]
    BY <1>1, Zenon DEF State
  <2> QED
    BY <1>1, <2>1, ZenonT(40) DEF State
<1> HIDE DEF s
<1>4. s.outside[t] = NoKey /\ \A u \in Threads : u # t => s.outside[u] = st.outside[u]
  BY <1>1, <1>3, Zenon DEF State
<1>5. Fits(st, pc[t], latch[t], flight[t], t) /\ t \notin st.waiting
  BY <1>1, Zenon DEF Core, AllFit, Fits, InWait, Locked, Asleep
<1>6. CASE detached \/ t \notin st.letGo
  <2>1. /\ Books(st') /\ st'.threads = st.threads /\ st'.ready = st.ready
        /\ st'.waiting = st.waiting /\ st'.letGo = st.letGo /\ st'.holder = st.holder
        /\ st'.outside[t] = NoKey /\ \A u \in Threads : u # t => st'.outside[u] = st.outside[u]
    <3>1. Books(s)
      BY <1>1, <1>3, Zenon DEF Books
    <3>2. st.letGo = {} => st.outside[t] = NoKey
      BY <1>5, Zenon DEF Fits
    <3> QED
      BY <1>1, <1>2, <1>3, <1>4, <1>6, <3>1, <3>2, Zenon
  <2>2. /\ t \notin st.ready /\ st.holder # t /\ latch[t] \notin Why /\ flight[t] = "none"
        /\ pc[t] = "active" => t \in st.letGo
    BY <1>1, <1>5, <1>6, Zenon DEF Fits, Native, Core, DetachedEmpty, InWait, Locked, Asleep
  <2>3. AllFit(st', pc', latch, flight)
    <3> SUFFICES ASSUME NEW u \in Threads, Fits(st, pc[u], latch[u], flight[u], u)
                 PROVE  Fits(st', pc'[u], latch[u], flight[u], u)
      BY <1>1, Zenon DEF Core, AllFit
    <3>1. pc'[u] = IF u = t THEN (IF pc[t] = "rejoin" THEN "user" ELSE "hook") ELSE pc[u]
      BY <1>1, <1>2, <1>6, Zenon DEF Goto
    <3>2. CASE u = t
      BY <1>1, <1>5, <2>1, <2>2, <3>1, <3>2, ZenonT(40) DEF Fits, Native, InWait, Locked, Asleep
    <3>3. CASE u # t
      BY <2>1, <3>1, <3>3, Zenon DEF Fits
    <3> QED
      BY <3>2, <3>3, Zenon
  <2> QED
    BY <1>1, <1>2, <1>6, <2>1, <2>3, PlainCore, Zenon DEF Core, DetachedEmpty, WorkConserving
<1>7. CASE ~(detached \/ t \notin st.letGo)
  <2>1. /\ s1 \in State /\ s1.letGo = st.letGo \ {t} /\ s1.threads = st.threads
        /\ s1.ready = st.ready /\ s1.waiting = st.waiting /\ s1.holder = st.holder
        /\ s1.runnable = st.runnable /\ s1.blocked = st.blocked /\ s1.outside = s.outside
    BY <1>3, Zenon DEF State
  <2> HIDE DEF s1
  <2>2. Books(s1) /\ t \in s1.threads
    BY <1>1, <1>7, <2>1, Zenon DEF Books
  <2>3. ASSUME NEW x, x.threads = s1.threads, x.waiting = s1.waiting, x.letGo = s1.letGo,
               x.outside = s1.outside, x.holder = s1.holder,
               x.ready = IF st.holder = t THEN s1.ready ELSE s1.ready \cup {t}
        PROVE  AllFit(x, pc', latch, flight)
    <3> SUFFICES ASSUME NEW u \in Threads, Fits(st, pc[u], latch[u], flight[u], u)
                 PROVE  Fits(x, pc'[u], latch[u], flight[u], u)
      BY <1>1, Zenon DEF Core, AllFit
    <3>1. pc'[u] = IF u = t THEN "parked" ELSE pc[u]
      BY <1>1, <1>2, <1>7, Zenon DEF Goto
    <3>2. CASE u = t
      <4>1. /\ u \notin x.letGo /\ u \notin x.waiting /\ x.outside[u] = NoKey
            /\ x.holder = st.holder /\ u \in x.threads
            /\ u \in x.ready <=> st.holder # u
        BY <1>4, <1>5, <2>1, <2>2, <2>3, <3>2, Zenon DEF Fits
      <4>2. flight[u] # "none" \/ latch[u] \in Why =>
              st.holder = u /\ (flight[u] # "none" => latch[u] \notin Why)
        BY <1>1, <3>2, Zenon DEF Fits, Native, InWait, Locked, Asleep
      <4>3. st.holder = u => flight[u] # "none" \/ latch[u] \in Why
        BY <1>1, <3>2, Zenon DEF Fits, Running
      <4> QED
        BY <3>1, <3>2, <4>1, <4>2, <4>3, Zenon DEF Fits, InWait, Native, Running, Locked, Asleep
    <3>3. CASE u # t
      <4>1. /\ x.outside[u] = st.outside[u] /\ (u \in x.letGo <=> u \in st.letGo)
            /\ (u \in x.ready <=> u \in st.ready) /\ (u \in x.waiting <=> u \in st.waiting)
            /\ (u \in x.threads <=> u \in st.threads) /\ x.holder = st.holder
        BY <1>4, <2>1, <2>3, <3>3, Zenon
      <4> QED
        BY <3>1, <3>3, <4>1, Zenon DEF Fits
    <3> QED
      BY <3>2, <3>3, Zenon
  <2>4. CASE st.holder = t
    <3>1. st' = s1 /\ UNCHANGED flight
      BY <1>2, <1>7, <2>4, Zenon
    <3>2. AllFit(s1, pc', latch, flight)
      BY <2>3, <2>4, Zenon
    <3> QED
      BY <1>1, <1>7, <2>1, <2>2, <2>4, <3>1, <3>2, SchedulerAssumption, PlainCore, Zenon DEF DetachedEmpty
  <2>5. CASE st.holder # t
    <3>1. GrantIfIdle(r)
      BY <1>2, <1>7, <2>5, Zenon
    <3>2. /\ Books(r) /\ r.threads = s1.threads /\ r.waiting = s1.waiting /\ r.letGo = s1.letGo
          /\ r.outside = s1.outside /\ r.holder = s1.holder /\ r.ready = s1.ready \cup {t}
      <4>1. CASE t \in s1.ready
        BY <2>2, <4>1, Zenon DEF SetRunnableIfNot
      <4>2. CASE t \notin s1.ready
        BY <1>5, <2>1, <2>2, <4>2, SetRunnableBooks, Zenon DEF SetRunnableIfNot, Why
      <4> QED
        BY <4>1, <4>2, Zenon
    <3> HIDE DEF r
    <3>3. AllFit(r, pc', latch, flight)
      BY <2>3, <2>5, <3>2, Zenon
    <3> QED
      BY <1>1, <1>7, <3>1, <3>2, <3>3, GrantCore, Zenon
  <2> QED
    BY <2>4, <2>5, Zenon
<1> QED
  BY <1>6, <1>7, Zenon

-----------------------------------------------------------------------------
(* Every step keeps Rest. *)

(* Threads that come, go and change class keep Rest. *)
LEMMA ComingRest ==
  ASSUME Rest, NEW t \in Threads, Coming(t) \/ Injected(t)
  PROVE  Rest'
<1> USE DEF Rest, Goto, env, outer, lockedVars, Locked
<1>0. {"born", "create", "user", "parked", "gone"} \subseteq PC
  BY Zenon DEF PC
<1>1. CASE EnterRoot(t)
  BY <1>0, <1>1, ZenonT(60) DEF EnterRoot
<1>2. CASE Created(t)
  BY <1>0, <1>2, Zenon DEF Created
<1>3. CASE CreateFails(t)
  BY <1>0, <1>3, Zenon DEF CreateFails
<1>4. CASE Started(t)
  BY <1>0, <1>4 DEF Started
<1>5. CASE ExitThread(t)
  BY <1>0, <1>5, Zenon DEF ExitThread
<1>6. CASE LeaveClass(t)
  BY <1>0, <1>6, Zenon DEF LeaveClass
<1>7. CASE JoinClass(t)
  BY <1>0, <1>7 DEF JoinClass
<1>8. ASSUME NEW c \in Threads, Spawned(t, c)
      PROVE  Rest'
  BY <1>0, <1>8, Zenon DEF Spawned, Queue
<1>9. CASE Injected(t)
  BY <1>0, <1>9, Zenon DEF Injected, Queue
<1> QED
  BY <1>1, <1>2, <1>3, <1>4, <1>5, <1>6, <1>7, <1>8, <1>9, Zenon DEF Coming

(* So do waits, yields and spins, and the wakes and parking of threads. *)
LEMMA WaitingRest ==
  ASSUME Rest, NEW t \in Threads, Waiting(t) \/ Waking(t) \/ Parked(t) \/ ChargeLatency(t)
  PROVE  Rest'
<1> USE DEF Rest, Goto, env, outer, lockedVars, Locked
<1>0. {"user", "parked", "duty", "yield", "advance", "dispatch"} \subseteq PC
  BY Zenon DEF PC
<1>1. ASSUME NEW w \in Waits, BlockLetGo(t, w)
      PROVE  Rest'
  BY <1>0, <1>1, TimeTypes DEF BlockLetGo
<1>2. ASSUME NEW w \in Waits, NEW raced \in BOOLEAN, Block(t, w, raced)
      PROVE  Rest'
  <2>1. queued' = {} /\ Free
    BY <1>2, Zenon DEF Block
  <2>2. CASE UNCHANGED <<locker, pc, timers>>
    BY <2>1, <2>2, <1>2, Zenon DEF Block
  <2>3. CASE locker' = t /\ Goto(t, "dispatch") /\ timers' = [timers EXCEPT ![t] = Deadline(w)]
    <3>1. Deadline(w) \in Times
      BY <1>2, TimeTypes, Zenon DEF Block
    <3> QED
      BY <1>0, <1>2, <2>1, <2>3, <3>1, SchedulerAssumption DEF Block, Free
  <2> QED
    BY <2>2, <2>3, <1>2, Zenon DEF Block
<1>3. CASE YieldNow(t)
  BY <1>0, <1>3 DEF YieldNow
<1>4. CASE SpinAdvance(t)
  BY <1>0, <1>4, TimeTypes, ZenonT(40) DEF SpinAdvance, CanSkip
<1>5. ASSUME NEW clock \in BOOLEAN, Spin(t, clock)
      PROVE  Rest'
  BY <1>0, <1>5, Zenon DEF Spin
<1>6. CASE Waking(t)
  BY <1>6, ZenonT(40) DEF Waking, Wake, WakeReadiness, WakeThread, Took, Released
<1>7. CASE Parked(t)
  <2>1. CASE Deliver(t)
    BY <2>1, Zenon DEF Deliver
  <2>2. CASE Run(t)
    BY <1>0, <2>2, TimeTypes, Zenon DEF Run
  <2>3. CASE TakeDuty(t)
    BY <1>0, <2>3, Zenon DEF TakeDuty
  <2>4. CASE DoDuty(t)
    BY <1>0, <2>4, SchedulerAssumption DEF DoDuty, Free
  <2> QED
    BY <1>7, <2>1, <2>2, <2>3, <2>4, Zenon DEF Parked
<1>8. CASE ChargeLatency(t)
  BY <1>0, <1>8, TimeTypes, Zenon DEF ChargeLatency, Awake
<1> QED
  BY <1>1, <1>2, <1>3, <1>4, <1>5, <1>6, <1>7, <1>8, Zenon DEF Waiting

(* Threads let go. *)
LEMMA RejoiningRest ==
  ASSUME Rest, NEW t \in Threads, Rejoining(t)
  PROVE  Rest'
<1> USE DEF Rest, Goto, env, outer, lockedVars, Locked
<1>0. {"user", "parked", "native", "rejoin", "active", "hook", "block"} \subseteq PC
  BY Zenon DEF PC
<1>1. ASSUME NEW key, NativeWait(t, key)
      PROVE  Rest'
  BY <1>0, <1>1, Zenon DEF NativeWait
<1>2. CASE NativeReturns(t) \/ DetActive(t) \/ DetBlock(t)
  BY <1>0, <1>2 DEF NativeReturns, DetActive, DetBlock
<1>3. CASE Rejoin(t)
  BY <1>0, <1>3 DEF Rejoin
<1> QED
  BY <1>1, <1>2, <1>3, Zenon DEF Rejoining

(* What happens outside the schedule. *)
LEMMA OutsideRest ==
  ASSUME Rest, st \in State, Outside
  PROVE  Rest'
<1> USE DEF Rest, Goto, env, outer, lockedVars, threadVars
<1>1. CASE MoveClock
  BY <1>1, TimeTypes, Zenon DEF MoveClock
<1>2. CASE SwitchClock \/ TakeLease \/ ReturnLease
  BY <1>2, Zenon DEF SwitchClock, TakeLease, ReturnLease
<1>3. CASE Kick
  BY <1>3, Zenon DEF Kick
<1>4. CASE AcquireExternal \/ ReleaseExternal
  BY <1>4, Zenon DEF AcquireExternal, ReleaseExternal
<1>5. ASSUME NEW a \in Addrs, ForeignWake(a)
      PROVE  Rest'
  BY <1>5, Zenon DEF ForeignWake, AddrKeys
<1>6. ASSUME NEW a \in Addrs, OutsideChange(a)
      PROVE  Rest'
  <2>1. Waiters(st, Addr(a)) \subseteq Threads
    BY StateFields, Zenon DEF Waiters
  <2> QED
    BY <1>6, <2>1, Zenon DEF OutsideChange
<1> QED
  BY <1>1, <1>2, <1>3, <1>4, <1>5, <1>6, ComingRest, WaitingRest, Zenon DEF Outside

(* The dispatch loop keeps Rest: whoever leaves it gives back the lock, and *)
(* whoever comes back to it has taken it.                                   *)
LEMMA DispatchingRest ==
  ASSUME Rest, NEW d \in Threads, Dispatching(d)
  PROVE  Rest'
<1> USE DEF Rest, Goto, Leave, env, outer, lockedVars, Locked
<1>0. /\ {"parked", "idle", "unlocked", "skipped", "polling"} \cup Locked \subseteq PC
      /\ now \in Times /\ 0 \in Times /\ None \notin Threads
  BY TimeTypes, SchedulerAssumption, Zenon DEF PC, Asleep
<1>1. CASE TakeForeign(d)
  BY <1>0, <1>1, Zenon DEF TakeForeign
<1>2. CASE DispatchGrants(d)
  BY <1>0, <1>2, Zenon DEF DispatchGrants
<1>3. CASE NothingBlocked(d)
  BY <1>0, <1>3, Zenon DEF NothingBlocked
<1>4. CASE Detach(d)
  BY <1>0, <1>4, Zenon DEF Detach, Stuck
<1>5. CASE StaysOn(d) \/ NoLease(d) \/ LeasedSince(d) \/ NoTimeLeft(d)
  BY <1>0, <1>5 DEF StaysOn, NoLease, LeasedSince, NoTimeLeft, GoOn, Stuck
<1>6. CASE IdleLeased(d) \/ IdleHeld(d)
  BY <1>0, <1>6 DEF IdleLeased, IdleHeld, GoIdle
<1>7. CASE RepollTimerWakes(d)
  BY <1>0, <1>7, Zenon DEF RepollTimerWakes, Again
<1>8. ASSUME NEW S \in SUBSET Threads, WakeRealReady(d, S)
      PROVE  Rest'
  BY <1>0, <1>8, Zenon DEF WakeRealReady, Again
<1>9. CASE AskHolders(d)
  BY <1>0, <1>9, Zenon DEF AskHolders, Unready, Unlock
<1>10. CASE TimeSkip(d)
  <2>1. now' \in 0 .. MaxTime /\ timerWakes' \in BOOLEAN
    BY <1>10, TimeTypes, Zenon DEF TimeSkip, CanSkip, Fires
  <2> QED
    BY <1>0, <1>10, <2>1, Zenon DEF TimeSkip, MaySkip, Unready, Again
<1>11. CASE NoSkip(d)
  BY <1>0, <1>11, Zenon DEF NoSkip, MaySkip, Unready, GoOn
<1>12. CASE GiveUp(d)
  BY <1>0, <1>12, Zenon DEF GiveUp, NotHeld, Again
<1>13. CASE ForeignTimeSkip(d)
  <2>1. now' \in 0 .. MaxTime /\ timerWakes' \in BOOLEAN
    BY <1>13, TimeTypes, Zenon DEF ForeignTimeSkip, Fires
  <2> QED
    BY <1>0, <1>13, <2>1, Zenon DEF ForeignTimeSkip, NotHeld, Unlock
<1>14. CASE PollOutside(d)
  BY <1>0, <1>14, Zenon DEF PollOutside, NotHeld, Unlock
<1>15. ASSUME NEW s, Relock(d, s), pc[d] \notin Locked, NEW on, Clear(d, on),
              before' = before \/ before' = [before EXCEPT ![d] = 0]
       PROVE  Rest'
  BY <1>0, <1>15 DEF Relock, Clear, Free
<1>16. CASE IdleOver(d)
  BY <1>15, <1>16, Zenon DEF IdleOver
<1>17. CASE HoldersAsked(d) \/ SkippedOver(d) \/ PollOver(d)
  BY <1>15, <1>17, Zenon DEF HoldersAsked, SkippedOver, PollOver
<1>18. CASE HeldOff(d)
  BY <1>0, <1>18, Zenon DEF HeldOff, GoIdle, Free
<1> QED
  BY <1>1, <1>2, <1>3, <1>4, <1>5, <1>6, <1>7, <1>8, <1>9, <1>10, <1>11, <1>12, <1>13,
     <1>14, <1>16, <1>17, <1>18, ZenonT(40) DEF Dispatching

-----------------------------------------------------------------------------
(* The dispatcher and what happens outside the lock keep Core. *)

(* A thread that moves from one place of a wait to another still fits. *)
LEMMA InWaitFits ==
  ASSUME NEW s, NEW d \in Threads, AllFit(s, pc, latch, flight), pc \in [Threads -> PC],
         pc[d] \in InWait, NEW where \in InWait, Goto(d, where)
  PROVE  AllFit(s, pc', latch, flight)
<1> SUFFICES ASSUME NEW u \in Threads, Fits(s, pc[u], latch[u], flight[u], u)
             PROVE  Fits(s, pc'[u], latch[u], flight[u], u)
  BY Zenon DEF AllFit
<1>1. pc'[u] = IF u = d THEN where ELSE pc[u]
  BY Zenon DEF Goto
<1>2. CASE u = d
  BY <1>1, <1>2, Zenon DEF Fits, InWait, Native, Locked, Asleep, Running
<1>3. CASE u # d
  BY <1>1, <1>3, Zenon
<1> QED
  BY <1>2, <1>3, Zenon

(* dispatch_inner goes on with the lock, having woken some waits. *)
LEMMA KeepsLockCore ==
  ASSUME IInv, NEW d \in Threads, pc[d] \in Locked, NEW where \in Locked, Goto(d, where),
         UNCHANGED <<locker, detached, latch, flight>>, Wakes(st, st'),
         where \in Past => st'.ready = {}
  PROVE  Core'
<1>1. Core /\ Books(st) /\ pc \in [Threads -> PC] /\ locker = d
  BY Zenon DEF IInv, Core, Rest
<1>2. AllFit(st', pc', latch', flight')
  <2>1. AllFit(st', pc, latch, flight)
    BY <1>1, WakesFit, Zenon DEF Core
  <2>2. pc[d] \in InWait /\ where \in InWait
    BY Zenon DEF InWait
  <2> QED
    BY <1>1, <2>1, <2>2, InWaitFits, Zenon
<1>3. locker' # None /\ st'.holder = None
  BY <1>1, SchedulerAssumption, Zenon DEF Core, Wakes
<1>4. DetachedEmpty' /\ WorkConserving'
  BY <1>1, <1>3, SchedulerAssumption, Zenon DEF Core, DetachedEmpty, WorkConserving, Free, Wakes
<1>5. Quiet'
  BY <1>1, Zenon DEF Quiet, Goto
<1> QED
  BY <1>1, <1>2, <1>3, <1>4, <1>5, Zenon DEF Core, Wakes

(* It lets the lock go, with nothing to grant. *)
LEMMA LetsGoCore ==
  ASSUME IInv, NEW d \in Threads, pc[d] \in Locked, st.ready = {},
         NEW where \in Asleep \cup {"parked"}, Leave(d, where),
         UNCHANGED <<st, detached, latch, flight>>
  PROVE  Core'
<1>1. Core /\ pc \in [Threads -> PC] /\ locker' = None /\ Goto(d, where)
  BY Zenon DEF IInv, Core, Rest, Leave
<1>2. AllFit(st', pc', latch', flight')
  <2>1. pc[d] \in InWait /\ where \in InWait
    BY Zenon DEF InWait
  <2> QED
    BY <1>1, <2>1, InWaitFits, Zenon DEF Core
<1>3. DetachedEmpty' /\ WorkConserving' /\ Quiet'
  BY <1>1, SchedulerAssumption, Zenon DEF Core, DetachedEmpty, WorkConserving, Quiet
<1> QED
  BY <1>1, <1>2, <1>3, Zenon DEF Core

(* detach: every waiting thread is let go with a grant. *)
LEMMA DetachCore ==
  ASSUME IInv, NEW d \in Threads, Detach(d)
  PROVE  Core'
<1>1. /\ Core /\ Books(st) /\ st \in State /\ pc \in [Threads -> PC] /\ pc[d] = "drained"
      /\ st.ready = {} /\ locker = d /\ locker' = None /\ Goto(d, "parked") /\ UNCHANGED flight
      /\ latch \in [Threads -> Why \cup {"none", "dispatch"}]
      /\ latch' = [t \in Threads |-> IF t \in st.waiting THEN "Woken" ELSE latch[t]]
  BY Zenon DEF Detach, Stuck, Leave, IInv, Core, Rest, Books, Locked
<1>2. st.holder = None
  BY <1>1, SchedulerAssumption, Zenon DEF Core
<1>3. NoWait \in Wait
  BY SchedulerAssumption DEF NoWait, Wait, Keys, Times, Never
<1>4. /\ st' \in State /\ st'.threads = st.threads /\ st'.ready = {} /\ st'.waiting = {}
      /\ st'.letGo = st.letGo \cup st.waiting /\ st'.holder = None /\ st'.outside = st.outside
      /\ st'.runnable = st.runnable /\ st'.blocked = 0
  <2>1. st' = [st EXCEPT !.foreign = {}, !.blocked = 0, !.waiting = {},
                         !.wait = [t \in Threads |-> NoWait],
                         !.older = [t \in Threads |-> {}],
                         !.letGo = @ \cup st.waiting]
    BY Zenon DEF Detach
  <2>2. st' \in State
    BY <1>1, <1>3, <2>1, ZenonT(40) DEF State
  <2> QED
    BY <1>1, <1>2, <2>1, <2>2 DEF State
<1>5. Books(st')
  <2>1. st.runnable = Cardinality({}) /\ Cardinality({}) = 0
    BY <1>1, FS_EmptySet, Zenon DEF Books
  <2> QED
    BY <1>1, <1>4, <2>1, Zenon DEF Books
<1>6. AllFit(st', pc', latch', flight')
  <2>1. AllFit(st, pc', latch, flight)
    BY <1>1, InWaitFits, Zenon DEF Core, InWait, Locked
  <2> SUFFICES ASSUME NEW u \in Threads, Fits(st, pc'[u], latch[u], flight[u], u)
               PROVE  Fits(st', pc'[u], latch'[u], flight[u], u)
    BY <1>1, <2>1, Zenon DEF AllFit
  <2>2. st.holder # u /\ u \notin st.ready
    BY <1>1, <1>2, SchedulerAssumption, Zenon
  <2>3. CASE u \in st.waiting
    <3>1. /\ pc'[u] \in InWait /\ flight[u] = "none" /\ latch'[u] \in Why
          /\ u \in st'.letGo /\ st.outside[u] = NoKey
      BY <1>1, <1>4, <2>2, <2>3, Zenon DEF Fits, Why
    <3> QED
      BY <1>4, <2>2, <3>1, SchedulerAssumption, ZenonT(40) DEF Fits, InWait, Native, Locked, Asleep
  <2>4. CASE u \notin st.waiting
    <3>1. latch'[u] = latch[u] /\ (u \in st'.letGo <=> u \in st.letGo)
      BY <1>1, <1>4, <2>4, Zenon
    <3> QED
      BY <1>4, <2>2, <3>1, SchedulerAssumption, Zenon DEF Fits
  <2> QED
    BY <2>3, <2>4, Zenon
<1>7. DetachedEmpty' /\ WorkConserving' /\ Quiet'
  BY <1>1, <1>4, SchedulerAssumption, Zenon DEF DetachedEmpty, WorkConserving, Quiet
<1>8. latch' \in [Threads -> Why \cup {"none", "dispatch"}]
  BY <1>1, Zenon DEF Why
<1> QED
  BY <1>1, <1>5, <1>6, <1>7, <1>8, Zenon DEF Core

(* A sleeping dispatcher takes the lock again. *)
LEMMA RelockCore ==
  ASSUME IInv, NEW d \in Threads, pc[d] \in Asleep, NEW s, Wakes(st, s), Relock(d, s)
  PROVE  Core'
<1>1. /\ Core /\ Books(st) /\ pc \in [Threads -> PC] /\ Free /\ pc[d] \in InWait
      /\ UNCHANGED <<detached, latch, flight>>
      /\ \/ st.holder # None /\ Goto(d, "parked") /\ UNCHANGED <<st, locker>>
         \/ st.holder = None /\ st' = s /\ locker' = d /\ Goto(d, "dispatch")
  BY Zenon DEF IInv, Core, Rest, Relock, InWait
<1>2. AllFit(st', pc, latch, flight) /\ Books(st') /\ st'.holder = st.holder
  BY <1>1, WakesFit, Zenon DEF Core, Wakes
<1>3. AllFit(st', pc', latch', flight')
  BY <1>1, <1>2, InWaitFits, Zenon DEF InWait, Locked
<1>4. DetachedEmpty' /\ WorkConserving'
  BY <1>1, SchedulerAssumption, Zenon DEF Core, DetachedEmpty, WorkConserving, Wakes, Free
<1>5. Quiet'
  BY <1>1, SchedulerAssumption, Zenon DEF Quiet, Past, Goto, Free
<1> QED
  BY <1>1, <1>2, <1>3, <1>4, <1>5, Zenon DEF Core, Free

(* dispatch_inner keeps Core. *)
LEMMA DispatchingCore ==
  ASSUME IInv, NEW d \in Threads, Dispatching(d)
  PROVE  Core'
<1>1. Core /\ Rest /\ Books(st) /\ st \in State /\ pc \in [Threads -> PC]
  BY Zenon DEF IInv, Core, Rest, Books
<1>2. Wakes(st, st)
  BY <1>1, Zenon DEF Wakes, Books
<1>3. pc[d] \in Past => st.ready = {} /\ pc[d] \in Locked
  BY <1>1, Zenon DEF Core, Rest, Quiet, Past, Locked
<1>4. CASE TakeForeign(d)
  <2>1. /\ pc[d] = "dispatch" /\ st' = WakeForeign(st, queued) /\ Goto(d, "drained")
        /\ UNCHANGED <<locker, detached, latch, flight>>
    BY <1>4, Zenon DEF TakeForeign
  <2>2. Wakes(st, st')
    BY <1>1, <2>1, QueuedWakes, Zenon DEF Same
  <2> QED
    BY <2>1, <2>2, KeepsLockCore, Zenon DEF Locked, Past
<1>5. CASE DispatchGrants(d)
  <2>1. /\ pc[d] = "drained" /\ GrantNext(st) /\ Goto(d, "parked") /\ locker' = None
        /\ st.ready # {} /\ UNCHANGED <<detached, latch>>
    BY <1>5, Zenon DEF DispatchGrants, Leave
  <2>2. st.holder = None /\ locker = d
    BY <1>1, <2>1, SchedulerAssumption, Zenon DEF Core, Rest, Locked
  <2>3. AllFit(st, pc', latch, flight)
    BY <1>1, <2>1, InWaitFits, Zenon DEF Core, InWait, Locked
  <2>4. /\ Books(st') /\ AllFit(st', pc', latch, flight')
        /\ flight' \in [Threads -> Why \cup {"none"}]
        /\ st'.holder = None => st'.ready = {}
    BY <1>1, <2>1, <2>2, <2>3, GrantNextFits, Zenon DEF Core
  <2>5. ~detached
    BY <1>1, <2>1, Zenon DEF Core, DetachedEmpty
  <2>6. DetachedEmpty' /\ WorkConserving' /\ Quiet'
    BY <2>1, <2>4, <2>5, SchedulerAssumption, Zenon DEF DetachedEmpty, WorkConserving, Quiet
  <2> QED
    BY <1>1, <2>1, <2>4, <2>6, Zenon DEF Core
<1>6. CASE NothingBlocked(d)
  BY <1>6, LetsGoCore, Zenon DEF NothingBlocked, Locked
<1>7. CASE Detach(d)
  BY <1>7, DetachCore, Zenon
<1>8. ASSUME NEW where \in Locked, GoOn(d, where), pc[d] \in Locked, where \in Past => st.ready = {}
      PROVE  Core'
  BY <1>2, <1>8, KeepsLockCore, Zenon DEF GoOn, lockedVars
<1>9. CASE StaysOn(d)
  BY <1>8, <1>9, Zenon DEF StaysOn, Stuck, Locked, Past
<1>10. CASE NoLease(d) \/ LeasedSince(d) \/ NoTimeLeft(d)
  BY <1>3, <1>8, <1>10, Zenon DEF NoLease, LeasedSince, NoTimeLeft, Locked, Past
<1>11. CASE NoSkip(d)
  BY <1>3, <1>8, <1>11, Zenon DEF NoSkip, MaySkip, Unready, Locked, Past
<1>12. CASE IdleLeased(d) \/ IdleHeld(d)
  <2>1. pc[d] \in Past /\ GoIdle(d)
    BY <1>12, Zenon DEF IdleLeased, IdleHeld, Past
  <2> QED
    BY <1>3, <2>1, LetsGoCore, Zenon DEF GoIdle, Asleep
<1>13. CASE AskHolders(d) \/ ForeignTimeSkip(d) \/ PollOutside(d)
  <2>1. PICK where \in {"unlocked", "skipped", "polling"} : Unlock(d, where) /\ pc[d] \in Past
    BY <1>13, Zenon DEF AskHolders, ForeignTimeSkip, PollOutside, Unready, NotHeld, Past
  <2> QED
    BY <1>3, <2>1, LetsGoCore, Zenon DEF Unlock, Asleep
<1>14. ASSUME NEW s, Wakes(st, s), Again(d, s), pc[d] \in Past
       PROVE  Core'
  BY <1>3, <1>14, KeepsLockCore, Zenon DEF Again, Locked, Past
<1>15. CASE RepollTimerWakes(d)
  <2>1. pc[d] \in Past /\ Again(d, Release(st, {}, Repolled(st)))
    BY <1>15, Zenon DEF RepollTimerWakes, Past
  <2> QED
    BY <1>1, <1>14, <2>1, ClockWakes, Zenon
<1>16. ASSUME NEW S \in SUBSET Threads, WakeRealReady(d, S)
       PROVE  Core'
  <2>1. pc[d] \in Past /\ Again(d, Release(st, {}, S))
    BY <1>16, Zenon DEF WakeRealReady, Past
  <2>2. Wakes(st, Release(st, {}, S))
    BY <1>1, ReleaseWakes, Zenon
  <2> QED
    BY <1>14, <2>1, <2>2, Zenon
<1>17. CASE TimeSkip(d)
  <2>1. pc[d] \in Past /\ Again(d, Moved(st, now', FALSE))
    BY <1>17, Zenon DEF TimeSkip, MaySkip, Unready, Past
  <2> QED
    BY <1>1, <1>14, <2>1, ClockWakes, Zenon
<1>18. CASE GiveUp(d)
  <2>1. pc[d] \in Past /\ Again(d, WakeKeyAll(st, Readiness, "Deadlock"))
    BY <1>18, Zenon DEF GiveUp, NotHeld, Past
  <2>2. Waiters(st, Readiness) \in SUBSET Threads
    BY <1>1, StateFields, Zenon DEF Waiters
  <2>3. Wakes(st, WakeKeyAll(st, Readiness, "Deadlock"))
    BY <1>1, <2>2, TellWakes, Zenon DEF WakeKeyAll, Why
  <2> QED
    BY <1>14, <2>1, <2>3, Zenon
<1>19. CASE IdleOver(d)
  <2> DEFINE due == IF "executive" \in Events THEN {} ELSE DueBy(st, now)
             timed == IF "executive" \in Events \/ now = before[d] THEN {} ELSE Timed(st)
             s == IF st.runnable > 0 THEN st ELSE Release(st, due, timed \cup Repolled(st))
  <2>1. pc[d] \in Asleep /\ Relock(d, s)
    BY <1>19, Zenon DEF IdleOver, Asleep
  <2>2. due \in SUBSET Threads /\ timed \cup Repolled(st) \in SUBSET Threads
    BY <1>1, StateFields, Zenon DEF DueBy, Timed, Repolled
  <2> HIDE DEF due, timed
  <2>3. Wakes(st, s)
    BY <1>1, <1>2, <2>2, ReleaseWakes, Zenon
  <2> HIDE DEF s
  <2> QED
    BY <2>1, <2>3, RelockCore, Zenon
<1>20. CASE HoldersAsked(d) \/ SkippedOver(d) \/ PollOver(d)
  <2>1. PICK s : Relock(d, s) /\ Wakes(st, s) /\ pc[d] \in Asleep
    BY <1>1, <1>2, <1>20, ClockWakes, Zenon DEF HoldersAsked, SkippedOver, PollOver, Asleep
  <2> QED
    BY <2>1, RelockCore, Zenon
<1>21. CASE HeldOff(d)
  <2>1. /\ pc[d] = "unlocked" /\ Goto(d, "idle") /\ UNCHANGED <<st, locker, detached, latch, flight>>
    BY <1>21, Zenon DEF HeldOff, GoIdle, Leave, Free
  <2>2. Fits(st, "idle", latch[d], flight[d], d)
    BY <1>1, <2>1, Zenon DEF Core, AllFit, Fits, InWait, Native, Asleep, Locked, Running
  <2> QED
    BY <1>1, <2>1, <2>2, GotoCore, Zenon DEF Past
<1> QED
  BY <1>4, <1>5, <1>6, <1>7, <1>9, <1>10, <1>11, <1>12, <1>13, <1>15, <1>16, <1>17, <1>18,
     <1>19, <1>20, <1>21 DEF Dispatching

(* What happens outside the schedule keeps Core. *)
LEMMA OutsideCore ==
  ASSUME IInv, Outside
  PROVE  Core'
<1>1. Core /\ Rest /\ Books(st) /\ st \in State
  BY Zenon DEF IInv, Core, Books
<1>2. ASSUME UNCHANGED <<st, locker, detached, latch, flight, pc>>
      PROVE  Core'
  BY <1>1, <1>2, Zenon DEF Core, DetachedEmpty, WorkConserving, Quiet, Free
<1>3. CASE MoveClock \/ SwitchClock \/ TakeLease \/ ReturnLease \/ \E a \in Addrs : OutsideChange(a)
  BY <1>2, <1>3, Zenon DEF MoveClock, SwitchClock, TakeLease, ReturnLease, OutsideChange,
                    lockedVars, threadVars
<1>4. CASE Kick
  <2>1. /\ Free /\ UNCHANGED <<locker, detached, latch, pc>>
        /\ GrantIfIdle(Moved(st, now, timerWakes)) \/ GrantIfIdle(ReleaseDue(st, now))
    BY <1>4, Zenon DEF Kick, lockedVars
  <2> QED
    BY <1>1, <2>1, ClockWakes, WakeCore, Zenon
<1>5. ASSUME NEW t \in Threads, ChargeLatency(t) \/ Injected(t)
      PROVE  Core'
  BY <1>5, SpinCore, InjectedCore, Zenon
<1>6. ASSUME NEW h \in {None, External}, NEW k \in {None, External}, st.holder = h,
             NEW z, z = [st EXCEPT !.holder = k]
      PROVE  /\ Books(z) /\ AllFit(z, pc, latch, flight) /\ z.holder = k
             /\ z.ready = st.ready /\ z.waiting = st.waiting
  <2>1. /\ z \in State /\ z.holder = k /\ z.threads = st.threads /\ z.letGo = st.letGo
        /\ z.outside = st.outside /\ z.ready = st.ready /\ z.waiting = st.waiting
        /\ z.runnable = st.runnable /\ z.blocked = st.blocked
    BY <1>1, <1>6, Zenon DEF State
  <2>2. Books(z)
    BY <1>1, <2>1, Zenon DEF Books
  <2>3. AllFit(z, pc, latch, flight)
    <3> SUFFICES ASSUME NEW u \in Threads, Fits(st, pc[u], latch[u], flight[u], u)
                 PROVE  Fits(z, pc[u], latch[u], flight[u], u)
      BY <1>1, Zenon DEF Core, AllFit
    <3>1. z.holder # u /\ st.holder # u
      BY <1>6, <2>1, SchedulerAssumption
    <3> QED
      BY <2>1, <3>1, Zenon DEF Fits
  <2> QED
    BY <2>1, <2>2, <2>3, Zenon
<1>7. CASE AcquireExternal
  <2>1. /\ Free /\ st.holder = None /\ st' = [st EXCEPT !.holder = External]
        /\ UNCHANGED <<locker, detached, latch, flight, pc>>
    BY <1>7, Zenon DEF AcquireExternal, lockedVars, threadVars
  <2>2. /\ Books(st') /\ AllFit(st', pc, latch, flight) /\ st'.holder = External
        /\ st'.ready = st.ready /\ st'.waiting = st.waiting
    BY <1>6, <2>1, Zenon
  <2>3. DetachedEmpty' /\ st'.holder # None
    BY <1>1, <2>1, <2>2, SchedulerAssumption, Zenon DEF Core, DetachedEmpty
  <2> QED
    BY <1>1, <2>1, <2>2, <2>3, PlainCore, Zenon
<1>8. CASE ReleaseExternal
  <2> DEFINE z == [st EXCEPT !.holder = None]
  <2>1. Free /\ st.holder = External /\ HandOn(st, latch) /\ UNCHANGED <<locker, detached, pc>>
    BY <1>8, Zenon DEF ReleaseExternal, lockedVars
  <2>2. Books(z) /\ AllFit(z, pc, latch, flight)
    BY <1>6, <2>1, Zenon
  <2>3. /\ latch \in [Threads -> Why \cup {"none", "dispatch"}]
        /\ detached => st.ready = {} /\ st.waiting = {}
    BY <1>1, Zenon DEF Core, DetachedEmpty
  <2> QED
    BY <1>1, <2>1, <2>2, <2>3, HandOnCore, Zenon
<1>9. ASSUME NEW a \in Addrs, ForeignWake(a)
      PROVE  Core'
  <2>1. UNCHANGED <<locker, detached, latch, pc>>
    BY <1>9, Zenon DEF ForeignWake
  <2>2. CASE Free
    <3>1. GrantIfIdle(WakeForeign(st, {Addr(a)}))
      BY <1>9, <2>2, Zenon DEF ForeignWake
    <3>2. {Addr(a)} \in SUBSET Keys
      BY Zenon DEF Keys, AddrKeys
    <3> QED
      BY <1>1, <2>1, <2>2, <3>1, <3>2, WakeForeignWakes, WakeCore, Zenon
  <2>3. CASE ~Free
    BY <1>2, <1>9, <2>1, <2>3, Zenon DEF ForeignWake
  <2> QED
    BY <2>2, <2>3, Zenon
<1> QED
  BY <1>3, <1>4, <1>5, <1>7, <1>8, <1>9, Zenon DEF Outside

-----------------------------------------------------------------------------
(* IInv is inductive, unless a thread joins a schedule that has detached or *)
(* let it go ("latejoin").                                                  *)
LEMMA NextIInv ==
  ASSUME "latejoin" \notin Events, IInv, [Next]_vars
  PROVE  IInv'
<1>1. Core /\ Rest /\ st \in State
  BY Zenon DEF IInv, Core, Books
<1>2. ASSUME NEW t \in Threads, Coming(t)
      PROVE  IInv'
  <2>1. Core'
    BY <1>2, EnterRootCore, StartedCore, CreateFailsCore, ExitCore, LeaveClassCore,
       JoinClassCore, SpawnedCore DEF Coming
  <2> QED
    BY <1>1, <1>2, <2>1, ComingRest, Zenon DEF IInv
<1>3. ASSUME NEW t \in Threads, Waiting(t)
      PROVE  IInv'
  <2>1. Core'
    BY <1>3, BlockLetGoCore, BlockCore, YieldCore, SpinCore, Zenon DEF Waiting
  <2> QED
    BY <1>1, <1>3, <2>1, WaitingRest, Zenon DEF IInv
<1>4. ASSUME NEW t \in Threads, Waking(t) \/ Parked(t)
      PROVE  IInv'
  BY <1>1, <1>4, WakingCore, ParkedCore, WaitingRest, Zenon DEF IInv
<1>5. ASSUME NEW t \in Threads, Rejoining(t)
      PROVE  IInv'
  <2>1. Core'
    BY <1>5, NativeCore, RejoinCore, Zenon DEF Rejoining
  <2> QED
    BY <1>1, <1>5, <2>1, RejoiningRest, Zenon DEF IInv
<1>6. ASSUME NEW t \in Threads, Dispatching(t)
      PROVE  IInv'
  BY <1>1, <1>6, DispatchingCore, DispatchingRest, Zenon DEF IInv
<1>7. CASE Outside
  BY <1>1, <1>7, OutsideCore, OutsideRest, Zenon DEF IInv
<1>8. CASE UNCHANGED vars
  <2>1. Core'
    BY <1>1, <1>8, Zenon DEF vars, threadVars, Core, DetachedEmpty, WorkConserving, Quiet, Free
  <2>2. Rest'
    BY <1>1, <1>8, Zenon DEF vars, threadVars, env, outer, Rest
  <2> QED
    BY <2>1, <2>2, Zenon DEF IInv
<1> QED
  BY <1>2, <1>3, <1>4, <1>5, <1>6, <1>7, <1>8 DEF Next

(* The invariant holds in every state. *)
LEMMA Invariance ==
  ASSUME "latejoin" \notin Events
  PROVE  Spec => []IInv
<1>1. Init => IInv
  BY InitIInv, Zenon
<1>2. IInv /\ [Next]_vars => IInv'
  BY NextIInv, Zenon
<1> QED
  BY <1>1, <1>2, PTL DEF Spec

(* Every part of the schedule's state keeps its type; in particular the     *)
(* counters of queued and waiting threads never go below zero.              *)
THEOREM TypeCorrect ==
  ASSUME "latejoin" \notin Events
  PROVE  Spec => []TypeOK
  BY Invariance, IInvImplies, PTL

(* set_runnable, take_runnable, set_blocked, take_blocked and the moves of  *)
(* the baton keep the books of sched.rs:20-21, whoever calls them.          *)
THEOREM BooksBalance ==
  ASSUME "latejoin" \notin Events
  PROVE  Spec => []Balanced
  BY Invariance, IInvImplies, PTL

(* A thread finds a run grant in its latch only if it holds the baton or    *)
(* `detach` let it go.                                                      *)
THEOREM GrantsAreHonest ==
  ASSUME "latejoin" \notin Events
  PROVE  Spec => []GrantsHonest
  BY Invariance, IInvImplies, PTL

(* A detached schedule has no holder of its own, and lists nobody.          *)
THEOREM DetachedIsEmpty ==
  ASSUME "latejoin" \notin Events
  PROVE  Spec => []DetachedEmpty
  BY Invariance, IInvImplies, PTL

(* No queued thread is left in a schedule without a holder or a dispatcher. *)
THEOREM NoWakeLeftBehind ==
  ASSUME "latejoin" \notin Events
  PROVE  Spec => []WorkConserving
  BY Invariance, IInvImplies, PTL

(* A thread in `park` is queued, waits, or has its grant coming, if none is *)
(* spawned into a schedule that has detached.                               *)
THEOREM NobodyParksForGood ==
  ASSUME "latejoin" \notin Events, "latespawn" \notin Events
  PROVE  Spec => []ParkedListed
<1>1. IInv => ParkedListed
  BY Zenon DEF IInv, Core, AllFit, Fits, ParkedListed, HasGrant, InWait
<1> QED
  BY <1>1, Invariance, PTL

(* If the OS creates every thread pthread_create asks it for, the baton is  *)
(* never lost: its holder runs, or has the grant coming.                    *)
THEOREM BatonIsKept ==
  ASSUME "latejoin" \notin Events, "fail" \notin Events
  PROVE  Spec => []BatonKept
<1>1. IInv => BatonKept
  BY Zenon DEF IInv, Core, AllFit, Fits, BatonKept, HasGrant
<1> QED
  BY <1>1, Invariance, PTL
=============================================================================
