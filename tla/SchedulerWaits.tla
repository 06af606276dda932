-------------------------- MODULE SchedulerWaits ---------------------------
(***************************************************************************)
(* More about Scheduler, from the invariant of SchedulerProofs: what       *)
(* becomes of waits.  The functions on State end waits in their turn and   *)
(* for the reason they tell, and so does every step that begins none.      *)
(***************************************************************************)
EXTENDS SchedulerProofs

-----------------------------------------------------------------------------
(* Functions on State that end waits. *)

(* Waits on an address end in the order of arrival from s to r, but for     *)
(* those whose time is up and those whose word has changed.                 *)
InTurn(s, r, time) ==
  \A t, u \in s.waiting :
    /\ s.wait[t].key = s.wait[u].key /\ s.wait[t].key \in AddrKeys
    /\ t \in s.older[u] /\ u \notin r.waiting /\ t \in r.waiting
    => s.wait[u].deadline <= time \/ ShouldRepoll(s, u)

(* From s to r some waits end, in turn, and the others are left alone. *)
Ends(s, r, time) ==
  /\ r.waiting \subseteq s.waiting
  /\ \A t \in r.waiting :
       r.wait[t] = s.wait[t] /\ r.older[t] = s.older[t] \ (s.waiting \ r.waiting)
  /\ "signal" \notin Events => InTurn(s, r, time)

(* A thread queued from s to r is told it is woken, or that its time is up, *)
(* and then it is.                                                          *)
Honest(s, r, time) ==
  \A t \in r.ready \ s.ready :
    \/ r.why[t] = "Woken"
    \/ r.why[t] = "TimedOut" /\ t \in s.waiting /\ s.wait[t].deadline <= time

Tells(s, r, time) == Ends(s, r, time) /\ Honest(s, r, time)

(* The waits and the queue are the same in s and r. *)
Alike(s, r) ==
  /\ r.waiting = s.waiting /\ r.wait = s.wait /\ r.older = s.older
  /\ r.ready = s.ready /\ r.why = s.why

(* The waits are the same, and threads have left the queue or joined it. *)
Joins(s, r) ==
  /\ r.waiting = s.waiting /\ r.wait = s.wait /\ r.older = s.older
  /\ \A t \in r.ready : r.why[t] = "Woken" \/ (t \in s.ready /\ r.why[t] = s.why[t])

(* A wait is older than those that began after it. *)
Senior(s) ==
  \A t \in s.waiting :
    s.older[t] \subseteq s.waiting /\ \A u \in s.older[t] : s.older[u] \subseteq s.older[t]

(* A change of other fields before, and of the queue after, changes nothing *)
(* about the waits that end.                                                *)
LEMMA TellsAround ==
  ASSUME NEW a, NEW b, NEW c, NEW d, NEW time, Alike(a, b), Tells(b, c, time), Joins(c, d)
  PROVE  Tells(a, d, time)
<1>1. Tells(a, c, time)
  BY ZenonT(40) DEF Tells, Ends, Honest, InTurn, Alike, ShouldRepoll
<1>2. Ends(a, d, time)
  BY <1>1, Zenon DEF Tells, Ends, InTurn, Joins
<1>3. Honest(a, d, time)
  BY <1>1, Zenon DEF Tells, Honest, Joins
<1> QED
  BY <1>2, <1>3, Zenon DEF Tells

(* Nothing ends in a step that joins. *)
LEMMA JoinsTells ==
  ASSUME NEW s, NEW r, NEW time, Joins(s, r)
  PROVE  Tells(s, r, time)
<1>1. \A t \in r.waiting : r.older[t] = s.older[t] \ (s.waiting \ r.waiting)
  <2>1. s.waiting \ r.waiting = {}
    BY Zenon DEF Joins
  <2>2. \A t : s.older[t] \ {} = s.older[t]
    OBVIOUS
  <2> QED
    BY <2>1, <2>2, Zenon DEF Joins
<1> QED
  BY <1>1, Zenon DEF Tells, Ends, Honest, InTurn, Joins

(* States alike in all that waits are about. *)
LEMMA AlikeJoins ==
  ASSUME NEW s, NEW r, Alike(s, r)
  PROVE  Joins(s, r) /\ Alike(r, s)
  BY Zenon DEF Alike, Joins

(* unblock, field by field. *)
Unblocks(s, D, told, r) ==
  /\ r.waiting = s.waiting \ D /\ r.ready = s.ready \cup (D \cap s.waiting)
  /\ \A t \in r.waiting :
       r.wait[t] = s.wait[t] /\ r.older[t] = s.older[t] \ (s.waiting \ r.waiting)
  /\ \A t \in D \cap s.waiting : r.why[t] = told[t]

(* unblock of a set of threads D, told what `told` says. *)
LEMMA UnblockFields ==
  ASSUME NEW s, Books(s), NEW D \in SUBSET Threads, NEW told \in [D -> Why]
  PROVE  Unblocks(s, D, told, Unblock(s, told))
<1> DEFINE woken == D \cap s.waiting
           gone == woken \cap s.waiting
           s1 == TakeBlocked(s, woken)
           r == Unblock(s, told)
<1>1. /\ s \in State /\ woken \in SUBSET Threads /\ DOMAIN told = D /\ gone = woken
      /\ s.waiting \in SUBSET Threads
  BY StateFields, Zenon DEF Books
<1>2. /\ Books(s1) /\ s1.ready = s.ready /\ s1.waiting = s.waiting \ woken
  BY <1>1, TakeBlockedBooks
<1>3. /\ s1.wait = [t \in Threads |-> IF t \in woken THEN NoWait ELSE s.wait[t]]
      /\ s1.older = [t \in Threads |-> IF t \in woken THEN {} ELSE s.older[t] \ woken]
  <2>1. /\ s1.wait = [t \in Threads |-> IF t \in gone THEN NoWait ELSE s.wait[t]]
        /\ s1.older = [t \in Threads |-> IF t \in gone THEN {} ELSE s.older[t] \ gone]
    BY <1>1, Zenon DEF TakeBlocked, State
  <2> QED
    BY <1>1, <2>1, Zenon
<1>4. r = [s1 EXCEPT !.ready = @ \cup woken,
                     !.why = [t \in Threads |-> IF t \in woken THEN told[t] ELSE @[t]],
                     !.runnable = @ + Cardinality(woken \ s.ready)]
  BY <1>1, Zenon DEF Unblock
<1> HIDE DEF s1, r
<1>5. s1 \in State
  BY <1>2, Zenon DEF Books
<1>6. /\ r.waiting = s1.waiting /\ r.ready = s1.ready \cup woken
      /\ r.wait = s1.wait /\ r.older = s1.older
      /\ r.why = [t \in Threads |-> IF t \in woken THEN told[t] ELSE s1.why[t]]
  BY <1>4, <1>5, Zenon DEF State
<1>7. r.waiting = s.waiting \ D /\ s.waiting \ r.waiting = woken /\ r.waiting \subseteq Threads
  BY <1>1, <1>2, <1>6, Zenon
<1>8. \A t \in r.waiting : r.wait[t] = s.wait[t] /\ r.older[t] = s.older[t] \ (s.waiting \ r.waiting)
  <2> SUFFICES ASSUME NEW t \in r.waiting
               PROVE  r.wait[t] = s.wait[t] /\ r.older[t] = s.older[t] \ (s.waiting \ r.waiting)
    OBVIOUS
  <2>1. t \in Threads /\ t \notin woken
    BY <1>7, Zenon
  <2>2. s1.wait[t] = s.wait[t] /\ s1.older[t] = s.older[t] \ woken
    BY <1>3, <2>1, Zenon
  <2> QED
    BY <1>6, <1>7, <2>2, Zenon
<1>9. \A t \in D \cap s.waiting : r.why[t] = told[t]
  BY <1>1, <1>6, Zenon
<1> QED
  BY <1>2, <1>6, <1>7, <1>8, <1>9, Zenon DEF Unblocks, r

(* unblock ends waits in turn, if it is called to, and tells the truth. *)
Apt(s, D, time) ==
  "signal" \notin Events =>
    \A t, u \in s.waiting :
      /\ s.wait[t].key = s.wait[u].key /\ s.wait[t].key \in AddrKeys
      /\ t \in s.older[u] /\ u \in D /\ t \notin D
      => s.wait[u].deadline <= time \/ ShouldRepoll(s, u)

(* unblock ends waits in turn if the set is apt. *)
LEMMA UnblockEnds ==
  ASSUME NEW s, Books(s), NEW D \in SUBSET Threads, NEW told \in [D -> Why], NEW time,
         Apt(s, D, time)
  PROVE  Ends(s, Unblock(s, told), time)
<1> DEFINE r == Unblock(s, told)
<1>1. Unblocks(s, D, told, r)
  BY UnblockFields, Zenon
<1> HIDE DEF r
<1>2. Ends(s, r, time)
  BY <1>1, Zenon DEF Unblocks, Ends, InTurn, Apt
<1> QED
  BY <1>2, Zenon DEF r

(* unblock tells what it is told to tell. *)
LEMMA UnblockTells ==
  ASSUME NEW s, Books(s), NEW D \in SUBSET Threads, NEW told \in [D -> Why], NEW time,
         Apt(s, D, time),
         \A t \in D \cap s.waiting :
           told[t] = "Woken" \/ (told[t] = "TimedOut" /\ s.wait[t].deadline <= time)
  PROVE  Tells(s, Unblock(s, told), time)
<1> DEFINE r == Unblock(s, told)
<1>1. Unblocks(s, D, told, r) /\ Ends(s, r, time)
  BY UnblockFields, UnblockEnds, Zenon
<1> HIDE DEF r
<1>2. Honest(s, r, time)
  BY <1>1, Zenon DEF Unblocks, Honest
<1> QED
  BY <1>1, <1>2, Zenon DEF Tells, r

(* release_due, with more waits to be looked at again, none of them an      *)
(* ordinary wait on an address.                                             *)
LEMMA ReleaseTells ==
  ASSUME NEW s, Books(s), NEW time, NEW due \in SUBSET DueBy(s, time), NEW more \in SUBSET s.waiting,
         \A u \in more : s.wait[u].key \in AddrKeys => ShouldRepoll(s, u)
  PROVE  Tells(s, Release(s, due, more), time)
<1> DEFINE told == [t \in due \cup more |-> IF t \in due THEN "TimedOut" ELSE "Woken"]
<1>1. \A u \in due : u \in s.waiting /\ s.wait[u].deadline <= time
  BY Zenon DEF DueBy
<1>2. due \cup more \in SUBSET Threads /\ told \in [due \cup more -> Why]
  BY <1>1, StateFields, Zenon DEF Why, Books
<1>3. \A t \in due \cup more : told[t] = "Woken" \/ (told[t] = "TimedOut" /\ s.wait[t].deadline <= time)
  BY <1>1, Zenon
<1>4. Apt(s, due \cup more, time)
  BY <1>1, Zenon DEF Apt
<1>5. Release(s, due, more) = Unblock(s, told)
  BY Zenon DEF Release
<1> HIDE DEF told
<1> QED
  BY <1>2, <1>3, <1>4, <1>5, UnblockTells, Zenon

(* A key that waits share with none on an address. *)
LEMMA ReadinessApart == Readiness \notin AddrKeys
  BY DEF Readiness, AddrKeys, Addr

(* The clock's wakes. *)
LEMMA ClockTells ==
  ASSUME NEW s, Books(s), NEW time
  PROVE  /\ \A fired : Tells(s, Moved(s, time, fired), time)
         /\ Tells(s, ReleaseDue(s, time), time) /\ Tells(s, ReleaseDueNative(s, time), time)
         /\ Tells(s, Release(s, {}, Repolled(s)), time)
         /\ Tells(s, s, time)
<1>1. /\ Timed(s) \in SUBSET s.waiting /\ Repolled(s) \in SUBSET s.waiting
      /\ {} \in SUBSET s.waiting /\ {} \in SUBSET DueBy(s, time)
      /\ {t \in DueBy(s, time) : s.wait[t].key \in AddrKeys} \in SUBSET DueBy(s, time)
      /\ \A u \in Timed(s) : s.wait[u].key \notin AddrKeys
      /\ \A u \in Repolled(s) : ShouldRepoll(s, u)
  BY ReadinessApart, Zenon DEF Timed, Repolled
<1>2. Tells(s, s, time)
  BY JoinsTells, AlikeJoins, Zenon DEF Alike
<1>3. ASSUME NEW fired
      PROVE  Tells(s, Moved(s, time, fired), time)
  <2> DEFINE more == Timed(s) \cup (IF fired THEN Repolled(s) ELSE {})
  <2>1. more \in SUBSET s.waiting /\ \A u \in more : s.wait[u].key \in AddrKeys => ShouldRepoll(s, u)
    BY <1>1, Zenon
  <2>2. Moved(s, time, fired) = Release(s, DueBy(s, time), more)
    BY Zenon DEF Moved
  <2> HIDE DEF more
  <2> QED
    BY <2>1, <2>2, ReleaseTells, Zenon
<1>4. Tells(s, ReleaseDue(s, time), time) /\ Tells(s, Release(s, {}, Repolled(s)), time)
  BY <1>1, ReleaseTells, Zenon DEF ReleaseDue
<1>5. Tells(s, ReleaseDueNative(s, time), time)
  BY <1>1, <1>2, ReleaseTells, Zenon DEF ReleaseDueNative
<1> QED
  BY <1>2, <1>3, <1>4, <1>5, Zenon

(* The oldest waiters of a key are woken before younger ones. *)
LEMMA OldestFirst ==
  ASSUME NEW s, Books(s), Senior(s), NEW key, NEW n \in Nat,
         NEW t \in s.waiting, NEW u \in Oldest(s, Waiters(s, key), n),
         s.wait[t].key = key, t \in s.older[u]
  PROVE  t \in Oldest(s, Waiters(s, key), n)
<1> DEFINE W == Waiters(s, key)
<1>1. u \in W /\ t \in W /\ u \in s.waiting /\ W \in SUBSET Threads
  BY StateFields, Zenon DEF Oldest, Waiters, Books
<1>2. s.older[t] \subseteq s.older[u]
  BY <1>1, Zenon DEF Senior
<1>3. /\ s.older[t] \cap W \subseteq s.older[u] \cap W /\ s.older[u] \cap W \in SUBSET Threads
      /\ s.older[t] \cap W \in SUBSET Threads
  BY <1>1, <1>2, Zenon
<1>4. IsFiniteSet(s.older[u] \cap W)
  BY <1>3, ThreadSets, Zenon
<1>5. Cardinality(s.older[t] \cap W) <= Cardinality(s.older[u] \cap W)
  BY <1>3, <1>4, FS_Subset, Zenon
<1>6. Cardinality(s.older[t] \cap W) \in Nat /\ Cardinality(s.older[u] \cap W) \in Nat
  BY <1>3, ThreadSets, Zenon
<1>7. Cardinality(s.older[u] \cap W) < n
  BY Zenon DEF Oldest
<1> HIDE DEF W
<1>8. Cardinality(s.older[t] \cap W) < n
  BY <1>5, <1>6, <1>7
<1> QED
  BY <1>1, <1>8, Zenon DEF Oldest, W

(* wake_key. *)
LEMMA WakeKeyTells ==
  ASSUME NEW s, Books(s), Senior(s), NEW key, NEW n \in Nat, NEW time
  PROVE  Tells(s, WakeKey(s, key, n, "Woken"), time)
<1> DEFINE D == Oldest(s, Waiters(s, key), n)
           told == Tell(D, "Woken")
<1>1. D \in SUBSET Threads /\ \A u \in D : s.wait[u].key = key
  BY StateFields, Zenon DEF Oldest, Waiters, Books
<1>2. Apt(s, D, time)
  BY <1>1, OldestFirst, Zenon DEF Apt
<1>3. told \in [D -> Why] /\ \A t \in D \cap s.waiting : told[t] = "Woken"
  BY Zenon DEF Tell, Why
<1>4. WakeKey(s, key, n, "Woken") = Unblock(s, told)
  BY Zenon DEF WakeKey
<1> HIDE DEF D, told
<1> QED
  BY <1>1, <1>2, <1>3, <1>4, UnblockTells, Zenon

(* A wake of any waits that are not on an address. *)
LEMMA ReadinessTells ==
  ASSUME NEW s, Books(s), NEW S \in SUBSET Waiters(s, Readiness), NEW why \in Why, NEW time
  PROVE  /\ Ends(s, Unblock(s, Tell(S, why)), time)
         /\ why = "Woken" => Tells(s, Unblock(s, Tell(S, why)), time)
<1> DEFINE told == Tell(S, why)
<1>1. S \in SUBSET Threads /\ \A u \in S : s.wait[u].key = Readiness
  BY StateFields, Zenon DEF Waiters, Books
<1>2. Apt(s, S, time)
  BY <1>1, ReadinessApart, Zenon DEF Apt
<1>3. told \in [S -> Why] /\ \A t \in S \cap s.waiting : told[t] = why
  BY Zenon DEF Tell
<1> HIDE DEF told
<1>4. Ends(s, Unblock(s, told), time)
  BY <1>1, <1>2, <1>3, UnblockEnds, Zenon
<1>5. why = "Woken" => Tells(s, Unblock(s, told), time)
  BY <1>1, <1>2, <1>3, UnblockTells, Zenon
<1> QED
  BY <1>4, <1>5, Zenon DEF told

(* wake_thread. *)
LEMMA SignalTells ==
  ASSUME NEW s, Books(s), "signal" \in Events, NEW u \in Threads, NEW time
  PROVE  Tells(s, WakeOne(s, u), time)
<1> DEFINE told == Tell({u}, "Woken")
<1>1. {u} \in SUBSET Threads /\ told \in [{u} -> Why] /\ \A t \in {u} \cap s.waiting : told[t] = "Woken"
  BY Zenon DEF Tell, Why
<1>2. Apt(s, {u}, time)
  BY Zenon DEF Apt
<1>3. WakeOne(s, u) = Unblock(s, told)
  BY Zenon DEF WakeOne
<1> HIDE DEF told
<1> QED
  BY <1>1, <1>2, <1>3, UnblockTells, Zenon

(* wake_foreign_locked and take_foreign. *)
LEMMA WakeForeignTells ==
  ASSUME NEW s, Books(s), Senior(s), NEW K, NEW time
  PROVE  Tells(s, WakeForeign(s, K), time)
<1> DEFINE D == UNION {Oldest(s, Waiters(s, k), 1) : k \in K}
           told == Tell(D, "Woken")
           s1 == Unblock(s, told)
           kept == {k \in K : Waiters(s, k) = {}}
<1>1. D \in SUBSET Threads
  BY StateFields, Zenon DEF Books, Oldest, Waiters
<1>2. Apt(s, D, time)
  <2>1. ASSUME NEW t \in s.waiting, NEW u \in D, s.wait[t].key = s.wait[u].key, t \in s.older[u]
        PROVE  t \in D
    <3>1. PICK k \in K : u \in Oldest(s, Waiters(s, k), 1)
      BY Zenon
    <3>2. s.wait[u].key = k
      BY <3>1, Zenon DEF Oldest, Waiters
    <3>3. t \in Oldest(s, Waiters(s, k), 1)
      <4>1. 1 \in Nat
        OBVIOUS
      <4> QED
        BY <2>1, <3>1, <3>2, <4>1, OldestFirst, Zenon
    <3> QED
      BY <3>3, Zenon
  <2> HIDE DEF D
  <2> QED
    BY <2>1, Zenon DEF Apt
<1>3. told \in [D -> Why] /\ \A t \in D \cap s.waiting : told[t] = "Woken"
  BY Zenon DEF Tell, Why
<1>4. WakeForeign(s, K) = [s1 EXCEPT !.foreign = @ \cup kept]
  BY Zenon DEF WakeForeign
<1> HIDE DEF D, told, kept
<1>5. s1 \in State /\ Tells(s, s1, time)
  BY <1>1, <1>2, <1>3, UnblockTells, UnblockWakes, Zenon DEF Wakes, Books
<1> HIDE DEF s1
<1>6. Alike(s1, WakeForeign(s, K))
  BY <1>4, <1>5, Zenon DEF Alike, State
<1> QED
  BY <1>5, <1>6, AlikeJoins, TellsAround, Zenon DEF Alike

(* disown: all waiters of a key, and so its older ones too. *)
LEMMA DisownTells ==
  ASSUME NEW s, Books(s), NEW t, NEW K, NEW time
  PROVE  Tells(s, Disown(s, t, K), time)
<1> DEFINE mine == {a \in Addrs : s.owner[a] = t}
           D == {u \in s.waiting : s.wait[u].key \in K \cup {Addr(a) : a \in mine}}
           told == Tell(D, "Woken")
           s1 == Unblock(s, told)
<1>1. D \in SUBSET Threads
  BY StateFields, Zenon DEF Books
<1>2. Apt(s, D, time)
  BY Zenon DEF Apt
<1>3. told \in [D -> Why] /\ \A u \in D \cap s.waiting : told[u] = "Woken"
  BY Zenon DEF Tell, Why
<1>4. Disown(s, t, K) = [s1 EXCEPT !.owner = [a \in Addrs |-> IF a \in mine THEN None ELSE @[a]]]
  BY Zenon DEF Disown
<1> HIDE DEF D, told, mine
<1>5. s1 \in State /\ Tells(s, s1, time)
  BY <1>1, <1>2, <1>3, UnblockTells, UnblockWakes, Zenon DEF Wakes, Books
<1> HIDE DEF s1
<1>6. Alike(s1, Disown(s, t, K))
  BY <1>4, <1>5, Zenon DEF Alike, State
<1> QED
  BY <1>5, <1>6, AlikeJoins, TellsAround, Zenon DEF Alike

(* set_runnable, and threads woken in native waits, queue threads as woken. *)
LEMMA QueueingJoins ==
  ASSUME NEW s \in State
  PROVE  /\ \A t \in Threads : Joins(s, SetRunnable(s, t, "Woken")) /\ Joins(s, TakeRunnable(s, t))
         /\ \A key, n : Joins(s, WakeOutside(s, key, n))
         /\ Joins(s, [s EXCEPT !.holder = None])
<1>1. s.why \in [Threads -> Why] /\ s.ready \in SUBSET Threads /\ s.threads \in SUBSET Threads
  BY StateFields, Zenon
<1>2. ASSUME NEW t \in Threads
      PROVE  Joins(s, SetRunnable(s, t, "Woken"))
  <2> DEFINE r == SetRunnable(s, t, "Woken")
  <2>1. CASE t \notin s.threads
    BY <2>1, AlikeJoins, Zenon DEF SetRunnable, Alike
  <2>2. CASE t \in s.threads
    <3>1. /\ r.waiting = s.waiting /\ r.wait = s.wait /\ r.older = s.older
          /\ r.ready = s.ready \cup {t} /\ r.why = [s.why EXCEPT ![t] = "Woken"]
      BY <2>2, Zenon DEF SetRunnable, State
    <3> HIDE DEF r
    <3>2. \A u \in r.ready : r.why[u] = "Woken" \/ (u \in s.ready /\ r.why[u] = s.why[u])
      BY <1>1, <3>1, Zenon
    <3> QED
      BY <3>1, <3>2, Zenon DEF Joins, r
  <2> QED
    BY <2>1, <2>2, Zenon
<1>3. ASSUME NEW t \in Threads
      PROVE  Joins(s, TakeRunnable(s, t))
  <2> DEFINE r == TakeRunnable(s, t)
  <2>1. CASE t \notin s.ready
    BY <2>1, AlikeJoins, Zenon DEF TakeRunnable, Alike
  <2>2. CASE t \in s.ready
    <3>1. /\ r.waiting = s.waiting /\ r.wait = s.wait /\ r.older = s.older
          /\ r.ready = s.ready \ {t} /\ r.why = [s.why EXCEPT ![t] = "Woken"]
      BY <2>2, Zenon DEF TakeRunnable, State
    <3> HIDE DEF r
    <3>2. \A u \in r.ready : r.why[u] = "Woken" \/ (u \in s.ready /\ r.why[u] = s.why[u])
      BY <1>1, <3>1, Zenon
    <3> QED
      BY <3>1, <3>2, Zenon DEF Joins, r
  <2> QED
    BY <2>1, <2>2, Zenon
<1>4. ASSUME NEW key, NEW n
      PROVE  Joins(s, WakeOutside(s, key, n))
  <2> DEFINE woken == Lowest({t \in s.threads : s.outside[t] = key}, n)
             r == WakeOutside(s, key, n)
  <2>1. /\ r.waiting = s.waiting /\ r.wait = s.wait /\ r.older = s.older
        /\ r.ready = s.ready \cup woken
        /\ r.why = [t \in Threads |-> IF t \in woken THEN "Woken" ELSE s.why[t]]
    BY Zenon DEF WakeOutside, State
  <2>2. woken \in SUBSET Threads
    BY <1>1, Zenon DEF Lowest
  <2> HIDE DEF r, woken
  <2>3. \A u \in r.ready : r.why[u] = "Woken" \/ (u \in s.ready /\ r.why[u] = s.why[u])
    <3> SUFFICES ASSUME NEW u \in r.ready
                 PROVE  r.why[u] = "Woken" \/ (u \in s.ready /\ r.why[u] = s.why[u])
      OBVIOUS
    <3>1. u \in Threads /\ (u \in woken \/ u \in s.ready)
      BY <1>1, <2>1, <2>2, Zenon
    <3> QED
      BY <2>1, <3>1, Zenon
  <2> QED
    BY <2>1, <2>3, Zenon DEF Joins, r
<1>5. Joins(s, [s EXCEPT !.holder = None])
  BY Zenon DEF Joins, State
<1> QED
  BY <1>2, <1>3, <1>4, <1>5, Zenon

-----------------------------------------------------------------------------
(* Steps that begin no wait. *)

(* Whoever a step tells why its wait is over is told the truth, and nobody  *)
(* is told of a deadlock.                                                   *)
TellsTrue ==
  \A t \in Threads :
    /\ Told(t, "TimedOut") => t \in st.waiting /\ st.wait[t].deadline <= now'
    /\ ~Told(t, "Deadlock")

Passes == Ends(st, st', now') /\ TellsTrue

(* A function on State, and a grant perhaps. *)
LEMMA GrantPasses ==
  ASSUME flight \in [Threads -> Why \cup {"none"}], NEW s, Books(s), Tells(st, s, now'),
         GrantIfIdle(s) \/ GrantNext(s) \/ (st' = s /\ flight' = flight)
  PROVE  Passes
<1>1. /\ st'.waiting = s.waiting /\ st'.wait = s.wait /\ st'.older = s.older
      /\ \/ st' = s /\ flight' = flight
         \/ \E n \in s.ready :
              /\ st'.ready = s.ready \ {n}
              /\ flight' = [flight EXCEPT ![n] = s.why[n]]
              /\ \A t \in Threads \ {n} : st'.why[t] = s.why[t]
  <2>1. CASE GrantNext(s)
    <3>1. /\ st'.waiting = s.waiting /\ st'.wait = s.wait /\ st'.older = s.older
          /\ \/ s.ready = {} /\ st' = s /\ flight' = flight
             \/ \E n \in s.ready :
                  /\ st'.holder = n /\ st'.ready = s.ready \ {n}
                  /\ flight' = [flight EXCEPT ![n] = s.why[n]]
                  /\ \A t \in Threads \ {n} : st'.why[t] = s.why[t]
      BY <2>1, GrantNextFrame, Zenon
    <3> QED
      BY <3>1, Zenon
  <2>2. CASE GrantIfIdle(s)
    BY <2>1, <2>2, Zenon DEF GrantIfIdle
  <2> QED
    BY <2>1, <2>2, Zenon
<1>2. Ends(st, st', now')
  BY <1>1, Zenon DEF Tells, Ends, InTurn
<1>3. ASSUME NEW t \in Threads, NEW why \in {"TimedOut", "Deadlock"}, Told(t, why)
      PROVE  t \in s.ready \ st.ready /\ s.why[t] = why
  <2>1. why # "none"
    OBVIOUS
  <2>2. CASE st' = s /\ flight' = flight
    BY <1>3, <2>1, <2>2, Zenon DEF Told
  <2>3. ASSUME NEW n \in s.ready, st'.ready = s.ready \ {n},
               flight' = [flight EXCEPT ![n] = s.why[n]],
               \A u \in Threads \ {n} : st'.why[u] = s.why[u]
        PROVE  t \in s.ready \ st.ready /\ s.why[t] = why
    <3>1. CASE t = n
      BY <1>3, <2>1, <2>3, <3>1, Zenon DEF Told
    <3>2. CASE t # n
      BY <1>3, <2>1, <2>3, <3>2, Zenon DEF Told
    <3> QED
      BY <3>1, <3>2, Zenon
  <2> QED
    BY <1>1, <2>2, <2>3, Zenon
<1>4. TellsTrue
  BY <1>3, Zenon DEF TellsTrue, Tells, Honest
<1> QED
  BY <1>2, <1>4, Zenon DEF Passes

(* A step that leaves the waits and the queue alone. *)
LEMMA AlikePasses ==
  ASSUME Alike(st, st'), \A t \in Threads : flight'[t] = flight[t] \/ flight'[t] = "none"
  PROVE  Passes
<1>1. Ends(st, st', now')
  BY AlikeJoins, JoinsTells, Zenon DEF Tells
<1>2. \A t \in Threads : ~Told(t, "TimedOut") /\ ~Told(t, "Deadlock")
  BY Zenon DEF Told, Alike
<1> QED
  BY <1>1, <1>2, Zenon DEF Passes, TellsTrue

(* The field of a spinner, of an owner or of a word's outside wait. *)
LEMMA OtherFields ==
  ASSUME NEW s \in State
  PROVE  /\ \A t, v : Alike(s, [s EXCEPT !.spinner[t] = v])
         /\ \A a, v : Alike(s, [s EXCEPT !.owner[a] = v])
         /\ \A t, v : Alike(s, [s EXCEPT !.outside[t] = v])
         /\ \A v : Alike(s, [s EXCEPT !.foreign = v])
  BY Zenon DEF Alike, State

(* spawned. *)
LEMMA QueuePasses ==
  ASSUME IInv, NEW c \in Threads, NEW s, Same(st, s), Alike(st, s), Queue(c, s)
  PROVE  Passes
<1> DEFINE s1 == [s EXCEPT !.threads = @ \cup {c}]
           s2 == SetRunnable(s1, c, "Woken")
<1>1. Core /\ Books(s) /\ s \in State /\ pc[c] = "out"
  BY SameBooks, Zenon DEF Queue, IInv, Core, Same
<1>2. c \notin st.waiting
  BY <1>1, Zenon DEF Core, AllFit, Fits, InWait, Locked, Asleep
<1>3. CASE detached
  BY <1>3, AlikePasses, Zenon DEF Queue
<1>4. CASE ~detached
  <2>1. GrantIfIdle(s2)
    BY <1>4, Zenon DEF Queue
  <2>2. /\ s1 \in State /\ s1.threads = s.threads \cup {c} /\ s1.ready = s.ready
        /\ s1.waiting = s.waiting /\ s1.letGo = s.letGo
        /\ s1.runnable = s.runnable /\ s1.blocked = s.blocked
    BY <1>1, ZenonT(60) DEF State
  <2>3. Alike(s, s1)
    BY <1>1, Zenon DEF Alike, State
  <2> HIDE DEF s1
  <2>4. Books(s1) /\ c \in s1.threads /\ c \notin s1.waiting
    BY <1>1, <1>2, <2>2, Zenon DEF Books, Same
  <2>5. Books(s2)
    BY <2>4, SetRunnableBooks, Zenon DEF Why
  <2>6. Joins(s1, s2)
    BY <2>2, QueueingJoins, Zenon
  <2> HIDE DEF s2
  <2>7. Tells(st, s2, now')
    BY <2>3, <2>6, JoinsTells, AlikeJoins, TellsAround, Zenon DEF Alike
  <2> QED
    BY <1>1, <2>1, <2>5, <2>7, GrantPasses, Zenon DEF Core
<1> QED
  BY <1>3, <1>4, Zenon

(* The holder leaves: what its leaving ended, and a grant. *)
LEMMA HandOnPasses ==
  ASSUME Core, NEW s, Books(s), Tells(st, s, now'), NEW l, HandOn(s, l)
  PROVE  Passes
<1> DEFINE z == [s EXCEPT !.holder = None]
<1>1. Books(z) /\ GrantNext(z)
  BY NoHolder, Zenon DEF HandOn
<1>2. Joins(s, z)
  BY QueueingJoins, Zenon DEF Books
<1> HIDE DEF z
<1>3. Tells(st, z, now')
  BY <1>2, TellsAround, Zenon DEF Alike
<1> QED
  BY <1>1, <1>3, GrantPasses, Zenon DEF Core

(* A thread that neither waits nor is queued is taken out of nothing. *)
LEMMA TakenNot ==
  ASSUME NEW s \in State, NEW t \in Threads, t \notin s.waiting, t \notin s.ready
  PROVE  TakeRunnable(s, t) = s /\ Alike(s, TakeBlocked(s, {t}))
<1> DEFINE gone == {t} \cap s.waiting
           r == TakeBlocked(s, {t})
<1>1. TakeRunnable(s, t) = s /\ gone = {}
  BY Zenon DEF TakeRunnable
<1>2. /\ r.waiting = s.waiting \ gone /\ r.ready = s.ready /\ r.why = s.why
      /\ r.wait = [u \in Threads |-> IF u \in gone THEN NoWait ELSE s.wait[u]]
      /\ r.older = [u \in Threads |-> IF u \in gone THEN {} ELSE s.older[u] \ gone]
  BY Zenon DEF TakeBlocked, State
<1>3. s.wait \in [Threads -> Wait] /\ s.older \in [Threads -> SUBSET Threads]
  BY StateFields, Zenon
<1> HIDE DEF r, gone
<1>4. \A u \in Threads : s.older[u] \ gone = s.older[u]
  BY <1>1
<1>5. r.wait = s.wait /\ r.older = s.older /\ r.waiting = s.waiting
  BY <1>1, <1>2, <1>3, <1>4
<1> QED
  BY <1>1, <1>2, <1>5, Zenon DEF Alike, r

(* exit, and the end of detach_thread. *)
LEMMA LeavesPasses ==
  ASSUME IInv, NEW t \in Threads, ExitThread(t) \/ LeaveClass(t)
  PROVE  Passes
<1>1. /\ Core /\ Books(st) /\ st \in State /\ t \notin st.waiting /\ t \notin st.ready
  <2>1. pc[t] = "user"
    BY Zenon DEF ExitThread, LeaveClass
  <2> QED
    BY <2>1, InUser, Zenon DEF IInv, Core, Books
<1>2. CASE ExitThread(t)
  <2> DEFINE s1 == TakeBlocked(TakeRunnable(st, t), {t})
             s2 == Gone(st, t)
             s == Left(st, t)
  <2>1. HandOn(s, latch) \/ GrantIfIdle(s)
    BY <1>2, Zenon DEF ExitThread
  <2>2. Books(s) /\ Books(s2)
    BY <1>1, LeftBooks, GoneBooks, Zenon
  <2>3. s = Disown(s2, t, {Exit(t)})
    BY Zenon DEF Left, Gone
  <2>4. s1 \in State /\ Alike(st, s1)
    <3>1. TakeRunnable(st, t) = st /\ Alike(st, TakeBlocked(st, {t}))
      BY <1>1, TakenNot, Zenon
    <3>2. Books(TakeBlocked(st, {t}))
      BY <1>1, TakeBlockedBooks, Zenon
    <3> QED
      BY <3>1, <3>2, Zenon DEF Books
  <2> HIDE DEF s, s1
  <2>5. Alike(s1, s2)
    BY <2>4, Zenon DEF Alike, State, Gone, s1
  <2> HIDE DEF s2
  <2>6. Tells(s2, s, now')
    BY <2>2, <2>3, DisownTells, Zenon
  <2>7. Tells(st, s, now')
    <3>1. Alike(st, s2) /\ Joins(s, s)
      BY <2>4, <2>5, AlikeJoins, Zenon DEF Alike
    <3> QED
      BY <2>6, <3>1, TellsAround, Zenon
  <2> QED
    BY <1>1, <2>1, <2>2, <2>7, HandOnPasses, GrantPasses, Zenon DEF Core
<1>3. CASE LeaveClass(t)
  <2> DEFINE s0 == [st EXCEPT !.spinner[t] = "no"]
             s2 == TakeBlocked(TakeRunnable(s0, t), {t})
             s == Disown(s2, t, {})
             l == IF t \in st.threads THEN [latch EXCEPT ![t] = "none"] ELSE latch
  <2>1. HandOn(s, l) \/ GrantIfIdle(s) \/ (st' = s /\ flight' = flight)
    BY <1>3, Zenon DEF LeaveClass
  <2>2. Books(s)
    BY <1>3, LeaveClassWakes, Zenon DEF LeaveClass, Wakes
  <2>3. s0 \in State /\ Books(s0) /\ Alike(st, s0)
    <3>1. Same(st, s0) /\ Alike(st, s0)
      BY <1>1, SpinnerSame, OtherFields, Zenon
    <3> QED
      BY <1>1, <3>1, SameBooks, Zenon DEF Same
  <2> HIDE DEF s0
  <2>4. TakeRunnable(s0, t) = s0 /\ Alike(s0, TakeBlocked(s0, {t}))
    BY <1>1, <2>3, TakenNot, Zenon DEF Alike
  <2>5. Books(s2) /\ Alike(s0, s2)
    BY <2>3, <2>4, TakeBlockedBooks, ZenonT(40)
  <2>6. Tells(s2, s, now')
    BY <2>5, DisownTells, Zenon
  <2> HIDE DEF s, s2, l
  <2>7. Tells(st, s, now')
    <3>1. Alike(st, s2) /\ Joins(s, s)
      BY <2>3, <2>5, AlikeJoins, Zenon DEF Alike
    <3> QED
      BY <2>6, <3>1, TellsAround, Zenon
  <2> QED
    BY <1>1, <2>1, <2>2, <2>7, HandOnPasses, GrantPasses, Zenon DEF Core
<1> QED
  BY <1>2, <1>3, Zenon

(* enter_root, and attach_thread. *)
LEMMA EntersPasses ==
  ASSUME IInv, NEW t \in Threads, EnterRoot(t) \/ JoinClass(t)
  PROVE  Passes
<1>1. Core /\ Books(st) /\ st \in State
  BY Zenon DEF IInv, Core, Books
<1>2. ASSUME NEW s \in State, Alike(st, s), NEW r, r = s \/ r = SetRunnable(s, t, "Woken")
      PROVE  Tells(st, r, now')
  <2>1. Joins(s, r)
    BY <1>2, QueueingJoins, AlikeJoins, Zenon DEF Alike
  <2> QED
    BY <1>2, <2>1, JoinsTells, AlikeJoins, TellsAround, Zenon DEF Alike
<1>3. CASE EnterRoot(t)
  <2> DEFINE s == [st EXCEPT !.threads = @ \cup {t}, !.roots = @ + 1]
  <2>1. /\ st' = [s EXCEPT !.holder = t, !.last = t] \/ st' = SetRunnable(s, t, "Woken")
        /\ flight' = flight
    BY <1>3, Zenon DEF EnterRoot
  <2>2. s \in State /\ Alike(st, s)
    <3>1. st.roots + 1 \in Nat
      BY <1>1 DEF State
    <3> QED
      BY <1>1, <3>1, Zenon DEF State, Alike
  <2> HIDE DEF s
  <2>3. Books(st')
    BY <1>3, EnterRootCore, Zenon DEF Core
  <2>4. Tells(st, st', now')
    <3>1. CASE st' = SetRunnable(s, t, "Woken")
      BY <1>2, <2>2, <3>1, Zenon
    <3>2. CASE st' = [s EXCEPT !.holder = t, !.last = t]
      <4>1. Alike(s, st')
        BY <2>2, <3>2, Zenon DEF Alike, State
      <4> QED
        BY <2>2, <4>1, JoinsTells, AlikeJoins, TellsAround, Zenon DEF Alike
    <3> QED
      BY <2>1, <3>1, <3>2, Zenon
  <2> QED
    BY <1>1, <2>1, <2>3, <2>4, GrantPasses, Zenon DEF Core
<1>4. CASE JoinClass(t)
  <2> DEFINE s0 == [st EXCEPT !.spinner[t] = "no"]
             s == [st EXCEPT !.threads = @ \cup {t}, !.spinner[t] = "no"]
             r == SetRunnable(s, t, "Woken")
  <2>1. pc[t] = "user" /\ ((st' = s /\ flight' = flight) \/ GrantIfIdle(r))
    BY <1>4, Zenon DEF JoinClass
  <2>2. s \in State /\ Alike(st, s) /\ Books(s) /\ t \in s.threads /\ t \notin s.waiting
    <3>1. Same(st, s0) /\ Alike(st, s0)
      BY <1>1, SpinnerSame, OtherFields, Zenon
    <3>2. s = [s0 EXCEPT !.threads = @ \cup {t}]
      BY <1>1, Zenon DEF State
    <3> HIDE DEF s, s0
    <3>3. s0 \in State
      BY <3>1, Zenon DEF Same
    <3>4. /\ s \in State /\ s.threads = s0.threads \cup {t} /\ s.ready = s0.ready
          /\ s.waiting = s0.waiting /\ s.letGo = s0.letGo
          /\ s.holder = s0.holder /\ s.runnable = s0.runnable /\ s.blocked = s0.blocked
      BY <3>2, <3>3, ZenonT(40) DEF State
    <3>5. Alike(s0, s)
      BY <3>2, <3>3, Zenon DEF State, Alike
    <3>6. t \notin st.waiting
      BY <1>1, <2>1, InUser, Zenon
    <3> QED
      BY <1>1, <3>1, <3>4, <3>5, <3>6, Zenon DEF Alike, Books, Same
  <2> HIDE DEF s
  <2>3. Books(r)
    BY <2>2, SetRunnableBooks, Zenon DEF Why
  <2>4. Tells(st, s, now') /\ Tells(st, r, now')
    BY <1>2, <2>2, Zenon
  <2> HIDE DEF r
  <2> QED
    BY <1>1, <2>1, <2>2, <2>3, <2>4, GrantPasses, Zenon DEF Core
<1> QED
  BY <1>3, <1>4, Zenon

(* unspawned. *)
LEMMA CreateFailsPasses ==
  ASSUME IInv, NEW t \in Threads, CreateFails(t)
  PROVE  Passes
<1>1. PICK k \in Threads : k = kid[t]
  BY Zenon DEF CreateFails, IInv, Rest
<1> DEFINE s == TakeRunnable(st, k)
           r == [s EXCEPT !.threads = @ \ {k}, !.letGo = @ \ {k}]
<1>2. Core /\ st \in State /\ (st' = st \/ st' = r) /\ flight' = flight
  BY <1>1, Zenon DEF CreateFails, IInv, Core, Books
<1>3. CASE st' = st
  BY <1>2, <1>3, AlikePasses, Zenon DEF Alike
<1>4. CASE st' = r
  <2>1. s \in State /\ Joins(st, s)
    BY <1>2, TakeRunnableBooks, QueueingJoins, Zenon DEF Core, Books
  <2> HIDE DEF s
  <2>2. Alike(s, r)
    BY <2>1, Zenon DEF Alike, State
  <2> HIDE DEF r
  <2>3. Joins(st, st')
    BY <1>4, <2>1, <2>2, Zenon DEF Joins, Alike
  <2>4. Tells(st, st', now')
    BY <2>3, JoinsTells, Zenon
  <2>5. \A u \in Threads : ~Told(u, "TimedOut") /\ ~Told(u, "Deadlock")
    BY <1>2, <2>3, Zenon DEF Told, Joins
  <2> QED
    BY <2>4, <2>5, Zenon DEF Passes, TellsTrue, Tells
<1> QED
  BY <1>2, <1>3, <1>4, Zenon

(* Threads that come, go and change class. *)
LEMMA ComingPasses ==
  ASSUME IInv, NEW t \in Threads, Coming(t)
  PROVE  Passes
<1>1. Core /\ Books(st) /\ st \in State
  BY Zenon DEF IInv, Core, Books
<1>2. CASE Created(t)
  BY <1>2, AlikePasses, Zenon DEF Created, Alike
<1>3. CASE Started(t)
  <2>1. (st' = st \/ st' = [st EXCEPT !.threads = @ \cup {t}]) /\ flight' = flight
    BY <1>3, Zenon DEF Started
  <2>2. Alike(st, st')
    BY <1>1, <2>1, ZenonT(40) DEF Alike, State
  <2> QED
    BY <2>1, <2>2, AlikePasses, Zenon
<1>4. ASSUME NEW c \in Threads, Spawned(t, c)
      PROVE  Passes
  <2> DEFINE s == [st EXCEPT !.spinner[t] = "no"]
  <2>1. Queue(c, s)
    BY <1>4, Zenon DEF Spawned
  <2>2. Same(st, s) /\ Alike(st, s)
    BY <1>1, SpinnerSame, OtherFields, Zenon
  <2> HIDE DEF s
  <2> QED
    BY <2>1, <2>2, QueuePasses, Zenon
<1> QED
  BY <1>2, <1>3, <1>4, EntersPasses, LeavesPasses, CreateFailsPasses, Zenon DEF Coming

(* yield_now. *)
LEMMA YieldPasses ==
  ASSUME IInv, Senior(st), NEW t \in Threads, YieldNow(t)
  PROVE  Passes
<1> DEFINE s == WakeForeign(st, queued)
           r == SetRunnable(s, t, "Woken")
           z == [r EXCEPT !.holder = None]
<1>1. /\ Core /\ Books(st) /\ st \in State /\ pc[t] \in {"yield", "user"} /\ st.holder = t
      /\ (st' = s /\ flight' = flight) \/ GrantNext(z)
  BY Zenon DEF YieldNow, IInv, Core, Books
<1>2. Wakes(st, s) /\ Books(s)
  BY <1>1, QueuedWakes, Zenon DEF Wakes, Same
<1>3. Tells(st, s, now')
  BY <1>1, WakeForeignTells, Zenon
<1> HIDE DEF s
<1>4. t \in s.threads /\ t \notin s.waiting
  BY <1>1, <1>2, Zenon DEF Core, AllFit, Fits, Wakes
<1>5. Books(r) /\ r \in State
  BY <1>2, <1>4, SetRunnableBooks, Zenon DEF Why, Books
<1>6. Joins(s, r)
  BY <1>2, QueueingJoins, Zenon DEF Books
<1> HIDE DEF r
<1>7. Books(z) /\ Joins(r, z)
  BY <1>5, NoHolder, QueueingJoins, Zenon
<1> HIDE DEF z
<1>8. Tells(st, z, now')
  <2>1. Alike(st, st)
    BY Zenon DEF Alike
  <2>2. Tells(st, r, now')
    BY <1>3, <1>6, <2>1, TellsAround, Zenon
  <2> QED
    BY <1>7, <2>1, <2>2, TellsAround, Zenon
<1> QED
  BY <1>1, <1>2, <1>3, <1>7, <1>8, GrantPasses, Zenon DEF Core

(* A spin, and the latency of a call. *)
LEMMA SpinPasses ==
  ASSUME IInv, NEW t \in Threads,
         SpinAdvance(t) \/ ChargeLatency(t) \/ \E clock \in BOOLEAN : Spin(t, clock)
  PROVE  Passes
<1>1. Core /\ Books(st) /\ st \in State
  BY Zenon DEF IInv, Core, Books
<1>2. ASSUME NEW clock \in BOOLEAN, Spin(t, clock)
      PROVE  Passes
  <2>1. /\ st' = [st EXCEPT !.spinner[t] = IF clock THEN "clock" ELSE "yield"]
        /\ flight' = flight
    BY <1>2, Zenon DEF Spin
  <2>2. Alike(st, st')
    BY <1>1, <2>1, OtherFields, Zenon
  <2> QED
    BY <2>1, <2>2, AlikePasses, Zenon
<1>3. CASE SpinAdvance(t)
  <2>1. /\ st' = st \/ \E fired \in Fires : st' = Moved(st, now', timerWakes \/ fired)
        /\ flight' = flight
    BY <1>3, Zenon DEF SpinAdvance
  <2>2. Books(st') /\ Tells(st, st', now')
    <3>1. Books(st) /\ Tells(st, st, now')
      BY <1>1, ClockTells, Zenon
    <3>2. \A fired : Wakes(st, Moved(st, now', fired)) /\ Tells(st, Moved(st, now', fired), now')
      BY <1>1, ClockWakes, ClockTells, Zenon
    <3> QED
      BY <2>1, <3>1, <3>2, Zenon DEF Wakes
  <2> QED
    BY <1>1, <2>1, <2>2, GrantPasses, Zenon DEF Core
<1>4. CASE ChargeLatency(t)
  <2> DEFINE s == [st EXCEPT !.spinner[t] = "no"]
  <2>1. st' = ReleaseDueNative(s, now') /\ flight' = flight
    BY <1>4, Zenon DEF ChargeLatency
  <2>2. Same(st, s) /\ Alike(st, s)
    BY <1>1, SpinnerSame, OtherFields, Zenon
  <2> HIDE DEF s
  <2>3. Books(s)
    BY <1>1, <2>2, SameBooks, Zenon
  <2>4. Wakes(s, st') /\ Tells(s, st', now')
    BY <2>1, <2>3, ClockWakes, ClockTells, Zenon
  <2>5. Tells(st, st', now')
    BY <2>2, <2>4, TellsAround, AlikeJoins, Zenon DEF Alike
  <2> QED
    BY <1>1, <2>1, <2>4, <2>5, GrantPasses, Zenon DEF Core, Wakes
<1> QED
  BY <1>2, <1>3, <1>4, Zenon

(* Wakes by threads of the domain. *)
LEMMA WakingPasses ==
  ASSUME IInv, Senior(st), NEW t \in Threads, Waking(t)
  PROVE  Passes
<1>1. /\ Core /\ Books(st) /\ st \in State
  BY Zenon DEF IInv, Core, Books
<1>2. ASSUME NEW s, Wakes(st, s), Tells(st, s, now'), NEW key \in Keys, NEW n,
             GrantIfIdle(WakeOutside(s, key, n))
      PROVE  Passes
  <2> DEFINE r == WakeOutside(s, key, n)
  <2>1. Books(s) /\ AllFit(s, pc, latch, flight) /\ key # NoKey
    BY <1>1, <1>2, WakesFit, KeysAreKeys, Zenon DEF Core, Wakes
  <2>2. Books(r)
    BY <2>1, WakeOutsideFits
  <2>3. Joins(s, r)
    BY <2>1, QueueingJoins, Zenon DEF Books
  <2> HIDE DEF r
  <2>4. Tells(st, r, now')
    BY <1>2, <2>3, TellsAround, Zenon DEF Alike
  <2> QED
    BY <1>1, <1>2, <2>2, <2>4, GrantPasses, Zenon DEF Core, r
<1>3. 1 \in Nat /\ All \in Nat
  BY ThreadSets DEF All
<1>4. ASSUME NEW key \in Keys, NEW n \in {1, All}, Wake(t, key, n)
      PROVE  Passes
  <2>1. Tells(st, WakeKey(st, key, n, "Woken"), now')
    BY <1>1, <1>3, WakeKeyTells, Zenon
  <2> QED
    BY <1>1, <1>2, <1>4, <2>1, WakeKeyWakes, Zenon DEF Wake, WakeMasked
<1>5. ASSUME NEW S \in SUBSET Threads, WakeReadiness(t, S)
      PROVE  Passes
  <2>1. Wakes(st, Unblock(st, Tell(S, "Woken"))) /\ Readiness \in Keys
    BY <1>1, TellWakes, Zenon DEF Why, Keys
  <2>2. S \in SUBSET Waiters(st, Readiness) /\ "Woken" \in Why
    BY <1>5, Zenon DEF WakeReadiness, Why
  <2>3. Tells(st, Unblock(st, Tell(S, "Woken")), now')
    BY <1>1, <2>2, ReadinessTells, Zenon
  <2> QED
    BY <1>2, <1>5, <2>1, <2>3, Zenon DEF WakeReadiness
<1>6. ASSUME NEW u \in Threads, WakeThread(t, u)
      PROVE  Passes
  <2>1. Wakes(st, WakeOne(st, u))
    BY <1>1, TellWakes, Zenon DEF WakeOne, Why
  <2>2. Tells(st, WakeOne(st, u), now')
    BY <1>1, <1>6, SignalTells, Zenon DEF WakeThread
  <2> QED
    BY <1>1, <1>6, <2>1, <2>2, GrantPasses, Zenon DEF WakeThread, Core, Wakes
<1>7. ASSUME NEW a \in Addrs, Took(t, a)
      PROVE  Passes
  <2>1. st' = [st EXCEPT !.owner[a] = t] /\ flight' = flight
    BY <1>7, Zenon DEF Took
  <2> QED
    BY <1>1, <2>1, OtherFields, AlikePasses, Zenon
<1>8. ASSUME NEW a \in Addrs, Released(t, a)
      PROVE  Passes
  <2> DEFINE s0 == [st EXCEPT !.owner[a] = None]
             s == WakeKey(s0, Addr(a), 1, "Woken")
             left == 1 - Cardinality(Oldest(s0, Waiters(s0, Addr(a)), 1))
  <2>1. GrantIfIdle(WakeOutside(s, Addr(a), left))
    BY <1>8, Zenon DEF Released, WakeMasked
  <2>2. Same(st, s0) /\ Alike(st, s0)
    BY <1>1, OwnerSame, OtherFields, Zenon
  <2> HIDE DEF s0
  <2>3. Books(s0) /\ Senior(s0)
    BY <1>1, <2>2, SameBooks, Zenon DEF Senior, Alike
  <2>4. Wakes(s0, s) /\ Tells(s0, s, now')
    BY <1>3, <2>3, WakeKeyWakes, WakeKeyTells, Zenon
  <2> HIDE DEF s, left
  <2>5. Wakes(st, s) /\ Tells(st, s, now') /\ Addr(a) \in Keys
    <3>1. Joins(s, s)
      BY AlikeJoins, Zenon DEF Alike
    <3> QED
      BY <2>2, <2>4, <3>1, TellsAround, Zenon DEF Wakes, Same, Keys, AddrKeys
  <2> QED
    BY <1>2, <2>1, <2>5, Zenon
<1> QED
  BY <1>4, <1>5, <1>6, <1>7, <1>8, Zenon DEF Waking

(* The way back of a thread let go. *)
LEMMA RejoiningPasses ==
  ASSUME IInv, NEW t \in Threads, Rejoining(t)
  PROVE  Passes
<1>1. Core /\ Books(st) /\ st \in State
  BY Zenon DEF IInv, Core, Books
<1>2. CASE NativeReturns(t) \/ DetActive(t) \/ DetBlock(t)
  BY <1>2, AlikePasses, Zenon DEF NativeReturns, DetActive, DetBlock, Alike
<1>3. ASSUME NEW key \in AddrKeys \cup {NoKey}, NativeWait(t, key)
      PROVE  Passes
  <2>1. (st' = [st EXCEPT !.outside[t] = key] \/ st' = st) /\ flight' = flight
    BY <1>3, Zenon DEF NativeWait
  <2>2. Alike(st, st')
    <3>1. Alike(st, [st EXCEPT !.outside[t] = key])
      BY <1>1, OtherFields, Zenon
    <3>2. Alike(st, st)
      BY Zenon DEF Alike
    <3> QED
      BY <2>1, <3>1, <3>2, Zenon
  <2> QED
    BY <2>1, <2>2, AlikePasses, Zenon
<1>4. CASE Rejoin(t)
  <2> DEFINE s == [st EXCEPT !.outside[t] = NoKey]
             s1 == [s EXCEPT !.letGo = @ \ {t}]
             r == SetRunnableIfNot(s1, t)
  <2>1. /\ pc[t] \in {"rejoin", "active"}
        /\ \/ (st' = st \/ st' = s \/ st' = s1) /\ flight' = flight
           \/ t \in st.letGo /\ GrantIfIdle(r)
    BY <1>4, Zenon DEF Rejoin
  <2>2. /\ s \in State /\ Alike(st, s) /\ s.threads = st.threads /\ s.letGo = st.letGo
        /\ s.runnable = st.runnable /\ s.blocked = st.blocked
    <3>1. [st.outside EXCEPT ![t] = NoKey] \in [Threads -> Keys \cup {NoKey}]
      BY <1>1, Zenon DEF State
    <3>2. Alike(st, s)
      BY <1>1, OtherFields, Zenon
    <3> QED
      BY <1>1, <3>1, <3>2, ZenonT(40) DEF State
  <2> HIDE DEF s
  <2>3. /\ s1 \in State /\ Alike(s, s1) /\ s1.threads = s.threads /\ s1.letGo = s.letGo \ {t}
        /\ s1.runnable = s.runnable /\ s1.blocked = s.blocked
    BY <2>2, ZenonT(40) DEF State, Alike
  <2> HIDE DEF s1
  <2>4. CASE (st' = st \/ st' = s \/ st' = s1) /\ flight' = flight
    <3>1. Alike(st, st) /\ Alike(st, s1)
      BY <2>2, <2>3, Zenon DEF Alike
    <3>2. Alike(st, st')
      BY <2>2, <2>4, <3>1, Zenon
    <3> QED
      BY <2>4, <3>2, AlikePasses, Zenon
  <2>5. CASE t \in st.letGo /\ GrantIfIdle(r)
    <3>1. Books(s1) /\ t \in s1.threads /\ t \notin s1.waiting
      <4>1. t \in st.threads /\ t \notin st.waiting
        BY <1>1, <2>5, Zenon DEF Books, Core, AllFit, Fits
      <4>2. /\ s1.ready = st.ready /\ s1.waiting = st.waiting /\ s1.threads = st.threads
            /\ s1.letGo \subseteq st.letGo /\ s1.runnable = st.runnable /\ s1.blocked = st.blocked
        BY <2>2, <2>3, Zenon DEF Alike
      <4> QED
        BY <1>1, <2>3, <4>1, <4>2, Zenon DEF Books
    <3>2. Books(r)
      BY <3>1, SetRunnableBooks, Zenon DEF SetRunnableIfNot, Why
    <3>3. Joins(s1, r)
      BY <2>3, QueueingJoins, AlikeJoins, Zenon DEF SetRunnableIfNot, Alike
    <3> HIDE DEF r
    <3>4. Alike(st, s1)
      BY <2>2, <2>3, Zenon DEF Alike
    <3>5. Tells(st, r, now')
      BY <3>3, <3>4, JoinsTells, AlikeJoins, TellsAround, Zenon DEF Alike
    <3> QED
      BY <1>1, <2>5, <3>2, <3>5, GrantPasses, Zenon DEF Core
  <2> QED
    BY <2>1, <2>4, <2>5, Zenon
<1> QED
  BY <1>2, <1>3, <1>4, Zenon DEF Rejoining

(* The parked thread. *)
LEMMA ParkedPasses ==
  ASSUME IInv, NEW t \in Threads, Parked(t)
  PROVE  Passes
<1>1. flight \in [Threads -> Why \cup {"none"}]
  BY Zenon DEF IInv, Core
<1>2. st' = st /\ (flight' = flight \/ flight' = [flight EXCEPT ![t] = "none"])
  BY Zenon DEF Parked, Deliver, Run, TakeDuty, DoDuty
<1>3. \A u \in Threads : flight'[u] = flight[u] \/ flight'[u] = "none"
  BY <1>1, <1>2, Zenon
<1> QED
  BY <1>2, <1>3, AlikePasses, Zenon DEF Alike

(* dispatch_inner, but for the step that gives up. *)
LEMMA DispatchPasses ==
  ASSUME IInv, Senior(st), NEW d \in Threads, Dispatching(d), ~GiveUp(d)
  PROVE  Passes
<1>1. Core /\ Rest /\ Books(st) /\ st \in State
  BY Zenon DEF IInv, Core, Books
<1>2. ASSUME NEW s, Wakes(st, s), Tells(st, s, now'), st' = s, flight' = flight
      PROVE  Passes
  BY <1>1, <1>2, GrantPasses, Zenon DEF Core, Wakes
<1>3. CASE TakeForeign(d)
  <2>1. st' = WakeForeign(st, queued) /\ flight' = flight
    BY <1>3, Zenon DEF TakeForeign
  <2>2. Wakes(st, WakeForeign(st, queued)) /\ Tells(st, WakeForeign(st, queued), now')
    BY <1>1, QueuedWakes, WakeForeignTells, Zenon DEF Same
  <2> QED
    BY <1>2, <2>1, <2>2, Zenon
<1>4. CASE DispatchGrants(d)
  <2>1. GrantNext(st) /\ Tells(st, st, now')
    BY <1>1, <1>4, ClockTells, Zenon DEF DispatchGrants
  <2> QED
    BY <1>1, <2>1, GrantPasses, Zenon DEF Core
<1>5. CASE Detach(d)
  <2>1. /\ flight' = flight
        /\ st' = [st EXCEPT !.foreign = {}, !.blocked = 0, !.waiting = {},
                            !.wait = [t \in Threads |-> NoWait],
                            !.older = [t \in Threads |-> {}],
                            !.letGo = @ \cup st.waiting]
    BY <1>5, Zenon DEF Detach
  <2>2. st'.waiting = {} /\ st'.ready = st.ready
    BY <1>1, <2>1, Zenon DEF State
  <2>3. Ends(st, st', now')
    BY <2>2, Zenon DEF Ends, InTurn
  <2>4. \A t \in Threads : ~Told(t, "TimedOut") /\ ~Told(t, "Deadlock")
    BY <2>1, <2>2, Zenon DEF Told
  <2> QED
    BY <2>3, <2>4, Zenon DEF Passes, TellsTrue
<1>6. CASE \/ NothingBlocked(d) \/ StaysOn(d) \/ IdleLeased(d) \/ NoLease(d) \/ AskHolders(d)
           \/ NoSkip(d) \/ LeasedSince(d) \/ NoTimeLeft(d) \/ IdleHeld(d) \/ ForeignTimeSkip(d)
           \/ PollOutside(d) \/ HeldOff(d)
  <2>1. st' = st /\ flight' = flight
    BY <1>6, Zenon DEF NothingBlocked, StaysOn, IdleLeased, NoLease, AskHolders, NoSkip, LeasedSince,
                       NoTimeLeft, IdleHeld, ForeignTimeSkip, PollOutside, HeldOff, GoOn, GoIdle, Unlock
  <2> QED
    BY <2>1, AlikePasses, Zenon DEF Alike
<1>7. CASE RepollTimerWakes(d)
  <2>1. st' = Release(st, {}, Repolled(st)) /\ flight' = flight
    BY <1>7, Zenon DEF RepollTimerWakes, Again
  <2> QED
    BY <1>1, <1>2, <2>1, ClockWakes, ClockTells, Zenon
<1>8. ASSUME NEW S \in SUBSET Threads, WakeRealReady(d, S)
      PROVE  Passes
  <2>1. st' = Release(st, {}, S) /\ flight' = flight /\ S \subseteq Waiters(st, Readiness)
    BY <1>8, Zenon DEF WakeRealReady, Again
  <2>2. /\ {} \in SUBSET DueBy(st, now') /\ S \in SUBSET st.waiting
        /\ \A u \in S : st.wait[u].key \in AddrKeys => ShouldRepoll(st, u)
    BY <2>1, ReadinessApart, Zenon DEF Waiters
  <2>3. Tells(st, Release(st, {}, S), now')
    BY <1>1, <2>2, ReleaseTells, Zenon
  <2>4. Wakes(st, Release(st, {}, S))
    BY <1>1, ReleaseWakes, Zenon
  <2> QED
    BY <1>2, <2>1, <2>3, <2>4, Zenon
<1>9. CASE TimeSkip(d)
  <2>1. st' = Moved(st, now', FALSE) /\ flight' = flight
    BY <1>9, Zenon DEF TimeSkip, Again
  <2> QED
    BY <1>1, <1>2, <2>1, ClockWakes, ClockTells, Zenon
<1>10. ASSUME NEW s, Wakes(st, s), Tells(st, s, now'), Relock(d, s)
       PROVE  Passes
  <2>1. (st' = st \/ st' = s) /\ flight' = flight
    BY <1>10, Zenon DEF Relock
  <2> QED
    BY <1>2, <1>10, <2>1, AlikePasses, Zenon DEF Alike
<1>11. CASE IdleOver(d)
  <2> DEFINE due == IF "executive" \in Events THEN {} ELSE DueBy(st, now)
             timed == IF "executive" \in Events \/ now = before[d] THEN {} ELSE Timed(st)
             more == timed \cup Repolled(st)
             s == IF st.runnable > 0 THEN st ELSE Release(st, due, more)
  <2>1. Relock(d, s) /\ now' = now
    BY <1>11, Zenon DEF IdleOver, Relock
  <2>2. /\ due \in SUBSET DueBy(st, now) /\ more \in SUBSET st.waiting
        /\ \A u \in more : st.wait[u].key \in AddrKeys => ShouldRepoll(st, u)
    BY ReadinessApart, Zenon DEF Timed, Repolled
  <2>3. due \in SUBSET Threads /\ more \in SUBSET Threads
    BY <1>1, <2>2, StateFields, Zenon DEF DueBy
  <2> HIDE DEF due, more
  <2>4. Tells(st, s, now) /\ Wakes(st, s)
    <3>1. Tells(st, st, now) /\ Wakes(st, st)
      BY <1>1, ClockTells, Zenon DEF Wakes, Books
    <3>2. Tells(st, Release(st, due, more), now) /\ Wakes(st, Release(st, due, more))
      BY <1>1, <2>2, <2>3, ReleaseTells, ReleaseWakes, Zenon
    <3> QED
      BY <3>1, <3>2, Zenon
  <2> HIDE DEF s
  <2> QED
    BY <1>10, <2>1, <2>4, Zenon
<1>12. CASE HoldersAsked(d)
  <2>1. Relock(d, st) /\ Tells(st, st, now') /\ Wakes(st, st)
    BY <1>1, <1>12, ClockTells, Zenon DEF HoldersAsked, Wakes, Books
  <2> QED
    BY <1>10, <2>1, Zenon
<1>13. CASE SkippedOver(d)
  <2>1. Relock(d, ReleaseDue(st, now)) /\ now' = now
    BY <1>13, Zenon DEF SkippedOver, Relock
  <2>2. Tells(st, ReleaseDue(st, now), now) /\ Wakes(st, ReleaseDue(st, now))
    BY <1>1, ClockTells, ClockWakes, Zenon
  <2> QED
    BY <1>10, <2>1, <2>2, Zenon
<1>14. CASE PollOver(d)
  <2>1. Relock(d, Release(st, {}, Repolled(st)))
    BY <1>14, Zenon DEF PollOver
  <2> QED
    BY <1>1, <1>10, <2>1, ClockTells, ClockWakes, Zenon
<1> QED
  BY <1>3, <1>4, <1>5, <1>6, <1>7, <1>8, <1>9, <1>11, <1>12, <1>13, <1>14, Zenon DEF Dispatching

(* What happens outside the schedule. *)
LEMMA OutsidePasses ==
  ASSUME IInv, Senior(st), Outside
  PROVE  Passes
<1>1. Core /\ Books(st) /\ st \in State
  BY Zenon DEF IInv, Core, Books
<1>2. CASE MoveClock \/ SwitchClock \/ TakeLease \/ ReturnLease \/ \E a \in Addrs : OutsideChange(a)
  <2>1. st' = st /\ flight' = flight
    BY <1>2, Zenon DEF MoveClock, SwitchClock, TakeLease, ReturnLease, OutsideChange, threadVars
  <2> QED
    BY <2>1, AlikePasses, Zenon DEF Alike
<1>3. CASE Kick
  <2>1. now' = now /\ (GrantIfIdle(Moved(st, now, timerWakes)) \/ GrantIfIdle(ReleaseDue(st, now)))
    BY <1>3, Zenon DEF Kick
  <2>2. /\ Wakes(st, Moved(st, now, timerWakes)) /\ Tells(st, Moved(st, now, timerWakes), now')
        /\ Wakes(st, ReleaseDue(st, now)) /\ Tells(st, ReleaseDue(st, now), now')
    BY <1>1, <2>1, ClockWakes, ClockTells, Zenon
  <2> QED
    BY <1>1, <2>1, <2>2, GrantPasses, Zenon DEF Core, Wakes
<1>4. ASSUME NEW t \in Threads, ChargeLatency(t)
      PROVE  Passes
  BY <1>4, SpinPasses, Zenon
<1>5. ASSUME NEW t \in Threads, Injected(t)
      PROVE  Passes
  BY <1>1, <1>5, QueuePasses, Zenon DEF Injected, Same, Alike
<1>6. CASE AcquireExternal
  <2>1. st' = [st EXCEPT !.holder = External] /\ flight' = flight
    BY <1>6, Zenon DEF AcquireExternal, threadVars
  <2>2. Alike(st, st')
    BY <1>1, <2>1, Zenon DEF Alike, State
  <2> QED
    BY <2>1, <2>2, AlikePasses, Zenon
<1>7. CASE ReleaseExternal
  <2>1. HandOn(st, latch) /\ Tells(st, st, now')
    BY <1>1, <1>7, ClockTells, Zenon DEF ReleaseExternal
  <2> QED
    BY <1>1, <2>1, HandOnPasses, Zenon
<1>8. ASSUME NEW a \in Addrs, ForeignWake(a)
      PROVE  Passes
  <2>1. (st' = st /\ flight' = flight) \/ GrantIfIdle(WakeForeign(st, {Addr(a)}))
    BY <1>8, Zenon DEF ForeignWake
  <2>2. {Addr(a)} \in SUBSET Keys
    BY Zenon DEF Keys, AddrKeys
  <2>3. Wakes(st, WakeForeign(st, {Addr(a)})) /\ Tells(st, WakeForeign(st, {Addr(a)}), now')
    BY <1>1, <2>2, WakeForeignWakes, WakeForeignTells, Zenon
  <2>4. Books(WakeForeign(st, {Addr(a)}))
    BY <2>3, Zenon DEF Wakes
  <2>5. CASE st' = st /\ flight' = flight
    BY <2>5, AlikePasses, Zenon DEF Alike
  <2> QED
    BY <1>1, <2>1, <2>3, <2>4, <2>5, GrantPasses, Zenon DEF Core
<1> QED
  BY <1>2, <1>3, <1>4, <1>5, <1>6, <1>7, <1>8, Zenon DEF Outside
=============================================================================
