------------------------------- MODULE Pending -------------------------------
(***************************************************************************)
(* crates/snare-interpose/src/pending.rs, with the way its users take the  *)
(* lock the queue is for (Scheduler::lock, try_lock, record_owner in       *)
(* sched.rs): a hook that must not wait for the lock applies its change    *)
(* under it when the lock is free and otherwise queues the change, for     *)
(* whoever takes the lock next to apply before reading anything.           *)
(*                                                                         *)
(* Every access to an atomic is an action of its own.  A change is         *)
(* <<t, n>>, the n-th one thread t makes; what applying it does to the     *)
(* state behind the lock is left to the users, here it is only logged.     *)
(***************************************************************************)
EXTENDS Integers, Sequences, FiniteSets

CONSTANTS
  Threads,      \* the threads whose hooks make changes
  Readers,      \* the threads that take the lock to read what is behind it
  CAPACITY,     \* slots of the ring (1024 in the code)
  Wrap,         \* tickets are usize: they count modulo Wrap (2^64 in the code)
  Starts,       \* tickets the queue may have reached, empty, when we look
  MaxChanges,   \* bound: changes each thread makes
  None

ASSUME PendingAssumption ==
  /\ CAPACITY \in Nat /\ CAPACITY > 1
  /\ Wrap \in Nat /\ Wrap % CAPACITY = 0
  /\ Starts \subseteq 0 .. Wrap - 1
  /\ IsFiniteSet(Threads)
  /\ Threads \cap Readers = {} /\ None \notin Threads \cup Readers
  /\ MaxChanges \in Nat
  /\ 2 * (Cardinality(Threads) * MaxChanges + CAPACITY) <= Wrap  \* no push is half a lap of usize stale

VARIABLES
  seq,      \* Slot::seq of each slot
  value,    \* Slot::value of each slot, None while uninitialised
  tail,     \* Pending::tail
  head,     \* Pending::head
  lock,     \* who holds the lock the queue is for
  pc,       \* where each thread is in its hook
  pos,      \* its local `pos`
  end,      \* the `end` of the drain it runs
  val,      \* the value the drain it runs has just read
  made,     \* how many changes it has begun
  applied,  \* history: the changes applied, oldest first
  done,     \* history: the changes whose hooks have returned
  prior,    \* history: what was done when the hook of each change began
  before    \* history: what was done when the thread's last read took the lock

vars == <<seq, value, tail, head, lock, pc, pos, end, val, made,
          applied, done, prior, before>>
ring == <<seq, value, tail, head>>
local == <<pos, end, val>>
history == <<applied, done, prior, before>>

Slots == 0 .. CAPACITY - 1
Tickets == 0 .. Wrap - 1
Agents == Threads \cup Readers
Changes == Threads \X (1 .. MaxChanges)
Plus(a, n) == (a + n) % Wrap
Slot(a) == a % CAPACITY

(* The sign of (a.wrapping_sub(b) as isize). *)
Signum(a, b) ==
  LET d == (a - b) % Wrap IN IF d = 0 THEN 0 ELSE IF 2 * d < Wrap THEN 1 ELSE -1

Change(t) == <<t, made[t]>>
Goto(t, where) == pc' = [pc EXCEPT ![t] = where]
Returned(t) == done' = done \cup {Change(t)}

Init ==
  /\ \E start \in Starts :
       /\ tail = start
       /\ head = start
       /\ seq = [s \in Slots |-> CHOOSE a \in {Plus(start, n) : n \in Slots} : Slot(a) = s]
  /\ value = [s \in Slots |-> None]
  /\ lock = None
  /\ pc = [t \in Agents |-> "idle"]
  /\ pos = [t \in Agents |-> 0]
  /\ end = [t \in Agents |-> 0]
  /\ val = [t \in Agents |-> None]
  /\ made = [t \in Threads |-> 0]
  /\ applied = <<>>
  /\ done = {}
  /\ prior = [c \in Changes |-> {}]
  /\ before = [t \in Readers |-> {}]

(* A hook begins to record a change (record_owner). *)
Begin(t) ==
  /\ pc[t] = "idle" /\ made[t] < MaxChanges
  /\ made' = [made EXCEPT ![t] = @ + 1]
  /\ prior' = [prior EXCEPT ![<<t, made[t] + 1>>] = done]
  /\ Goto(t, "try")
  /\ UNCHANGED <<ring, lock, local, applied, done, before>>

(* Mutant of TryLock: the change is applied ahead of the queued ones. *)
TryLockNoDrain(t) ==
  /\ pc[t] = "try"
  /\ IF lock = None
       THEN lock' = t /\ Goto(t, "next")
       ELSE lock' = lock /\ Goto(t, "load")
  /\ UNCHANGED <<ring, local, made, history>>

(* try_lock: Some(st) goes on to drain, None to push. *)
TryLock(t) ==
  /\ pc[t] = "try"
  /\ IF lock = None
       THEN lock' = t /\ Goto(t, "drain")
       ELSE lock' = lock /\ Goto(t, "load")
  /\ UNCHANGED <<ring, local, made, history>>

(* push: pos = self.tail.load(). *)
PushLoad(t) ==
  /\ pc[t] = "load"
  /\ pos' = [pos EXCEPT ![t] = tail]
  /\ Goto(t, "compare")
  /\ UNCHANGED <<ring, lock, end, val, made, history>>

(* Mutants of PushCompare: the slot's old change is not waited for; the     *)
(* change that finds the queue full is dropped; a ticket another push took  *)
(* is mistaken for a full queue.                                            *)
PushCompareOverrun(t) ==
  /\ pc[t] = "compare"
  /\ Goto(t, IF Signum(seq[Slot(pos[t])], pos[t]) = 1 THEN "load" ELSE "claim")
  /\ UNCHANGED <<ring, lock, local, made, history>>
PushCompareDrops(t) ==
  /\ pc[t] = "compare"
  /\ LET s == Signum(seq[Slot(pos[t])], pos[t])
     IN  /\ Goto(t, IF s = 0 THEN "claim" ELSE IF s = 1 THEN "load" ELSE "idle")
         /\ IF s = -1 THEN Returned(t) ELSE done' = done
  /\ UNCHANGED <<ring, lock, local, made, applied, prior, before>>
PushCompareEager(t) ==
  /\ pc[t] = "compare"
  /\ Goto(t, IF seq[Slot(pos[t])] = pos[t] THEN "claim" ELSE "lock")
  /\ UNCHANGED <<ring, lock, local, made, history>>

(* push: load the slot's seq and compare it with the ticket: equal, claim   *)
(* the ticket; ahead, another push took it, reload; behind, the queue is    *)
(* full and the hook waits for the lock.                                    *)
PushCompare(t) ==
  /\ pc[t] = "compare"
  /\ LET s == Signum(seq[Slot(pos[t])], pos[t])
     IN  Goto(t, IF s = 0 THEN "claim" ELSE IF s = 1 THEN "load" ELSE "lock")
  /\ UNCHANGED <<ring, lock, local, made, history>>

(* push: compare_exchange_weak of tail succeeds. *)
PushClaim(t) ==
  /\ pc[t] = "claim" /\ tail = pos[t]
  /\ tail' = Plus(pos[t], 1)
  /\ Goto(t, "write")
  /\ UNCHANGED <<seq, value, head, lock, local, made, history>>

(* push: compare_exchange_weak fails, because tail moved or spuriously. *)
PushClaimFails(t) ==
  /\ pc[t] = "claim"
  /\ pos' = [pos EXCEPT ![t] = tail]
  /\ Goto(t, "compare")
  /\ UNCHANGED <<ring, lock, end, val, made, history>>

(* push: write the value into the claimed slot. *)
PushWrite(t) ==
  /\ pc[t] = "write"
  /\ value' = [value EXCEPT ![Slot(pos[t])] = Change(t)]
  /\ Goto(t, "publish")
  /\ UNCHANGED <<seq, tail, head, lock, local, made, history>>

PushPublish(t) ==
  /\ pc[t] = "publish"
  /\ seq' = [seq EXCEPT ![Slot(pos[t])] = Plus(pos[t], 1)]
  /\ pos' = [pos EXCEPT ![t] = 0]
  /\ Goto(t, "idle")
  /\ Returned(t)
  /\ UNCHANGED <<value, tail, head, lock, end, val, made, applied, prior, before>>

(* A reader (held_inside and the scheduler's critical sections) asks for    *)
(* the lock.                                                                *)
Read(t) ==
  /\ pc[t] = "idle"
  /\ Goto(t, "lock")
  /\ UNCHANGED <<ring, lock, local, made, history>>

(* lock(): the hook of a change that found the queue full, or a reader,     *)
(* waits for the lock and takes it.                                         *)
Lock(t) ==
  /\ pc[t] = "lock" /\ lock = None
  /\ lock' = t
  /\ Goto(t, "drain")
  /\ before' = IF t \in Readers THEN [before EXCEPT ![t] = done] ELSE before
  /\ UNCHANGED <<ring, local, made, applied, done, prior>>

(* Mutant of DrainLoad: the lock's taker leaves the queue for later. *)
DrainLoadNothing(t) ==
  /\ pc[t] = "drain"
  /\ end' = [end EXCEPT ![t] = head]
  /\ pos' = [pos EXCEPT ![t] = head]
  /\ Goto(t, "next")
  /\ UNCHANGED <<ring, lock, val, made, history>>

(* drain: load tail into `end` and head into `pos`. *)
DrainLoad(t) ==
  /\ pc[t] = "drain"
  /\ end' = [end EXCEPT ![t] = tail]
  /\ pos' = [pos EXCEPT ![t] = head]
  /\ Goto(t, "next")
  /\ UNCHANGED <<ring, lock, val, made, history>>

(* drain: once the slot's seq is pos + 1 (spinning until it is), read its   *)
(* value.                                                                   *)
DrainTake(t) ==
  /\ pc[t] = "next" /\ pos[t] # end[t]
  /\ seq[Slot(pos[t])] = Plus(pos[t], 1)
  /\ val' = [val EXCEPT ![t] = value[Slot(pos[t])]]
  /\ Goto(t, "free")
  /\ UNCHANGED <<ring, lock, pos, end, made, history>>

(* drain: give the slot to the ticket one lap later. *)
DrainFree(t) ==
  /\ pc[t] = "free"
  /\ seq' = [seq EXCEPT ![Slot(pos[t])] = Plus(pos[t], CAPACITY)]
  /\ Goto(t, "advance")
  /\ UNCHANGED <<value, tail, head, lock, local, made, history>>

(* drain: move head and apply the value. *)
DrainApply(t) ==
  /\ pc[t] = "advance"
  /\ pos' = [pos EXCEPT ![t] = Plus(@, 1)]
  /\ head' = Plus(pos[t], 1)
  /\ applied' = Append(applied, val[t])
  /\ val' = [val EXCEPT ![t] = None]
  /\ Goto(t, "next")
  /\ UNCHANGED <<seq, value, tail, lock, end, made, done, prior, before>>

Unlock(t) ==
  /\ lock' = None
  /\ Goto(t, "idle")
  /\ pos' = [pos EXCEPT ![t] = 0]
  /\ end' = [end EXCEPT ![t] = 0]

(* The queue drained: apply the hook's own change, let the lock go, return. *)
ApplyOwn(t) ==
  /\ pc[t] = "next" /\ pos[t] = end[t] /\ t \in Threads
  /\ applied' = Append(applied, Change(t))
  /\ Unlock(t)
  /\ Returned(t)
  /\ UNCHANGED <<ring, val, made, prior, before>>

(* The queue drained: the reader reads, then lets the lock go. *)
ReadDone(t) ==
  /\ pc[t] = "next" /\ pos[t] = end[t] /\ t \in Readers
  /\ Unlock(t)
  /\ before' = [before EXCEPT ![t] = {}]
  /\ UNCHANGED <<ring, val, made, applied, done, prior>>

Push(t) ==
  \/ PushLoad(t) \/ PushCompare(t) \/ PushClaim(t) \/ PushClaimFails(t)
  \/ PushWrite(t) \/ PushPublish(t)
Drain(t) == DrainLoad(t) \/ DrainTake(t) \/ DrainFree(t) \/ DrainApply(t)

Next ==
  \/ \E t \in Threads : Begin(t) \/ TryLock(t) \/ Push(t) \/ ApplyOwn(t)
  \/ \E t \in Readers : Read(t) \/ ReadDone(t)
  \/ \E t \in Agents : Lock(t) \/ Drain(t)

Spec == Init /\ [][Next]_vars

-----------------------------------------------------------------------------
(* Properties. *)

IsApplied(c) == \E i \in DOMAIN applied : applied[i] = c

(* pending.rs, module doc: "Every taker applies the queue before it reads   *)
(* anything, so a reader sees each change whose hook returned before it     *)
(* took the lock".                                                          *)
ReaderSeesReturned ==
  \A t \in Readers :
    pc[t] = "next" /\ pos[t] = end[t] => \A c \in before[t] : IsApplied(c)

(* The changes are applied once each, and in real-time order: when the hook *)
(* of one had returned before the hook of another began, it is applied      *)
(* first.  A mutex's "taken" and "released" records, made in that order by  *)
(* different threads, therefore reach the owners table in that order.       *)
AppliedInOrder ==
  \A i, j \in DOMAIN applied :
    /\ applied[i] = applied[j] => i = j
    /\ \A c \in prior[applied[i]] : \E k \in 1 .. i - 1 : applied[k] = c

Writing(t) == pc[t] \in {"write", "publish"}
Taking(t) == pc[t] = "free"

(* pending.rs, SAFETY of Sync: "a slot's value is written only by the push  *)
(* that claimed its ticket and read only by the drain": no push writes a    *)
(* slot another push or the drain is using.                                 *)
SlotsExclusive ==
  \A t, u \in Agents :
    t # u /\ Writing(t) /\ (Writing(u) \/ Taking(u)) => Slot(pos[t]) # Slot(pos[u])

(* Nothing is lost on the way: a change whose hook returned is applied, or  *)
(* sits published in the ring between head and tail.                        *)
NothingLost ==
  \A c \in done :
    \/ IsApplied(c)
    \/ \E n \in 0 .. CAPACITY - 1 :
         LET a == Plus(head, n)
         IN  /\ n < (tail - head) % Wrap
             /\ value[Slot(a)] = c
    \/ \E t \in Agents : val[t] = c

(* push reports the queue full only when CAPACITY changes really are        *)
(* queued, however stale the tail it loaded: the fallback that waits for    *)
(* the lock, which the module exists to avoid, is never taken early.        *)
RefusedOnlyWhenFull ==
  [][\A t \in Threads :
       pc[t] = "compare" /\ pc'[t] = "lock" => (tail - head) % Wrap >= CAPACITY]_vars
==============================================================================
