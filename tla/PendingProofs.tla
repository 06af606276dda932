---------------------------- MODULE PendingProofs ----------------------------
(***************************************************************************)
(* Proofs about Pending, for any threads, readers, capacity and number of  *)
(* changes, and tickets of any width that is no less than twice what can   *)
(* be claimed while one push is under way: the arithmetic of tickets and   *)
(* slots, and the inductive invariant `IInv`, which looks at the ring from *)
(* its first ticket.  What pending.rs promises follows from it: slots are  *)
(* exclusive, nothing is lost, readers see what was done before, changes   *)
(* are applied once and in order, and a push is told the queue is full     *)
(* only when it is.                                                        *)
(***************************************************************************)
EXTENDS Pending, FiniteSetTheorems, TLAPS

-----------------------------------------------------------------------------
(* Tickets count modulo Wrap, and slots are tickets modulo CAPACITY. *)

(* Remainders of what is at most one modulus away. *)
LEMMA Modulo ==
  ASSUME NEW n \in Nat \ {0}, NEW x \in Int
  PROVE  /\ x % n \in 0 .. n - 1
         /\ x \in 0 .. n - 1 => x % n = x
         /\ n <= x /\ x < n + n => x % n = x - n
         /\ x \in -n .. -1 => x % n = x + n
  BY SMT

(* A number is a multiple and a remainder in one way. *)
LEMMA Division ==
  ASSUME NEW n \in Nat \ {0}, NEW x \in Int
  PROVE  \E q \in Int : x = n * q + (x % n)
<1>1. x = n * (x \div n) + (x % n) /\ x \div n \in Int
  BY SMT
<1> QED
  BY <1>1, Zenon
(* The remainder of a number given by its quotient. *)
LEMMA Remainder ==
  ASSUME NEW n \in Nat \ {0}, NEW q \in Int, NEW r \in 0 .. n - 1
  PROVE  (n * q + r) % n = r
  BY SMT

Most == Cardinality(Threads) * MaxChanges

(* The assumption on the constants, in the form the proofs use. *)
LEMMA Sizes ==
  /\ CAPACITY \in Nat /\ CAPACITY > 1 /\ Wrap \in Nat \ {0} /\ Most \in Nat
  /\ 2 * (Most + CAPACITY) <= Wrap /\ CAPACITY + 1 < Wrap
  /\ \E k \in Int : Wrap = CAPACITY * k
<1>1. Cardinality(Threads) \in Nat
  BY PendingAssumption, FS_CardinalityType
<1>2. CAPACITY \in Nat /\ CAPACITY > 1 /\ Wrap \in Nat /\ MaxChanges \in Nat /\ Wrap % CAPACITY = 0
  BY PendingAssumption
<1>3. Most \in Nat
  BY <1>1, <1>2, SMT DEF Most
<1>4. 2 * (Most + CAPACITY) <= Wrap
  BY PendingAssumption DEF Most
<1>5. PICK k \in Int : Wrap = CAPACITY * k + (Wrap % CAPACITY)
  <2>1. CAPACITY \in Nat \ {0} /\ Wrap \in Int
    BY <1>2, SMT
  <2> QED
    BY <2>1, Division, Zenon
<1>6. Wrap = CAPACITY * k
  BY <1>2, <1>5, SMT
<1>7. Wrap # 0 /\ CAPACITY + 1 < Wrap
  BY <1>2, <1>3, <1>4, SMT
<1> QED
  BY <1>2, <1>3, <1>4, <1>6, <1>7, Zenon

(* Plus wraps once at most. *)
LEMMA PlusIs ==
  ASSUME NEW a \in Tickets, NEW n \in 0 .. Wrap
  PROVE  /\ Plus(a, n) = IF a + n < Wrap THEN a + n ELSE (a + n) - Wrap
         /\ Plus(a, n) \in Tickets
<1>1. a \in Int /\ n \in Int /\ 0 <= a /\ a < Wrap /\ 0 <= n /\ n <= Wrap /\ Wrap \in Nat \ {0}
  BY Sizes, SMT DEF Tickets
<1>2. CASE a + n < Wrap
  <2>1. a + n \in 0 .. Wrap - 1 /\ a + n \in Int
    BY <1>1, <1>2, SMT
  <2>2. (a + n) % Wrap = a + n
    BY <1>1, <2>1, Modulo, Zenon
  <2> QED
    BY <1>2, <2>1, <2>2, Zenon DEF Plus, Tickets
<1>3. CASE ~(a + n < Wrap)
  <2>1. Wrap <= a + n /\ a + n < Wrap + Wrap /\ a + n \in Int /\ (a + n) - Wrap \in 0 .. Wrap - 1
    BY <1>1, <1>3, SMT
  <2>2. (a + n) % Wrap = (a + n) - Wrap
    BY <1>1, <2>1, Modulo, Zenon
  <2> QED
    BY <1>3, <2>1, <2>2, Zenon DEF Plus, Tickets
<1> QED
  BY <1>2, <1>3, Zenon

(* Tickets add up, and no two distances below Wrap lead to one ticket. *)
LEMMA PlusFacts ==
  ASSUME NEW a \in Tickets
  PROVE  /\ Plus(a, 0) = a
         /\ \A m, n \in Nat : m + n <= Wrap => Plus(Plus(a, m), n) = Plus(a, m + n)
         /\ \A m, n \in Tickets : Plus(a, m) = Plus(a, n) => m = n
         /\ \A b \in Tickets : (b - a) % Wrap \in Tickets /\ Plus(a, (b - a) % Wrap) = b
<1>0. a \in Int /\ 0 <= a /\ a < Wrap /\ Wrap \in Nat \ {0}
  BY Sizes, SMT DEF Tickets
<1>1. Plus(a, 0) = a
  BY <1>0, PlusIs, SMT
<1>2. ASSUME NEW m \in Nat, NEW n \in Nat, m + n <= Wrap
      PROVE  Plus(Plus(a, m), n) = Plus(a, m + n)
  <2>1. m \in 0 .. Wrap /\ n \in 0 .. Wrap /\ m + n \in 0 .. Wrap
    BY <1>0, <1>2, SMT
  <2>2. /\ Plus(a, m) = IF a + m < Wrap THEN a + m ELSE (a + m) - Wrap
        /\ Plus(a, m) \in Tickets
    BY <2>1, PlusIs
  <2>3. Plus(Plus(a, m), n) = IF Plus(a, m) + n < Wrap THEN Plus(a, m) + n ELSE (Plus(a, m) + n) - Wrap
    BY <2>1, <2>2, PlusIs
  <2>4. Plus(a, m + n) = IF a + (m + n) < Wrap THEN a + (m + n) ELSE (a + (m + n)) - Wrap
    BY <2>1, PlusIs
  <2> QED
    BY <1>0, <2>1, <2>2, <2>3, <2>4, SMT
<1>3. ASSUME NEW m \in Tickets, NEW n \in Tickets, Plus(a, m) = Plus(a, n)
      PROVE  m = n
  <2>1. m \in 0 .. Wrap - 1 /\ n \in 0 .. Wrap - 1 /\ m \in 0 .. Wrap /\ n \in 0 .. Wrap
    BY <1>0, SMT DEF Tickets
  <2>2. /\ Plus(a, m) = IF a + m < Wrap THEN a + m ELSE (a + m) - Wrap
        /\ Plus(a, n) = IF a + n < Wrap THEN a + n ELSE (a + n) - Wrap
    BY <2>1, PlusIs, Zenon
  <2>3. (IF a + m < Wrap THEN a + m ELSE (a + m) - Wrap) = (IF a + n < Wrap THEN a + n ELSE (a + n) - Wrap)
    BY <1>3, <2>2, Zenon
  <2> QED
    BY <1>0, <2>1, <2>3, SMT
<1>4. ASSUME NEW b \in Tickets
      PROVE  (b - a) % Wrap \in Tickets /\ Plus(a, (b - a) % Wrap) = b
  <2>1. b \in Int /\ 0 <= b /\ b < Wrap
    BY <1>0, SMT DEF Tickets
  <2>2. (b - a) % Wrap = IF a <= b THEN b - a ELSE b - a + Wrap
    <3>1. b - a \in Int /\ (a <= b => b - a \in 0 .. Wrap - 1) /\ (~(a <= b) => b - a \in -Wrap .. -1)
      BY <1>0, <2>1, SMT
    <3> QED
      BY <1>0, <3>1, Modulo, Zenon
  <2>3. (b - a) % Wrap \in 0 .. Wrap /\ (b - a) % Wrap \in Tickets
    BY <1>0, <2>1, <2>2, SMT DEF Tickets
  <2>4. Plus(a, (b - a) % Wrap) = IF a + ((b - a) % Wrap) < Wrap THEN a + ((b - a) % Wrap) ELSE (a + ((b - a) % Wrap)) - Wrap
    BY <2>3, PlusIs
  <2> QED
    BY <1>0, <2>1, <2>2, <2>3, <2>4, SMT
<1> QED
  BY <1>1, <1>2, <1>3, <1>4

(* CAPACITY tickets in a row have the CAPACITY slots, and the ticket one    *)
(* lap later has the first one's again.                                     *)
LEMMA SlotFacts ==
  ASSUME NEW a \in Tickets
  PROVE  /\ Slot(a) \in Slots
         /\ Slot(Plus(a, CAPACITY)) = Slot(a)
         /\ \A m, n \in Slots : Slot(Plus(a, m)) = Slot(Plus(a, n)) => m = n
         /\ \A s \in Slots : \E n \in Slots : Slot(Plus(a, n)) = s
<1> DEFINE r == a % CAPACITY
<1>0. /\ CAPACITY \in Nat \ {0} /\ a \in Int /\ 0 <= a /\ a < Wrap /\ Wrap \in Nat \ {0}
      /\ CAPACITY < Wrap /\ r \in 0 .. CAPACITY - 1 /\ Slot(a) = r
  BY Sizes, Modulo, SMT DEF Tickets, Slot
<1>1. PICK q \in Int : a = CAPACITY * q + r
  BY <1>0, Division, Zenon
<1>2. PICK k \in Int : Wrap = CAPACITY * k
  BY Sizes, Zenon
<1> HIDE DEF r
<1>3. ASSUME NEW n \in 0 .. CAPACITY
      PROVE  Slot(Plus(a, n)) = IF r + n < CAPACITY THEN r + n ELSE (r + n) - CAPACITY
  <2>1. n \in Int /\ 0 <= n /\ n <= CAPACITY /\ n \in 0 .. Wrap
    BY <1>0, SMT
  <2>2. Plus(a, n) = IF a + n < Wrap THEN a + n ELSE (a + n) - Wrap
    BY <2>1, PlusIs, Zenon
  <2> DEFINE x == IF r + n < CAPACITY THEN r + n ELSE (r + n) - CAPACITY
  <2>3. x \in 0 .. CAPACITY - 1
    BY <1>0, <2>1, SMT
  <2>4. \E p \in Int : Plus(a, n) = CAPACITY * p + x
    <3>1. a + n = CAPACITY * q + x \/ a + n = CAPACITY * (q + 1) + x
      BY <1>0, <1>1, <2>1, SMT
    <3>2. (a + n) - Wrap = CAPACITY * (q - k) + x \/ (a + n) - Wrap = CAPACITY * ((q + 1) - k) + x
      BY <1>0, <1>1, <1>2, <2>1, SMT
    <3>3. q + 1 \in Int /\ q - k \in Int /\ (q + 1) - k \in Int
      BY SMT
    <3> HIDE DEF x
    <3> QED
      BY <2>2, <3>1, <3>2, <3>3, Zenon
  <2>5. (Plus(a, n)) % CAPACITY = x
    <3> HIDE DEF x
    <3> QED
      BY <1>0, <2>3, <2>4, Remainder, Zenon
  <2> QED
    BY <2>5, Zenon DEF Slot
<1>4. Slot(Plus(a, CAPACITY)) = Slot(a)
  <2>1. CAPACITY \in 0 .. CAPACITY
    BY <1>0, SMT
  <2>2. Slot(Plus(a, CAPACITY)) = IF r + CAPACITY < CAPACITY THEN r + CAPACITY ELSE (r + CAPACITY) - CAPACITY
    BY <1>3, <2>1, Zenon
  <2> QED
    BY <1>0, <2>2, SMT
<1>5. ASSUME NEW m \in Slots, NEW n \in Slots, Slot(Plus(a, m)) = Slot(Plus(a, n))
      PROVE  m = n
  <2>1. m \in 0 .. CAPACITY /\ n \in 0 .. CAPACITY /\ m < CAPACITY /\ n < CAPACITY
    BY <1>0, SMT DEF Slots
  <2>2. (IF r + m < CAPACITY THEN r + m ELSE (r + m) - CAPACITY)
          = (IF r + n < CAPACITY THEN r + n ELSE (r + n) - CAPACITY)
    BY <1>3, <1>5, <2>1, Zenon
  <2> QED
    BY <1>0, <2>1, <2>2, SMT
<1>6. ASSUME NEW s \in Slots
      PROVE  \E n \in Slots : Slot(Plus(a, n)) = s
  <2> DEFINE n == IF r <= s THEN s - r ELSE (s - r) + CAPACITY
  <2>1. n \in Slots /\ n \in 0 .. CAPACITY /\ s = IF r + n < CAPACITY THEN r + n ELSE (r + n) - CAPACITY
    BY <1>0, SMT DEF Slots
  <2> HIDE DEF n
  <2> QED
    BY <1>3, <2>1, Zenon
<1> QED
  BY <1>0, <1>4, <1>5, <1>6, Zenon DEF Slots

(* One ticket further. *)
LEMMA PlusOne ==
  ASSUME NEW a \in Tickets, NEW n \in Nat, n + 1 <= Wrap
  PROVE  Plus(Plus(a, n), 1) = Plus(a, n + 1)
<1>1. \A m, k \in Nat : m + k <= Wrap => Plus(Plus(a, m), k) = Plus(a, m + k)
  BY PlusFacts, Zenon
<1>2. 1 \in Nat
  BY SMT
<1> HIDE DEF Plus
<1> QED
  BY <1>1, <1>2, SMT

(* How far one ticket is from another. *)
LEMMA Distance ==
  ASSUME NEW a \in Tickets, NEW n \in Tickets
  PROVE  (Plus(a, n) - a) % Wrap = n
<1>1. Plus(a, n) \in Tickets
  <2>1. n \in 0 .. Wrap
    BY Sizes, SMT DEF Tickets
  <2> QED
    BY <2>1, PlusIs, Zenon
<1>2. /\ (Plus(a, n) - a) % Wrap \in Tickets
      /\ Plus(a, (Plus(a, n) - a) % Wrap) = Plus(a, n)
  <2>1. \A b \in Tickets : (b - a) % Wrap \in Tickets /\ Plus(a, (b - a) % Wrap) = b
    BY PlusFacts, Zenon
  <2> QED
    BY <1>1, <2>1, Zenon
<1>3. \A m, k \in Tickets : Plus(a, m) = Plus(a, k) => m = k
  BY PlusFacts, Zenon
<1> QED
  BY <1>2, <1>3, Zenon

(* Tickets that are as far from one ticket are the same. *)
LEMMA PlusCancels ==
  ASSUME NEW a \in Tickets, NEW b \in Tickets, NEW n \in 0 .. Wrap, Plus(a, n) = Plus(b, n)
  PROVE  a = b
<1>1. /\ Plus(a, n) = IF a + n < Wrap THEN a + n ELSE (a + n) - Wrap
      /\ Plus(b, n) = IF b + n < Wrap THEN b + n ELSE (b + n) - Wrap
  BY PlusIs, Zenon
<1>2. PICK x : x = Plus(a, n)
  BY Zenon
<1>3. /\ x = IF a + n < Wrap THEN a + n ELSE (a + n) - Wrap
      /\ x = IF b + n < Wrap THEN b + n ELSE (b + n) - Wrap
  BY <1>1, <1>2, Zenon
<1>4. a \in Int /\ b \in Int /\ 0 <= a /\ 0 <= b /\ a < Wrap /\ b < Wrap /\ n \in Int /\ Wrap \in Int
  BY Sizes, SMT DEF Tickets
<1> QED
  BY <1>3, <1>4, SMT

(* The slots one by one. *)
LEMMA Back ==
  /\ 0 \in Slots
  /\ \A n \in Slots : n # 0 => \E m \in Slots : m + 1 = n
  /\ \A n \in Slots : n + 1 \notin Slots => n + 1 = CAPACITY
<1>1. \A n \in Slots : n # 0 => n - 1 \in Slots /\ (n - 1) + 1 = n
  BY Sizes, SMT DEF Slots
<1> QED
  BY <1>1, Sizes, SMT DEF Slots

-----------------------------------------------------------------------------
(* The invariant. *)

Holding == {"drain", "next", "free", "advance"}
Places == {"idle", "try", "load", "compare", "claim", "write", "publish", "lock"} \cup Holding

(* The first ticket whose slot has not been given to the next lap, which    *)
(* head lags behind between the two steps of a drain; how many tickets are  *)
(* claimed from there on; and the n-th of them, its slot's seq and value.   *)
Freed == lock \in Agents /\ pc[lock] = "advance"
First == IF Freed THEN Plus(head, 1) ELSE head
Queued == (tail - First) % Wrap
At(n) == Plus(First, n)
SeqAt(n) == seq[Slot(At(n))]
ValAt(n) == value[Slot(At(n))]
Published(n) == n < Queued /\ SeqAt(n) = At(n + 1)

(* The changes that will claim no ticket any more. *)
Past == done \cup {Change(t) : t \in {u \in Threads : Writing(u)}}

Typed ==
  /\ seq \in [Slots -> Tickets] /\ value \in [Slots -> Changes \cup {None}]
  /\ tail \in Tickets /\ head \in Tickets /\ lock \in Agents \cup {None}
  /\ pc \in [Agents -> Places] /\ pos \in [Agents -> Tickets] /\ end \in [Agents -> Tickets]
  /\ val \in [Agents -> Changes \cup {None}] /\ made \in [Threads -> 0 .. MaxChanges]
  /\ applied \in Seq(Changes) /\ done \in SUBSET Changes
  /\ prior \in [Changes -> SUBSET Changes] /\ before \in [Readers -> SUBSET Changes]

(* Where each thread is: who drains has the lock, readers do nothing else,  *)
(* and a change is done once its hook is over.                              *)
Placed ==
  /\ \A t \in Agents : lock = t <=> pc[t] \in Holding
  /\ \A t \in Readers : pc[t] \in Holding \cup {"idle", "lock"}
  /\ \A t \in Threads : pc[t] # "idle" => made[t] > 0
  /\ \A c \in Changes :
       c \in done <=> c[2] < made[c[1]] \/ (c[2] = made[c[1]] /\ pc[c[1]] = "idle")

(* The slots in the order of their tickets: claimed ones first, published   *)
(* or not yet, and then those free for the tickets to come.                 *)
Ring ==
  /\ Queued <= CAPACITY
  /\ \A n \in Slots : SeqAt(n) = At(n) \/ Published(n)

(* A push that writes has a ticket of its own, not yet published. *)
Claimed(t) ==
  Writing(t) => \E n \in Slots :
    /\ n < Queued /\ pos[t] = At(n) /\ SeqAt(n) = At(n)
    /\ pc[t] = "publish" => ValAt(n) = Change(t)
OwnTickets == \A t, u \in Threads : Writing(t) /\ Writing(u) /\ pos[t] = pos[u] => t = u

(* The ticket a push has loaded is behind tail by no more than was claimed  *)
(* since, and if it still is tail, a slot found free is free.               *)
Loaded(t) ==
  /\ pc[t] \in {"compare", "claim"} =>
       \E d \in 0 .. Cardinality(Past) : Plus(pos[t], d) = tail
  /\ pc[t] = "claim" /\ pos[t] = tail => Queued < CAPACITY

(* A drain is at head, and its end is not beyond tail. *)
Draining(t) ==
  /\ pc[t] \in {"next", "free", "advance"} =>
       pos[t] = head /\ \E n \in 0 .. Queued : end[t] = At(n)
  /\ pc[t] = "free" => pos[t] # end[t] /\ Published(0) /\ val[t] = ValAt(0)

(* A change is done and in the queue, or applied, not both, and once; the   *)
(* one a drain has taken out and not yet applied is neither.                *)
Kept ==
  /\ \A i \in DOMAIN applied : applied[i] \in done
  /\ \A n \in Slots : Published(n) => ValAt(n) \in done /\ ~IsApplied(ValAt(n))
  /\ \A m, n \in Slots : Published(m) /\ Published(n) /\ ValAt(m) = ValAt(n) => m = n
  /\ Freed => /\ val[lock] \in done /\ ~IsApplied(val[lock])
              /\ \A n \in Slots : Published(n) => ValAt(n) # val[lock]
  /\ \A c \in done :
       IsApplied(c) \/ (Freed /\ c = val[lock]) \/ \E n \in Slots : Published(n) /\ ValAt(n) = c

(* Nothing done before a change began is queued behind it. *)
Behind(t) ==
  \A m, n \in Slots :
    Writing(t) /\ pos[t] = At(n) /\ n <= m /\ Published(m) => ValAt(m) \notin prior[Change(t)]
Ordered ==
  /\ \A c \in Changes : prior[c] \subseteq done
  /\ \A t \in Readers : before[t] \subseteq done
  /\ \A m, n \in Slots : Published(m) /\ Published(n) /\ n <= m => ValAt(m) \notin prior[ValAt(n)]
  /\ Freed => \A c \in prior[val[lock]] : IsApplied(c)

(* What a thread with the lock is to see, the changes done before, is not   *)
(* queued behind the end of its drain.                                      *)
Awaited(t) == IF t \in Readers THEN before[t] ELSE prior[Change(t)]
Foreseen(t) ==
  \A m \in Slots, n \in 0 .. Queued :
    /\ pc[t] \in {"next", "free", "advance"} /\ end[t] = At(n)
    /\ n <= m /\ Published(m)
    => ValAt(m) \notin Awaited(t)

Pushes(t) == Claimed(t) /\ Loaded(t) /\ Behind(t)
Drains(t) == Draining(t) /\ Foreseen(t)
IInv ==
  /\ Typed /\ Placed /\ Ring /\ OwnTickets /\ Kept /\ Ordered /\ AppliedInOrder
  /\ \A t \in Threads : Pushes(t)
  /\ \A t \in Agents : Drains(t)

-----------------------------------------------------------------------------
(* The ring seen from its first ticket. *)

(* From First on, tickets are numbered, and so are the slots. *)
LEMMA View ==
  ASSUME Typed
  PROVE  /\ First \in Tickets /\ Queued \in Nat /\ Queued \in Tickets /\ tail = At(Queued)
         /\ At(0) = First
         /\ \A n \in Nat : n <= Wrap => At(n) \in Tickets /\ Slot(At(n)) \in Slots
         /\ \A m, n \in Tickets : At(m) = At(n) => m = n
         /\ \A m, n \in Slots : Slot(At(m)) = Slot(At(n)) => m = n
<1>1. First \in Tickets
  <2>1. 1 \in 0 .. Wrap
    BY Sizes, SMT
  <2> QED
    BY <2>1, PlusIs, Zenon DEF Typed, First
<1>2. Queued \in Tickets /\ tail = At(Queued)
  BY <1>1, PlusFacts, Zenon DEF Typed, Queued, At
<1>3. Queued \in Nat
  BY <1>2, SMT DEF Tickets
<1>4. ASSUME NEW n \in Nat, n <= Wrap
      PROVE  At(n) \in Tickets /\ Slot(At(n)) \in Slots
  <2>1. n \in 0 .. Wrap
    BY <1>4, Sizes, SMT
  <2> QED
    BY <1>1, <2>1, PlusIs, SlotFacts, Zenon DEF At
<1>5. \A m, n \in Tickets : At(m) = At(n) => m = n
  BY <1>1, PlusFacts, Zenon DEF At
<1>6. \A m, n \in Slots : Slot(At(m)) = Slot(At(n)) => m = n
  BY <1>1, SlotFacts, Zenon DEF At
<1>7. At(0) = First
  BY <1>1, PlusFacts, Zenon DEF At
<1> QED
  BY <1>1, <1>2, <1>3, <1>4, <1>5, <1>6, <1>7, Zenon

(* The numbers of the slots are small. *)
LEMMA SlotNumbers ==
  ASSUME NEW n \in Slots
  PROVE  /\ n \in Nat /\ n < CAPACITY /\ n \in Tickets /\ n <= Wrap
         /\ n + 1 \in Nat /\ n + 1 \in Tickets /\ n + 1 <= Wrap /\ n + 1 # n
  BY Sizes, SMT DEF Slots, Tickets

(* A ticket in the queue is not both free and published. *)
LEMMA Unpublished ==
  ASSUME Typed, NEW n \in Slots, SeqAt(n) = At(n)
  PROVE  ~Published(n)
  BY View, SlotNumbers, Zenon DEF Published

(* A step that touches neither the ring nor its first ticket. *)
SameRing == seq' = seq /\ value' = value /\ tail' = tail /\ First' = First

(* Such a step leaves all that is seen of the ring. *)
LEMMA SameView ==
  ASSUME SameRing
  PROVE  /\ Queued' = Queued
         /\ \A n : At(n)' = At(n) /\ SeqAt(n)' = SeqAt(n) /\ ValAt(n)' = ValAt(n)
         /\ \A n : Published(n)' <=> Published(n)
<1>1. Queued' = Queued
  BY Zenon DEF SameRing, Queued
<1>2. \A n : At(n)' = At(n)
  BY Zenon DEF SameRing, At
<1>3. \A n : SeqAt(n)' = SeqAt(n) /\ ValAt(n)' = ValAt(n)
  BY <1>2, Zenon DEF SameRing, SeqAt, ValAt
<1> QED
  BY <1>1, <1>2, <1>3, Zenon DEF Published

(* A change is its thread and its number. *)
LEMMA ChangeParts ==
  ASSUME NEW c \in Changes
  PROVE  c = <<c[1], c[2]>> /\ c[1] \in Threads /\ c[2] \in 1 .. MaxChanges
  BY DEF Changes

(* The change a thread is making is not done yet. *)
LEMMA ChangeIs ==
  ASSUME Typed, Placed, NEW t \in Threads, pc[t] # "idle"
  PROVE  /\ Change(t) \in Changes /\ Change(t) \notin done
         /\ Change(t)[1] = t /\ Change(t)[2] = made[t]
<1>1. made[t] \in 1 .. MaxChanges
  <2>1. made[t] \in 0 .. MaxChanges /\ made[t] > 0
    BY Zenon DEF Typed, Placed
  <2> QED
    BY <2>1, PendingAssumption, SMT
<1>2. Change(t) \in Changes /\ Change(t)[1] = t /\ Change(t)[2] = made[t]
  BY <1>1 DEF Changes, Change
<1>3. ~(made[t] < made[t])
  BY <1>1, SMT
<1> QED
  BY <1>2, <1>3, Zenon DEF Placed

(* There are Most changes. *)
LEMMA ChangesFinite == IsFiniteSet(Changes) /\ Cardinality(Changes) = Most
<1>1. IsFiniteSet(1 .. MaxChanges) /\ Cardinality(1 .. MaxChanges) = MaxChanges
  <2>1. 1 \in Int /\ MaxChanges \in Int
    BY PendingAssumption, SMT
  <2>2. IsFiniteSet(1 .. MaxChanges) /\ Cardinality(1 .. MaxChanges) = IF 1 > MaxChanges THEN 0 ELSE (MaxChanges - 1) + 1
    BY <2>1, FS_Interval, Zenon
  <2> QED
    BY <2>2, PendingAssumption, SMT
<1> QED
  BY <1>1, FS_Product, PendingAssumption, Zenon DEF Changes, Most

(* No more tickets are claimed than there are changes. *)
LEMMA PastBound ==
  ASSUME Typed, Placed
  PROVE  Past \subseteq Changes /\ IsFiniteSet(Past) /\ Cardinality(Past) \in 0 .. Most
<1>1. Past \subseteq Changes
  <2>1. ASSUME NEW t \in Threads, Writing(t)
        PROVE  Change(t) \in Changes
    BY <2>1, ChangeIs, Zenon DEF Writing
  <2>2. {Change(t) : t \in {u \in Threads : Writing(u)}} \subseteq Changes
    BY <2>1, Zenon
  <2>3. done \subseteq Changes
    BY Zenon DEF Typed
  <2> QED
    BY <2>2, <2>3, Zenon DEF Past
<1>2. IsFiniteSet(Past) /\ Cardinality(Past) <= Cardinality(Changes)
  BY <1>1, ChangesFinite, FS_Subset, Zenon
<1>3. Cardinality(Past) \in Nat
  BY <1>2, FS_CardinalityType, Zenon
<1> QED
  BY <1>1, <1>2, <1>3, ChangesFinite, Sizes, SMT

-----------------------------------------------------------------------------
(* Every step keeps the types, and the places. *)

(* One thread's steps: its place and what it does there. *)
Steps(t) ==
  \/ t \in Threads /\ (Begin(t) \/ TryLock(t) \/ Push(t) \/ ApplyOwn(t))
  \/ t \in Readers /\ (Read(t) \/ ReadDone(t))
  \/ Lock(t) \/ Drain(t)

(* Every step is some thread's. *)
LEMMA NextIs ==
  ASSUME Next
  PROVE  \E t \in Agents : Steps(t)
  BY Zenon DEF Next, Steps, Agents

(* A thread makes changes or reads, never both. *)
LEMMA AgentSets ==
  /\ Agents = Threads \cup Readers /\ Threads \cap Readers = {} /\ None \notin Agents
  BY PendingAssumption, Zenon DEF Agents

(* Where Goto leads. *)
LEMMA MovesTo ==
  ASSUME Typed, NEW t \in Agents, NEW x \in Places, Goto(t, x)
  PROVE  /\ pc' \in [Agents -> Places] /\ pc'[t] = x
         /\ \A u \in Agents \ {t} : pc'[u] = pc[u]
  BY Zenon DEF Typed, Goto

(* A thread's own entry of a table. *)
LEMMA Entry ==
  ASSUME NEW A, NEW B, NEW f \in [A -> B], NEW a \in A, NEW b \in B
  PROVE  /\ [f EXCEPT ![a] = b] \in [A -> B] /\ [f EXCEPT ![a] = b][a] = b
         /\ \A x \in A \ {a} : [f EXCEPT ![a] = b][x] = f[x]
  BY Zenon

(* All but the step's own thread are where they were, and so are their      *)
(* variables.                                                               *)
Sole(t) ==
  /\ \A u \in Agents \ {t} : /\ pc'[u] = pc[u] /\ pos'[u] = pos[u]
                             /\ end'[u] = end[u] /\ val'[u] = val[u]
  /\ \A u \in Threads \ {t} : made'[u] = made[u]

(* A thread's step keeps the types and changes no other thread's locals. *)
LEMMA TypeStep ==
  ASSUME IInv, NEW t \in Agents, Steps(t)
  PROVE  Typed' /\ Sole(t)
<1>0. /\ Typed /\ Placed /\ Draining(t) /\ Agents = Threads \cup Readers
      /\ seq \in [Slots -> Tickets] /\ value \in [Slots -> Changes \cup {None}]
      /\ tail \in Tickets /\ head \in Tickets /\ lock \in Agents \cup {None}
      /\ pc \in [Agents -> Places] /\ pos \in [Agents -> Tickets] /\ end \in [Agents -> Tickets]
      /\ val \in [Agents -> Changes \cup {None}] /\ made \in [Threads -> 0 .. MaxChanges]
      /\ applied \in Seq(Changes) /\ done \in SUBSET Changes
      /\ prior \in [Changes -> SUBSET Changes] /\ before \in [Readers -> SUBSET Changes]
  BY AgentSets, Zenon DEF IInv, Drains, Typed
<1>1. /\ pos[t] \in Tickets /\ Slot(pos[t]) \in Slots /\ 0 \in Tickets
      /\ Plus(pos[t], 1) \in Tickets /\ Plus(pos[t], CAPACITY) \in Tickets
  <2>1. pos[t] \in Tickets /\ 0 \in Tickets /\ 1 \in 0 .. Wrap /\ CAPACITY \in 0 .. Wrap
    BY <1>0, Sizes, SMT DEF Tickets
  <2> QED
    BY <2>1, PlusIs, SlotFacts, Zenon
<1> USE DEF Sole
<1>2. CASE t \in Threads /\ Begin(t)
  <2>1. Goto(t, "try") /\ "try" \in Places
    BY <1>2, Zenon DEF Begin, Places
  <2>2. made[t] + 1 \in 0 .. MaxChanges /\ made[t] + 1 \in 1 .. MaxChanges
    BY <1>0, <1>2, PendingAssumption, SMT DEF Begin
  <2>3. <<t, made[t] + 1>> \in Changes
    BY <1>2, <2>2 DEF Changes
  <2>4. made' \in [Threads -> 0 .. MaxChanges] /\ \A u \in Threads \ {t} : made'[u] = made[u]
    <3>1. made' = [made EXCEPT ![t] = made[t] + 1]
      BY <1>0, <1>2, Zenon DEF Begin
    <3> QED
      BY <1>0, <1>2, <2>2, <3>1, Entry, ZenonT(40)
  <2>5. prior' \in [Changes -> SUBSET Changes]
    BY <1>0, <1>2, <2>3, Entry, Zenon DEF Begin
  <2> QED
    BY <1>0, <1>2, <2>1, <2>4, <2>5, MovesTo, Zenon DEF Begin, Typed, ring, local
<1>3. CASE t \in Threads /\ TryLock(t)
  <2>1. (Goto(t, "drain") \/ Goto(t, "load")) /\ "drain" \in Places /\ "load" \in Places
    BY <1>3, Zenon DEF TryLock, Places, Holding
  <2>2. lock' \in Agents \cup {None}
    BY <1>0, <1>3, Zenon DEF TryLock
  <2> QED
    BY <1>0, <1>3, <2>1, <2>2, MovesTo, Zenon DEF TryLock, Typed, ring, local, history
<1>4. CASE PushLoad(t) \/ PushClaimFails(t)
  <2>1. Goto(t, "compare") /\ "compare" \in Places /\ pos' = [pos EXCEPT ![t] = tail]
    BY <1>4, Zenon DEF PushLoad, PushClaimFails, Places
  <2>2. pos' \in [Agents -> Tickets] /\ \A u \in Agents \ {t} : pos'[u] = pos[u]
    BY <1>0, <2>1, Entry, Zenon
  <2> QED
    BY <1>0, <1>4, <2>1, <2>2, MovesTo, ZenonT(40) DEF PushLoad, PushClaimFails, Typed, ring, history
<1>5. CASE PushCompare(t)
  <2>1. /\ Goto(t, "claim") \/ Goto(t, "load") \/ Goto(t, "lock")
        /\ "claim" \in Places /\ "load" \in Places /\ "lock" \in Places
    BY <1>5, Zenon DEF PushCompare, Places
  <2> QED
    BY <1>0, <1>5, <2>1, MovesTo, Zenon DEF PushCompare, Typed, ring, local, history
<1>6. CASE PushClaim(t)
  <2>1. Goto(t, "write") /\ "write" \in Places /\ tail' \in Tickets
    BY <1>1, <1>6, Zenon DEF PushClaim, Places
  <2> QED
    BY <1>0, <1>6, <2>1, MovesTo, Zenon DEF PushClaim, Typed, local, history
<1>7. CASE t \in Threads /\ PushWrite(t)
  <2>1. Goto(t, "publish") /\ "publish" \in Places
    BY <1>7, Zenon DEF PushWrite, Places
  <2>2. Change(t) \in Changes
    BY <1>0, <1>7, ChangeIs, Zenon DEF PushWrite
  <2>3. value' \in [Slots -> Changes \cup {None}]
    BY <1>0, <1>1, <1>7, <2>2, Entry, Zenon DEF PushWrite
  <2> QED
    BY <1>0, <1>7, <2>1, <2>3, MovesTo, Zenon DEF PushWrite, Typed, local, history
<1>8. CASE t \in Threads /\ PushPublish(t)
  <2>1. Goto(t, "idle") /\ "idle" \in Places
    BY <1>8, Zenon DEF PushPublish, Places
  <2>2. seq' \in [Slots -> Tickets]
    BY <1>0, <1>1, <1>8, Entry, Zenon DEF PushPublish
  <2>3. pos' \in [Agents -> Tickets] /\ \A u \in Agents \ {t} : pos'[u] = pos[u]
    BY <1>0, <1>1, <1>8, Entry, Zenon DEF PushPublish
  <2>4. done' \in SUBSET Changes
    BY <1>0, <1>8, ChangeIs, Zenon DEF PushPublish, Returned
  <2> QED
    BY <1>0, <1>8, <2>1, <2>2, <2>3, <2>4, MovesTo, Zenon DEF PushPublish, Typed
<1>9. CASE t \in Readers /\ Read(t)
  <2>1. Goto(t, "lock") /\ "lock" \in Places
    BY <1>9, Zenon DEF Read, Places
  <2> QED
    BY <1>0, <1>9, <2>1, MovesTo, Zenon DEF Read, Typed, ring, local, history
<1>10. CASE Lock(t)
  <2>1. Goto(t, "drain") /\ "drain" \in Places /\ lock' = t
    BY <1>10, Zenon DEF Lock, Places, Holding
  <2>2. before' \in [Readers -> SUBSET Changes]
    BY <1>0, <1>10, Entry, Zenon DEF Lock
  <2> QED
    BY <1>0, <1>10, <2>1, <2>2, MovesTo, Zenon DEF Lock, Typed, ring, local
<1>11. CASE DrainLoad(t)
  <2>1. Goto(t, "next") /\ "next" \in Places
    BY <1>11, Zenon DEF DrainLoad, Places, Holding
  <2>2. pos' \in [Agents -> Tickets] /\ \A u \in Agents \ {t} : pos'[u] = pos[u]
    BY <1>0, <1>11, Entry, Zenon DEF DrainLoad
  <2>3. end' \in [Agents -> Tickets] /\ \A u \in Agents \ {t} : end'[u] = end[u]
    BY <1>0, <1>11, Entry, Zenon DEF DrainLoad
  <2>4. pc' \in [Agents -> Places] /\ \A u \in Agents \ {t} : pc'[u] = pc[u]
    BY <1>0, <2>1, MovesTo, Zenon
  <2> QED
    BY <1>0, <1>11, <2>2, <2>3, <2>4, Zenon DEF DrainLoad, Typed, ring, history
<1>12. CASE DrainTake(t)
  <2>1. Goto(t, "free") /\ "free" \in Places
    BY <1>12, Zenon DEF DrainTake, Places, Holding
  <2>2. val' \in [Agents -> Changes \cup {None}] /\ \A u \in Agents \ {t} : val'[u] = val[u]
    <3>1. value[Slot(pos[t])] \in Changes \cup {None}
      BY <1>0, <1>1, Zenon
    <3> QED
      BY <1>0, <1>12, <3>1, Entry, Zenon DEF DrainTake
  <2>3. pc' \in [Agents -> Places] /\ \A u \in Agents \ {t} : pc'[u] = pc[u]
    BY <1>0, <2>1, MovesTo, Zenon
  <2> QED
    BY <1>0, <1>12, <2>2, <2>3, Zenon DEF DrainTake, Typed, ring, history
<1>13. CASE DrainFree(t)
  <2>1. Goto(t, "advance") /\ "advance" \in Places
    BY <1>13, Zenon DEF DrainFree, Places, Holding
  <2>2. seq' \in [Slots -> Tickets]
    BY <1>0, <1>1, <1>13, Entry, Zenon DEF DrainFree
  <2> QED
    BY <1>0, <1>13, <2>1, <2>2, MovesTo, Zenon DEF DrainFree, Typed, local, history
<1>14. CASE DrainApply(t)
  <2>1. Goto(t, "next") /\ "next" \in Places
    BY <1>14, Zenon DEF DrainApply, Places, Holding
  <2>2. pos' \in [Agents -> Tickets] /\ \A u \in Agents \ {t} : pos'[u] = pos[u]
    <3>1. pos' = [pos EXCEPT ![t] = Plus(pos[t], 1)]
      BY <1>0, <1>14, Zenon DEF DrainApply
    <3> QED
      BY <1>0, <1>1, <3>1, Entry, Zenon
  <2>3. val' \in [Agents -> Changes \cup {None}] /\ \A u \in Agents \ {t} : val'[u] = val[u]
    BY <1>0, <1>14, Entry, Zenon DEF DrainApply
  <2>4. applied' \in Seq(Changes)
    <3>1. lock = t /\ Freed
      BY <1>0, <1>14, Zenon DEF DrainApply, Placed, Holding, Freed
    <3>2. val[t] \in Changes
      BY <1>0, <3>1, Zenon DEF IInv, Kept
    <3> QED
      BY <1>0, <1>14, <3>2 DEF DrainApply
  <2>5. pc' \in [Agents -> Places] /\ \A u \in Agents \ {t} : pc'[u] = pc[u]
    BY <1>0, <2>1, MovesTo, Zenon
  <2> QED
    BY <1>0, <1>1, <1>14, <2>2, <2>3, <2>4, <2>5, Zenon DEF DrainApply, Typed
<1>15. CASE t \in Threads /\ ApplyOwn(t)
  <2>1. Goto(t, "idle") /\ "idle" \in Places /\ lock' = None
    BY <1>15, Zenon DEF ApplyOwn, Unlock, Places
  <2>2. pos' \in [Agents -> Tickets] /\ \A u \in Agents \ {t} : pos'[u] = pos[u]
    BY <1>0, <1>1, <1>15, Entry, Zenon DEF ApplyOwn, Unlock
  <2>3. end' \in [Agents -> Tickets] /\ \A u \in Agents \ {t} : end'[u] = end[u]
    BY <1>0, <1>1, <1>15, Entry, Zenon DEF ApplyOwn, Unlock
  <2>4. Change(t) \in Changes
    BY <1>0, <1>15, ChangeIs, Zenon DEF ApplyOwn
  <2>5. applied' \in Seq(Changes) /\ done' \in SUBSET Changes
    BY <1>0, <1>15, <2>4 DEF ApplyOwn, Returned
  <2> QED
    BY <1>0, <1>15, <2>1, <2>2, <2>3, <2>5, MovesTo, Zenon DEF ApplyOwn, Typed, ring
<1>16. CASE t \in Readers /\ ReadDone(t)
  <2>1. Goto(t, "idle") /\ "idle" \in Places /\ lock' = None
    BY <1>16, Zenon DEF ReadDone, Unlock, Places
  <2>2. pos' \in [Agents -> Tickets] /\ \A u \in Agents \ {t} : pos'[u] = pos[u]
    BY <1>0, <1>1, <1>16, Entry, Zenon DEF ReadDone, Unlock
  <2>3. end' \in [Agents -> Tickets] /\ \A u \in Agents \ {t} : end'[u] = end[u]
    BY <1>0, <1>1, <1>16, Entry, Zenon DEF ReadDone, Unlock
  <2>4. before' \in [Readers -> SUBSET Changes]
    BY <1>0, <1>16, Entry, Zenon DEF ReadDone
  <2> QED
    BY <1>0, <1>16, <2>1, <2>2, <2>3, <2>4, MovesTo, Zenon DEF ReadDone, Typed, ring
<1> QED
  BY <1>2, <1>3, <1>4, <1>5, <1>6, <1>7, <1>8, <1>9, <1>10, <1>11, <1>12, <1>13, <1>14,
     <1>15, <1>16, Zenon DEF Steps, Push, Drain

(* What a step does to the lock and to the changes. *)
Same == made' = made /\ done' = done
Ends(t) == made' = made /\ done' = done \cup {Change(t)}
Moves(t) ==
  \/ /\ t \in Threads /\ pc[t] = "idle" /\ pc'[t] = "try" /\ lock' = lock
     /\ made'[t] = made[t] + 1 /\ done' = done
  \/ /\ pc[t] \in {"try", "lock"} /\ pc'[t] = "drain" /\ lock = None /\ lock' = t /\ Same
  \/ /\ t \in Threads /\ pc[t] \notin Holding \cup {"idle"} /\ pc'[t] \notin Holding \cup {"idle"}
     /\ lock' = lock /\ Same
  \/ t \in Threads /\ pc[t] = "publish" /\ pc'[t] = "idle" /\ lock' = lock /\ Ends(t)
  \/ t \in Readers /\ pc[t] = "idle" /\ pc'[t] = "lock" /\ lock' = lock /\ Same
  \/ pc[t] \in Holding /\ pc'[t] \in Holding /\ lock' = lock /\ Same
  \/ t \in Threads /\ pc[t] = "next" /\ pc'[t] = "idle" /\ lock' = None /\ Ends(t)
  \/ t \in Readers /\ pc[t] = "next" /\ pc'[t] = "idle" /\ lock' = None /\ Same

(* Every step is one of these moves. *)
LEMMA MovesStep ==
  ASSUME IInv, NEW t \in Agents, Steps(t)
  PROVE  Moves(t)
<1>0. Typed /\ t \in DOMAIN pc /\ Agents = Threads \cup Readers
  BY AgentSets, Zenon DEF IInv, Typed
<1> USE DEF Goto, Same, Ends, Returned, Holding
<1>1. CASE t \in Threads /\ Begin(t)
  <2>1. made'[t] = made[t] + 1
    BY <1>0, <1>1, Zenon DEF Begin, Typed
  <2> QED
    BY <1>0, <1>1, <2>1, Zenon DEF Begin, Moves
<1>2. CASE t \in Threads /\ TryLock(t)
  BY <1>0, <1>2, Zenon DEF TryLock, Moves, history
<1>3. CASE t \in Threads /\ (PushLoad(t) \/ PushClaimFails(t))
  BY <1>0, <1>3, Zenon DEF PushLoad, PushClaimFails, Moves, history
<1>4. CASE t \in Threads /\ PushCompare(t)
  <2>1. pc[t] = "compare" /\ pc'[t] \in {"claim", "load", "lock"} /\ lock' = lock /\ Same
    BY <1>0, <1>4, Zenon DEF PushCompare, history
  <2> QED
    BY <1>4, <2>1, Zenon DEF Moves
<1>5. CASE t \in Threads /\ (PushClaim(t) \/ PushWrite(t))
  BY <1>0, <1>5, Zenon DEF PushClaim, PushWrite, Moves, history
<1>6. CASE t \in Threads /\ PushPublish(t)
  BY <1>0, <1>6, Zenon DEF PushPublish, Moves
<1>7. CASE t \in Readers /\ Read(t)
  BY <1>0, <1>7, Zenon DEF Read, Moves, history
<1>8. CASE Lock(t)
  BY <1>0, <1>8, Zenon DEF Lock, Moves
<1>9. CASE DrainLoad(t) \/ DrainTake(t) \/ DrainFree(t) \/ DrainApply(t)
  <2>1. pc[t] \in Holding /\ pc'[t] \in Holding /\ lock' = lock /\ Same
    BY <1>0, <1>9, Zenon DEF DrainLoad, DrainTake, DrainFree, DrainApply, history
  <2> QED
    BY <2>1, Zenon DEF Moves
<1>10. CASE t \in Threads /\ ApplyOwn(t)
  BY <1>0, <1>10, Zenon DEF ApplyOwn, Unlock, Moves
<1>11. CASE t \in Readers /\ ReadDone(t)
  BY <1>0, <1>11, Zenon DEF ReadDone, Unlock, Moves
<1> QED
  BY <1>1, <1>2, <1>3, <1>4, <1>5, <1>6, <1>7, <1>8, <1>9, <1>10, <1>11, Zenon
     DEF Steps, Push, Drain

(* Who drains has the lock, and a change is done when its hook is over. *)
LEMMA PlaceStep ==
  ASSUME IInv, NEW t \in Agents, Steps(t)
  PROVE  Placed'
<1>0. /\ Typed /\ Placed /\ Typed' /\ Sole(t) /\ Moves(t) /\ lock \in Agents \cup {None}
      /\ None \notin Agents /\ Agents = Threads \cup Readers /\ Threads \cap Readers = {}
  BY AgentSets, TypeStep, MovesStep, Zenon DEF IInv, Typed
<1>1. \A u \in Agents : lock' = u <=> pc'[u] \in Holding
  <2>1. \A u \in Agents : lock = u <=> pc[u] \in Holding
    BY <1>0, Zenon DEF Placed
  <2>2. \A u \in Agents \ {t} : pc'[u] = pc[u]
    BY <1>0, Zenon DEF Sole
  <2>3. \/ lock' = lock /\ (pc[t] \in Holding <=> pc'[t] \in Holding)
        \/ lock = None /\ lock' = t /\ pc'[t] \in Holding
        \/ pc[t] \in Holding /\ lock' = None /\ pc'[t] \notin Holding
    BY <1>0, Zenon DEF Moves, Holding
  <2> QED
    BY <1>0, <2>1, <2>2, <2>3, Zenon
<1>2. \A u \in Readers : pc'[u] \in Holding \cup {"idle", "lock"}
  <2>1. t \in Readers => pc'[t] \in Holding \cup {"idle", "lock"}
    BY <1>0, Zenon DEF Moves, Holding
  <2> QED
    BY <1>0, <2>1, Zenon DEF Sole, Placed
<1>3. \A u \in Threads : pc'[u] # "idle" => made'[u] > 0
  <2>1. ASSUME t \in Threads, pc'[t] # "idle" PROVE made'[t] > 0
    <3>1. made'[t] = made[t] + 1 \/ (pc[t] # "idle" /\ made'[t] = made[t])
      BY <1>0, <2>1, Zenon DEF Moves, Same, Holding
    <3>2. made[t] \in 0 .. MaxChanges /\ (pc[t] # "idle" => made[t] > 0)
      BY <1>0, <2>1, Zenon DEF Placed, Typed
    <3> QED
      BY <3>1, <3>2, PendingAssumption, SMT
  <2> QED
    BY <1>0, <2>1, Zenon DEF Sole, Placed
<1>4. ASSUME NEW c \in Changes
      PROVE  c \in done' <=> c[2] < made'[c[1]] \/ (c[2] = made'[c[1]] /\ pc'[c[1]] = "idle")
  <2>0. /\ c = <<c[1], c[2]>> /\ c[1] \in Threads /\ c[2] \in 1 .. MaxChanges
        /\ c \in done <=> c[2] < made[c[1]] \/ (c[2] = made[c[1]] /\ pc[c[1]] = "idle")
    BY <1>0, ChangeParts, Zenon DEF Placed
  <2>1. CASE c[1] # t
    <3>1. made'[c[1]] = made[c[1]] /\ pc'[c[1]] = pc[c[1]]
      BY <1>0, <2>0, <2>1, Zenon DEF Sole
    <3>2. c \in done' <=> c \in done
      <4>1. t \in Threads => c # Change(t)
        BY <2>0, <2>1 DEF Change
      <4> QED
        BY <1>0, <4>1, Zenon DEF Moves, Same, Ends
    <3> QED
      BY <2>0, <3>1, <3>2, Zenon
  <2>2. CASE c[1] = t
    <3>0. t \in Threads /\ made[t] \in 0 .. MaxChanges /\ made'[t] \in 0 .. MaxChanges
          /\ (c \in done <=> c[2] < made[t] \/ (c[2] = made[t] /\ pc[t] = "idle"))
      BY <1>0, <2>0, <2>2, Zenon DEF Typed
    <3>1. CASE /\ pc[t] = "idle" /\ pc'[t] = "try" /\ made'[t] = made[t] + 1 /\ done' = done
      BY <2>0, <2>2, <3>0, <3>1, PendingAssumption, SMT
    <3>2. CASE (pc[t] = "idle" <=> pc'[t] = "idle") /\ Same
      BY <2>2, <3>0, <3>2, Zenon DEF Same
    <3>3. CASE pc[t] # "idle" /\ pc'[t] = "idle" /\ Ends(t)
      <4>1. c = Change(t) <=> c[2] = made[t]
        BY <2>0, <2>2 DEF Change
      <4> QED
        BY <2>2, <3>0, <3>3, <4>1, Zenon DEF Ends
    <3> QED
      BY <1>0, <3>0, <3>1, <3>2, <3>3, Zenon DEF Moves, Holding
  <2> QED
    BY <2>1, <2>2
<1> QED
  BY <1>1, <1>2, <1>3, <1>4, Zenon DEF Placed

(* What will claim no ticket any more never will. *)
LEMMA PastStep ==
  ASSUME IInv, NEW t \in Agents, Steps(t)
  PROVE  /\ Past \subseteq Past' /\ \A n \in 0 .. Cardinality(Past) : n \in 0 .. Cardinality(Past')
         /\ Cardinality(Past') \in 0 .. Most
<1>0. Typed /\ Placed /\ Typed' /\ Placed' /\ Sole(t) /\ Moves(t)
  BY TypeStep, PlaceStep, MovesStep, Zenon DEF IInv
<1>1. done \subseteq done'
  BY <1>0, Zenon DEF Moves, Same, Ends
<1>2. ASSUME NEW u \in Threads, Writing(u)
      PROVE  Change(u) \in Past'
  <2>1. CASE u # t
    <3>1. Writing(u)' /\ Change(u)' = Change(u)
      BY <1>0, <1>2, <2>1, AgentSets, Zenon DEF Sole, Writing, Change
    <3> QED
      BY <3>1, Zenon DEF Past
  <2>2. CASE u = t
    <3>1. \/ Writing(t)' /\ Same
          \/ Ends(t)
      <4>1. pc[t] \in {"write", "publish"}
        BY <1>2, <2>2, Zenon DEF Writing
      <4>2. PushWrite(t) \/ PushPublish(t)
        BY <4>1, Zenon DEF Steps, Begin, TryLock, Push, PushLoad, PushCompare, PushClaim,
           PushClaimFails, ApplyOwn, Read, ReadDone, Lock, Drain, DrainLoad, DrainTake, DrainFree, DrainApply
      <4>3. t \in DOMAIN pc
        BY <1>0, Zenon DEF Typed
      <4> QED
        BY <4>2, <4>3, Zenon DEF PushWrite, PushPublish, Ends, Same, Returned, Writing, Goto, history
    <3>2. Same => Change(t)' = Change(t)
      BY Zenon DEF Same, Change
    <3> QED
      BY <2>2, <3>1, <3>2, Zenon DEF Past, Ends
  <2> QED
    BY <2>1, <2>2, Zenon
<1>3. Past \subseteq Past'
  <2>1. done' \subseteq Past'
    BY Zenon DEF Past
  <2> QED
    BY <1>1, <1>2, <2>1, Zenon DEF Past
<1>4. IsFiniteSet(Past') /\ Cardinality(Past') \in 0 .. Most
  <2>1. Past' \subseteq Changes
    <3>1. ASSUME NEW u \in Threads, Writing(u)'
          PROVE  Change(u)' \in Changes
      <4>1. made'[u] \in 0 .. MaxChanges /\ made'[u] > 0
        BY <1>0, <3>1, Zenon DEF Typed, Placed, Writing
      <4>2. made'[u] \in 1 .. MaxChanges
        BY <4>1, PendingAssumption, SMT
      <4> QED
        BY <4>2 DEF Change, Changes
    <3>2. done' \subseteq Changes
      BY <1>0, Zenon DEF Typed
    <3> QED
      BY <3>1, <3>2, Zenon DEF Past
  <2>2. IsFiniteSet(Past') /\ Cardinality(Past') <= Cardinality(Changes)
    BY <2>1, ChangesFinite, FS_Subset, Zenon
  <2>3. Cardinality(Past') \in Nat
    BY <2>2, FS_CardinalityType, Zenon
  <2> QED
    BY <2>2, <2>3, ChangesFinite, Sizes, SMT
<1>5. Cardinality(Past) <= Cardinality(Past') /\ Cardinality(Past) \in 0 .. Most
  BY <1>0, <1>3, <1>4, PastBound, FS_Subset, Zenon
<1>6. \A n \in 0 .. Cardinality(Past) : n \in 0 .. Cardinality(Past')
  BY <1>4, <1>5, Sizes, SMT
<1> QED
  BY <1>3, <1>4, <1>6, Zenon

-----------------------------------------------------------------------------
(* Steps beside the ring: the rest of the invariant. *)

(* Whether the drain has given a slot back and not moved head. *)
LEMMA FreedIs ==
  ASSUME Typed, Placed
  PROVE  /\ Freed <=> \E u \in Agents : pc[u] = "advance"
         /\ \A u \in Agents : pc[u] = "advance" => lock = u
  BY Zenon DEF Freed, Placed, Holding

(* Only the drain's last two steps move the first ticket. *)
LEMMA StillFreed ==
  ASSUME IInv, NEW t \in Agents, Steps(t), pc[t] # "advance", pc'[t] # "advance"
  PROVE  /\ Freed' <=> Freed
         /\ Freed => lock' = lock /\ val'[lock] = val[lock]
         /\ head' = head => First' = First
<1>0. Typed /\ Placed /\ Placed' /\ Sole(t)
  BY TypeStep, PlaceStep, Zenon DEF IInv
<1>1. ASSUME Freed
      PROVE  Freed' /\ lock' = lock /\ val'[lock] = val[lock]
  <2>1. lock \in Agents \ {t} /\ pc[lock] = "advance"
    BY <1>1, Zenon DEF Freed
  <2>2. pc'[lock] = "advance" /\ val'[lock] = val[lock]
    BY <1>0, <2>1, Zenon DEF Sole
  <2>3. lock' = lock
    BY <1>0, <2>1, <2>2, Zenon DEF Placed, Holding
  <2> QED
    BY <2>1, <2>2, <2>3, Zenon DEF Freed
<1>2. ASSUME Freed'
      PROVE  Freed
  <2>1. lock' \in Agents \ {t} /\ pc'[lock'] = "advance"
    BY <1>2, Zenon DEF Freed
  <2>2. pc[lock'] = "advance"
    BY <1>0, <2>1, Zenon DEF Sole
  <2>3. lock = lock'
    BY <1>0, <2>1, <2>2, Zenon DEF Placed, Holding
  <2> QED
    BY <2>1, <2>2, <2>3, Zenon DEF Freed
<1> QED
  BY <1>1, <1>2, Zenon DEF First

(* What the changes of the others are and wait for. *)
OthersHistory(t) ==
  /\ \A u \in Threads \ {t} : pc[u] # "idle" => prior'[Change(u)] = prior[Change(u)]
  /\ \A u \in Readers \ {t} : before'[u] = before[u]

(* A step beside the ring keeps what holds of the other threads. *)
LEMMA OthersStill ==
  ASSUME IInv, NEW t \in Agents, Steps(t), SameRing, head' = head \/ lock = t, OthersHistory(t)
  PROVE  /\ Ring'
         /\ \A u \in Threads \ {t} : Pushes(u)'
         /\ \A u \in Agents \ {t} : Drains(u)'
<1>0. Typed /\ Placed /\ Sole(t) /\ Threads \subseteq Agents /\ Readers \subseteq Agents
      /\ Agents = Threads \cup Readers
  BY TypeStep, AgentSets, Zenon DEF IInv
<1>1. /\ Queued' = Queued
      /\ \A n : At(n)' = At(n) /\ SeqAt(n)' = SeqAt(n) /\ ValAt(n)' = ValAt(n)
      /\ \A n : Published(n)' <=> Published(n)
  BY SameView
<1>2. Ring'
  BY <1>1, Zenon DEF IInv, Ring
<1>3. ASSUME NEW u \in Threads \ {t}
      PROVE  Pushes(u)'
  <2>0. /\ pc'[u] = pc[u] /\ pos'[u] = pos[u] /\ Change(u)' = Change(u) /\ tail' = tail
        /\ pc[u] # "idle" => prior'[Change(u)'] = prior[Change(u)]
        /\ Writing(u)' <=> Writing(u)
        /\ Writing(u) => pc[u] # "idle"
    BY <1>0, Zenon DEF Sole, Change, Writing, OthersHistory, SameRing
  <2>1. Claimed(u)'
    <3>1. Claimed(u)
      BY <1>0, Zenon DEF IInv, Pushes
    <3> QED
      BY <1>1, <2>0, <3>1, Zenon DEF Claimed
  <2>2. Loaded(u)'
    <3>1. Loaded(u)
      BY <1>0, Zenon DEF IInv, Pushes
    <3> QED
      BY <1>1, <2>0, <3>1, PastStep, Zenon DEF Loaded
  <2>3. Behind(u)'
    <3>1. Behind(u)
      BY <1>0, Zenon DEF IInv, Pushes
    <3> QED
      BY <1>1, <2>0, <3>1, Zenon DEF Behind
  <2> QED
    BY <2>1, <2>2, <2>3, Zenon DEF Pushes
<1>4. ASSUME NEW u \in Agents \ {t}
      PROVE  Drains(u)'
  <2>0. /\ pc'[u] = pc[u] /\ pos'[u] = pos[u] /\ end'[u] = end[u] /\ val'[u] = val[u]
        /\ pc[u] # "idle" => Awaited(u)' = Awaited(u)
    <3>1. u \in Threads => Change(u)' = Change(u)
      BY <1>0, Zenon DEF Sole, Change
    <3> QED
      BY <1>0, <3>1, Zenon DEF Sole, OthersHistory, Awaited
  <2>1. Draining(u)'
    <3>1. Draining(u) /\ (pc[u] \in {"next", "free", "advance"} => head' = head)
      BY <1>0, Zenon DEF IInv, Drains, Placed, Holding
    <3> QED
      BY <1>1, <2>0, <3>1, Zenon DEF Draining
  <2>2. Foreseen(u)'
    <3>1. Foreseen(u)
      BY <1>0, Zenon DEF IInv, Drains
    <3> QED
      BY <1>1, <2>0, <3>1, Zenon DEF Foreseen
  <2> QED
    BY <2>1, <2>2, Zenon DEF Drains
<1> QED
  BY <1>2, <1>3, <1>4, Zenon

(* Tickets stay their owners' unless a new one is claimed. *)
LEMMA StillOwn ==
  ASSUME IInv, NEW t \in Agents, Steps(t), Writing(t)' => Writing(t) /\ pos'[t] = pos[t]
  PROVE  OwnTickets'
<1>0. Sole(t) /\ OwnTickets
  BY TypeStep, Zenon DEF IInv
<1>1. ASSUME NEW u \in Threads, Writing(u)'
      PROVE  Writing(u) /\ pos'[u] = pos[u]
  BY <1>0, <1>1, AgentSets, Zenon DEF Sole, Writing
<1> QED
  BY <1>0, <1>1, Zenon DEF OwnTickets

(* Nothing is returned or applied, either. *)
LEMMA BesideRing ==
  ASSUME IInv, NEW t \in Agents, Steps(t), SameRing, head' = head, OthersHistory(t),
         pc[t] # "advance", pc'[t] # "advance", t \in Threads => ~Writing(t)',
         done' = done, applied' = applied,
         \A c \in done : prior'[c] = prior[c],
         \A c \in Changes : prior'[c] \subseteq done, \A u \in Readers : before'[u] \subseteq done,
         t \in Threads => Loaded(t)', Drains(t)'
  PROVE  IInv'
<1>0. /\ Typed /\ Placed /\ Typed' /\ Placed' /\ Sole(t)
      /\ Kept /\ Ordered /\ AppliedInOrder /\ OwnTickets
  BY TypeStep, PlaceStep, Zenon DEF IInv
<1>1. /\ Queued' = Queued
      /\ \A n : At(n)' = At(n) /\ SeqAt(n)' = SeqAt(n) /\ ValAt(n)' = ValAt(n)
      /\ \A n : Published(n)' <=> Published(n)
  BY SameView
<1>2. /\ Freed' <=> Freed
      /\ Freed => lock' = lock /\ val'[lock] = val[lock]
  BY StillFreed, Zenon
<1>3. \A c : IsApplied(c)' <=> IsApplied(c)
  BY Zenon DEF IsApplied
<1>4. Ring' /\ (\A u \in Threads \ {t} : Pushes(u)') /\ \A u \in Agents \ {t} : Drains(u)'
  BY OthersStill, Zenon
<1>5. t \in Threads => Pushes(t)'
  BY Zenon DEF Pushes, Claimed, Behind
<1>6. OwnTickets'
  <2>1. ~Writing(t)'
    BY <1>0, AgentSets, Zenon DEF Placed, Writing, Holding, Agents
  <2> QED
    BY <2>1, StillOwn, Zenon
<1>7. Kept'
  BY <1>0, <1>1, <1>2, <1>3, Zenon DEF Kept
<1>8. Ordered'
  <2>1. \A n \in Slots : Published(n) => ValAt(n) \in done
    BY <1>0, Zenon DEF Kept
  <2>2. Freed => val[lock] \in done
    BY <1>0, Zenon DEF Kept
  <2>3. Freed' => \A c \in prior'[val'[lock']] : IsApplied(c)'
    BY <1>0, <1>2, <1>3, <2>2, Zenon DEF Ordered
  <2>4. \A m, n \in Slots : Published(m)' /\ Published(n)' /\ n <= m => ValAt(m)' \notin prior'[ValAt(n)']
    BY <1>0, <1>1, <2>1, Zenon DEF Ordered
  <2> QED
    BY <2>3, <2>4, Zenon DEF Ordered
<1>9. AppliedInOrder'
  <2>1. \A i \in DOMAIN applied : applied[i] \in done
    BY <1>0, Zenon DEF Kept
  <2>2. \A i \in DOMAIN applied : prior'[applied[i]] = prior[applied[i]]
    BY <2>1, Zenon
  <2>3. \A i, j \in DOMAIN applied : applied[i] = applied[j] => i = j
    BY <1>0, Zenon DEF AppliedInOrder
  <2>4. \A i \in DOMAIN applied : \A c \in prior'[applied[i]] : \E k \in 1 .. i - 1 : applied[k] = c
    BY <1>0, <2>2, Zenon DEF AppliedInOrder
  <2>5. ASSUME NEW i \in DOMAIN applied', NEW j \in DOMAIN applied'
        PROVE  /\ applied'[i] = applied'[j] => i = j
               /\ \A c \in prior'[applied'[i]] : \E k \in 1 .. i - 1 : applied'[k] = c
    BY <2>3, <2>4, Zenon
  <2> QED
    BY <2>5, Zenon DEF AppliedInOrder
<1> QED
  BY <1>0, <1>4, <1>5, <1>6, <1>7, <1>8, <1>9, Zenon DEF IInv

(* A step that leaves the ring and head alone leaves the view of it alone. *)
LEMMA StillRing ==
  ASSUME IInv, NEW t \in Agents, Steps(t), pc[t] # "advance", pc'[t] # "advance", UNCHANGED ring
  PROVE  SameRing /\ head' = head
  BY StillFreed, Zenon DEF SameRing, ring

(* A hook begins. *)
LEMMA BeginStep ==
  ASSUME IInv, NEW t \in Threads, Begin(t)
  PROVE  IInv'
<1> DEFINE c0 == <<t, made[t] + 1>>
<1>0. /\ t \in Agents /\ Steps(t) /\ Typed /\ Placed /\ Ordered /\ Agents = Threads \cup Readers
      /\ Threads \cap Readers = {}
  BY AgentSets, Zenon DEF IInv, Steps
<1>1. /\ pc[t] = "idle" /\ pc'[t] = "try" /\ UNCHANGED <<ring, done, applied, before>>
      /\ prior' = [prior EXCEPT ![c0] = done]
  BY <1>0, MovesTo, Zenon DEF Begin, Goto, Places
<1>2. SameRing /\ head' = head
  BY <1>0, <1>1, StillRing, Zenon
<1>3. \A c \in Changes : c # c0 => prior'[c] = prior[c]
  BY <1>0, <1>1, Zenon DEF Typed
<1>4. c0 \notin done /\ c0 \in Changes
  <2>1. made[t] \in 0 .. MaxChanges /\ made[t] < MaxChanges
    BY <1>0, Zenon DEF Typed, Begin
  <2>2. c0 \in Changes /\ c0[1] = t /\ c0[2] = made[t] + 1
    BY <2>1, PendingAssumption, SMT DEF Changes
  <2>3. ~(made[t] + 1 < made[t]) /\ made[t] + 1 # made[t]
    BY <2>1, SMT
  <2> HIDE DEF c0
  <2> QED
    BY <1>0, <2>2, <2>3, Zenon DEF Placed
<1>5. OthersHistory(t)
  <2>1. ASSUME NEW u \in Threads \ {t}
        PROVE  pc[u] # "idle" => prior'[Change(u)] = prior[Change(u)]
    <3>1. Change(u) # c0
      BY DEF Change
    <3>2. pc[u] # "idle" => Change(u) \in Changes
      BY <1>0, ChangeIs, Zenon
    <3> QED
      BY <1>3, <3>1, <3>2, Zenon
  <2> QED
    BY <1>1, <2>1, Zenon DEF OthersHistory
<1>6. (\A c \in done : prior'[c] = prior[c]) /\ \A c \in Changes : prior'[c] \subseteq done
  <2> HIDE DEF c0
  <2>1. done \subseteq Changes /\ prior'[c0] = done
    BY <1>0, <1>1, <1>4, Zenon DEF Typed
  <2> QED
    BY <1>0, <1>3, <1>4, <2>1, Zenon DEF Ordered
<1>7. ~Writing(t)' /\ Loaded(t)' /\ Drains(t)'
  BY <1>1, Zenon DEF Writing, Loaded, Drains, Draining, Foreseen
<1> QED
  BY <1>0, <1>1, <1>2, <1>5, <1>6, <1>7, BesideRing, Zenon DEF Ordered

(* The steps that change neither history nor ring. *)
LEMMA PlainStep ==
  ASSUME IInv, NEW t \in Agents, Steps(t), pc[t] # "advance", pc'[t] # "advance",
         UNCHANGED <<ring, done, applied, prior, before>>,
         t \in Threads => ~Writing(t)' /\ Loaded(t)', Drains(t)'
  PROVE  IInv'
<1>1. SameRing /\ head' = head /\ OthersHistory(t)
  BY StillRing, Zenon DEF OthersHistory
<1>2. (\A c \in Changes : prior[c] \subseteq done) /\ \A u \in Readers : before[u] \subseteq done
  BY Zenon DEF IInv, Ordered
<1> QED
  BY <1>1, <1>2, BesideRing, Zenon

(* record_owner's try_lock. *)
LEMMA TryStep ==
  ASSUME IInv, NEW t \in Threads, TryLock(t)
  PROVE  IInv'
<1>0. t \in Agents /\ Steps(t) /\ t \in DOMAIN pc
  BY AgentSets, Zenon DEF IInv, Steps, Typed
<1>1. pc[t] = "try" /\ pc'[t] \in {"drain", "load"} /\ UNCHANGED <<ring, done, applied, prior, before>>
  BY <1>0, Zenon DEF TryLock, Goto, history
<1>2. ~Writing(t)' /\ Loaded(t)' /\ Drains(t)'
  BY <1>1, Zenon DEF Writing, Loaded, Drains, Draining, Foreseen
<1> QED
  BY <1>0, <1>1, <1>2, PlainStep, Zenon

(* push loads tail, at first and after a failed exchange. *)
LEMMA ReloadStep ==
  ASSUME IInv, NEW t \in Threads, PushLoad(t) \/ PushClaimFails(t)
  PROVE  IInv'
<1>0. t \in Agents /\ Steps(t) /\ t \in DOMAIN pc /\ t \in DOMAIN pos /\ tail \in Tickets
  BY AgentSets, Zenon DEF IInv, Steps, Push, Typed
<1>1. /\ pc[t] \in {"load", "claim"} /\ pc'[t] = "compare" /\ pos'[t] = tail /\ tail' = tail
      /\ UNCHANGED <<ring, done, applied, prior, before>>
  BY <1>0, Zenon DEF PushLoad, PushClaimFails, Goto, history, ring
<1>2. Loaded(t)'
  <2>1. 0 \in 0 .. Cardinality(Past')
    BY <1>0, PastStep, Sizes, SMT
  <2>2. Plus(tail, 0) = tail
    BY <1>0, PlusFacts, Zenon
  <2> QED
    BY <1>1, <2>1, <2>2, Zenon DEF Loaded
<1>3. ~Writing(t)' /\ Drains(t)'
  BY <1>1, Zenon DEF Writing, Drains, Draining, Foreseen
<1> QED
  BY <1>0, <1>1, <1>2, <1>3, PlainStep, Zenon

(* Of the ticket tail: its slot is free for it, or CAPACITY are queued. *)
LEMMA TailSlot ==
  ASSUME Typed, Ring
  PROVE  /\ Queued < CAPACITY => seq[Slot(tail)] = tail
         /\ ~(Queued < CAPACITY) => /\ Queued = CAPACITY
                                    /\ seq[Slot(tail)] = At(0) \/ seq[Slot(tail)] = At(1)
<1>0. /\ First \in Tickets /\ Queued \in Nat /\ Queued <= CAPACITY /\ tail = At(Queued)
  BY View, Zenon DEF Ring
<1>1. ASSUME Queued < CAPACITY
      PROVE  seq[Slot(tail)] = tail
  <2>1. Queued \in Slots /\ ~(Queued < Queued)
    BY <1>0, <1>1, Sizes, SMT DEF Slots
  <2> QED
    BY <1>0, <2>1, Zenon DEF Ring, SeqAt, Published
<1>2. ASSUME ~(Queued < CAPACITY)
      PROVE  Queued = CAPACITY /\ (seq[Slot(tail)] = At(0) \/ seq[Slot(tail)] = At(1))
  <2>1. Queued = CAPACITY /\ 0 \in Slots /\ 0 + 1 = 1
    BY <1>0, <1>2, Sizes, SMT DEF Slots
  <2>2. Slot(tail) = Slot(At(0))
    BY <1>0, <2>1, SlotFacts, PlusFacts, Zenon DEF At
  <2>3. SeqAt(0) = At(0) \/ SeqAt(0) = At(0 + 1)
    BY <2>1, Zenon DEF Ring, Published
  <2> QED
    BY <2>1, <2>2, <2>3, Zenon DEF SeqAt
<1> QED
  BY <1>1, <1>2, Zenon

(* push compares the seq it found with its ticket. *)
LEMMA CompareStep ==
  ASSUME IInv, NEW t \in Threads, PushCompare(t)
  PROVE  IInv'
<1>0. /\ t \in Agents /\ Steps(t) /\ t \in DOMAIN pc /\ Typed /\ Ring /\ Loaded(t)
      /\ pos[t] \in Tickets /\ seq[Slot(pos[t])] \in Tickets
  <2>1. t \in Agents /\ Steps(t) /\ t \in DOMAIN pc /\ Typed /\ Ring /\ Loaded(t) /\ pos[t] \in Tickets
    BY AgentSets, Zenon DEF IInv, Steps, Push, Typed, Pushes
  <2> QED
    BY <2>1, SlotFacts, Zenon DEF Typed
<1>1. /\ pc[t] = "compare" /\ pc'[t] \in {"claim", "load", "lock"} /\ pos' = pos /\ tail' = tail
      /\ pc'[t] = "claim" => Signum(seq[Slot(pos[t])], pos[t]) = 0
      /\ UNCHANGED <<ring, done, applied, prior, before>>
  BY <1>0, Zenon DEF PushCompare, Goto, history, ring, local
<1>2. SameRing
  BY <1>0, <1>1, StillRing, Zenon
<1>3. pc'[t] = "claim" /\ pos'[t] = tail' => Queued' < CAPACITY
  <2>1. SUFFICES ASSUME pc'[t] = "claim", pos[t] = tail, ~(Queued < CAPACITY)
                 PROVE  FALSE
    BY <1>1, <1>2, SameView, Zenon
  <2>2. (seq[Slot(pos[t])] - pos[t]) % Wrap = 0
    BY <1>1, <2>1, SMT DEF Signum
  <2>3. seq[Slot(tail)] = tail
    BY <1>0, <2>1, <2>2, PlusFacts, Zenon
  <2>4. Queued = CAPACITY /\ tail = At(CAPACITY) /\ (tail = At(0) \/ tail = At(1))
    BY <1>0, <2>1, <2>3, TailSlot, View, Zenon
  <2>5. 0 \in Tickets /\ 1 \in Tickets /\ CAPACITY \in Tickets /\ CAPACITY # 0 /\ CAPACITY # 1
    BY Sizes, SMT DEF Tickets
  <2> QED
    BY <1>0, <2>4, <2>5, View, Zenon
<1>4. Loaded(t)'
  BY <1>0, <1>1, <1>3, PastStep, Zenon DEF Loaded
<1>5. ~Writing(t)' /\ Drains(t)'
  BY <1>1, Zenon DEF Writing, Drains, Draining, Foreseen
<1> QED
  BY <1>0, <1>1, <1>4, <1>5, PlainStep, Zenon

(* A reader asks for the lock. *)
LEMMA ReadStep ==
  ASSUME IInv, NEW t \in Readers, Read(t)
  PROVE  IInv'
<1>0. t \in Agents /\ Steps(t) /\ t \in DOMAIN pc
  BY AgentSets, Zenon DEF IInv, Steps, Typed
<1>1. pc[t] = "idle" /\ pc'[t] = "lock" /\ UNCHANGED <<ring, done, applied, prior, before>>
  BY <1>0, Zenon DEF Read, Goto, history
<1>2. ~Writing(t)' /\ Loaded(t)' /\ Drains(t)'
  BY <1>1, Zenon DEF Writing, Loaded, Drains, Draining, Foreseen
<1> QED
  BY <1>0, <1>1, <1>2, PlainStep, Zenon

(* The lock is taken, to read or because the queue was full. *)
LEMMA LockStep ==
  ASSUME IInv, NEW t \in Agents, Lock(t)
  PROVE  IInv'
<1>0. Steps(t) /\ t \in DOMAIN pc /\ Typed /\ Ordered
  BY Zenon DEF IInv, Steps, Typed
<1>1. /\ pc[t] = "lock" /\ pc'[t] = "drain" /\ UNCHANGED <<ring, done, applied, prior>>
      /\ before' = IF t \in Readers THEN [before EXCEPT ![t] = done] ELSE before
  BY <1>0, Zenon DEF Lock, Goto
<1>2. SameRing /\ head' = head
  BY <1>0, <1>1, StillRing, Zenon
<1>3. OthersHistory(t) /\ \A u \in Readers : before'[u] \subseteq done
  BY <1>0, <1>1, Zenon DEF OthersHistory, Typed, Ordered
<1>4. ~Writing(t)' /\ Loaded(t)' /\ Drains(t)'
  BY <1>1, Zenon DEF Writing, Loaded, Drains, Draining, Foreseen
<1> QED
  BY <1>0, <1>1, <1>2, <1>3, <1>4, BesideRing, Zenon DEF Ordered

(* A reader lets the lock go. *)
LEMMA ReadDoneStep ==
  ASSUME IInv, NEW t \in Readers, ReadDone(t)
  PROVE  IInv'
<1>0. t \in Agents /\ Steps(t) /\ t \in DOMAIN pc /\ Typed /\ Ordered
  BY AgentSets, Zenon DEF IInv, Steps, Typed
<1>1. /\ pc[t] = "next" /\ pc'[t] = "idle" /\ UNCHANGED <<ring, done, applied, prior>>
      /\ before' = [before EXCEPT ![t] = {}]
  BY <1>0, Zenon DEF ReadDone, Unlock, Goto
<1>2. SameRing /\ head' = head
  BY <1>0, <1>1, StillRing, Zenon
<1>3. OthersHistory(t) /\ \A u \in Readers : before'[u] \subseteq done
  BY <1>0, <1>1, Zenon DEF OthersHistory, Typed, Ordered
<1>4. ~Writing(t)' /\ Loaded(t)' /\ Drains(t)'
  BY <1>1, Zenon DEF Writing, Loaded, Drains, Draining, Foreseen
<1> QED
  BY <1>0, <1>1, <1>2, <1>3, <1>4, BesideRing, Zenon DEF Ordered

(* Who drains has the lock, and head is the first ticket. *)
LEMMA AtHead ==
  ASSUME IInv, NEW t \in Agents, pc[t] \in Holding, pc[t] # "advance"
  PROVE  lock = t /\ ~Freed /\ First = head
  BY Zenon DEF IInv, Placed, Freed, First

(* drain loads its end: what is done is published, and so ahead of it. *)
LEMMA DrainLoadStep ==
  ASSUME IInv, NEW t \in Agents, DrainLoad(t)
  PROVE  IInv'
<1>0. Steps(t) /\ t \in DOMAIN pc /\ t \in DOMAIN pos /\ t \in DOMAIN end /\ Typed
  BY Zenon DEF IInv, Steps, Drain, Typed
<1>1. /\ pc[t] = "drain" /\ pc'[t] = "next" /\ UNCHANGED <<ring, done, applied, prior, before>>
      /\ end'[t] = tail /\ pos'[t] = head /\ head' = head
  BY <1>0, Zenon DEF DrainLoad, Goto, ring, history
<1>2. /\ Queued' = Queued /\ \A n : At(n)' = At(n)
      /\ \A n : Published(n)' <=> Published(n)
  BY <1>0, <1>1, StillRing, SameView, Zenon
<1>3. Draining(t)'
  <2>1. Queued \in 0 .. Queued /\ tail = At(Queued)
    <3>1. Queued \in Nat /\ tail = At(Queued)
      BY <1>0, View, Zenon
    <3> QED
      BY <3>1, SMT
  <2> QED
    BY <1>1, <1>2, <2>1, Zenon DEF Draining
<1>4. Foreseen(t)'
  <2>1. ASSUME NEW m \in Slots, NEW n \in 0 .. Queued, end'[t] = At(n), n <= m, Published(m)
        PROVE  FALSE
    <3>1. Queued \in Nat /\ Queued \in Tickets /\ At(n) = At(Queued) /\ m < Queued
      BY <1>0, <1>1, <2>1, View, Zenon DEF Published
    <3>2. n \in Tickets
      <4>1. Queued \in Nat /\ Queued < Wrap
        BY <3>1, Sizes, SMT DEF Tickets
      <4> QED
        BY <4>1, Sizes, SMT DEF Tickets
    <3>3. n = Queued
      BY <1>0, <3>1, <3>2, View, Zenon
    <3> QED
      BY <2>1, <3>1, <3>3, SMT DEF Slots
  <2> QED
    BY <1>2, <2>1, Zenon DEF Foreseen
<1>5. ~Writing(t)' /\ Loaded(t)' /\ Drains(t)'
  BY <1>1, <1>3, <1>4, Zenon DEF Writing, Loaded, Drains
<1> QED
  BY <1>0, <1>1, <1>5, PlainStep, Zenon

(* drain reads the first slot's value. *)
LEMMA TakeStep ==
  ASSUME IInv, NEW t \in Agents, DrainTake(t)
  PROVE  IInv'
<1>0. /\ Steps(t) /\ t \in DOMAIN pc /\ t \in DOMAIN val /\ Typed /\ Placed /\ Drains(t)
  BY Zenon DEF IInv, Steps, Drain, Typed
<1>1. /\ pc[t] = "next" /\ pc'[t] = "free" /\ UNCHANGED <<ring, done, applied, prior, before>>
      /\ UNCHANGED <<pos, end, head, made>> /\ pos[t] # end[t] /\ val'[t] = value[Slot(pos[t])]
      /\ seq[Slot(pos[t])] = Plus(pos[t], 1)
  BY <1>0, Zenon DEF DrainTake, Goto, ring, history
<1>2. /\ Queued' = Queued /\ \A n : At(n)' = At(n) /\ ValAt(n)' = ValAt(n)
      /\ \A n : Published(n)' <=> Published(n)
  BY <1>0, <1>1, StillRing, SameView, Zenon
<1>3. pos[t] = head /\ First = head /\ At(0) = head /\ Queued \in Nat
  BY <1>0, <1>1, AtHead, View, Zenon DEF Drains, Draining, Holding
<1>4. Published(0) /\ ValAt(0) = val'[t]
  <2>1. PICK n \in 0 .. Queued : end[t] = At(n)
    BY <1>0, <1>1, Zenon DEF Drains, Draining
  <2>2. 0 < Queued /\ 0 + 1 = 1
    BY <1>1, <1>3, <2>1, SMT
  <2> QED
    BY <1>1, <1>3, <2>2, Zenon DEF Published, SeqAt, ValAt, At
<1>5. Draining(t)'
  BY <1>0, <1>1, <1>2, <1>4, Zenon DEF Drains, Draining
<1>6. Foreseen(t)'
  <2>1. Awaited(t)' = Awaited(t)
    BY <1>1, Zenon DEF Awaited, Change
  <2> QED
    BY <1>0, <1>1, <1>2, <2>1, Zenon DEF Drains, Foreseen
<1>7. ~Writing(t)' /\ Loaded(t)' /\ Drains(t)'
  BY <1>1, <1>5, <1>6, Zenon DEF Writing, Loaded, Drains
<1> QED
  BY <1>0, <1>1, <1>7, PlainStep, Zenon

-----------------------------------------------------------------------------
(* A change is applied. *)

(* What is applied and in which order, once one change more is. *)
LEMMA AppliesOne ==
  ASSUME IInv, NEW c \in Changes, applied' = Append(applied, c)
  PROVE  /\ \A x : IsApplied(x)' <=> IsApplied(x) \/ x = c
         /\ \A i \in DOMAIN applied' : applied'[i] = c \/ \E j \in DOMAIN applied : applied'[i] = applied[j]
         /\ /\ ~IsApplied(c) /\ prior' = prior /\ \A x \in prior[c] : IsApplied(x)
            => AppliedInOrder'
<1>1. applied \in Seq(Changes)
  BY Zenon DEF IInv, Typed
<1>2. /\ Len(applied) \in Nat /\ DOMAIN applied = 1 .. Len(applied)
      /\ DOMAIN applied' = 1 .. Len(applied) + 1
      /\ applied'[Len(applied) + 1] = c
      /\ \A i \in 1 .. Len(applied) : applied'[i] = applied[i]
  BY <1>1
<1> DEFINE n == Len(applied) + 1
<1>3. /\ \A i \in 1 .. n : i = n \/ i \in 1 .. Len(applied)
      /\ \A i \in 1 .. Len(applied) : i # n /\ i \in 1 .. n /\ i \in 1 .. n - 1
      /\ n \in 1 .. n
      /\ \A i \in 1 .. Len(applied) : \A k \in 1 .. i - 1 : k \in 1 .. Len(applied)
  BY <1>2, SMT
<1>4. applied'[n] = c /\ DOMAIN applied' = 1 .. n
  BY <1>2, Zenon
<1> HIDE DEF n
<1>5. \A x : IsApplied(x)' <=> IsApplied(x) \/ x = c
  <2>1. ASSUME NEW x, IsApplied(x)'
        PROVE  IsApplied(x) \/ x = c
    BY <1>2, <1>3, <1>4, <2>1, Zenon DEF IsApplied
  <2>2. ASSUME NEW x, IsApplied(x) \/ x = c
        PROVE  IsApplied(x)'
    BY <1>2, <1>3, <1>4, <2>2, Zenon DEF IsApplied
  <2> QED
    BY <2>1, <2>2, Zenon
<1>6. \A i \in DOMAIN applied' : applied'[i] = c \/ \E j \in DOMAIN applied : applied'[i] = applied[j]
  BY <1>2, <1>3, <1>4, Zenon
<1>7. ASSUME ~IsApplied(c), prior' = prior, \A x \in prior[c] : IsApplied(x)
      PROVE  AppliedInOrder'
  <2>0. AppliedInOrder
    BY Zenon DEF IInv
  <2>1. ASSUME NEW i \in 1 .. n, NEW j \in 1 .. n, applied'[i] = applied'[j]
        PROVE  i = j
    <3>1. CASE i \in 1 .. Len(applied) /\ j \in 1 .. Len(applied)
      BY <1>2, <2>0, <2>1, <3>1, Zenon DEF AppliedInOrder
    <3>2. CASE i = n /\ j \in 1 .. Len(applied)
      BY <1>2, <1>4, <1>7, <2>1, <3>2, Zenon DEF IsApplied
    <3>3. CASE i \in 1 .. Len(applied) /\ j = n
      BY <1>2, <1>4, <1>7, <2>1, <3>3, Zenon DEF IsApplied
    <3> QED
      BY <1>3, <3>1, <3>2, <3>3, Zenon
  <2>2. ASSUME NEW i \in 1 .. n, NEW x \in prior[applied'[i]]
        PROVE  \E k \in 1 .. i - 1 : applied'[k] = x
    <3>1. CASE i \in 1 .. Len(applied)
      <4>1. PICK k \in 1 .. i - 1 : applied[k] = x
        BY <1>2, <2>0, <2>2, <3>1, Zenon DEF AppliedInOrder
      <4> QED
        BY <1>2, <1>3, <3>1, <4>1, Zenon
    <3>2. CASE i = n
      <4>1. PICK k \in 1 .. Len(applied) : applied[k] = x
        BY <1>2, <1>4, <1>7, <2>2, <3>2, Zenon DEF IsApplied
      <4> QED
        BY <1>2, <1>3, <3>2, <4>1, Zenon
    <3> QED
      BY <1>3, <3>1, <3>2, Zenon
  <2> QED
    BY <1>4, <1>7, <2>1, <2>2, Zenon DEF AppliedInOrder
<1> QED
  BY <1>5, <1>6, <1>7, Zenon

(* Of what is done, a drain that has reached its end leaves nothing it was  *)
(* to apply.                                                                *)
LEMMA DrainedSees ==
  ASSUME IInv, NEW t \in Agents, pc[t] = "next", pos[t] = end[t], NEW c \in Awaited(t), c \in done
  PROVE  IsApplied(c)
<1>0. Typed /\ Kept /\ Drains(t) /\ lock = t /\ ~Freed /\ First = head /\ pos[t] = head
  <2>1. Drains(t)
    BY Zenon DEF IInv
  <2> QED
    BY <2>1, AtHead, Zenon DEF IInv, Drains, Draining, Holding
<1>1. end[t] = At(0) /\ 0 \in 0 .. Queued
  <2>1. At(0) = First /\ Queued \in Nat
    BY <1>0, View, Zenon
  <2> QED
    BY <1>0, <2>1, SMT
<1>2. \A m \in Slots : 0 <= m
  BY SMT DEF Slots
<1>3. \A m \in Slots : Published(m) => ValAt(m) # c
  BY <1>0, <1>1, <1>2, Zenon DEF Drains, Foreseen
<1> QED
  BY <1>0, <1>3, Zenon DEF Kept

(* The hook with the lock applies its own change after the queued ones. *)
LEMMA ApplyOwnStep ==
  ASSUME IInv, NEW t \in Threads, ApplyOwn(t)
  PROVE  IInv'
<1> DEFINE c == Change(t)
<1>0. /\ t \in Agents /\ t \notin Readers /\ Steps(t) /\ t \in DOMAIN pc /\ Typed /\ Placed /\ Kept /\ Ordered
      /\ Typed' /\ Placed' /\ Sole(t) /\ OwnTickets
  BY AgentSets, TypeStep, PlaceStep, Zenon DEF IInv, Steps, Typed
<1>1. /\ pc[t] = "next" /\ pos[t] = end[t] /\ pc'[t] = "idle"
      /\ UNCHANGED <<ring, prior, before>>
      /\ applied' = Append(applied, c) /\ done' = done \cup {c}
  BY <1>0, Zenon DEF ApplyOwn, Unlock, Goto, Returned
<1>2. SameRing /\ head' = head /\ OthersHistory(t)
  BY <1>0, <1>1, StillRing, Zenon DEF OthersHistory
<1>3. Ring' /\ (\A u \in Threads \ {t} : Pushes(u)') /\ \A u \in Agents \ {t} : Drains(u)'
  BY <1>0, <1>2, OthersStill, Zenon
<1>4. Pushes(t)' /\ Drains(t)' /\ ~Writing(t)'
  BY <1>1, Zenon DEF Pushes, Drains, Claimed, Loaded, Behind, Draining, Foreseen, Writing
<1>5. c \in Changes /\ c \notin done
  BY <1>0, <1>1, ChangeIs, Zenon
<1>6. \A x \in prior[c] : IsApplied(x)
  <2>1. Awaited(t) = prior[c] /\ prior[c] \subseteq done
    BY <1>0, <1>5, Zenon DEF Awaited, Ordered
  <2> HIDE DEF c
  <2> QED
    BY <1>0, <1>1, <2>1, DrainedSees, Zenon
<1> HIDE DEF c
<1>7. ~IsApplied(c)
  BY <1>0, <1>5, ZenonT(40) DEF Kept, IsApplied
<1>8. /\ \A x : IsApplied(x)' <=> IsApplied(x) \/ x = c
      /\ \A i \in DOMAIN applied' : applied'[i] = c \/ \E j \in DOMAIN applied : applied'[i] = applied[j]
      /\ AppliedInOrder'
  BY <1>1, <1>5, <1>6, <1>7, AppliesOne, Zenon
<1>9. ~Freed /\ ~Freed'
  BY <1>0, <1>1, AtHead, StillFreed, Zenon DEF Holding
<1>10. \A n : ValAt(n)' = ValAt(n) /\ (Published(n)' <=> Published(n))
  BY <1>2, SameView, Zenon
<1>11. Kept'
  BY <1>0, <1>1, <1>5, <1>8, <1>9, <1>10, Zenon DEF Kept
<1>12. Ordered'
  BY <1>0, <1>1, <1>9, <1>10, Zenon DEF Ordered
<1>13. OwnTickets'
  BY <1>0, <1>4, StillOwn, Zenon
<1> QED
  BY <1>0, <1>3, <1>4, <1>8, <1>11, <1>12, <1>13, Zenon DEF IInv

(* The drain moves head and applies what it took. *)
LEMMA DrainApplyStep ==
  ASSUME IInv, NEW t \in Agents, DrainApply(t)
  PROVE  IInv'
<1> DEFINE c == val[t]
<1>0. /\ Steps(t) /\ t \in DOMAIN pc /\ Typed /\ Placed /\ Kept /\ Ordered /\ Drains(t)
      /\ Typed' /\ Placed' /\ Sole(t) /\ OwnTickets /\ t \in DOMAIN pos
  BY TypeStep, PlaceStep, Zenon DEF IInv, Steps, Drain, Typed
<1>1. /\ pc[t] = "advance" /\ pc'[t] = "next" /\ pos'[t] = Plus(pos[t], 1) /\ head' = Plus(pos[t], 1)
      /\ UNCHANGED <<seq, value, tail, lock, end, made, done, prior, before>>
      /\ applied' = Append(applied, c)
  BY <1>0, Zenon DEF DrainApply, Goto
<1>2. lock = t /\ Freed /\ ~Freed' /\ pos[t] = head
  BY <1>0, <1>1, Zenon DEF Placed, Freed, Holding, Drains, Draining
<1>3. SameRing /\ OthersHistory(t)
  BY <1>1, <1>2, Zenon DEF SameRing, First, OthersHistory
<1>4. Ring' /\ (\A u \in Threads \ {t} : Pushes(u)') /\ \A u \in Agents \ {t} : Drains(u)'
  BY <1>0, <1>2, <1>3, OthersStill, Zenon
<1>5. c \in Changes /\ c \in done /\ ~IsApplied(c) /\ \A x \in prior[c] : IsApplied(x)
  BY <1>0, <1>2, Zenon DEF Kept, Ordered, Typed
<1> HIDE DEF c
<1>6. /\ \A x : IsApplied(x)' <=> IsApplied(x) \/ x = c
      /\ \A i \in DOMAIN applied' : applied'[i] = c \/ \E j \in DOMAIN applied : applied'[i] = applied[j]
      /\ AppliedInOrder'
  BY <1>1, <1>5, AppliesOne, Zenon
<1>7. Queued' = Queued /\ \A n : At(n)' = At(n) /\ ValAt(n)' = ValAt(n) /\ (Published(n)' <=> Published(n))
  BY <1>3, SameView, Zenon
<1>8. Pushes(t)' /\ Drains(t)' /\ ~Writing(t)'
  <2>1. Pushes(t)' /\ ~Writing(t)'
    BY <1>1, Zenon DEF Pushes, Claimed, Loaded, Behind, Writing
  <2>2. Draining(t)'
    BY <1>0, <1>1, <1>7, Zenon DEF Drains, Draining
  <2>3. Awaited(t)' = Awaited(t)
    BY <1>1, Zenon DEF Awaited, Change
  <2>4. Foreseen(t)'
    BY <1>0, <1>1, <1>7, <2>3, Zenon DEF Drains, Foreseen
  <2> QED
    BY <2>1, <2>2, <2>4, Zenon DEF Drains
<1>9. Kept'
  <2>1. /\ \A i \in DOMAIN applied' : applied'[i] \in done
        /\ \A n \in Slots : Published(n) => ValAt(n) \in done /\ ~IsApplied(ValAt(n)) /\ ValAt(n) # c
    BY <1>0, <1>2, <1>5, <1>6, Zenon DEF Kept, c
  <2>2. \A x \in done : IsApplied(x)' \/ \E n \in Slots : Published(n) /\ ValAt(n) = x
    BY <1>0, <1>2, <1>6, Zenon DEF Kept, c
  <2> QED
    BY <1>0, <1>1, <1>2, <1>6, <1>7, <2>1, <2>2, Zenon DEF Kept
<1>10. Ordered'
  BY <1>0, <1>1, <1>2, <1>7, Zenon DEF Ordered
<1>11. OwnTickets'
  BY <1>0, <1>8, StillOwn, Zenon
<1> QED
  BY <1>0, <1>4, <1>6, <1>8, <1>9, <1>10, <1>11, Zenon DEF IInv

-----------------------------------------------------------------------------
(* The steps of a push on its own ticket, the k-th of the queue: all the    *)
(* other tickets are as they were, and this one is not published, or        *)
(* becomes so now.                                                          *)
LEMMA PushKeeps ==
  ASSUME IInv, NEW t \in Threads, Steps(t), NEW k \in Slots,
         pc[t] \in {"claim", "write", "publish"}, pc'[t] \in {"write", "publish", "idle"}, head' = head,
         UNCHANGED <<applied, prior, before>>, Queued' = Queued \/ Queued' = Queued + 1,
         \A m \in Slots \ {k} : /\ SeqAt(m)' = SeqAt(m) /\ ValAt(m)' = ValAt(m)
                                /\ Published(m)' <=> Published(m),
         ~Published(k),
         \/ done' = done /\ ~Published(k)'
         \/ /\ done' = done \cup {Change(t)} /\ Published(k)' /\ ValAt(k)' = Change(t)
            /\ Writing(t) /\ pos[t] = At(k),
         \A u \in Threads \ {t} : Writing(u) => pos[u] # At(k),
         Ring', Pushes(t)', OwnTickets', \A u \in Threads \ {t} : Loaded(u)'
  PROVE  IInv'
<1>0. /\ t \in Agents /\ t \notin Readers /\ Typed /\ Placed /\ Kept /\ Ordered /\ AppliedInOrder
      /\ Typed' /\ Placed' /\ Sole(t) /\ Pushes(t)
  BY AgentSets, TypeStep, PlaceStep, Zenon DEF IInv
<1>1. /\ Freed' <=> Freed
      /\ Freed => lock' = lock /\ val'[lock] = val[lock]
      /\ \A n : At(n)' = At(n)
  <2>1. pc[t] # "advance" /\ pc'[t] # "advance"
    BY Zenon
  <2>2. First' = First
    BY <1>0, <2>1, StillFreed, Zenon
  <2> QED
    BY <1>0, <2>1, <2>2, StillFreed, Zenon DEF At
<1>2. /\ Queued \in Nat /\ Queued <= Queued'
      /\ \A n \in Slots : n < Queued => n < Queued'
      /\ \A n \in 0 .. Queued : n \in 0 .. Queued' /\ n \in Tickets
      /\ \A n \in 0 .. Queued' : n \in Tickets
  <2>1. Queued \in Nat /\ Queued <= CAPACITY /\ Queued' <= CAPACITY
    BY <1>0, View, Zenon DEF IInv, Ring
  <2> QED
    BY <2>1, Sizes, SMT DEF Slots, Tickets
<1>3. Change(t) \in Changes /\ Change(t) \notin done /\ done \subseteq done'
  <2>1. pc[t] # "idle"
    BY Zenon
  <2> QED
    BY <1>0, <2>1, ChangeIs, Zenon
<1> DEFINE new == Published(k)'
<1>4. /\ new => done' = done \cup {Change(t)} /\ ValAt(k)' = Change(t) /\ Writing(t) /\ pos[t] = At(k)
      /\ ~new => done' = done
      /\ \A n \in Slots : Published(n)' => (n = k /\ new) \/ (n # k /\ Published(n) /\ ValAt(n)' = ValAt(n))
      /\ \A n \in Slots : Published(n) => n # k /\ Published(n)' /\ ValAt(n)' = ValAt(n)
  BY Zenon
<1> HIDE DEF new
<1>5. ASSUME NEW u \in Threads \ {t}
      PROVE  Pushes(u)'
  <2>1. /\ u \in Agents /\ pc'[u] = pc[u] /\ pos'[u] = pos[u] /\ Change(u)' = Change(u)
        /\ Writing(u)' <=> Writing(u)
        /\ Claimed(u) /\ Behind(u)
    BY <1>0, <1>5, AgentSets, Zenon DEF Sole, Change, Writing, IInv, Pushes
  <2>2. Claimed(u)'
    <3>1. ASSUME Writing(u)
          PROVE  \E n \in Slots :
                   /\ n < Queued' /\ pos[u] = At(n) /\ SeqAt(n)' = At(n)
                   /\ pc[u] = "publish" => ValAt(n)' = Change(u)
      <4>1. PICK n \in Slots : /\ n < Queued /\ pos[u] = At(n) /\ SeqAt(n) = At(n)
                               /\ pc[u] = "publish" => ValAt(n) = Change(u)
        BY <2>1, <3>1, Zenon DEF Claimed
      <4>2. n # k
        BY <1>5, <3>1, <4>1, Zenon
      <4>3. n < Queued' /\ SeqAt(n)' = SeqAt(n) /\ ValAt(n)' = ValAt(n)
        BY <1>2, <4>1, <4>2, Zenon
      <4> QED
        BY <4>1, <4>3, Zenon
    <3> QED
      BY <1>1, <2>1, <3>1, Zenon DEF Claimed
  <2>3. Behind(u)'
    <3>1. ASSUME NEW m \in Slots, NEW n \in Slots, Writing(u), pos[u] = At(n), n <= m, Published(m)'
          PROVE  ValAt(m)' \notin prior[Change(u)]
      <4>1. CASE m # k
        BY <1>4, <2>1, <3>1, <4>1, Zenon DEF Behind
      <4>2. CASE m = k
        <5>1. ValAt(m)' = Change(t)
          BY <1>4, <3>1, <4>2, Zenon
        <5>2. prior[Change(u)] \subseteq done
          <6>1. Change(u) \in Changes
            BY <1>0, <3>1, ChangeIs, Zenon DEF Writing
          <6> QED
            BY <1>0, <6>1, Zenon DEF Ordered
        <5> QED
          BY <1>3, <5>1, <5>2, Zenon
      <4> QED
        BY <4>1, <4>2, Zenon
    <3> QED
      BY <1>1, <2>1, <3>1, Zenon DEF Behind
  <2> QED
    BY <1>5, <2>2, <2>3, Zenon DEF Pushes
<1>6. ASSUME NEW u \in Agents \ {t}
      PROVE  Drains(u)'
  <2>1. /\ pc'[u] = pc[u] /\ pos'[u] = pos[u] /\ end'[u] = end[u] /\ val'[u] = val[u]
        /\ Awaited(u)' = Awaited(u)
        /\ Draining(u) /\ Foreseen(u)
    BY <1>0, <1>6, AgentSets, Zenon DEF Sole, Change, Awaited, IInv, Drains, Agents
  <2>2. Draining(u)'
    <3>1. 0 \in Slots
      BY Sizes, SMT DEF Slots
    <3> QED
      BY <1>1, <1>2, <1>4, <2>1, <3>1, Zenon DEF Draining
  <2>3. ASSUME NEW m \in Slots, NEW n \in 0 .. Queued', pc[u] \in {"next", "free", "advance"},
               end[u] = At(n), n <= m, Published(m)'
        PROVE  ValAt(m)' \notin Awaited(u)
    <3>1. PICK i \in 0 .. Queued : end[u] = At(i)
      BY <2>1, <2>3, Zenon DEF Draining
    <3>2. n \in 0 .. Queued
      BY <1>0, <1>2, <2>3, <3>1, View, Zenon
    <3>3. CASE m # k
      BY <1>4, <2>1, <2>3, <3>2, <3>3, Zenon DEF Foreseen
    <3>4. CASE m = k
      <4>1. ValAt(m)' = Change(t)
        BY <1>4, <2>3, <3>4, Zenon
      <4>2. Awaited(u) \subseteq done
        <5>1. u \in Threads => Change(u) \in Changes
          BY <1>0, <2>3, ChangeIs, Zenon
        <5> QED
          BY <1>0, <1>6, <5>1, Zenon DEF Ordered, Awaited, Agents
      <4> QED
        BY <1>3, <4>1, <4>2, Zenon
    <3> QED
      BY <3>3, <3>4, Zenon
  <2>4. Foreseen(u)'
    BY <1>1, <2>1, <2>3, Zenon DEF Foreseen
  <2> QED
    BY <2>2, <2>4, Zenon DEF Drains
<1>7. Drains(t)'
  <2>1. pc'[t] \notin {"next", "free", "advance"}
    BY Zenon
  <2> QED
    BY <2>1, Zenon DEF Drains, Draining, Foreseen
<1>8. \A c : IsApplied(c)' <=> IsApplied(c)
  BY Zenon DEF IsApplied
<1>9. /\ \A c : IsApplied(c) => c \in done
      /\ \A n \in Slots : Published(n) => ValAt(n) \in done /\ ~IsApplied(ValAt(n))
      /\ \A m, n \in Slots : Published(m) /\ Published(n) /\ ValAt(m) = ValAt(n) => m = n
      /\ Freed => /\ val[lock] \in done /\ ~IsApplied(val[lock])
                  /\ \A n \in Slots : Published(n) => ValAt(n) # val[lock]
      /\ \A c \in done :
           IsApplied(c) \/ (Freed /\ c = val[lock]) \/ \E n \in Slots : Published(n) /\ ValAt(n) = c
  <2>1. Kept
    BY <1>0, Zenon
  <2>2. ASSUME NEW c, IsApplied(c)
        PROVE  c \in done
    <3>1. \A i \in DOMAIN applied : applied[i] \in done
      BY <2>1, Zenon DEF Kept
    <3>2. PICK i \in DOMAIN applied : applied[i] = c
      BY <2>2, Zenon DEF IsApplied
    <3> QED
      BY <3>1, <3>2, Zenon
  <2> QED
    BY <2>1, <2>2, Zenon DEF Kept
<1>10. Kept'
  <2>1. \A i \in DOMAIN applied' : applied'[i] \in done'
    <3>1. \A i \in DOMAIN applied : applied[i] \in done
      BY <1>0, Zenon DEF Kept
    <3> QED
      BY <1>3, <3>1, Zenon
  <2>2. ASSUME NEW n \in Slots, Published(n)'
        PROVE  ValAt(n)' \in done' /\ ~IsApplied(ValAt(n)')
    <3>1. CASE n = k
      <4>1. new /\ ValAt(n)' = Change(t) /\ Change(t) \in done'
        BY <1>4, <2>2, <3>1, Zenon
      <4>2. ~IsApplied(Change(t))
        BY <1>3, <1>9, Zenon
      <4> QED
        BY <4>1, <4>2, Zenon
    <3>2. CASE n # k
      <4>1. Published(n) /\ ValAt(n)' = ValAt(n)
        BY <1>4, <2>2, <3>2, Zenon
      <4>2. ValAt(n) \in done /\ ~IsApplied(ValAt(n))
        BY <1>9, <4>1, Zenon
      <4> QED
        BY <1>3, <4>1, <4>2, Zenon
    <3> QED
      BY <3>1, <3>2, Zenon
  <2>3. ASSUME NEW m \in Slots, Published(m)'
        PROVE  /\ m = k => ValAt(m)' \notin done
               /\ m # k => Published(m) /\ ValAt(m)' = ValAt(m) /\ ValAt(m)' \in done
    <3>1. CASE m = k
      <4>1. new
        BY <1>4, <2>3, <3>1, Zenon
      <4> QED
        BY <1>3, <1>4, <3>1, <4>1, Zenon
    <3>2. CASE m # k
      <4>1. Published(m) /\ ValAt(m)' = ValAt(m)
        BY <1>4, <2>3, <3>2, Zenon
      <4> QED
        BY <1>9, <3>2, <4>1, ZenonT(30)
    <3> QED
      BY <3>1, <3>2, Zenon
  <2>4. ASSUME NEW m \in Slots, NEW n \in Slots, Published(m)', Published(n)', ValAt(m)' = ValAt(n)'
        PROVE  m = n
    <3>1. CASE m # k /\ n # k
      BY <1>9, <2>3, <2>4, <3>1, Zenon
    <3>2. CASE m = k \/ n = k
      BY <2>3, <2>4, <3>2, Zenon
    <3> QED
      BY <3>1, <3>2, Zenon
  <2>5. ASSUME Freed
        PROVE  /\ val[lock] \in done' /\ ~IsApplied(val[lock])
               /\ \A n \in Slots : Published(n)' => ValAt(n)' # val[lock]
    <3>1. /\ val[lock] \in done /\ ~IsApplied(val[lock])
          /\ \A n \in Slots : Published(n) => ValAt(n) # val[lock]
      BY <1>9, <2>5, Zenon
    <3> QED
      BY <1>3, <2>3, <3>1, Zenon
  <2>6. ASSUME NEW c \in done'
        PROVE  IsApplied(c) \/ (Freed /\ c = val[lock]) \/ \E n \in Slots : Published(n)' /\ ValAt(n)' = c
    <3>1. CASE c \in done
      BY <1>4, <1>9, <3>1, Zenon
    <3>2. CASE c \notin done
      <4>0. CASE ~new
        BY <1>4, <2>6, <3>2, <4>0, Zenon
      <4>1. CASE new
        <5>1. done' = done \cup {Change(t)} /\ ValAt(k)' = Change(t)
          BY <1>4, <4>1, Zenon
        <5>2. c = Change(t)
          BY <2>6, <3>2, <5>1, Zenon
        <5> QED
          BY <4>1, <5>1, <5>2, Zenon DEF new
      <4> QED
        BY <4>0, <4>1, Zenon
    <3> QED
      BY <3>1, <3>2, Zenon
  <2> QED
    BY <1>1, <1>8, <2>1, <2>2, <2>4, <2>5, <2>6, Zenon DEF Kept
<1>11. Ordered'
  <2>1. \A c \in Changes : prior[c] \subseteq done /\ Change(t) \notin prior[c]
    BY <1>0, <1>3, Zenon DEF Ordered
  <2>2. ASSUME NEW m \in Slots, NEW n \in Slots, Published(m)', Published(n)', n <= m
        PROVE  ValAt(m)' \notin prior[ValAt(n)']
    <3>1. CASE m # k /\ n # k
      BY <1>0, <1>4, <2>2, <3>1, Zenon DEF Ordered
    <3>2. CASE m = k
      <4>0. done \subseteq Changes
        BY <1>0, Zenon DEF Typed
      <4>1. ValAt(n)' \in Changes
        <5>1. CASE n = k
          <6>1. new
            BY <1>4, <2>2, <5>1, Zenon
          <6> QED
            BY <1>3, <1>4, <5>1, <6>1, Zenon
        <5>2. CASE n # k
          <6>1. Published(n) /\ ValAt(n)' = ValAt(n)
            BY <1>4, <2>2, <5>2, Zenon
          <6>2. ValAt(n) \in done
            BY <1>9, <6>1, Zenon
          <6> QED
            BY <4>0, <6>1, <6>2, Zenon
        <5> QED
          BY <5>1, <5>2, Zenon
      <4> QED
        BY <1>4, <2>1, <2>2, <3>2, <4>1, Zenon
    <3>3. CASE m # k /\ n = k
      BY <1>0, <1>4, <2>2, <3>3, Zenon DEF Pushes, Behind
    <3> QED
      BY <3>1, <3>2, <3>3, Zenon
  <2> QED
    BY <1>0, <1>1, <1>3, <1>8, <2>2, Zenon DEF Ordered
<1>12. AppliedInOrder'
  <2>1. applied' = applied /\ prior' = prior /\ AppliedInOrder
    BY <1>0, Zenon
  <2> QED
    BY <2>1 DEF AppliedInOrder
<1> QED
  BY <1>0, <1>5, <1>6, <1>7, <1>10, <1>11, <1>12, Zenon DEF IInv

(* What a push has loaded stays good as long as tail stays. *)
LEMMA StillLoaded ==
  ASSUME IInv, NEW t \in Agents, Steps(t), tail' = tail, Queued < CAPACITY => Queued' < CAPACITY
  PROVE  \A u \in Threads \ {t} : Loaded(u)'
<1>1. ASSUME NEW u \in Threads \ {t}
      PROVE  Loaded(u)'
  <2>1. pc'[u] = pc[u] /\ pos'[u] = pos[u] /\ Loaded(u)
    BY <1>1, AgentSets, TypeStep, Zenon DEF Sole, IInv, Pushes
  <2>2. \A n \in 0 .. Cardinality(Past) : n \in 0 .. Cardinality(Past')
    BY PastStep, Zenon
  <2> QED
    BY <2>1, <2>2, Zenon DEF Loaded
<1> QED
  BY <1>1, Zenon

(* Other pushes that write have other tickets. *)
LEMMA OtherTickets ==
  ASSUME IInv, NEW t \in Threads, Writing(t), NEW k \in Slots, pos[t] = At(k)
  PROVE  \A u \in Threads \ {t} : Writing(u) => pos[u] # At(k)
  BY Zenon DEF IInv, OwnTickets

(* push writes the slot of its ticket. *)
LEMMA WriteStep ==
  ASSUME IInv, NEW t \in Threads, PushWrite(t)
  PROVE  IInv'
<1>0. /\ t \in Agents /\ Steps(t) /\ t \in DOMAIN pc /\ Typed /\ Typed' /\ Ring /\ Pushes(t)
  BY AgentSets, TypeStep, Zenon DEF IInv, Steps, Push, Typed
<1>1. /\ pc[t] = "write" /\ pc'[t] = "publish" /\ UNCHANGED <<seq, tail, head, pos, made, applied, done, prior, before>>
      /\ value' = [value EXCEPT ![Slot(pos[t])] = Change(t)]
  BY <1>0, Zenon DEF PushWrite, Goto, local, history
<1>2. First' = First
  BY <1>0, <1>1, StillFreed, Zenon
<1>3. Queued' = Queued /\ \A n : At(n)' = At(n) /\ SeqAt(n)' = SeqAt(n)
  BY <1>1, <1>2, Zenon DEF Queued, At, SeqAt
<1>4. Writing(t) /\ Writing(t)' /\ Change(t)' = Change(t)
  BY <1>1, Zenon DEF Writing, Change
<1>5. PICK k \in Slots : k < Queued /\ pos[t] = At(k) /\ SeqAt(k) = At(k)
  BY <1>0, <1>4, Zenon DEF Pushes, Claimed
<1>6. \A m \in Slots : Published(m)' <=> Published(m)
  BY <1>3, Zenon DEF Published
<1>7. ~Published(k)
  BY <1>0, <1>5, Unpublished, Zenon
<1>8. /\ ValAt(k)' = Change(t)
      /\ \A m \in Slots \ {k} : ValAt(m)' = ValAt(m)
  <2>1. /\ \A m \in Slots : Slot(At(m)) \in Slots
        /\ \A m \in Slots \ {k} : Slot(At(m)) # Slot(At(k))
    BY <1>0, <1>5, View, SlotNumbers, Zenon
  <2>2. DOMAIN value = Slots
    BY <1>0, Zenon DEF Typed
  <2>3. /\ value'[Slot(At(k))] = Change(t)
        /\ \A m \in Slots \ {k} : value'[Slot(At(m))] = value[Slot(At(m))]
    BY <1>1, <1>5, <2>1, <2>2, Zenon
  <2> QED
    BY <1>3, <2>3, Zenon DEF ValAt
<1>9. Ring'
  BY <1>0, <1>3, <1>6, Zenon DEF Ring
<1>10. Pushes(t)'
  <2>1. Claimed(t)'
    BY <1>1, <1>3, <1>4, <1>5, <1>8, Zenon DEF Claimed
  <2>2. Loaded(t)'
    BY <1>1, Zenon DEF Loaded
  <2>3. ASSUME NEW m \in Slots, NEW n \in Slots, pos[t] = At(n), n <= m, Published(m)
        PROVE  ValAt(m)' \notin prior[Change(t)]
    <3>1. m # k /\ ValAt(m)' = ValAt(m)
      BY <1>7, <1>8, <2>3, Zenon
    <3> QED
      BY <1>0, <1>4, <2>3, <3>1, Zenon DEF Pushes, Behind
  <2>4. Behind(t)'
    BY <1>1, <1>3, <1>4, <1>6, <2>3, Zenon DEF Behind
  <2> QED
    BY <2>1, <2>2, <2>4, Zenon DEF Pushes
<1>11. OwnTickets'
  BY <1>0, <1>1, <1>4, StillOwn, Zenon
<1>12. \A u \in Threads \ {t} : Loaded(u)'
  BY <1>0, <1>1, <1>3, StillLoaded, Zenon
<1>13. \A u \in Threads \ {t} : Writing(u) => pos[u] # At(k)
  BY <1>4, <1>5, OtherTickets, Zenon
<1> QED
  BY <1>0, <1>1, <1>3, <1>6, <1>7, <1>8, <1>9, <1>10, <1>11, <1>12, <1>13, PushKeeps, Zenon

(* push publishes its ticket: the change is done and queued. *)
LEMMA PublishStep ==
  ASSUME IInv, NEW t \in Threads, PushPublish(t)
  PROVE  IInv'
<1>0. /\ t \in Agents /\ Steps(t) /\ t \in DOMAIN pc /\ Typed /\ Typed' /\ Ring /\ Pushes(t)
  BY AgentSets, TypeStep, Zenon DEF IInv, Steps, Push, Typed
<1>1. /\ pc[t] = "publish" /\ pc'[t] = "idle" /\ UNCHANGED <<value, tail, head, made, applied, prior, before>>
      /\ seq' = [seq EXCEPT ![Slot(pos[t])] = Plus(pos[t], 1)]
      /\ done' = done \cup {Change(t)}
  BY <1>0, Zenon DEF PushPublish, Goto, Returned
<1>2. First' = First
  BY <1>0, <1>1, StillFreed, Zenon
<1>3. Queued' = Queued /\ \A n : At(n)' = At(n) /\ ValAt(n)' = ValAt(n)
  BY <1>1, <1>2, Zenon DEF Queued, At, ValAt
<1>4. Writing(t) /\ ~Writing(t)'
  BY <1>1, Zenon DEF Writing
<1>5. PICK k \in Slots : k < Queued /\ pos[t] = At(k) /\ SeqAt(k) = At(k) /\ ValAt(k) = Change(t)
  BY <1>0, <1>1, <1>4, Zenon DEF Pushes, Claimed
<1>6. ~Published(k)
  BY <1>0, <1>5, Unpublished, Zenon
<1>7. Plus(pos[t], 1) = At(k + 1)
  <2>1. k \in Nat /\ k + 1 <= Wrap /\ First \in Tickets
    BY <1>0, View, SlotNumbers, Zenon
  <2> QED
    BY <1>5, <2>1, PlusOne, Zenon DEF At
<1>8. /\ SeqAt(k)' = At(k + 1)
      /\ \A m \in Slots \ {k} : SeqAt(m)' = SeqAt(m)
  <2>1. /\ \A m \in Slots : Slot(At(m)) \in Slots
        /\ \A m \in Slots \ {k} : Slot(At(m)) # Slot(At(k))
    BY <1>0, <1>5, View, SlotNumbers, Zenon
  <2>2. DOMAIN seq = Slots
    BY <1>0, Zenon DEF Typed
  <2>3. /\ seq'[Slot(At(k))] = At(k + 1)
        /\ \A m \in Slots \ {k} : seq'[Slot(At(m))] = seq[Slot(At(m))]
    BY <1>1, <1>5, <1>7, <2>1, <2>2, Zenon
  <2> QED
    BY <1>3, <2>3, Zenon DEF SeqAt
<1>9. Published(k)' /\ \A m \in Slots \ {k} : Published(m)' <=> Published(m)
  BY <1>3, <1>5, <1>8, Zenon DEF Published
<1>10. Ring'
  BY <1>0, <1>3, <1>8, <1>9, Zenon DEF Ring
<1>11. Pushes(t)'
  BY <1>1, <1>4, Zenon DEF Pushes, Claimed, Loaded, Behind
<1>12. OwnTickets'
  BY <1>0, <1>4, StillOwn, Zenon
<1>13. \A u \in Threads \ {t} : Loaded(u)'
  BY <1>0, <1>1, <1>3, StillLoaded, Zenon
<1>14. \A u \in Threads \ {t} : Writing(u) => pos[u] # At(k)
  BY <1>4, <1>5, OtherTickets, Zenon
<1> QED
  BY <1>0, <1>1, <1>3, <1>4, <1>5, <1>6, <1>8, <1>9, <1>10, <1>11, <1>12, <1>13, <1>14, PushKeeps, Zenon

(* A claim adds its change to those that claim no more. *)
LEMMA ClaimCounts ==
  ASSUME IInv, NEW t \in Threads, PushClaim(t)
  PROVE  Cardinality(Past') = Cardinality(Past) + 1
<1>0. t \in Agents /\ Steps(t) /\ t \in DOMAIN pc /\ Typed /\ Placed /\ Sole(t)
  BY AgentSets, TypeStep, Zenon DEF IInv, Steps, Push, Typed
<1>1. pc[t] = "claim" /\ pc'[t] = "write" /\ made' = made /\ done' = done
  BY <1>0, Zenon DEF PushClaim, Goto, history
<1>2. /\ ~Writing(t) /\ Writing(t)'
      /\ \A u \in Threads \ {t} : Writing(u)' <=> Writing(u)
      /\ \A u : Change(u)' = Change(u)
  BY <1>0, <1>1, AgentSets, Zenon DEF Writing, Sole, Change
<1>3. Change(t) \notin Past
  <2>1. Change(t) \notin done /\ Change(t)[1] = t
    BY <1>0, <1>1, ChangeIs, Zenon
  <2>2. \A u \in Threads : Writing(u) => Change(u)[1] = u
    BY <1>0, ChangeIs, Zenon DEF Writing
  <2> QED
    BY <1>2, <2>1, <2>2, Zenon DEF Past
<1>4. Past' = Past \cup {Change(t)}
  BY <1>1, <1>2 DEF Past
<1>5. IsFiniteSet(Past)
  BY <1>0, PastBound, Zenon
<1> QED
  BY <1>3, <1>4, <1>5, FS_AddElement, Zenon

(* push claims the ticket tail, whose slot is free. *)
LEMMA ClaimStep ==
  ASSUME IInv, NEW t \in Threads, PushClaim(t)
  PROVE  IInv'
<1>k. PICK k : k = Queued
  BY Zenon
<1>0. /\ t \in Agents /\ Steps(t) /\ t \in DOMAIN pc /\ Typed /\ Placed /\ Typed' /\ Ring /\ Pushes(t) /\ Sole(t)
  BY AgentSets, TypeStep, Zenon DEF IInv, Steps, Push, Typed
<1>1. /\ pc[t] = "claim" /\ pc'[t] = "write" /\ UNCHANGED <<seq, value, head, pos, made, applied, done, prior, before>>
      /\ pos[t] = tail /\ tail' = Plus(tail, 1)
  BY <1>0, Zenon DEF PushClaim, Goto, local, history
<1>2. First' = First
  BY <1>0, <1>1, StillFreed, Zenon
<1>3. \A n : At(n)' = At(n) /\ SeqAt(n)' = SeqAt(n) /\ ValAt(n)' = ValAt(n)
  BY <1>1, <1>2, Zenon DEF At, SeqAt, ValAt
<1>4. k < CAPACITY
  BY <1>k, <1>0, <1>1, Zenon DEF Pushes, Loaded
<1>5. First \in Tickets /\ k \in Nat /\ tail = At(k)
  BY <1>k, <1>0, View, Zenon
<1>6. k \in Slots /\ k + 1 \in Tickets /\ k + 1 <= Wrap /\ k + 1 <= CAPACITY /\ ~(k < k)
  BY <1>4, <1>5, Sizes, SMT DEF Slots, Tickets
<1>7. tail' = At(k + 1)
  BY <1>1, <1>5, <1>6, PlusOne, Zenon DEF At
<1>8. Queued' = k + 1
  BY <1>2, <1>5, <1>6, <1>7, Distance, Zenon DEF Queued, At
<1>9. SeqAt(k) = At(k)
  BY <1>k, <1>0, <1>6, Zenon DEF Ring, Published
<1>10. ~Published(k) /\ ~Published(k)'
  <2>1. At(k) # At(k + 1)
    BY <1>0, <1>6, View, SlotNumbers, Zenon
  <2>2. ~Published(k)'
    BY <1>3, <1>9, <2>1, Zenon DEF Published
  <2> QED
    BY <1>0, <1>6, <1>9, <2>2, Unpublished, Zenon
<1>11. \A m \in Slots \ {k} : Published(m)' <=> Published(m)
  <2>1. \A m \in Slots \ {k} : m < k + 1 <=> m < k
    BY <1>5, SMT DEF Slots
  <2> QED
    BY <1>k, <1>3, <1>8, <2>1, Zenon DEF Published
<1>12. Ring'
  <2>1. ASSUME NEW n \in Slots
        PROVE  SeqAt(n)' = At(n)' \/ Published(n)'
    <3>1. CASE n = k
      BY <1>3, <1>9, <3>1, Zenon
    <3>2. CASE n # k
      BY <1>0, <1>3, <1>11, <2>1, <3>2, Zenon DEF Ring
    <3> QED
      BY <3>1, <3>2, Zenon
  <2> QED
    BY <1>6, <1>8, <2>1, Zenon DEF Ring
<1>13. Pushes(t)'
  <2>1. k < Queued'
    BY <1>5, <1>8, SMT
  <2>2. Claimed(t)'
    BY <1>1, <1>3, <1>5, <1>6, <1>9, <2>1, Zenon DEF Claimed, Writing
  <2>3. Loaded(t)'
    BY <1>1, Zenon DEF Loaded
  <2>4. ASSUME NEW m \in Slots, NEW n \in Slots, pos[t] = At(n), n <= m, Published(m)'
        PROVE  FALSE
    <3>1. n = k
      BY <1>0, <1>1, <1>5, <1>6, <2>4, View, SlotNumbers, Zenon
    <3>2. m # k /\ m < k
      BY <1>k, <1>10, <1>11, <2>4, Zenon DEF Published
    <3> QED
      BY <1>5, <2>4, <3>1, <3>2, SMT DEF Slots
  <2>5. Behind(t)'
    BY <1>1, <1>3, <2>4, Zenon DEF Behind
  <2> QED
    BY <2>2, <2>3, <2>5, Zenon DEF Pushes
<1>14. \A u \in Threads \ {t} : Writing(u) => pos[u] # At(k)
  <2>1. ASSUME NEW u \in Threads \ {t}, Writing(u), pos[u] = At(k)
        PROVE  FALSE
    <3>1. PICK n \in Slots : n < Queued /\ pos[u] = At(n)
      BY <2>1, Zenon DEF IInv, Pushes, Claimed
    <3> QED
      BY <1>k, <1>0, <1>6, <2>1, <3>1, View, SlotNumbers, Zenon
  <2> QED
    BY <2>1, Zenon
<1>15. OwnTickets'
  <2>1. /\ \A u \in Threads \ {t} : Writing(u)' => Writing(u)
        /\ OwnTickets /\ pos[t] = At(k)
    BY <1>0, <1>1, <1>5, AgentSets, Zenon DEF Sole, Writing, IInv
  <2>2. ASSUME NEW u \in Threads, NEW v \in Threads, Writing(u)', Writing(v)', pos'[u] = pos'[v]
        PROVE  u = v
    BY <1>1, <1>14, <2>1, <2>2, Zenon DEF OwnTickets
  <2> QED
    BY <2>2, Zenon DEF OwnTickets
<1>16. ASSUME NEW u \in Threads \ {t}
       PROVE  Loaded(u)'
  <2>1. u \in Agents /\ pc'[u] = pc[u] /\ pos'[u] = pos[u] /\ Loaded(u) /\ pos[u] \in Tickets
    BY <1>0, <1>16, AgentSets, Zenon DEF Sole, IInv, Pushes, Typed
  <2>2. ASSUME pc[u] \in {"compare", "claim"}
        PROVE  /\ \E d \in 0 .. Cardinality(Past') : Plus(pos[u], d) = tail'
               /\ pos[u] # tail'
    <3>1. PICK d \in 0 .. Cardinality(Past) : Plus(pos[u], d) = tail
      BY <2>1, <2>2, Zenon DEF Loaded
    <3>2. /\ Cardinality(Past') = Cardinality(Past) + 1
          /\ Cardinality(Past') \in 0 .. Most
      BY <1>0, ClaimCounts, PastStep, Zenon
    <3>3. Cardinality(Past) \in 0 .. Most
      BY <1>0, PastBound, Zenon
    <3>4. /\ d \in Nat /\ d + 1 <= Wrap /\ d + 1 \in 0 .. Cardinality(Past')
          /\ d + 1 \in Tickets /\ 0 \in Tickets /\ d + 1 # 0
      BY <3>1, <3>2, <3>3, Sizes, SMT DEF Tickets
    <3>5. Plus(pos[u], d + 1) = tail'
      BY <1>1, <2>1, <3>1, <3>4, PlusOne, Zenon
    <3>6. pos[u] # tail'
      <4>1. /\ Plus(pos[u], 0) = pos[u]
            /\ \A m, n \in Tickets : Plus(pos[u], m) = Plus(pos[u], n) => m = n
        BY <2>1, PlusFacts, Zenon
      <4> QED
        BY <3>4, <3>5, <4>1, Zenon
    <3> QED
      BY <3>4, <3>5, <3>6, Zenon
  <2> QED
    BY <2>1, <2>2, Zenon DEF Loaded
<1>17. Queued' = Queued \/ Queued' = Queued + 1
  BY <1>k, <1>8, Zenon
<1> QED
  BY <1>0, <1>1, <1>3, <1>6, <1>10, <1>11, <1>12, <1>13, <1>14, <1>15, <1>16, <1>17, PushKeeps, Zenon

-----------------------------------------------------------------------------
(* The drain frees the first slot: every ticket of the queue moves up by    *)
(* one, and the slot is the last of the next lap.                           *)

(* The queue, seen from the ticket after. *)
LEMMA FreeView ==
  ASSUME IInv, NEW t \in Agents, DrainFree(t)
  PROVE  /\ lock = t /\ ~Freed /\ Freed' /\ Published(0) /\ val[t] = ValAt(0)
         /\ 0 < Queued /\ Queued' = Queued - 1
         /\ \A n \in Nat : n + 1 <= Wrap => At(n)' = At(n + 1)
         /\ \A n \in Slots : n + 1 \in Slots =>
              /\ SeqAt(n)' = SeqAt(n + 1) /\ ValAt(n)' = ValAt(n + 1)
              /\ Published(n)' <=> Published(n + 1)
         /\ \A n \in Slots : n + 1 \notin Slots => SeqAt(n)' = At(n)' /\ ~Published(n)'
<1>0. /\ Steps(t) /\ t \in DOMAIN pc /\ Typed /\ Typed' /\ Ring /\ Drains(t)
  BY TypeStep, Zenon DEF IInv, Steps, Drain, Typed
<1>1. /\ pc[t] = "free" /\ pc'[t] = "advance" /\ UNCHANGED <<value, tail, head, lock, pos, end, val>>
      /\ seq' = [seq EXCEPT ![Slot(pos[t])] = Plus(pos[t], CAPACITY)]
  BY <1>0, Zenon DEF DrainFree, Goto, local
<1>2. lock = t /\ ~Freed /\ First = head /\ pos[t] = head /\ Published(0) /\ val[t] = ValAt(0)
  BY <1>0, <1>1, AtHead, Zenon DEF Holding, Drains, Draining
<1>3. Freed' /\ First' = Plus(First, 1) /\ pos[t] = First
  BY <1>1, <1>2, Zenon DEF Freed, First
<1>4. /\ First \in Tickets /\ Queued \in Nat /\ Queued \in Tickets /\ tail = At(Queued) /\ At(0) = First
      /\ \A n \in Nat : n <= Wrap => At(n) \in Tickets /\ Slot(At(n)) \in Slots
      /\ \A m, n \in Tickets : At(m) = At(n) => m = n
      /\ \A m, n \in Slots : Slot(At(m)) = Slot(At(n)) => m = n
  BY <1>0, View
<1>5. 0 < Queued /\ Queued <= CAPACITY
  BY <1>0, <1>2, Zenon DEF Published, Ring
<1>6. ASSUME NEW n \in Nat, n + 1 <= Wrap
      PROVE  At(n)' = At(n + 1)
  <2>1. 1 \in Nat /\ 1 + n <= Wrap /\ 1 + n = n + 1
    BY <1>6, Sizes, SMT
  <2>2. \A m, k \in Nat : m + k <= Wrap => Plus(Plus(First, m), k) = Plus(First, m + k)
    BY <1>4, PlusFacts, Zenon
  <2>3. Plus(Plus(First, 1), n) = Plus(First, 1 + n)
    BY <1>6, <2>1, <2>2, Zenon
  <2> QED
    BY <1>3, <2>1, <2>3, Zenon DEF At
<1>7. Queued' = Queued - 1
  <2>1. Queued - 1 \in Nat /\ (Queued - 1) + 1 = Queued /\ (Queued - 1) + 1 <= Wrap /\ Queued - 1 \in Tickets
    BY <1>4, <1>5, Sizes, SMT DEF Tickets
  <2>2. PICK q : q = Queued - 1
    BY Zenon
  <2>3. tail = At(q)'
    BY <1>4, <1>6, <2>1, <2>2, Zenon
  <2>4. First' \in Tickets
    <3>1. 1 \in 0 .. Wrap
      BY Sizes, SMT
    <3> QED
      BY <1>3, <1>4, <3>1, PlusIs, Zenon
  <2>5. tail' = Plus(First', q) /\ q \in Tickets
    BY <1>1, <2>1, <2>2, <2>3, Zenon DEF At
  <2>6. (Plus(First', q) - First') % Wrap = q
    BY <2>4, <2>5, Distance, Zenon
  <2> QED
    BY <2>2, <2>5, <2>6, Zenon DEF Queued
<1>8. /\ DOMAIN seq = Slots /\ Slot(First) \in Slots
      /\ seq' = [seq EXCEPT ![Slot(First)] = Plus(First, CAPACITY)]
  BY <1>0, <1>1, <1>3, <1>4, SlotFacts, Zenon DEF Typed
<1>9. ASSUME NEW n \in Slots, n + 1 \in Slots
      PROVE  /\ SeqAt(n)' = SeqAt(n + 1) /\ ValAt(n)' = ValAt(n + 1)
             /\ Published(n)' <=> Published(n + 1)
  <2>1. At(n)' = At(n + 1)
    BY <1>6, <1>9, SlotNumbers, Zenon
  <2>2. At(n + 1)' = At((n + 1) + 1)
    BY <1>6, <1>9, SlotNumbers, Zenon
  <2>3. n + 1 # 0
    BY <1>9, SMT DEF Slots
  <2>4. Slot(At(n + 1)) \in Slots /\ Slot(At(n + 1)) # Slot(First)
    BY <1>4, <1>9, <2>3, SlotNumbers, Back, Zenon
  <2>5. seq'[Slot(At(n + 1))] = seq[Slot(At(n + 1))]
    BY <1>8, <2>4, Zenon
  <2>6. SeqAt(n)' = SeqAt(n + 1) /\ ValAt(n)' = ValAt(n + 1)
    BY <1>1, <2>1, <2>5, Zenon DEF SeqAt, ValAt
  <2>7. n < Queued - 1 <=> n + 1 < Queued
    BY <1>4, SMT DEF Slots
  <2> QED
    BY <1>7, <2>2, <2>6, <2>7, Zenon DEF Published
<1>10. ASSUME NEW n \in Slots, n + 1 \notin Slots
       PROVE  SeqAt(n)' = At(n)' /\ ~Published(n)'
  <2>1. n + 1 = CAPACITY
    BY <1>10, Back, Zenon
  <2>2. At(n)' = Plus(First, CAPACITY)
    BY <1>6, <1>10, <2>1, SlotNumbers, Zenon DEF At
  <2>3. Slot(Plus(First, CAPACITY)) = Slot(First)
    BY <1>4, SlotFacts, Zenon
  <2>4. SeqAt(n)' = At(n)'
    BY <1>8, <2>2, <2>3, Zenon DEF SeqAt
  <2>5. ~(n < Queued - 1)
    BY <1>4, <1>5, <2>1, Sizes, SMT DEF Slots
  <2> QED
    BY <1>7, <2>4, <2>5, Zenon DEF Published
<1> QED
  BY <1>2, <1>3, <1>5, <1>6, <1>7, <1>9, <1>10, Zenon

(* drain gives the first slot to the next lap. *)
LEMMA FreeStep ==
  ASSUME IInv, NEW t \in Agents, DrainFree(t)
  PROVE  IInv'
<1>0. /\ Steps(t) /\ t \in DOMAIN pc /\ Typed /\ Placed /\ Typed' /\ Placed' /\ Ring /\ Kept /\ Ordered
      /\ AppliedInOrder /\ Sole(t) /\ Drains(t)
  BY TypeStep, PlaceStep, Zenon DEF IInv, Steps, Drain, Typed
<1>1. /\ pc[t] = "free" /\ pc'[t] = "advance" /\ UNCHANGED <<tail, head, lock, pos, end, val, made>>
      /\ UNCHANGED <<applied, done, prior, before>>
  BY <1>0, Zenon DEF DrainFree, Goto, local, history
<1>2. /\ lock = t /\ ~Freed /\ Freed' /\ Published(0) /\ val[t] = ValAt(0)
      /\ 0 < Queued /\ Queued' = Queued - 1
  BY FreeView
<1>3. \A n \in Nat : n + 1 <= Wrap => At(n)' = At(n + 1)
  BY FreeView, Zenon
<1>4. \A n \in Slots : n + 1 \in Slots =>
        /\ SeqAt(n)' = SeqAt(n + 1) /\ ValAt(n)' = ValAt(n + 1)
        /\ Published(n)' <=> Published(n + 1)
  BY FreeView, Zenon
<1>5. \A n \in Slots : n + 1 \notin Slots => SeqAt(n)' = At(n)' /\ ~Published(n)'
  BY FreeView, Zenon
<1>6. /\ Queued \in Nat
      /\ \A m, n \in Tickets : At(m) = At(n) => m = n
  BY <1>0, View, Zenon
<1>7. \A n \in Slots : n + 1 <= Wrap /\ n \in Nat /\ At(n)' = At(n + 1) /\ n + 1 \in Tickets /\ n \in Tickets
  BY <1>3, SlotNumbers, Zenon
<1>8. /\ \A n \in Slots : Published(n)' => n + 1 \in Slots /\ Published(n + 1) /\ ValAt(n)' = ValAt(n + 1)
      /\ \A n \in Slots : Published(n) /\ n # 0 => \E m \in Slots : m + 1 = n /\ Published(m)' /\ ValAt(m)' = ValAt(n)
  <2>1. ASSUME NEW n \in Slots, Published(n)'
        PROVE  n + 1 \in Slots /\ Published(n + 1) /\ ValAt(n)' = ValAt(n + 1)
    BY <1>4, <1>5, <2>1, Zenon
  <2>2. ASSUME NEW n \in Slots, Published(n), n # 0
        PROVE  \E m \in Slots : m + 1 = n /\ Published(m)' /\ ValAt(m)' = ValAt(n)
    <3>1. PICK m \in Slots : m + 1 = n
      BY <2>2, Back, Zenon
    <3> QED
      BY <1>4, <2>2, <3>1, Zenon
  <2> QED
    BY <2>1, <2>2, Zenon
<1>9. \A c : IsApplied(c)' <=> IsApplied(c)
  BY <1>1, Zenon DEF IsApplied
<1>10. Ring'
  <2>1. Queued' <= CAPACITY
    <3>1. Queued <= CAPACITY
      BY <1>0, Zenon DEF Ring
    <3> QED
      BY <1>2, <1>6, <3>1, Sizes, SMT
  <2>2. ASSUME NEW n \in Slots
        PROVE  SeqAt(n)' = At(n)' \/ Published(n)'
    <3>1. CASE n + 1 \in Slots
      <4>1. SeqAt(n + 1) = At(n + 1) \/ Published(n + 1)
        BY <1>0, <3>1, Zenon DEF Ring
      <4> QED
        BY <1>4, <1>7, <2>2, <3>1, <4>1, Zenon
    <3>2. CASE n + 1 \notin Slots
      BY <1>5, <2>2, <3>2, Zenon
    <3> QED
      BY <3>1, <3>2, Zenon
  <2> QED
    BY <2>1, <2>2, Zenon DEF Ring
<1>11. Queued < CAPACITY => Queued' < CAPACITY
  BY <1>2, <1>6, Sizes, SMT
<1>12. ASSUME NEW u \in Threads \ {t}
       PROVE  Pushes(u)'
  <2>1. /\ u \in Agents /\ pc'[u] = pc[u] /\ Change(u)' = Change(u)
        /\ Writing(u)' <=> Writing(u)
        /\ Claimed(u) /\ Behind(u)
    BY <1>0, <1>1, <1>12, AgentSets, Zenon DEF Sole, Change, Writing, IInv, Pushes
  <2>2. ASSUME Writing(u)
        PROVE  \E m \in Slots :
                 /\ m + 1 \in Slots /\ m + 1 < Queued /\ pos[u] = At(m + 1) /\ SeqAt(m + 1) = At(m + 1)
                 /\ pc[u] = "publish" => ValAt(m + 1) = Change(u)
    <3>1. PICK n \in Slots : /\ n < Queued /\ pos[u] = At(n) /\ SeqAt(n) = At(n)
                             /\ pc[u] = "publish" => ValAt(n) = Change(u)
      BY <2>1, <2>2, Zenon DEF Claimed
    <3>2. n # 0
      BY <1>0, <1>2, <3>1, Unpublished, Zenon
    <3>3. PICK m \in Slots : m + 1 = n
      BY <3>2, Back, Zenon
    <3> QED
      BY <3>1, <3>3, Zenon
  <2>3. Claimed(u)'
    <3>1. ASSUME Writing(u)
          PROVE  \E m \in Slots :
                   /\ m < Queued' /\ pos[u] = At(m)' /\ SeqAt(m)' = At(m)'
                   /\ pc[u] = "publish" => ValAt(m)' = Change(u)
      <4>1. PICK m \in Slots :
              /\ m + 1 \in Slots /\ m + 1 < Queued /\ pos[u] = At(m + 1) /\ SeqAt(m + 1) = At(m + 1)
              /\ pc[u] = "publish" => ValAt(m + 1) = Change(u)
        BY <2>2, <3>1, Zenon
      <4>2. m < Queued'
        BY <1>2, <1>6, <4>1, SMT DEF Slots
      <4> QED
        BY <1>4, <1>7, <4>1, <4>2, Zenon
    <3> QED
      BY <1>1, <2>1, <3>1, Zenon DEF Claimed
  <2>4. Loaded(u)'
    BY <1>0, <1>1, <1>11, <1>12, StillLoaded, Zenon
  <2>5. ASSUME NEW m \in Slots, NEW n \in Slots, Writing(u), pos[u] = At(n)', n <= m, Published(m)'
        PROVE  ValAt(m)' \notin prior[Change(u)]
    <3>1. PICK i \in Slots : i + 1 \in Slots /\ pos[u] = At(i + 1)
      BY <2>2, <2>5, Zenon
    <3>2. n + 1 \in Slots
      BY <1>6, <1>7, <2>5, <3>1, Zenon
    <3>3. n + 1 <= m + 1
      BY <2>5, SMT DEF Slots
    <3>4. m + 1 \in Slots /\ Published(m + 1) /\ ValAt(m)' = ValAt(m + 1)
      BY <1>8, <2>5, Zenon
    <3> QED
      BY <1>7, <2>1, <2>5, <3>2, <3>3, <3>4, Zenon DEF Behind
  <2>6. Behind(u)'
    BY <1>1, <2>1, <2>5, Zenon DEF Behind
  <2> QED
    BY <2>3, <2>4, <2>6, Zenon DEF Pushes
<1>13. t \in Threads => Pushes(t)'
  BY <1>1, Zenon DEF Pushes, Claimed, Loaded, Behind, Writing
<1>14. OwnTickets'
  <2>1. ~Writing(t)'
    BY <1>1, Zenon DEF Writing
  <2> QED
    BY <1>0, <2>1, StillOwn, Zenon
<1>15. ASSUME NEW u \in Agents \ {t}
       PROVE  Drains(u)'
  <2>1. pc'[u] \notin Holding
    BY <1>0, <1>1, <1>2, <1>15, Zenon DEF Placed
  <2> QED
    BY <2>1, Zenon DEF Drains, Draining, Foreseen, Holding
<1>16. Drains(t)'
  <2>1. pos[t] = head /\ pos[t] # end[t] /\ First = head
    BY <1>0, <1>1, AtHead, Zenon DEF Drains, Draining, Holding
  <2>2. PICK n \in 0 .. Queued : end[t] = At(n)
    BY <1>0, <1>1, Zenon DEF Drains, Draining
  <2>3. n # 0
    BY <1>0, <2>1, <2>2, View, Zenon
  <2>4. Queued <= CAPACITY
    BY <1>0, Zenon DEF Ring
  <2>5. /\ n - 1 \in 0 .. Queued' /\ n - 1 \in Nat /\ (n - 1) + 1 <= Wrap /\ (n - 1) + 1 = n
        /\ n \in Tickets /\ n - 1 \in Tickets
    BY <1>2, <1>6, <2>2, <2>3, <2>4, Sizes, SMT DEF Tickets
  <2>6. PICK i \in 0 .. Queued' : i \in Nat /\ i + 1 <= Wrap /\ i + 1 = n
    BY <2>5, Zenon
  <2>7. end[t] = At(i)'
    BY <1>3, <2>2, <2>6, Zenon
  <2>8. Draining(t)'
    BY <1>1, <2>1, <2>7, Zenon DEF Draining
  <2>9. ASSUME NEW m \in Slots, NEW j \in 0 .. Queued', end[t] = At(j)', j <= m, Published(m)'
        PROVE  ValAt(m)' \notin Awaited(t)
    <3>1. j \in Nat /\ j + 1 \in Tickets /\ j + 1 <= Wrap /\ j + 1 <= m + 1
      BY <1>2, <1>6, <2>4, <2>9, Sizes, SMT DEF Tickets, Slots
    <3>2. At(j)' = At(j + 1)
      BY <1>3, <3>1, Zenon
    <3>3. j + 1 = n
      BY <1>6, <2>2, <2>5, <2>9, <3>1, <3>2, Zenon
    <3>4. m + 1 \in Slots /\ Published(m + 1) /\ ValAt(m)' = ValAt(m + 1)
      BY <1>8, <2>9, Zenon
    <3> QED
      BY <1>0, <1>1, <2>2, <3>1, <3>3, <3>4, Zenon DEF Drains, Foreseen
  <2>10. Awaited(t)' = Awaited(t)
    BY <1>1, Zenon DEF Awaited, Change
  <2>11. Foreseen(t)'
    BY <1>1, <2>9, <2>10, Zenon DEF Foreseen
  <2> QED
    BY <2>8, <2>11, Zenon DEF Drains
<1>17. \A n \in Slots : n # n + 1 /\ n + 1 # 0 /\ 0 <= n
  BY SMT DEF Slots
<1>18. \A m, n \in Slots : m + 1 = n + 1 => m = n
  BY SMT DEF Slots
<1>19. Kept'
  <2>1. \A i \in DOMAIN applied : applied[i] \in done
    BY <1>0, Zenon DEF Kept
  <2>2. \A n \in Slots : Published(n) => ValAt(n) \in done /\ ~IsApplied(ValAt(n))
    BY <1>0, Zenon DEF Kept
  <2>3. \A m, n \in Slots : Published(m) /\ Published(n) /\ ValAt(m) = ValAt(n) => m = n
    BY <1>0, Zenon DEF Kept
  <2>4. \A c \in done : IsApplied(c) \/ \E n \in Slots : Published(n) /\ ValAt(n) = c
    BY <1>0, <1>2, Zenon DEF Kept
  <2>5. \A n \in Slots : Published(n)' => ValAt(n)' \in done /\ ~IsApplied(ValAt(n)')
    BY <1>8, <2>2, Zenon
  <2>6. ASSUME NEW m \in Slots, NEW n \in Slots, Published(m)', Published(n)', ValAt(m)' = ValAt(n)'
        PROVE  m = n
    <3>1. m + 1 = n + 1
      BY <1>8, <2>3, <2>6, Zenon
    <3> QED
      BY <1>18, <3>1, Zenon
  <2>7. val[t] \in done /\ ~IsApplied(val[t])
    BY <1>2, <2>2, Back, Zenon
  <2>8. ASSUME NEW n \in Slots, Published(n)'
        PROVE  ValAt(n)' # val[t]
    <3>1. n + 1 \in Slots /\ Published(n + 1) /\ ValAt(n)' = ValAt(n + 1) /\ n + 1 # 0
      BY <1>8, <1>17, <2>8, Zenon
    <3> QED
      BY <1>2, <2>3, <3>1, Back, Zenon
  <2>9. ASSUME NEW c \in done
        PROVE  IsApplied(c) \/ c = val[t] \/ \E n \in Slots : Published(n)' /\ ValAt(n)' = c
    <3>1. ASSUME NEW n \in Slots, Published(n), ValAt(n) = c, n # 0
          PROVE  \E m \in Slots : Published(m)' /\ ValAt(m)' = c
      BY <1>8, <3>1, Zenon
    <3>2. ASSUME NEW n \in Slots, Published(n), ValAt(n) = c, n = 0
          PROVE  c = val[t]
      BY <1>2, <3>2, Zenon
    <3> QED
      BY <2>4, <2>9, <3>1, <3>2, Zenon
  <2>10. lock' = t /\ val' = val /\ done' = done /\ applied' = applied
    BY <1>1, <1>2, Zenon
  <2> QED
    BY <1>2, <1>9, <2>1, <2>5, <2>6, <2>7, <2>8, <2>9, <2>10, Zenon DEF Kept
<1>20. Ordered'
  <2>1. \A c \in prior[val[t]] : IsApplied(c)
    <3>1. ASSUME NEW c \in prior[val[t]]
          PROVE  IsApplied(c)
      <4>0. 0 \in Slots /\ \A n \in Slots : 0 <= n
        BY <1>17, Back, Zenon
      <4>1. val[t] \in Changes
        <5>1. val[t] \in done
          BY <1>0, <1>2, <4>0, ZenonT(30) DEF Kept
        <5> QED
          BY <1>0, <5>1, Zenon DEF Typed
      <4>2. c \in done
        BY <1>0, <3>1, <4>1, Zenon DEF Ordered
      <4>3. \A n \in Slots : Published(n) => ValAt(n) # c
        <5>1. \A n \in Slots : Published(n) => ValAt(n) \notin prior[ValAt(0)]
          BY <1>0, <1>2, <4>0, Zenon DEF Ordered
        <5> QED
          BY <1>2, <3>1, <5>1, Zenon
      <4> QED
        BY <1>0, <1>2, <4>2, <4>3, Zenon DEF Kept
    <3> QED
      BY <3>1, Zenon
  <2>2. ASSUME NEW m \in Slots, NEW n \in Slots, Published(m)', Published(n)', n <= m
        PROVE  ValAt(m)' \notin prior[ValAt(n)']
    <3>1. n + 1 <= m + 1
      BY <2>2, SMT DEF Slots
    <3>2. /\ m + 1 \in Slots /\ Published(m + 1) /\ ValAt(m)' = ValAt(m + 1)
          /\ n + 1 \in Slots /\ Published(n + 1) /\ ValAt(n)' = ValAt(n + 1)
      BY <1>8, <2>2, Zenon
    <3> QED
      BY <1>0, <3>1, <3>2, Zenon DEF Ordered
  <2>3. lock' = t /\ val' = val /\ done' = done /\ prior' = prior /\ before' = before
    BY <1>1, <1>2, Zenon
  <2> QED
    BY <1>0, <1>9, <2>1, <2>2, <2>3, Zenon DEF Ordered
<1>21. AppliedInOrder'
  <2>1. applied' = applied /\ prior' = prior /\ AppliedInOrder
    BY <1>0, <1>1, Zenon
  <2> QED
    BY <2>1 DEF AppliedInOrder
<1> QED
  BY <1>0, <1>10, <1>12, <1>13, <1>14, <1>15, <1>16, <1>19, <1>20, <1>21, Zenon DEF IInv

-----------------------------------------------------------------------------
(* Initially the queue is empty and every slot is free for the next lap. *)
LEMMA InitInv ==
  ASSUME Init
  PROVE  IInv
<1>1. PICK start \in Starts :
        /\ tail = start /\ head = start
        /\ seq = [s \in Slots |-> CHOOSE a \in {Plus(start, n) : n \in Slots} : Slot(a) = s]
  BY Zenon DEF Init
<1>2. start \in Tickets
  BY PendingAssumption, Zenon DEF Tickets
<1>3. /\ value = [s \in Slots |-> None] /\ lock = None /\ pc = [t \in Agents |-> "idle"]
      /\ pos = [t \in Agents |-> 0] /\ end = [t \in Agents |-> 0] /\ val = [t \in Agents |-> None]
      /\ made = [t \in Threads |-> 0] /\ applied = <<>> /\ done = {}
      /\ prior = [c \in Changes |-> {}] /\ before = [t \in Readers |-> {}]
  BY Zenon DEF Init
<1>4. \A t \in Agents : pc[t] = "idle"
  BY <1>3, Zenon
<1>5. ASSUME NEW n \in Slots
      PROVE  seq[Slot(Plus(start, n))] = Plus(start, n)
  <2>1. Plus(start, n) \in Tickets
    <3>1. n \in 0 .. Wrap
      BY Sizes, SMT DEF Slots
    <3> QED
      BY <1>2, <3>1, PlusIs, Zenon
  <2>2. Slot(Plus(start, n)) \in Slots
    BY <2>1, SlotFacts, Zenon
  <2>3. \A a \in {Plus(start, m) : m \in Slots} :
          Slot(a) = Slot(Plus(start, n)) => a = Plus(start, n)
    <3>1. \A m, k \in Slots : Slot(Plus(start, m)) = Slot(Plus(start, k)) => m = k
      BY <1>2, SlotFacts, Zenon
    <3>2. ASSUME NEW m \in Slots, Slot(Plus(start, m)) = Slot(Plus(start, n))
          PROVE  Plus(start, m) = Plus(start, n)
      BY <3>1, <3>2, Zenon
    <3> QED
      BY <3>2, Zenon
  <2> DEFINE A == {Plus(start, m) : m \in Slots}
             P(a) == Slot(a) = Slot(Plus(start, n))
             b == CHOOSE a \in A : P(a)
  <2>4. Plus(start, n) \in A /\ P(Plus(start, n))
    BY Zenon
  <2>5. b \in A /\ P(b)
    <3> HIDE DEF A, P
    <3> QED
      BY <2>4, Zenon
  <2>6. seq[Slot(Plus(start, n))] = b
    BY <1>1, <2>2, Zenon
  <2> QED
    BY <2>3, <2>5, <2>6, Zenon
<1>6. seq \in [Slots -> Tickets]
  <2>1. ASSUME NEW s \in Slots
        PROVE  seq[s] \in Tickets
    <3>1. PICK n \in Slots : Slot(Plus(start, n)) = s
      BY <1>2, SlotFacts, Zenon
    <3>2. n \in 0 .. Wrap
      BY Sizes, SMT DEF Slots
    <3> QED
      BY <1>2, <1>5, <3>1, <3>2, PlusIs, Zenon
  <2> DEFINE F(s) == CHOOSE a \in {Plus(start, n) : n \in Slots} : Slot(a) = s
  <2>2. seq = [s \in Slots |-> F(s)]
    BY <1>1, Zenon
  <2> HIDE DEF F
  <2>3. \A s \in Slots : F(s) \in Tickets
    BY <2>1, <2>2, Zenon
  <2> QED
    BY <2>2, <2>3, Zenon
<1>7. Typed
  <2>1. 0 \in Tickets /\ 0 \in 0 .. MaxChanges
    BY Sizes, PendingAssumption, SMT DEF Tickets
  <2>2. applied \in Seq(Changes)
    BY <1>3, SMT
  <2>3. "idle" \in Places
    BY Zenon DEF Places
  <2>4. made \in [Threads -> 0 .. MaxChanges]
    BY <1>3, <2>1, Zenon
  <2>5. /\ pc \in [Agents -> Places] /\ pos \in [Agents -> Tickets] /\ end \in [Agents -> Tickets]
        /\ val \in [Agents -> Changes \cup {None}] /\ value \in [Slots -> Changes \cup {None}]
        /\ prior \in [Changes -> SUBSET Changes] /\ before \in [Readers -> SUBSET Changes]
    BY <1>3, <2>1, <2>3, Zenon
  <2> QED
    BY <1>1, <1>2, <1>3, <1>6, <2>2, <2>4, <2>5, Zenon DEF Typed
<1>8. Placed
  <2>1. \A t \in Agents : lock # t
    BY <1>3, AgentSets, Zenon
  <2>2. ASSUME NEW c \in Changes
        PROVE  ~(c[2] < made[c[1]]) /\ c[2] # made[c[1]]
    <3>1. c[1] \in Threads /\ c[2] \in 1 .. MaxChanges
      BY ChangeParts, Zenon
    <3>2. made[c[1]] = 0
      BY <1>3, <3>1, Zenon
    <3> QED
      BY <3>1, <3>2, PendingAssumption, SMT
  <2> QED
    BY <1>3, <1>4, <2>1, <2>2, AgentSets, Zenon DEF Placed, Holding
<1>9. ~Freed /\ First = start
  BY <1>1, <1>4, Zenon DEF Freed, First
<1>10. Queued = 0
  <2>1. 0 \in Tickets
    BY Sizes, SMT DEF Tickets
  <2>2. (Plus(start, 0) - start) % Wrap = 0 /\ Plus(start, 0) = start
    BY <1>2, <2>1, Distance, PlusFacts, Zenon
  <2> QED
    BY <1>1, <1>9, <2>2, Zenon DEF Queued
<1>11. \A n \in Slots : ~Published(n) /\ SeqAt(n) = At(n)
  <2>1. \A n \in Slots : ~(n < 0)
    BY SMT DEF Slots
  <2> QED
    BY <1>5, <1>9, <1>10, <2>1, Zenon DEF Published, SeqAt, At
<1>12. Ring
  <2>1. 0 <= CAPACITY
    BY Sizes, SMT
  <2> QED
    BY <1>10, <1>11, <2>1, Zenon DEF Ring
<1>13. /\ \A t \in Threads : ~Writing(t) /\ Pushes(t)
       /\ \A t \in Agents : Drains(t)
  BY <1>4, AgentSets, Zenon DEF Writing, Pushes, Claimed, Loaded, Behind, Drains, Draining, Foreseen
<1>14. DOMAIN applied = {}
  BY <1>3, SMT
<1>15. OwnTickets /\ Kept /\ AppliedInOrder
  BY <1>3, <1>9, <1>11, <1>13, <1>14, Zenon DEF OwnTickets, Kept, AppliedInOrder
<1>16. Ordered
  BY <1>3, <1>9, <1>11, Zenon DEF Ordered
<1> QED
  BY <1>7, <1>8, <1>12, <1>13, <1>15, <1>16, Zenon DEF IInv

(* Every step keeps the invariant. *)
LEMMA NextInv ==
  ASSUME IInv, [Next]_vars
  PROVE  IInv'
<1>1. CASE UNCHANGED vars
  <2>1. /\ UNCHANGED <<seq, value, tail, head, lock, pc, pos, end, val, made, applied, done, prior, before>>
    BY <1>1, Zenon DEF vars
  <2>2. First' = First /\ (Freed' <=> Freed)
    BY <2>1, Zenon DEF First, Freed
  <2>3. /\ Queued' = Queued
        /\ \A n : At(n)' = At(n) /\ SeqAt(n)' = SeqAt(n) /\ ValAt(n)' = ValAt(n)
        /\ \A n : Published(n)' <=> Published(n)
    BY <2>1, <2>2, SameView, Zenon DEF SameRing
  <2>4. /\ \A t : Change(t)' = Change(t) /\ (Writing(t)' <=> Writing(t)) /\ Awaited(t)' = Awaited(t)
        /\ \A c : IsApplied(c)' <=> IsApplied(c)
    BY <2>1, Zenon DEF Change, Writing, Awaited, IsApplied
  <2>5. Past' = Past
    BY <2>1, <2>4 DEF Past
  <2>6. Typed' /\ Placed'
    BY <2>1, Zenon DEF IInv, Typed, Placed
  <2>7. Ring'
    BY <2>3, Zenon DEF IInv, Ring
  <2>8. OwnTickets'
    BY <2>1, <2>4, Zenon DEF IInv, OwnTickets
  <2>9. Kept'
    <3>1. Kept
      BY Zenon DEF IInv
    <3> QED
      BY <2>1, <2>2, <2>3, <2>4, <3>1, Zenon DEF Kept
  <2>10. Ordered'
    <3>1. Ordered
      BY Zenon DEF IInv
    <3> QED
      BY <2>1, <2>2, <2>3, <2>4, <3>1, Zenon DEF Ordered
  <2>11. AppliedInOrder'
    BY <2>1 DEF IInv, AppliedInOrder
  <2>12. ASSUME NEW t \in Threads
         PROVE  Pushes(t)'
    <3>1. Claimed(t) /\ Loaded(t) /\ Behind(t)
      BY Zenon DEF IInv, Pushes
    <3>2. Claimed(t)'
      BY <2>1, <2>3, <2>4, <3>1, Zenon DEF Claimed
    <3>3. Loaded(t)'
      BY <2>1, <2>3, <2>5, <3>1, Zenon DEF Loaded
    <3>4. Behind(t)'
      BY <2>1, <2>3, <2>4, <3>1, Zenon DEF Behind
    <3> QED
      BY <3>2, <3>3, <3>4, Zenon DEF Pushes
  <2>13. ASSUME NEW t \in Agents
         PROVE  Drains(t)'
    <3>1. Draining(t) /\ Foreseen(t)
      BY Zenon DEF IInv, Drains
    <3>2. Draining(t)'
      BY <2>1, <2>3, <3>1, Zenon DEF Draining
    <3>3. Foreseen(t)'
      BY <2>1, <2>3, <2>4, <3>1, Zenon DEF Foreseen
    <3> QED
      BY <3>2, <3>3, Zenon DEF Drains
  <2> QED
    BY <2>6, <2>7, <2>8, <2>9, <2>10, <2>11, <2>12, <2>13, Zenon DEF IInv
<1>2. ASSUME NEW t \in Threads, Begin(t) \/ TryLock(t) \/ Push(t) \/ ApplyOwn(t)
      PROVE  IInv'
  <2>1. CASE Push(t)
    BY <2>1, ReloadStep, CompareStep, ClaimStep, WriteStep, PublishStep, Zenon DEF Push
  <2> QED
    BY <1>2, <2>1, BeginStep, TryStep, ApplyOwnStep, Zenon
<1>3. ASSUME NEW t \in Readers, Read(t) \/ ReadDone(t)
      PROVE  IInv'
  BY <1>3, ReadStep, ReadDoneStep, Zenon
<1>4. ASSUME NEW t \in Agents, Lock(t) \/ Drain(t)
      PROVE  IInv'
  BY <1>4, LockStep, DrainLoadStep, TakeStep, FreeStep, DrainApplyStep, Zenon DEF Drain
<1> QED
  BY <1>1, <1>2, <1>3, <1>4, Zenon DEF Next

(* The invariant holds throughout every behaviour of the queue. *)
THEOREM Inductive == Spec => []IInv
<1>1. Init => IInv
  BY InitInv
<1>2. IInv /\ [Next]_vars => IInv'
  BY NextInv
<1> QED
  BY <1>1, <1>2, PTL DEF Spec

-----------------------------------------------------------------------------
(* pending.rs, SAFETY of Sync: "a slot's value is written only by the push  *)
(* that claimed its ticket and read only by the drain", for every number of *)
(* threads, every capacity, and every ticket usize may have reached.        *)
THEOREM SlotsApart == Spec => []SlotsExclusive
<1>1. ASSUME IInv
      PROVE  SlotsExclusive
  <2>0. Typed /\ Placed /\ OwnTickets
    BY <1>1, Zenon DEF IInv
  <2>1. ASSUME NEW t \in Agents, Writing(t)
        PROVE  t \in Threads /\ \E n \in Slots : pos[t] = At(n) /\ SeqAt(n) = At(n)
    <3>1. t \in Threads
      BY <2>0, <2>1, Zenon DEF Agents, Placed, Holding, Writing
    <3> QED
      BY <1>1, <2>1, <3>1, Zenon DEF IInv, Pushes, Claimed
  <2>2. ASSUME NEW t \in Agents, NEW u \in Agents, t # u, Writing(t), Writing(u) \/ Taking(u)
        PROVE  Slot(pos[t]) # Slot(pos[u])
    <3>1. PICK n \in Slots : pos[t] = At(n) /\ SeqAt(n) = At(n)
      BY <2>1, <2>2, Zenon
    <3>2. CASE Writing(u)
      <4>1. PICK m \in Slots : pos[u] = At(m)
        BY <2>1, <3>2, Zenon
      <4>2. pos[t] # pos[u]
        BY <2>0, <2>1, <2>2, <3>2, Zenon DEF OwnTickets
      <4> QED
        BY <2>0, <3>1, <4>1, <4>2, View, Zenon
    <3>3. CASE Taking(u)
      <4>1. pos[u] = head /\ Published(0) /\ First = head
        BY <1>1, <3>3, AtHead, Zenon DEF Taking, Holding, IInv, Drains, Draining
      <4>2. 0 \in Slots /\ pos[u] = At(0)
        BY <2>0, <4>1, View, Back, Zenon
      <4>3. n # 0
        BY <2>0, <3>1, <4>1, Unpublished, Zenon
      <4> QED
        BY <2>0, <3>1, <4>2, <4>3, View, Zenon
    <3> QED
      BY <2>2, <3>2, <3>3, Zenon
  <2> QED
    BY <2>2, Zenon DEF SlotsExclusive
<1> QED
  BY <1>1, Inductive, PTL

(* How many tickets head is behind tail: what is queued, and the one being  *)
(* taken out.                                                               *)
LEMMA HeadView ==
  ASSUME Typed, Ring
  PROVE  /\ ~Freed => (tail - head) % Wrap = Queued /\ First = head
         /\ Freed => /\ (tail - head) % Wrap = Queued + 1
                     /\ \A n \in Slots : At(n) = Plus(head, n + 1)
<1>0. Queued \in Nat /\ Queued <= CAPACITY /\ head \in Tickets /\ tail = At(Queued)
  BY View, Zenon DEF Typed, Ring
<1>1. ASSUME Freed, NEW n \in Nat, n <= CAPACITY
      PROVE  At(n) = Plus(head, n + 1)
  <2>1. 1 \in Nat /\ 1 + n <= Wrap /\ 1 + n = n + 1
    BY <1>1, Sizes, SMT
  <2>2. \A m, k \in Nat : m + k <= Wrap => Plus(Plus(head, m), k) = Plus(head, m + k)
    BY <1>0, PlusFacts, Zenon
  <2>3. Plus(Plus(head, 1), n) = Plus(head, 1 + n)
    BY <1>1, <2>1, <2>2, Zenon
  <2> QED
    BY <1>1, <2>1, <2>3, Zenon DEF At, First
<1>2. ASSUME Freed
      PROVE  (tail - head) % Wrap = Queued + 1
  <2>1. Queued + 1 \in Tickets
    BY <1>0, Sizes, SMT DEF Tickets
  <2> QED
    BY <1>0, <1>1, <1>2, <2>1, Distance, Zenon
<1>3. \A n \in Slots : n \in Nat /\ n <= CAPACITY
  BY Sizes, SMT DEF Slots
<1> QED
  BY <1>1, <1>2, <1>3, Zenon DEF First, Queued

(* A change whose hook returned is applied, or is queued between head and   *)
(* tail, or is in the hands of the drain that has just taken it out.        *)
THEOREM Retained == Spec => []NothingLost
<1>1. ASSUME IInv
      PROVE  NothingLost
  <2>0. Typed /\ Placed /\ Ring /\ Kept
    BY <1>1, Zenon DEF IInv
  <2>1. ASSUME NEW n \in Slots, Published(n)
        PROVE  \E i \in Slots : i < (tail - head) % Wrap /\ value[Slot(Plus(head, i))] = ValAt(n)
    <3>1. CASE ~Freed
      BY <2>0, <2>1, <3>1, HeadView, Zenon DEF Published, ValAt, At
    <3>2. CASE Freed
      <4>1. (tail - head) % Wrap = Queued + 1 /\ At(n) = Plus(head, n + 1)
        BY <2>0, <3>2, HeadView, Zenon
      <4>2. Queued \in Nat /\ n < Queued /\ head \in Tickets
        BY <2>0, <2>1, View, Zenon DEF Published, Typed
      <4>3. n + 1 < Queued + 1 /\ 0 < Queued + 1
        BY <4>2, SMT DEF Slots
      <4>4. CASE n + 1 \in Slots
        BY <4>1, <4>3, <4>4, Zenon DEF ValAt
      <4>5. CASE n + 1 \notin Slots
        <5>1. At(n) = Plus(head, CAPACITY)
          BY <4>1, <4>5, Back, Zenon
        <5>2. Slot(At(n)) = Slot(Plus(head, 0))
          BY <4>2, <5>1, SlotFacts, PlusFacts, Zenon
        <5> QED
          BY <4>1, <4>3, <5>2, Back, Zenon DEF ValAt
      <4> QED
        BY <4>4, <4>5, Zenon
    <3> QED
      BY <3>1, <3>2, Zenon
  <2>2. Freed => lock \in Agents
    BY Zenon DEF Freed
  <2> QED
    BY <2>0, <2>1, <2>2, Zenon DEF NothingLost, Kept, Slots
<1> QED
  BY <1>1, Inductive, PTL

(* pending.rs, module doc: "Every taker applies the queue before it reads   *)
(* anything, so a reader sees each change whose hook returned before it     *)
(* took the lock".                                                          *)
THEOREM ReadersSee == Spec => []ReaderSeesReturned
<1>1. ASSUME IInv
      PROVE  ReaderSeesReturned
  <2>1. ASSUME NEW t \in Readers, pc[t] = "next", pos[t] = end[t], NEW c \in before[t]
        PROVE  IsApplied(c)
    <3>1. t \in Agents /\ c \in done /\ c \in Awaited(t)
      BY <1>1, <2>1, AgentSets, Zenon DEF IInv, Ordered, Awaited
    <3> QED
      BY <1>1, <2>1, <3>1, DrainedSees, Zenon
  <2> QED
    BY <2>1, Zenon DEF ReaderSeesReturned
<1> QED
  BY <1>1, Inductive, PTL

(* The changes are applied once each, and after every change whose hook had *)
(* returned when theirs began, whether they went through the queue or the   *)
(* hook applied them itself.                                                *)
THEOREM InOrder == Spec => []AppliedInOrder
<1>1. IInv => AppliedInOrder
  BY Zenon DEF IInv
<1> QED
  BY <1>1, Inductive, PTL

(* A ticket less than half a lap of usize ahead is not taken for one behind. *)
LEMMA Ahead ==
  ASSUME NEW p \in Tickets, NEW e \in Nat, 2 * e < Wrap
  PROVE  Signum(Plus(p, e), p) # -1
<1>1. e \in Tickets
  BY Sizes, SMT DEF Tickets
<1>2. (Plus(p, e) - p) % Wrap = e
  BY <1>1, Distance, Zenon
<1> QED
  BY <1>2 DEF Signum

(* However stale the tail a push has loaded, the seq it finds behind its    *)
(* ticket shows a full ring: the ticket is tail itself and CAPACITY tickets *)
(* are queued.  A staler ticket finds its own seq or a later one, which is  *)
(* not taken for an earlier one as long as tickets in use span less than    *)
(* half of usize.                                                           *)
LEMMA FullOnly ==
  ASSUME IInv, NEW t \in Threads, pc[t] = "compare", Signum(seq[Slot(pos[t])], pos[t]) = -1
  PROVE  CAPACITY <= Queued
<1> DEFINE p == pos[t]
<1>0. /\ Typed /\ Placed /\ Ring /\ p \in Tickets /\ Loaded(t)
      /\ First \in Tickets /\ Queued \in Nat /\ tail = Plus(First, Queued) /\ Queued <= CAPACITY
  BY AgentSets, View, Zenon DEF IInv, Typed, Ring, Pushes, At
<1>1. PICK d \in 0 .. Cardinality(Past) : Plus(p, d) = tail
  BY <1>0, Zenon DEF Loaded
<1>2. d \in Nat /\ d <= Most
  BY <1>0, <1>1, PastBound, Sizes, SMT
<1> HIDE DEF p
<1>3. \A a \in Tickets : \A m, n \in Nat : m + n <= Wrap => Plus(Plus(a, m), n) = Plus(a, m + n)
  BY PlusFacts, Zenon
<1>4. PICK n \in Slots : Slot(Plus(First, n)) = Slot(p)
  <2>1. Slot(p) \in Slots
    BY <1>0, SlotFacts, Zenon
  <2> QED
    BY <1>0, <2>1, SlotFacts, Zenon
<1>5. PICK m \in Nat : /\ seq[Slot(p)] = Plus(First, m)
                       /\ m = n \/ (m = n + 1 /\ n < Queued)
  BY <1>0, <1>4, SlotNumbers, Zenon DEF Ring, Published, SeqAt, At
<1>6. Signum(seq[Slot(p)], p) = -1
  BY DEF p
<1>7. CASE Queued < d
  <2>1. PICK g \in Nat : g + Queued = d
    <3>1. d - Queued \in Nat /\ (d - Queued) + Queued = d
      BY <1>0, <1>2, <1>7, SMT
    <3> QED
      BY <3>1, Zenon
  <2>2. Plus(p, g) = First
    <3>1. g \in 0 .. Wrap /\ g + Queued <= Wrap /\ Queued \in 0 .. Wrap
      BY <1>0, <1>2, <2>1, Sizes, SMT
    <3>2. Plus(p, g) \in Tickets
      BY <1>0, <3>1, PlusIs, Zenon
    <3>3. Plus(Plus(p, g), Queued) = Plus(First, Queued)
      BY <1>0, <1>1, <1>3, <2>1, <3>1, Zenon
    <3> QED
      BY <1>0, <3>1, <3>2, <3>3, PlusCancels, Zenon
  <2>3. g + m \in Nat /\ g + m <= Wrap /\ 2 * (g + m) < Wrap
    <3>1. n \in Nat /\ n < CAPACITY
      BY SlotNumbers, Zenon
    <3> QED
      BY <1>0, <1>2, <1>5, <2>1, <3>1, Sizes, SMT
  <2>4. seq[Slot(p)] = Plus(p, g + m)
    BY <1>0, <1>3, <1>5, <2>2, <2>3, Zenon
  <2> QED
    BY <1>0, <1>6, <2>3, <2>4, Ahead, Zenon
<1>8. CASE d <= Queued
  <2>1. PICK j \in Nat : j + d = Queued /\ j <= Queued
    <3>1. Queued - d \in Nat /\ (Queued - d) + d = Queued /\ Queued - d <= Queued
      BY <1>0, <1>2, <1>8, SMT
    <3> QED
      BY <3>1, Zenon
  <2>2. Plus(First, j) = p
    <3>1. j \in 0 .. Wrap /\ d \in 0 .. Wrap /\ j + d <= Wrap
      BY <1>0, <1>2, <2>1, Sizes, SMT
    <3>2. Plus(First, j) \in Tickets
      BY <1>0, <3>1, PlusIs, Zenon
    <3>3. Plus(Plus(First, j), d) = Plus(p, d)
      BY <1>0, <1>1, <1>2, <1>3, <2>1, <3>1, Zenon
    <3> QED
      BY <1>0, <3>1, <3>2, <3>3, PlusCancels, Zenon
  <2>3. CASE j < CAPACITY
    <3>1. j \in Slots
      BY <2>1, <2>3, Sizes, SMT DEF Slots
    <3>2. j = n
      <4>1. \A i, k \in Slots : Slot(Plus(First, i)) = Slot(Plus(First, k)) => i = k
        BY <1>0, SlotFacts, Zenon
      <4> QED
        BY <1>4, <2>2, <3>1, <4>1, Zenon
    <3>3. PICK e \in Nat : e <= 1 /\ m = j + e
      BY <1>5, <3>2, SMT
    <3>4. seq[Slot(p)] = Plus(p, e)
      <4>1. j + e <= Wrap
        BY <2>3, <3>3, Sizes, SMT
      <4> QED
        BY <1>0, <1>3, <1>5, <2>1, <2>2, <3>3, <4>1, Zenon
    <3>5. 2 * e < Wrap
      BY <3>3, Sizes, SMT
    <3> QED
      BY <1>0, <1>6, <3>4, <3>5, Ahead, Zenon
  <2> QED
    BY <1>0, <2>1, <2>3, Sizes, SMT
<1> QED
  BY <1>0, <1>2, <1>7, <1>8, SMT

(* push reports the queue full only when CAPACITY changes really are        *)
(* queued, however stale the tail it loaded.                                *)
THEOREM RefusedFull == Spec => RefusedOnlyWhenFull
<1> DEFINE A == \A t \in Threads :
                  pc[t] = "compare" /\ pc'[t] = "lock" => (tail - head) % Wrap >= CAPACITY
<1>1. ASSUME IInv, [Next]_vars
      PROVE  [A]_vars
  <2>1. ASSUME Next, NEW t \in Threads, pc[t] = "compare", pc'[t] = "lock"
        PROVE  (tail - head) % Wrap >= CAPACITY
    <3>1. PICK u \in Agents : Steps(u)
      BY <2>1, NextIs, Zenon
    <3>2. t \in Agents /\ u = t /\ t \in DOMAIN pc /\ Typed /\ Ring
      <4>1. t \in Agents /\ t \in DOMAIN pc /\ Typed /\ Ring
        BY <1>1, AgentSets, Zenon DEF IInv, Typed
      <4>2. u = t
        BY <1>1, <2>1, <3>1, <4>1, TypeStep, Zenon DEF Sole
      <4> QED
        BY <4>1, <4>2, Zenon
    <3>3. PushCompare(t)
      BY <2>1, <3>1, <3>2, Zenon DEF Steps, Begin, TryLock, Push, PushLoad, PushClaim, PushClaimFails,
         PushWrite, PushPublish, ApplyOwn, Read, ReadDone, Lock, Drain, DrainLoad, DrainTake, DrainFree,
         DrainApply
    <3>4. Signum(seq[Slot(pos[t])], pos[t]) = -1
      <4>1. /\ Signum(seq[Slot(pos[t])], pos[t]) # 0
            /\ Signum(seq[Slot(pos[t])], pos[t]) # 1
        BY <2>1, <3>2, <3>3, Zenon DEF PushCompare, Goto
      <4> QED
        BY <4>1 DEF Signum
    <3>5. CAPACITY <= Queued
      BY <1>1, <2>1, <3>4, FullOnly, Zenon
    <3>6. /\ Queued \in Nat
          /\ (tail - head) % Wrap = Queued \/ (tail - head) % Wrap = Queued + 1
      BY <3>2, HeadView, View, Zenon
    <3> QED
      BY <3>5, <3>6, Sizes, SMT
  <2> QED
    BY <1>1, <2>1, Zenon
<1>2. []IInv /\ [][Next]_vars => [][A]_vars
  <2> HIDE DEF A
  <2> QED
    BY <1>1, PTL
<1> QED
  BY <1>2, Inductive, PTL DEF Spec, RefusedOnlyWhenFull, A
==============================================================================
