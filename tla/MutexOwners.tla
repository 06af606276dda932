----------------------------- MODULE MutexOwners -----------------------------
(***************************************************************************)
(* crates/snare-interpose/src/sched.rs, MutexOwners: which thread holds    *)
(* each mutex, by address, in a table that never allocates.  Open          *)
(* addressing with linear probing; a removal moves the later entries of    *)
(* the probe run back.  `home` stands for the hash, and may be any.        *)
(***************************************************************************)
EXTENDS Integers, FiniteSets, FiniteSetsExt

CONSTANTS
  Addrs,          \* addresses of mutexes
  Threads,
  OWNED_MUTEXES,  \* slots of the table (1024 in the code)
  None

ASSUME MutexOwnersAssumption ==
  /\ OWNED_MUTEXES \in Nat /\ OWNED_MUTEXES > 1
  /\ None \notin Addrs \cup Threads

Slots == 0 .. OWNED_MUTEXES - 1
FreeSlot == <<None, None>>
Entries == (Addrs \X Threads) \cup {FreeSlot}

VARIABLES
  home,    \* the slot each address hashes to; never changes
  slots,
  len

vars == <<home, slots, len>>

Init ==
  /\ home \in [Addrs -> Slots]
  /\ slots = [i \in Slots |-> FreeSlot]
  /\ len = 0

From(i, n) == (i + n) % OWNED_MUTEXES
Distance(i, j) == (j - i) % OWNED_MUTEXES

(* The slot of s holding addr, or the free slot where it would go. *)
Find(s, addr) ==
  LET ends == {n \in Slots : s[From(home[addr], n)][1] \in {addr, None}}
  IN  IF ends = {} THEN None ELSE From(home[addr], Min(ends))

Contains(s, addr) == Find(s, addr) # None /\ s[Find(s, addr)][1] = addr

(* Mutant: a mutex taken again counts again. *)
InsertRecounts(addr, t) ==
  /\ Find(slots, addr) # None /\ len + 1 < OWNED_MUTEXES
  /\ len' = len + 1
  /\ slots' = [slots EXCEPT ![Find(slots, addr)] = <<addr, t>>]
  /\ UNCHANGED home

Insert(addr, t) ==
  LET i == Find(slots, addr) IN
  /\ i # None
  /\ \/ slots[i] = FreeSlot /\ len + 1 < OWNED_MUTEXES /\ len' = len + 1
     \/ slots[i] # FreeSlot /\ UNCHANGED len
  /\ slots' = [slots EXCEPT ![i] = <<addr, t>>]
  /\ UNCHANGED home

(* Mutant: an entry on its home slot's run is left where it is. *)
FillsBeyond(entry, hole, j) == Distance(home[entry[1]], j) > Distance(hole, j)

(* The entry at j may fill the hole: its probe run begins no later. *)
Fills(entry, hole, j) == Distance(home[entry[1]], j) >= Distance(hole, j)

(* remove's loop: the table once the hole has moved up to the run's end. *)
MovedBack(s, i) ==
  LET Shift[x \in [Slots -> Entries] \X Slots \X Slots] ==
        LET table == x[1]
            hole == x[2]
            j == From(x[3], 1)
        IN  IF table[j] = FreeSlot THEN [table EXCEPT ![hole] = FreeSlot]
            ELSE IF Fills(table[j], hole, j)
              THEN Shift[<<[table EXCEPT ![hole] = table[j]], j, j>>]
              ELSE Shift[<<table, hole, j>>]
  IN  Shift[<<s, i, i>>]

Remove(addr) ==
  /\ Contains(slots, addr)
  /\ slots' = MovedBack(slots, Find(slots, addr))
  /\ len' = len - 1
  /\ UNCHANGED home

(* held_by, the first mutex of t's; disown removes them one by one. *)
HeldBy(s, t) == s[Min({i \in Slots : s[i][2] = t})][1]

Disown(t) ==
  LET Rid[s \in [Slots -> Entries]] ==
        IF \E i \in Slots : s[i][2] = t THEN Rid[MovedBack(s, Find(s, HeldBy(s, t)))] ELSE s
      Mine == {i \in Slots : slots[i][2] = t}
  IN  /\ Mine # {}
      /\ slots' = Rid[slots]
      /\ len' = len - Cardinality(Mine)
      /\ UNCHANGED home

Next ==
  \/ \E addr \in Addrs : Remove(addr) \/ \E t \in Threads : Insert(addr, t)
  \/ \E t \in Threads : Disown(t)

Spec == Init /\ [][Next]_vars

-----------------------------------------------------------------------------
(* `len` counts the entries, so the table is never full: "it tracks one     *)
(* fewer mutex at once, so a probe always ends at a free slot", which the   *)
(* loop of remove relies on to end.                                         *)
Accounted == len = Cardinality({i \in Slots : slots[i] # FreeSlot})

(* Through collisions, wrap-around, overwriting and removals the table is a *)
(* map: what find reports of an address is what was last recorded of it,    *)
(* whatever else came and went in its probe run.                            *)
Map == INSTANCE OwnerMap WITH
         Capacity <- OWNED_MUTEXES - 1,
         owner <- [a \in Addrs |-> IF Contains(slots, a) THEN slots[Find(slots, a)][2] ELSE None]
ImplementsMap == Map!Spec
==============================================================================
