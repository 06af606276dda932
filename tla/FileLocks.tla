------------------------------ MODULE FileLocks ------------------------------
(***************************************************************************)
(* Advisory locks on one virtual inode (crates/snare/src/fs_locks.rs) and  *)
(* the descriptors that own them (OpenFiles and the descriptor calls of    *)
(* fs_sim.rs): record locks of the process and of open file descriptions,  *)
(* and flock locks, apart from the record locks on Linux and among them on *)
(* macOS.                                                                  *)
(*                                                                         *)
(* The table of locks is under a lock of its own, held for one action; the *)
(* open-file table under another, let go before the locks are touched.     *)
(* A blocking call sleeps on Readiness, a wait without keys: `woken` says  *)
(* a bump came since its last attempt (NoLostWake of that module), and it  *)
(* may also retry at its poll.  Bytes are numbered below Top, which stands *)
(* for the end of the file (TO_END).  F_GETLK only reads the table; the    *)
(* order of its list, which nothing else reads, is left out.               *)
(***************************************************************************)
EXTENDS Integers, Sequences, FiniteSets

CONSTANTS Threads, Fds,
          MaxOpens,   \* bound on the descriptions made
          Top,        \* TO_END
          Requests,   \* what record locks are asked for: <<range, kind, block>>
          Accesses,   \* the access modes of an open: sets of "read", "write"
          Setups,     \* FLOCKS_ARE_RECORDS and the lock calls made: [mac, calls]
          None

Descs == 1 .. MaxOpens
Ops == {"process", "ofd", "flock"}
Kinds == {"read", "write", "unlock"}
Spans == {s \in (0 .. Top) \X (0 .. Top) : s[1] < s[2]}

ASSUME FileLocksAssumption ==
  /\ MaxOpens \in Nat \ {0} /\ Top \in Nat \ {0} /\ None \notin Descs
  /\ Requests \subseteq Spans \X Kinds \X BOOLEAN
  /\ Accesses \subseteq SUBSET {"read", "write"}
  /\ IsFiniteSet(Fds) /\ Setups \subseteq [mac : BOOLEAN, calls : SUBSET Ops]

VARIABLES
  setup,     \* the host and the program, fixed
  handles,   \* OpenFiles: [Fds -> Descs or None]
  refs,      \* descriptors of each description
  access,    \* its access mode
  opened,    \* descriptions made so far
  records,   \* Table::records
  flocks,    \* Table::flocks: [Descs -> Seq(BOOLEAN)], the flock locks of each
             \* description in the order taken, and whether each is exclusive
  pc, call,
  woken,     \* a bump came since a waiter's last attempt
  then       \* where a thread that is to wake the waiters goes on

vars == <<setup, handles, refs, access, opened, records, flocks, pc, call, woken, then>>
tables == <<setup, handles, refs, access, opened>>
locks == <<records, flocks>>

FLOCKS_ARE_RECORDS == setup.mac
Process == <<"process", 0>>
Owners == {Process} \cup ({"description", "flock"} \X Descs)
Ranges == [start : 0 .. Top, end : 0 .. Top, write : BOOLEAN, owner : Owners]
NoCall == [op |-> "process", desc |-> 1, start |-> 0, end |-> Top, kind |-> "unlock",
           block |-> FALSE]

PC == {"idle", "attempt", "wait", "flock", "drop", "dropped", "wake"}

-----------------------------------------------------------------------------
(* Table *)

Overlaps(r, start, end) == r.start < end /\ start < r.end

(* Mutant: only two exclusive locks conflict. *)
ConflictsWrites(o, start, end, write) ==
  {r \in records : r.owner # o /\ write /\ r.write /\ Overlaps(r, start, end)}

(* Table::conflict *)
Conflicts(o, start, end, write) ==
  {r \in records : r.owner # o /\ (write \/ r.write) /\ Overlaps(r, start, end)}

(* The owner's locks, cut back to what lies outside [start, end). *)
Mine(o) == {r \in records : r.owner = o}
(* Mutant: what lies right of the range is lost. *)
TrimmedLeft(o, start, end) ==
  {r \in Mine(o) : ~Overlaps(r, start, end)}
    \cup {[r EXCEPT !.end = start] : r \in {x \in Mine(o) : Overlaps(x, start, end) /\ x.start < start}}
Trimmed(o, start, end) ==
  {r \in Mine(o) : ~Overlaps(r, start, end)}
    \cup {[r EXCEPT !.end = start] : r \in {x \in Mine(o) : Overlaps(x, start, end) /\ x.start < start}}
    \cup {[r EXCEPT !.start = end] : r \in {x \in Mine(o) : Overlaps(x, start, end) /\ x.end > end}}

(* Mutant: locks that only meet the range are not joined. *)
JoinedOverlapping(o, start, end, write) ==
  {r \in Trimmed(o, start, end) : r.write = write /\ r.start < end /\ start < r.end}

(* Those of the type asked for that the range asked for meets. *)
Joined(o, start, end, write) ==
  {r \in Trimmed(o, start, end) : r.write = write /\ r.start <= end /\ start <= r.end}

Least(S) == CHOOSE x \in S : \A y \in S : x <= y
Greatest(S) == CHOOSE x \in S : \A y \in S : y <= x

Merged(o, start, end, write) ==
  LET j == Joined(o, start, end, write)
  IN [start |-> Least({start} \cup {r.start : r \in j}),
      end |-> Greatest({end} \cup {r.end : r \in j}), write |-> write, owner |-> o]

(* Table::set *)
Set(o, start, end, kind) ==
  (records \ Mine(o)) \cup
  IF kind = "unlock" THEN Trimmed(o, start, end)
  ELSE (Trimmed(o, start, end) \ Joined(o, start, end, kind = "write"))
         \cup {Merged(o, start, end, kind = "write")}

(* What `set` reports: it may have let something go. *)
Released(o, start, end, kind) ==
  \E r \in Mine(o) : Overlaps(r, start, end) /\ (kind # "write" \/ r.write)

(* Table::flock_conflict *)
FlockConflict(d, exclusive) ==
  \E e \in Descs \ {d} : \E i \in DOMAIN flocks[e] : exclusive \/ flocks[e][i]

(* drop_flock, with the records of the owners `also` *)
DropFlock(d, also) ==
  /\ flocks' = [flocks EXCEPT ![d] = <<>>]
  /\ records' = {r \in records : r.owner # <<"flock", d>> /\ r.owner \notin also}
(* Mutant: only dropped records count. *)
DroppedRecords == records' # records
Dropped == records' # records \/ flocks' # flocks

-----------------------------------------------------------------------------
(* How a thread goes on. *)

Goto(t, where) == pc' = [pc EXCEPT ![t] = where]

(* wake() once the table is let go, if there was anything to wake for.  The *)
(* call is forgotten once nothing reads it.                                 *)
WakeIf(t, released, next) ==
  /\ Goto(t, IF released THEN "wake" ELSE next)
  /\ call' = [call EXCEPT ![t] = IF next \in {"idle", "dropped"} THEN NoCall ELSE @]
  /\ then' = [then EXCEPT ![t] = IF released THEN next ELSE @]

(* bump(0): every waiter is to retry. *)
Wake(t) ==
  /\ pc[t] = "wake"
  /\ woken' = [u \in Threads |-> woken[u] \/ pc[u] = "wait"]
  /\ Goto(t, then[t]) /\ then' = [then EXCEPT ![t] = "idle"]
  /\ UNCHANGED <<tables, locks, call>>

-----------------------------------------------------------------------------
(* Descriptors *)

Free(fd) == handles[fd] = None

(* OpenFiles::insert, under a description of its own. *)
Open(t, fd) ==
  /\ pc[t] = "idle" /\ Free(fd) /\ opened < MaxOpens
  /\ opened' = opened + 1
  /\ handles' = [handles EXCEPT ![fd] = opened + 1] /\ refs' = [refs EXCEPT ![opened + 1] = 1]
  /\ \E a \in Accesses : access' = [access EXCEPT ![opened + 1] = a]
  /\ UNCHANGED <<setup, locks, pc, call, woken, then>>

(* What follows a descriptor's removal: a description without descriptors   *)
(* lets go of its locks, then the process's go.                             *)
Removed(t, d) ==
  /\ call' = [call EXCEPT ![t] = [NoCall EXCEPT !.desc = d]]
  /\ Goto(t, IF refs'[d] = 0 THEN "drop" ELSE "dropped")

(* close, fd_replaced: OpenFiles::remove *)
Close(t, fd) ==
  /\ pc[t] = "idle" /\ ~Free(fd)
  /\ handles' = [handles EXCEPT ![fd] = None] /\ refs' = [refs EXCEPT ![handles[fd]] = @ - 1]
  /\ Removed(t, handles[fd])
  /\ UNCHANGED <<setup, access, opened, locks, woken, then>>

(* Mutant: a duplicate does not count. *)
DupUncounted(t, old, new) ==
  /\ pc[t] = "idle" /\ ~Free(old) /\ old # new
  /\ handles' = [handles EXCEPT ![new] = handles[old]]
  /\ refs' = [d \in Descs |-> refs[d] - (IF d = handles[new] THEN 1 ELSE 0)]
  /\ IF Free(new) THEN UNCHANGED <<pc, call>> ELSE Removed(t, handles[new])
  /\ UNCHANGED <<setup, access, opened, locks, woken, then>>

(* dup, F_DUPFD and dup2: OpenFiles::alias, in place of what `new` was. *)
Dup(t, old, new) ==
  /\ pc[t] = "idle" /\ ~Free(old) /\ old # new
  /\ handles' = [handles EXCEPT ![new] = handles[old]]
  /\ refs' = [d \in Descs |-> refs[d] + (IF d = handles[old] THEN 1 ELSE 0)
                                      - (IF d = handles[new] THEN 1 ELSE 0)]
  /\ IF Free(new) THEN UNCHANGED <<pc, call>> ELSE Removed(t, handles[new])
  /\ UNCHANGED <<setup, access, opened, locks, woken, then>>

(* release_description, as the OpenFile drops *)
ReleaseDescription(t) ==
  /\ pc[t] = "drop"
  /\ DropFlock(call[t].desc, {<<"description", call[t].desc>>}) /\ WakeIf(t, Dropped, "dropped")
  /\ UNCHANGED <<tables, woken>>

(* release_process *)
ReleaseProcess(t) ==
  /\ pc[t] = "dropped"
  /\ records' = records \ Mine(Process)
  /\ WakeIf(t, Mine(Process) # {}, "idle")
  /\ UNCHANGED <<tables, flocks, woken>>

-----------------------------------------------------------------------------
(* Lock calls *)

OwnerOf(c) ==
  CASE c.op = "process" -> Process
    [] c.op = "ofd" -> <<"description", c.desc>>
    [] c.op = "flock" -> <<"flock", c.desc>>

(* lock_target: the descriptor's description is read, and the open-file     *)
(* table let go.  A blocking record lock goes straight to its wait, which   *)
(* attempts before it sleeps.                                               *)
Call(t, fd, op, span, kind, block) ==
  /\ pc[t] = "idle" /\ ~Free(fd)
  /\ op = "flock" \/ kind = "unlock" \/ kind \in access[handles[fd]]
  /\ call' = [call EXCEPT ![t] = [op |-> op, desc |-> handles[fd], start |-> span[1],
                                  end |-> span[2], kind |-> kind, block |-> block]]
  /\ Goto(t, IF op = "flock" THEN "flock" ELSE IF block THEN "wait" ELSE "attempt")
  /\ woken' = [woken EXCEPT ![t] = block]
  /\ UNCHANGED <<tables, locks, then>>

(* What stands in the way of the call. *)
Barred(c) ==
  IF c.op = "flock" /\ ~FLOCKS_ARE_RECORDS THEN FlockConflict(c.desc, c.kind = "write")
  ELSE c.kind # "unlock" /\ Conflicts(OwnerOf(c), c.start, c.end, c.kind = "write") # {}

(* The `attempt` closures, where nothing does. *)
Take(t) ==
  LET c == call[t]
  IN IF c.op = "flock" /\ ~FLOCKS_ARE_RECORDS
     THEN /\ flocks' = [flocks EXCEPT ![c.desc] = Append(@, c.kind = "write")]
          /\ UNCHANGED records /\ WakeIf(t, FALSE, "idle")
     ELSE /\ records' = Set(OwnerOf(c), c.start, c.end, c.kind)
          /\ UNCHANGED flocks
          /\ WakeIf(t, Released(OwnerOf(c), c.start, c.end, c.kind), "idle")

(* A single attempt: EAGAIN or EWOULDBLOCK when barred.  On macOS a         *)
(* blocking flock makes one too, and then lets a lock it wants to upgrade   *)
(* go before it waits.                                                      *)
Attempt(t) ==
  /\ pc[t] = "attempt"
  /\ \/ ~Barred(call[t]) /\ Take(t) /\ woken' = [woken EXCEPT ![t] = FALSE]
     \/ /\ Barred(call[t]) /\ ~call[t].block
        /\ WakeIf(t, FALSE, "idle") /\ UNCHANGED <<locks, woken>>
     \/ /\ Barred(call[t]) /\ call[t].block /\ woken' = [woken EXCEPT ![t] = TRUE]
        /\ \/ call[t].kind = "read" /\ WakeIf(t, FALSE, "wait") /\ UNCHANGED locks
           \/ call[t].kind = "write" /\ DropFlock(call[t].desc, {}) /\ WakeIf(t, Dropped, "wait")
  /\ UNCHANGED tables

(* wait: an attempt each time it is woken, or polls. *)
Retry(t) ==
  /\ pc[t] = "wait" /\ woken' = [woken EXCEPT ![t] = FALSE]
  /\ \/ ~Barred(call[t]) /\ Take(t)
     \/ Barred(call[t]) /\ woken[t] /\ UNCHANGED <<locks, pc, call, then>>
  /\ UNCHANGED tables

(* Interrupted by a signal, out of time or deadlocked, after an attempt. *)
GiveUp(t) ==
  /\ pc[t] = "wait" /\ ~woken[t] /\ WakeIf(t, FALSE, "idle")
  /\ UNCHANGED <<tables, locks, woken>>

(* flock: an unlock; the lock already held; a conversion, which lets the    *)
(* held lock go first; or straight to the attempt.                          *)
Flock(t) ==
  /\ pc[t] = "flock"
  /\ LET c == call[t]
         d == c.desc
         on == IF c.block /\ ~FLOCKS_ARE_RECORDS THEN "wait" ELSE "attempt"
         held == ~FLOCKS_ARE_RECORDS /\ flocks[d] # <<>>
         same == held /\ flocks[d][1] = (c.kind = "write")
     IN \/ c.kind = "unlock" /\ DropFlock(d, {}) /\ WakeIf(t, Dropped, "idle")
        \/ c.kind # "unlock" /\ same /\ WakeIf(t, FALSE, "idle") /\ UNCHANGED locks
        \/ /\ c.kind # "unlock" /\ held /\ ~same
           /\ flocks' = [flocks EXCEPT ![d] = Tail(@)] /\ UNCHANGED records /\ WakeIf(t, TRUE, on)
        \/ c.kind # "unlock" /\ ~held /\ WakeIf(t, FALSE, on) /\ UNCHANGED locks
  /\ UNCHANGED <<tables, woken>>

-----------------------------------------------------------------------------
Init ==
  /\ setup \in Setups
  /\ handles = [fd \in Fds |-> None] /\ refs = [d \in Descs |-> 0]
  /\ access = [d \in Descs |-> {}] /\ opened = 0
  /\ records = {} /\ flocks = [d \in Descs |-> <<>>]
  /\ pc = [t \in Threads |-> "idle"] /\ call = [t \in Threads |-> NoCall]
  /\ woken = [t \in Threads |-> FALSE] /\ then = [t \in Threads |-> "idle"]

Acts(t) ==
  \/ \E fd \in Fds : Open(t, fd) \/ Close(t, fd) \/ \E new \in Fds : Dup(t, fd, new)
  \/ \E fd \in Fds, op \in setup.calls \ {"flock"}, a \in Requests :
       Call(t, fd, op, a[1], a[2], a[3])
  \/ "flock" \in setup.calls /\ \E fd \in Fds, kind \in Kinds, block \in BOOLEAN :
       Call(t, fd, "flock", <<0, Top>>, kind, block)

Proceeds(t) ==
  Wake(t) \/ ReleaseDescription(t) \/ ReleaseProcess(t) \/ Attempt(t) \/ Flock(t)

Next == \E t \in Threads : Acts(t) \/ Proceeds(t) \/ Retry(t) \/ GiveUp(t)

Spec == Init /\ [][Next]_vars

-----------------------------------------------------------------------------
(* Every variable has its type. *)
TypeOK ==
  /\ setup \in Setups
  /\ handles \in [Fds -> Descs \cup {None}] /\ refs \in [Descs -> Nat]
  /\ access \in [Descs -> SUBSET {"read", "write"}] /\ opened \in 0 .. MaxOpens
  /\ records \subseteq Ranges /\ flocks \in [Descs -> Seq(BOOLEAN)]
  /\ pc \in [Threads -> PC] /\ then \in [Threads -> PC] /\ woken \in [Threads -> BOOLEAN]
  /\ call \in [Threads -> [op : Ops, desc : Descs, start : 0 .. Top, end : 0 .. Top,
                           kind : Kinds, block : BOOLEAN]]

(* No two owners hold overlapping locks one of which is exclusive, whatever *)
(* was split, merged, converted or waited for; the same of flock locks.     *)
Exclusive ==
  /\ \A r, s \in records :
       r.owner # s.owner /\ Overlaps(r, s.start, s.end) => ~r.write /\ ~s.write
  /\ \A d, e \in Descs : \A i \in DOMAIN flocks[d], j \in DOMAIN flocks[e] :
       d # e => ~flocks[d][i] /\ ~flocks[e][j]

(* An owner's locks are in normal form: no two overlap, and none that meet  *)
(* are of one type.                                                         *)
Normal ==
  \A r, s \in records :
    /\ r.start < r.end
    /\ r # s /\ r.owner = s.owner =>
         /\ ~Overlaps(r, s.start, s.end)
         /\ r.write = s.write => r.end # s.start

(* A description counts its descriptors, through every dup, dup2 and close. *)
RefsAgree == \A d \in Descs : refs[d] = Cardinality({fd \in Fds : handles[fd] = d})

(* No release is lost on a waiter: one that sleeps on with no bump to come  *)
(* is barred.                                                               *)
NoLostRelease ==
  \A t \in Threads :
    pc[t] = "wait" /\ ~woken[t] =>
      Barred(call[t]) \/ \E u \in Threads : pc[u] = "wake"

(* The locks of a description go when its last descriptor closes. *)
NoOrphan ==
  \A d \in Descs :
    (\E r \in records : r.owner \in {<<"description", d>>, <<"flock", d>>}) \/ flocks[d] # <<>> =>
      refs[d] > 0 \/ \E t \in Threads : pc[t] = "drop" /\ call[t].desc = d

(* Splitting, merging and trimming ranges is setting and clearing bytes: a  *)
(* call changes its owner's locks over the bytes it names and no other, and *)
(* only when no other owner is in the way; a release takes whole owners.    *)
HeldBy(o) ==
  LET mine == Mine(o)
      Covered(b, write) == \E r \in mine : r.write = write /\ r.start <= b /\ b < r.end
  IN [b \in 0 .. Top - 1 |->
        IF Covered(b, TRUE) THEN "write" ELSE IF Covered(b, FALSE) THEN "read" ELSE "unlock"]
Bytewise == INSTANCE ByteLocks WITH held <- [o \in Owners |-> HeldBy(o)]
ImplementsByteLocks == Bytewise!Spec
=============================================================================
