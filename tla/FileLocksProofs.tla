--------------------------- MODULE FileLocksProofs ---------------------------
(***************************************************************************)
(* The invariants of FileLocks, and that it implements ByteLocks, for      *)
(* every set of threads, descriptors and requests and every file size.     *)
(* First the lock table: what Table::set does to the bytes of its owner,   *)
(* that it keeps the table in normal form, and what conflicts and          *)
(* exclusion are, byte by byte; then the inductive invariant.              *)
(***************************************************************************)
EXTENDS FileLocks, FiniteSetTheorems, SequenceTheorems, TLAPS

(* The file has a length. *)
LEMMA TopNat == Top \in Nat /\ 0 < Top
  BY FileLocksAssumption

(* A nonempty set of offsets has a least: `low` in Table::set. *)
LEMMA LeastOf ==
  ASSUME NEW S, S \subseteq 0 .. Top, S # {}
  PROVE  Least(S) \in S /\ \A y \in S : Least(S) <= y
<1> DEFINE Below(x) == {u \in S : u < x}
           Cuts == {Below(x) : x \in S}
<1>1. S \subseteq Nat /\ IsFiniteSet(S)
  <2>1. IsFiniteSet(0 .. Top)
    BY TopNat, FS_Interval
  <2>2. IsFiniteSet(S)
    BY <2>1, FS_Subset, Zenon
  <2> QED
    BY <2>2, TopNat
<1>2. Cuts \subseteq FiniteSubsetsOf(S) /\ Cuts # {}
  <2>1. \A x \in S : Below(x) \subseteq S /\ IsFiniteSet(Below(x))
    BY <1>1, FS_Subset, Zenon
  <2> QED
    BY <2>1, Zenon DEF FiniteSubsetsOf
<1>3. \E X \in Cuts : \A Y \in Cuts : ~(<<Y, X>> \in StrictSubsetOrdering(S))
  <2>1. IsWellFoundedOn(StrictSubsetOrdering(S), FiniteSubsetsOf(S))
    BY <1>1, FS_StrictSubsetOrderingWellFounded, Zenon
  <2> HIDE DEF Cuts
  <2> QED
    BY <1>2, <2>1, WFMin, Zenon
<1>4. PICK x \in S : \A y \in S : ~(<<Below(y), Below(x)>> \in StrictSubsetOrdering(S))
  BY <1>3, Zenon
<1>5. ASSUME NEW y \in S, y < x
      PROVE  FALSE
  <2>1. ~(y < y) /\ \A u \in S : u < y => u < x
    BY <1>1, <1>5
  <2>2. y \in Below(x) /\ y \notin Below(y) /\ Below(y) \subseteq Below(x)
    BY <1>5, <2>1, Zenon
  <2> QED
    BY <2>2, <1>4, <1>2, Zenon DEF StrictSubsetOrdering, FiniteSubsetsOf
<1>6. \A y \in S : x <= y
  BY <1>1, <1>5
<1> QED
  BY <1>6, Zenon DEF Least

(* It has a greatest: `high`. *)
LEMMA GreatestOf ==
  ASSUME NEW S, S \subseteq 0 .. Top, S # {}
  PROVE  Greatest(S) \in S /\ \A y \in S : y <= Greatest(S)
<1> DEFINE Flipped == {Top - x : x \in S}
<1>1. Flipped \subseteq 0 .. Top /\ Flipped # {}
  <2>1. \A x \in S : Top - x \in 0 .. Top
    BY TopNat
  <2> QED
    BY <2>1, Zenon
<1>2. PICK m \in Flipped : \A y \in Flipped : m <= y
  <2> HIDE DEF Flipped
  <2> QED
    BY <1>1, LeastOf, Zenon
<1>3. PICK x \in S : m = Top - x
  OBVIOUS
<1>4. ASSUME NEW y \in S
      PROVE  y <= x
  <2>1. Top - x <= Top - y
    BY <1>2, <1>3, Zenon
  <2>2. x \in Int /\ y \in Int /\ Top \in Int
    BY TopNat
  <2> HIDE DEF Flipped
  <2> QED
    BY <2>1, <2>2, SMT
<1> QED
  BY <1>4, Zenon DEF Greatest

(* What Table::set is called with. *)
Asked(o, start, end, kind) ==
  o \in Owners /\ start \in 0 .. Top /\ end \in 0 .. Top /\ start < end /\ kind \in Kinds

(* The lock `set` pushes spans what was asked for and every lock it joins,  *)
(* and begins and ends where one of them does.                              *)
LEMMA MergedSpans ==
  ASSUME NEW o, NEW start, NEW end, NEW write \in BOOLEAN,
         Asked(o, start, end, "write"), records \subseteq Ranges
  PROVE  LET m == Merged(o, start, end, write)
             j == Joined(o, start, end, write)
         IN /\ m \in Ranges /\ m.owner = o /\ m.write = write
            /\ m.start <= start /\ end <= m.end
            /\ \A r \in j : m.start <= r.start /\ r.end <= m.end
            /\ m.start = start \/ \E r \in j : m.start = r.start
            /\ m.end = end \/ \E r \in j : m.end = r.end
<1> DEFINE j == Joined(o, start, end, write)
           lows == {start} \cup {r.start : r \in j}
           highs == {end} \cup {r.end : r \in j}
<1>1. Trimmed(o, start, end) \subseteq Ranges
  BY DEF Trimmed, Mine, Ranges, Asked
<1>2. j \subseteq Ranges
  BY <1>1, Zenon DEF Joined
<1>3. lows \subseteq 0 .. Top /\ highs \subseteq 0 .. Top
  BY <1>2, Zenon DEF Ranges, Asked
<1> DEFINE low == Least(lows)
           high == Greatest(highs)
<1>4. /\ low \in 0 .. Top /\ low <= start /\ \A r \in j : low <= r.start
      /\ low = start \/ \E r \in j : low = r.start
  <2>1. low \in lows /\ \A y \in lows : low <= y
    BY <1>3, LeastOf, Zenon
  <2> QED
    BY <1>3, <2>1, Zenon
<1>5. /\ high \in 0 .. Top /\ end <= high /\ \A r \in j : r.end <= high
      /\ high = end \/ \E r \in j : high = r.end
  <2>1. high \in highs /\ \A y \in highs : y <= high
    BY <1>3, GreatestOf, Zenon
  <2> QED
    BY <1>3, <2>1, Zenon
<1>6. Merged(o, start, end, write) = [start |-> low, end |-> high, write |-> write, owner |-> o]
  BY Zenon DEF Merged
<1> HIDE DEF low, high, j
<1>7. [start |-> low, end |-> high, write |-> write, owner |-> o] \in Ranges
  BY <1>4, <1>5, Zenon DEF Ranges, Asked
<1> QED
  BY <1>4, <1>5, <1>6, <1>7 DEF j

(* Byte b is under a lock of owner o, of the type `write`, in the list R. *)
Covers(R, o, write, b) ==
  \E r \in R : r.owner = o /\ r.write = write /\ r.start <= b /\ b < r.end

(* Trimming clears the bytes asked for and keeps the owner's others: the    *)
(* two pieces of a lock that is split are all of it that lies outside.      *)
LEMMA TrimmedCovers ==
  ASSUME NEW o, NEW start, NEW end, NEW kind, Asked(o, start, end, kind), records \subseteq Ranges,
         NEW write \in BOOLEAN, NEW b \in 0 .. Top
  PROVE  Covers(Trimmed(o, start, end), o, write, b)
           <=> ~(start <= b /\ b < end) /\ Covers(records, o, write, b)
<1>0. start \in Int /\ end \in Int /\ start < end /\ b \in Int
  BY TopNat DEF Asked
<1>1. ASSUME NEW r \in Trimmed(o, start, end), r.write = write, r.start <= b, b < r.end
      PROVE  ~(start <= b /\ b < end) /\ Covers(records, o, write, b)
  <2>1. PICK x \in Mine(o) :
          \/ x = r /\ ~Overlaps(x, start, end)
          \/ r = [x EXCEPT !.end = start] /\ Overlaps(x, start, end) /\ x.start < start
          \/ r = [x EXCEPT !.start = end] /\ Overlaps(x, start, end) /\ x.end > end
    BY Zenon DEF Trimmed
  <2>2. x \in records /\ x \in Ranges /\ x.owner = o /\ x.start \in Int /\ x.end \in Int
    BY TopNat DEF Mine, Ranges
  <2>3. /\ r.start \in {x.start, end} /\ r.end \in {x.end, start} /\ x.write = write
        /\ x.start <= b /\ b < x.end /\ ~(start <= b /\ b < end)
    BY <1>0, <1>1, <2>1, <2>2 DEF Overlaps, Ranges
  <2> QED
    BY <2>2, <2>3, Zenon DEF Covers
<1>2. ASSUME ~(start <= b /\ b < end),
             NEW x \in records, x.owner = o, x.write = write, x.start <= b, b < x.end
      PROVE  Covers(Trimmed(o, start, end), o, write, b)
  <2>1. x \in Mine(o) /\ x \in Ranges /\ x.start \in Int /\ x.end \in Int
    BY <1>2, TopNat DEF Mine, Ranges
  <2>2. CASE ~Overlaps(x, start, end)
    BY <1>2, <2>1, <2>2, Zenon DEF Trimmed, Covers
  <2>3. CASE Overlaps(x, start, end) /\ b < start
    <3>1. x.start < start
      BY <1>0, <1>2, <2>1, <2>3
    <3>2. [x EXCEPT !.end = start] \in Trimmed(o, start, end)
      BY <2>1, <2>3, <3>1, Zenon DEF Trimmed
    <3> QED
      BY <1>2, <2>1, <2>3, <3>2, Zenon DEF Covers, Ranges
  <2>4. CASE Overlaps(x, start, end) /\ ~(b < start)
    <3>1. x.end > end /\ end <= b
      BY <1>0, <1>2, <2>1, <2>4
    <3>2. [x EXCEPT !.start = end] \in Trimmed(o, start, end)
      BY <2>1, <2>4, <3>1, Zenon DEF Trimmed
    <3> QED
      BY <1>2, <2>1, <3>1, <3>2, Zenon DEF Covers, Ranges
  <2> QED
    BY <2>2, <2>3, <2>4, Zenon
<1> QED
  <2>1. \A r \in Trimmed(o, start, end) : r.owner = o
    BY Zenon DEF Trimmed, Mine, Ranges
  <2> QED
    BY <1>1, <1>2, <2>1, Zenon DEF Covers

(* What trimming leaves is of its owner, and locks. *)
LEMMA TrimmedRanges ==
  ASSUME NEW o, NEW start, NEW end, NEW kind, Asked(o, start, end, kind), records \subseteq Ranges
  PROVE  \A r \in Trimmed(o, start, end) : r \in Ranges /\ r.owner = o
  BY Zenon DEF Trimmed, Mine, Ranges, Asked

(* `set` leaves the other owners' locks alone. *)
LEMMA SetOthers ==
  ASSUME NEW o, NEW start, NEW end, NEW kind, Asked(o, start, end, kind), records \subseteq Ranges
  PROVE  /\ Set(o, start, end, kind) \subseteq Ranges
         /\ \A r : r.owner # o => (r \in Set(o, start, end, kind) <=> r \in records)
<1>1. \A r \in Trimmed(o, start, end) : r \in Ranges /\ r.owner = o
  BY TrimmedRanges, Zenon
<1>2. Asked(o, start, end, "write")
  BY Zenon DEF Asked, Kinds
<1>3. ASSUME NEW write \in BOOLEAN
      PROVE  Merged(o, start, end, write) \in Ranges /\ Merged(o, start, end, write).owner = o
  BY <1>2, MergedSpans
<1> QED
  BY <1>1, <1>3, Zenon DEF Set, Mine

(* `set` sets the bytes asked for to the type asked for, or to none, and    *)
(* changes no other byte of its owner: what it merges adds nothing.         *)
LEMMA SetCovers ==
  ASSUME NEW o, NEW start, NEW end, NEW kind, Asked(o, start, end, kind), records \subseteq Ranges,
         NEW write \in BOOLEAN, NEW b \in 0 .. Top
  PROVE  Covers(Set(o, start, end, kind), o, write, b)
           <=> IF start <= b /\ b < end THEN kind # "unlock" /\ write = (kind = "write")
               ELSE Covers(records, o, write, b)
<1> DEFINE T == Trimmed(o, start, end)
           inside == start <= b /\ b < end
<1>0. start \in Int /\ end \in Int /\ start < end /\ b \in Int
  BY TopNat DEF Asked
<1>1. Covers(T, o, write, b) <=> ~inside /\ Covers(records, o, write, b)
  BY TrimmedCovers, Zenon
<1>2. \A r \in T : r \in Ranges /\ r.owner = o /\ r.start \in Int /\ r.end \in Int
  BY TrimmedRanges, TopNat DEF Ranges
<1>3. CASE kind = "unlock"
  <2>1. Covers(Set(o, start, end, kind), o, write, b) <=> Covers(T, o, write, b)
    BY <1>2, <1>3, Zenon DEF Set, Covers, Mine
  <2> QED
    BY <1>1, <1>3, <2>1, Zenon
<1>4. CASE kind # "unlock"
  <2> DEFINE j == Joined(o, start, end, kind = "write")
             m == Merged(o, start, end, kind = "write")
  <2>1. /\ m \in Ranges /\ m.owner = o /\ m.write = (kind = "write")
        /\ m.start <= start /\ end <= m.end
        /\ \A r \in j : m.start <= r.start /\ r.end <= m.end
        /\ m.start = start \/ \E r \in j : m.start = r.start
        /\ m.end = end \/ \E r \in j : m.end = r.end
    <3>1. Asked(o, start, end, "write")
      BY Zenon DEF Asked, Kinds
    <3>2. PICK v \in BOOLEAN : v = (kind = "write")
      OBVIOUS
    <3> HIDE DEF j, m
    <3>3. j = Joined(o, start, end, v) /\ m = Merged(o, start, end, v)
      BY <3>2, Zenon DEF j, m
    <3>4. /\ m \in Ranges /\ m.owner = o /\ m.write = v
          /\ m.start <= start /\ end <= m.end
          /\ \A r \in j : m.start <= r.start /\ r.end <= m.end
          /\ m.start = start \/ \E r \in j : m.start = r.start
          /\ m.end = end \/ \E r \in j : m.end = r.end
      BY <3>1, <3>3, MergedSpans
    <3> QED
      BY <3>2, <3>4, Zenon
  <2>2. m.start \in Int /\ m.end \in Int
    BY <2>1, TopNat DEF Ranges
  <2>3. \A r \in j : /\ r \in T /\ r.write = (kind = "write")
                     /\ r.start <= end /\ start <= r.end
    BY Zenon DEF Joined
  <2>4. Set(o, start, end, kind) = (records \ Mine(o)) \cup ((T \ j) \cup {m})
    BY <1>4, Zenon DEF Set
  <2> HIDE DEF T, j, m
  <2>5. ASSUME NEW r \in j
        PROVE  r.start \in Int /\ r.end \in Int /\ r.owner = o
    BY <1>2, <2>3, Zenon
  <2>6. Covers(Set(o, start, end, kind), o, write, b) <=> Covers((T \ j) \cup {m}, o, write, b)
    BY <2>4, Zenon DEF Covers, Mine
  <2>7. ASSUME inside
        PROVE  Covers((T \ j) \cup {m}, o, write, b) <=> write = (kind = "write")
    <3>1. ~Covers(T, o, write, b)
      BY <1>1, <2>7, Zenon
    <3>2. m.start <= b /\ b < m.end
      BY <1>0, <2>1, <2>2, <2>7
    <3> QED
      BY <2>1, <3>1, <3>2, Zenon DEF Covers
  <2>8. ASSUME ~inside, Covers((T \ j) \cup {m}, o, write, b)
        PROVE  Covers(T, o, write, b)
    <3>1. CASE write = (kind = "write") /\ m.start <= b /\ b < m.end
      <4>1. CASE b < start
        <5>1. PICK r \in j : m.start = r.start
          BY <1>0, <2>1, <2>2, <3>1, <4>1
        <5>2. r.start <= b /\ b < r.end
          BY <1>0, <2>3, <2>5, <3>1, <4>1, <5>1
        <5> QED
          BY <2>3, <2>5, <3>1, <5>2, Zenon DEF Covers
      <4>2. CASE ~(b < start)
        <5>1. PICK r \in j : m.end = r.end
          BY <1>0, <2>1, <2>2, <2>8, <3>1, <4>2
        <5>2. r.start <= b /\ b < r.end
          BY <1>0, <2>3, <2>5, <2>8, <3>1, <4>2, <5>1
        <5> QED
          BY <2>3, <2>5, <3>1, <5>2 DEF Covers
      <4> QED
        BY <4>1, <4>2, Zenon
    <3>2. CASE ~(write = (kind = "write") /\ m.start <= b /\ b < m.end)
      BY <2>1, <2>8, <3>2, Zenon DEF Covers
    <3> QED
      BY <3>1, <3>2, Zenon
  <2>9. ASSUME Covers(T, o, write, b)
        PROVE  Covers((T \ j) \cup {m}, o, write, b)
    <3>1. PICK r \in T : r.owner = o /\ r.write = write /\ r.start <= b /\ b < r.end
      BY <2>9, Zenon DEF Covers
    <3>2. CASE r \in j
      <4>1. m.start <= b /\ b < m.end
        BY <1>0, <2>1, <2>2, <2>5, <3>1, <3>2
      <4> QED
        BY <2>1, <2>3, <3>1, <3>2, <4>1, Zenon DEF Covers
    <3>3. CASE r \notin j
      BY <3>1, <3>3, Zenon DEF Covers
    <3> QED
      BY <3>2, <3>3, Zenon
  <2> QED
    BY <1>1, <1>4, <2>6, <2>7, <2>8, <2>9, Zenon
<1> QED
  BY <1>3, <1>4, Zenon

(* The locks r and s, of one owner, may stand beside each other. *)
Apart(r, s) == ~Overlaps(r, s.start, s.end) /\ (r.write = s.write => r.end # s.start)
InNormal(R) ==
  \A r, s \in R : r.start < r.end /\ (r # s /\ r.owner = s.owner => Apart(r, s))

(* Trimming keeps an owner's locks in normal form, clear of what was asked. *)
LEMMA TrimmedNormal ==
  ASSUME NEW o, NEW start, NEW end, NEW kind, Asked(o, start, end, kind), records \subseteq Ranges,
         InNormal(records)
  PROVE  /\ InNormal(Trimmed(o, start, end))
         /\ \A r \in Trimmed(o, start, end) : r.end <= start \/ end <= r.start
<1> DEFINE Piece(r, x) ==
             \/ r = x /\ ~Overlaps(x, start, end)
             \/ r = [x EXCEPT !.end = start] /\ Overlaps(x, start, end) /\ x.start < start
             \/ r = [x EXCEPT !.start = end] /\ Overlaps(x, start, end) /\ x.end > end
<1>0. start \in Int /\ end \in Int /\ start < end
  BY TopNat DEF Asked
<1>1. \A r \in Trimmed(o, start, end) : \E x \in Mine(o) : Piece(r, x)
  BY Zenon DEF Trimmed
<1>2. \A x \in Mine(o) : /\ x \in records /\ x \in Ranges /\ x.start \in Int /\ x.end \in Int
                          /\ x.owner = o /\ x.start < x.end
  BY TopNat DEF Mine, Ranges, InNormal
<1>3. ASSUME NEW r, NEW x \in Mine(o), Piece(r, x)
      PROVE  /\ r.write = x.write /\ r.owner = o
             /\ \/ r = x /\ (x.end <= start \/ end <= x.start)
                \/ r.start = x.start /\ r.end = start /\ x.start < start /\ start < x.end
                \/ r.start = end /\ r.end = x.end /\ x.start < end /\ end < x.end
  BY <1>0, <1>2, <1>3 DEF Overlaps, Ranges
<1>4. ASSUME NEW r \in Trimmed(o, start, end)
      PROVE  r.start < r.end /\ (r.end <= start \/ end <= r.start)
  <2>1. PICK x \in Mine(o) : Piece(r, x)
    BY <1>1, Zenon
  <2> HIDE DEF Piece
  <2> QED
    BY <1>0, <1>2, <1>3, <2>1
<1>5. ASSUME NEW r \in Trimmed(o, start, end), NEW s \in Trimmed(o, start, end), r # s
      PROVE  Apart(r, s)
  <2>1. PICK x \in Mine(o) : Piece(r, x)
    BY <1>1, Zenon
  <2>2. PICK y \in Mine(o) : Piece(s, y)
    BY <1>1, Zenon
  <2>3. CASE x = y
    <3>1. \/ /\ r.start = x.start /\ r.end = start /\ x.start < start /\ start < x.end
             /\ s.start = end /\ s.end = x.end /\ end < x.end
          \/ /\ s.start = x.start /\ s.end = start /\ x.start < start /\ start < x.end
             /\ r.start = end /\ r.end = x.end /\ end < x.end
      BY <1>0, <1>2, <1>5, <2>1, <2>2, <2>3 DEF Overlaps, Ranges
    <3> QED
      BY <1>0, <1>2, <3>1 DEF Apart, Overlaps
  <2>4. CASE x # y
    <3>1. ~Overlaps(x, y.start, y.end) /\ (x.write = y.write => x.end # y.start)
      BY <1>2, <2>4, Zenon DEF InNormal, Apart
    <3>2. x.end <= y.start \/ y.end <= x.start
      BY <1>2, <3>1 DEF Overlaps
    <3> HIDE DEF Piece
    <3>3. /\ r.write = x.write /\ s.write = y.write
          /\ \/ r = x /\ (x.end <= start \/ end <= x.start)
             \/ r.start = x.start /\ r.end = start /\ x.start < start /\ start < x.end
             \/ r.start = end /\ r.end = x.end /\ x.start < end /\ end < x.end
          /\ \/ s = y /\ (y.end <= start \/ end <= y.start)
             \/ s.start = y.start /\ s.end = start /\ y.start < start /\ start < y.end
             \/ s.start = end /\ s.end = y.end /\ y.start < end /\ end < y.end
      BY <1>3, <2>1, <2>2, Zenon
    <3> QED
      BY <1>0, <1>2, <3>1, <3>2, <3>3 DEF Apart, Overlaps
  <2> QED
    BY <2>3, <2>4, Zenon
<1> QED
  BY <1>4, <1>5, Zenon DEF InNormal

(* `set` keeps every owner's locks in normal form. *)
LEMMA SetNormal ==
  ASSUME NEW o, NEW start, NEW end, NEW kind, Asked(o, start, end, kind), records \subseteq Ranges,
         InNormal(records)
  PROVE  InNormal(Set(o, start, end, kind))
<1> DEFINE T == Trimmed(o, start, end)
           rest == records \ Mine(o)
<1>0. start \in Int /\ end \in Int /\ start < end
  BY TopNat DEF Asked
<1>1. InNormal(T) /\ \A r \in T : r.end <= start \/ end <= r.start
  BY TrimmedNormal, Zenon
<1>2. \A r \in T : r \in Ranges /\ r.owner = o /\ r.start \in Int /\ r.end \in Int
  BY TrimmedRanges, TopNat DEF Ranges
<1>3. InNormal(rest) /\ \A r \in rest : r.owner # o
  BY Zenon DEF InNormal, Mine
<1> HIDE DEF T, rest
<1>4. ASSUME NEW K, InNormal(K), \A r \in K : r.owner = o
      PROVE  InNormal(rest \cup K)
  BY <1>3, <1>4, Zenon DEF InNormal
<1>5. CASE kind = "unlock"
  BY <1>1, <1>2, <1>4, <1>5, Zenon DEF Set, T, rest
<1>6. CASE kind # "unlock"
  <2>1. PICK v \in BOOLEAN : v = (kind = "write")
    BY ZenonT(40)
  <2> DEFINE j == Joined(o, start, end, v)
             m == Merged(o, start, end, v)
  <2>2. Set(o, start, end, kind) = rest \cup ((T \ j) \cup {m})
    BY <1>6, <2>1, Zenon DEF Set, T, rest
  <2>3. /\ m \in Ranges /\ m.owner = o /\ m.write = v
        /\ m.start <= start /\ end <= m.end
        /\ m.start = start \/ \E r \in j : m.start = r.start
        /\ m.end = end \/ \E r \in j : m.end = r.end
    <3>1. Asked(o, start, end, "write")
      BY Zenon DEF Asked, Kinds
    <3> QED
      BY <3>1, MergedSpans
  <2>4. m.start \in Int /\ m.end \in Int /\ m.start < m.end
    <3>1. m.start \in Int /\ m.end \in Int
      BY <2>3, TopNat DEF Ranges
    <3> QED
      BY <1>0, <2>3, <3>1
  <2>5. \A r \in T : r \in j <=> r.write = v /\ r.start <= end /\ start <= r.end
    BY Zenon DEF Joined, T
  <2>6. j \subseteq T
    BY Zenon DEF Joined, T
  <2> HIDE DEF j, m
  <2>7. ASSUME NEW r \in T \ j, NEW q \in j
        PROVE  /\ r.end <= q.start \/ q.end <= r.start
               /\ r.write = v => r.end # q.start /\ q.end # r.start
    <3>1. q \in T /\ q # r /\ q.owner = r.owner /\ q.write = v
      BY <1>2, <2>5, <2>6, Zenon
    <3>2. Apart(r, q) /\ Apart(q, r)
      BY <1>1, <3>1, Zenon DEF InNormal
    <3> QED
      BY <1>2, <3>1, <3>2 DEF Apart, Overlaps
  <2>8. ASSUME NEW r \in T \ j
        PROVE  Apart(r, m) /\ Apart(m, r)
    <3>0. r.start \in Int /\ r.end \in Int /\ r.start < r.end /\ (r.end <= start \/ end <= r.start)
      BY <1>1, <1>2, Zenon DEF InNormal
    <3>1. CASE r.end <= start
      <4>1. r.end <= m.start /\ (r.write = v => r.end # m.start)
        <5>1. CASE m.start = start
          BY <1>0, <2>5, <3>0, <3>1, <5>1
        <5>2. CASE m.start # start
          <6>1. PICK q \in j : m.start = q.start
            BY <2>3, <5>2, Zenon
          <6>2. q.start \in Int /\ q.end \in Int /\ start <= q.end
            BY <1>2, <2>5, <2>6, Zenon
          <6> QED
            BY <1>0, <2>7, <3>0, <3>1, <6>1, <6>2
        <5> QED
          BY <5>1, <5>2, Zenon
      <4>2. m.end # r.start
        BY <1>0, <2>3, <2>4, <3>0, <3>1
      <4> QED
        BY <2>3, <2>4, <3>0, <4>1, <4>2 DEF Apart, Overlaps
    <3>2. CASE end <= r.start
      <4>1. m.end <= r.start /\ (r.write = v => m.end # r.start)
        <5>1. CASE m.end = end
          BY <1>0, <2>5, <3>0, <3>2, <5>1
        <5>2. CASE m.end # end
          <6>1. PICK q \in j : m.end = q.end
            BY <2>3, <5>2, Zenon
          <6>2. q.start \in Int /\ q.end \in Int /\ q.start <= end
            BY <1>2, <2>5, <2>6, Zenon
          <6> QED
            BY <1>0, <2>7, <3>0, <3>2, <6>1, <6>2
        <5> QED
          BY <5>1, <5>2, Zenon
      <4>2. r.end # m.start
        BY <1>0, <2>3, <2>4, <3>0, <3>2
      <4> QED
        BY <2>3, <2>4, <3>0, <4>1, <4>2 DEF Apart, Overlaps
    <3> QED
      BY <3>0, <3>1, <3>2, Zenon
  <2>9. InNormal((T \ j) \cup {m})
    BY <1>1, <2>4, <2>8, Zenon DEF InNormal
  <2>10. \A r \in (T \ j) \cup {m} : r.owner = o
    BY <1>2, <2>3, Zenon
  <2> QED
    BY <1>4, <2>2, <2>9, <2>10, Zenon
<1> QED
  BY <1>5, <1>6, Zenon

(* A byte of one owner's exclusive lock is under no other owner's lock. *)
Clear(R) ==
  \A o, p \in Owners, b \in 0 .. Top, v \in BOOLEAN :
    o # p /\ Covers(R, o, TRUE, b) => ~Covers(R, p, v, b)

(* No two owners' locks in R overlap when one is exclusive. *)
Disjoint(R) ==
  \A r, s \in R : r.owner # s.owner /\ Overlaps(r, s.start, s.end) => ~r.write /\ ~s.write

(* Byte by byte, and lock by lock, it is the same exclusion. *)
LEMMA ClearIsDisjoint ==
  ASSUME NEW R, R \subseteq Ranges, InNormal(R)
  PROVE  Clear(R) <=> Disjoint(R)
<1>1. \A r \in R : /\ r.start \in 0 .. Top /\ r.end \in 0 .. Top /\ r.start < r.end
                   /\ r.write \in BOOLEAN /\ r.owner \in Owners
  BY Zenon DEF Ranges, InNormal
<1>2. ASSUME Disjoint(R), NEW o \in Owners, NEW p \in Owners \ {o}, NEW b \in 0 .. Top,
             NEW v \in BOOLEAN, Covers(R, o, TRUE, b), Covers(R, p, v, b)
      PROVE  FALSE
  <2>1. PICK r \in R : r.owner = o /\ r.write = TRUE /\ r.start <= b /\ b < r.end
    BY <1>2, Zenon DEF Covers
  <2>2. PICK s \in R : s.owner = p /\ s.start <= b /\ b < s.end
    BY <1>2, Zenon DEF Covers
  <2>3. Overlaps(r, s.start, s.end)
    BY <1>1, <2>1, <2>2, TopNat DEF Overlaps
  <2> QED
    BY <1>2, <2>1, <2>2, <2>3, Zenon DEF Disjoint
<1>3. ASSUME Clear(R), NEW r \in R, NEW s \in R, r.owner # s.owner, Overlaps(r, s.start, s.end)
      PROVE  ~r.write /\ ~s.write
  <2>1. PICK b \in 0 .. Top : r.start <= b /\ b < r.end /\ s.start <= b /\ b < s.end
    <3>1. CASE r.start <= s.start
      BY <1>1, <1>3, <3>1, TopNat DEF Overlaps
    <3>2. CASE s.start <= r.start
      BY <1>1, <1>3, <3>2, TopNat DEF Overlaps
    <3> QED
      BY <1>1, <3>1, <3>2, TopNat
  <2>2. Covers(R, r.owner, r.write, b) /\ Covers(R, s.owner, s.write, b)
    BY <2>1, Zenon DEF Covers
  <2> QED
    BY <1>1, <1>3, <2>2, Zenon DEF Clear
<1> QED
  BY <1>2, <1>3, Zenon DEF Clear, Disjoint

(* The locks of R stand in the way of a request of owner o. *)
Hits(R, o, start, end, write) ==
  \E r \in R : r.owner # o /\ (write \/ r.write) /\ Overlaps(r, start, end)

(* They do when another owner's lock covers one of its bytes. *)
LEMMA ConflictByte ==
  ASSUME NEW o, NEW start \in 0 .. Top, NEW end \in 0 .. Top, start < end, NEW write \in BOOLEAN,
         NEW R, R \subseteq Ranges, InNormal(R)
  PROVE  Hits(R, o, start, end, write)
           <=> \E p \in Owners \ {o}, b \in 0 .. Top, v \in BOOLEAN :
                 start <= b /\ b < end /\ (write \/ v) /\ Covers(R, p, v, b)
<1>1. \A r \in R : /\ r.start \in 0 .. Top /\ r.end \in 0 .. Top /\ r.start < r.end
                         /\ r.write \in BOOLEAN /\ r.owner \in Owners
  BY Zenon DEF Ranges, InNormal
<1>2. ASSUME NEW r \in R, r.owner # o, write \/ r.write, Overlaps(r, start, end)
      PROVE  \E p \in Owners \ {o}, b \in 0 .. Top, v \in BOOLEAN :
               start <= b /\ b < end /\ (write \/ v) /\ Covers(R, p, v, b)
  <2>1. r.start < end /\ start < r.end
    BY <1>2, Zenon DEF Overlaps
  <2>2. PICK b \in 0 .. Top : r.start <= b /\ b < r.end /\ start <= b /\ b < end
    <3>1. CASE r.start <= start
      BY <1>1, <2>1, <3>1, TopNat
    <3>2. CASE start <= r.start
      BY <1>1, <2>1, <3>2, TopNat
    <3> QED
      BY <1>1, <2>1, <3>1, <3>2, TopNat
  <2>3. Covers(R, r.owner, r.write, b)
    BY <2>2, Zenon DEF Covers
  <2> QED
    BY <1>1, <1>2, <2>2, <2>3, Zenon
<1>3. ASSUME NEW p \in Owners \ {o}, NEW b \in 0 .. Top, NEW v \in BOOLEAN,
             start <= b, b < end, write \/ v, Covers(R, p, v, b)
      PROVE  Hits(R, o, start, end, write)
  <2>1. PICK r \in R : r.owner = p /\ r.write = v /\ r.start <= b /\ b < r.end
    BY <1>3, Zenon DEF Covers
  <2>2. Overlaps(r, start, end)
    BY <1>1, <1>3, <2>1, TopNat DEF Overlaps
  <2> QED
    BY <1>3, <2>1, <2>2, Zenon DEF Hits
<1> QED
  BY <1>2, <1>3, Zenon DEF Hits

(* `set`, made when nothing stands in its way, keeps exclusive locks        *)
(* exclusive.                                                               *)
LEMMA SetDisjoint ==
  ASSUME NEW o, NEW start, NEW end, NEW kind, Asked(o, start, end, kind), records \subseteq Ranges,
         InNormal(records), Disjoint(records),
         kind # "unlock" => ~Hits(records, o, start, end, kind = "write")
  PROVE  Disjoint(Set(o, start, end, kind))
<1> DEFINE R == Set(o, start, end, kind)
<1>0. o \in Owners /\ start \in 0 .. Top /\ end \in 0 .. Top /\ start < end
  BY Zenon DEF Asked
<1>1. R \subseteq Ranges /\ \A r : r.owner # o => (r \in R <=> r \in records)
  BY SetOthers, Zenon
<1>2. InNormal(R)
  BY SetNormal, Zenon
<1>3. Clear(records)
  BY ClearIsDisjoint, Zenon
<1>4. \A p \in Owners, b \in 0 .. Top, v \in BOOLEAN :
        p # o => (Covers(R, p, v, b) <=> Covers(records, p, v, b))
  <2> HIDE DEF R
  <2> QED
    BY <1>1, Zenon DEF Covers
<1>5. \A b \in 0 .. Top, v \in BOOLEAN :
        Covers(R, o, v, b)
          <=> IF start <= b /\ b < end THEN kind # "unlock" /\ v = (kind = "write")
              ELSE Covers(records, o, v, b)
  BY SetCovers
<1>6. ASSUME kind # "unlock", NEW p \in Owners \ {o}, NEW b \in 0 .. Top, NEW v \in BOOLEAN,
             start <= b, b < end, Covers(records, p, v, b)
      PROVE  kind # "write" /\ v = FALSE
  <2>1. PICK w \in BOOLEAN : w = (kind = "write")
    BY ZenonT(40)
  <2>2. ~Hits(records, o, start, end, w)
    BY <1>6, <2>1, Zenon
  <2>3. ~(w \/ v)
    BY <1>0, <1>6, <2>2, ConflictByte
  <2> QED
    BY <2>1, <2>3, Zenon
<1> HIDE DEF R
<1>7. ASSUME NEW p \in Owners, NEW q \in Owners, NEW b \in 0 .. Top, NEW v \in BOOLEAN,
             p # q, Covers(R, p, TRUE, b), Covers(R, q, v, b)
      PROVE  FALSE
  <2>1. CASE p = o /\ start <= b /\ b < end
    BY <1>4, <1>5, <1>6, <1>7, <2>1, ZenonT(60)
  <2>2. CASE q = o /\ start <= b /\ b < end
    BY <1>4, <1>5, <1>6, <1>7, <2>2, Zenon
  <2>3. CASE ~(start <= b /\ b < end) \/ (p # o /\ q # o)
    <3>1. \A w \in BOOLEAN : Covers(R, p, w, b) <=> Covers(records, p, w, b)
      BY <1>4, <1>5, <2>3, Zenon
    <3>2. Covers(R, q, v, b) <=> Covers(records, q, v, b)
      BY <1>4, <1>5, <2>3, Zenon
    <3> QED
      BY <1>3, <1>7, <3>1, <3>2, Zenon DEF Clear
  <2> QED
    BY <2>1, <2>2, <2>3, Zenon
<1>8. Clear(R)
  BY <1>7, Zenon DEF Clear
<1> QED
  BY <1>1, <1>2, <1>8, ClearIsDisjoint, Zenon DEF R

(* Where `set` reports that it let nothing go, whoever was barred still is. *)
LEMMA SetBars ==
  ASSUME NEW o, NEW start, NEW end, NEW kind, Asked(o, start, end, kind), records \subseteq Ranges,
         InNormal(records), ~Released(o, start, end, kind),
         NEW q, NEW from \in 0 .. Top, NEW upto \in 0 .. Top, from < upto, NEW write \in BOOLEAN,
         Hits(records, q, from, upto, write)
  PROVE  Hits(Set(o, start, end, kind), q, from, upto, write)
<1> DEFINE R == Set(o, start, end, kind)
<1>0. o \in Owners /\ start \in 0 .. Top /\ end \in 0 .. Top /\ start < end /\ kind \in Kinds
  BY Zenon DEF Asked
<1>1. R \subseteq Ranges /\ InNormal(R) /\ \A r : r.owner # o => (r \in R <=> r \in records)
  BY SetOthers, SetNormal, Zenon
<1>2. \A b \in 0 .. Top, v \in BOOLEAN :
        Covers(R, o, v, b)
          <=> IF start <= b /\ b < end THEN kind # "unlock" /\ v = (kind = "write")
              ELSE Covers(records, o, v, b)
  BY SetCovers
<1> HIDE DEF R
<1>3. PICK p \in Owners \ {q}, b \in 0 .. Top, v \in BOOLEAN :
        from <= b /\ b < upto /\ (write \/ v) /\ Covers(records, p, v, b)
  BY ConflictByte
<1>4. CASE p # o
  <2>1. Covers(R, p, v, b)
    BY <1>1, <1>3, <1>4, Zenon DEF Covers
  <2> QED
    BY <1>1, <1>3, <2>1, ConflictByte DEF R
<1>5. CASE p = o /\ ~(start <= b /\ b < end)
  <2>1. Covers(R, p, v, b)
    BY <1>2, <1>3, <1>5, Zenon
  <2> QED
    BY <1>1, <1>3, <2>1, ConflictByte DEF R
<1>6. CASE p = o /\ start <= b /\ b < end
  <2>1. PICK r \in records : r.owner = o /\ r.write = v /\ r.start <= b /\ b < r.end
    BY <1>3, <1>6, Zenon DEF Covers
  <2>2. r \in Mine(o) /\ Overlaps(r, start, end)
    BY <1>0, <1>6, <2>1, TopNat DEF Mine, Overlaps, Ranges
  <2>3. kind = "write" /\ ~r.write
    BY <2>2, Zenon DEF Released
  <2>4. Covers(R, p, TRUE, b)
    BY <1>2, <1>6, <2>3, Zenon
  <2>5. \E x \in Owners \ {q}, y \in 0 .. Top, w \in BOOLEAN :
          from <= y /\ y < upto /\ (write \/ w) /\ Covers(R, x, w, y)
    BY <1>3, <2>4, Zenon
  <2> QED
    BY <1>1, <2>5, ConflictByte DEF R
<1> QED
  BY <1>4, <1>5, <1>6, Zenon

-----------------------------------------------------------------------------
(* The inductive invariant of FileLocks. *)

(* No description's exclusive flock lock stands beside another's lock. *)
FlocksDisjoint ==
  \A d, e \in Descs : \A i \in DOMAIN flocks[d], j \in DOMAIN flocks[e] :
    d # e => ~flocks[d][i] /\ ~flocks[e][j]

(* A call asks for a range; descriptors are of descriptions made; a call on *)
(* its way to a wait has an attempt to come.                                *)
Asking == \A t \in Threads : call[t].start < call[t].end
Made == \A fd \in Fds : handles[fd] # None => handles[fd] <= opened
Poised ==
  \A t \in Threads :
    /\ pc[t] = "flock" /\ call[t].block => woken[t]
    /\ pc[t] = "wake" /\ then[t] = "wait" => woken[t]
    /\ then[t] # "flock"

IInv ==
  /\ TypeOK /\ Asking /\ Made /\ RefsAgree
  /\ InNormal(records) /\ Disjoint(records) /\ FlocksDisjoint
  /\ Poised /\ NoLostRelease

(* The constants a step needs, without the sets they come from. *)
LEMMA Constants ==
  /\ NoCall \in [op : Ops, desc : Descs, start : 0 .. Top, end : 0 .. Top, kind : Kinds,
                 block : BOOLEAN]
  /\ NoCall.start < NoCall.end
  /\ None \notin Descs /\ IsFiniteSet(Fds)
<1>1. 1 \in Descs
  BY FileLocksAssumption DEF Descs
<1> QED
  BY <1>1, TopNat, FileLocksAssumption DEF NoCall, Ops, Kinds

(* The owner a lock call acts for, and the range it asks for. *)
LEMMA CallAsks ==
  ASSUME TypeOK, Asking, NEW t \in Threads
  PROVE  Asked(OwnerOf(call[t]), call[t].start, call[t].end, call[t].kind)
<1>1. call[t] \in [op : Ops, desc : Descs, start : 0 .. Top, end : 0 .. Top, kind : Kinds,
                   block : BOOLEAN]
  BY Zenon DEF TypeOK
<1>2. OwnerOf(call[t]) \in Owners
  BY <1>1, Zenon DEF OwnerOf, Owners, Ops, Process
<1> QED
  BY <1>1, <1>2, Zenon DEF Asked, Asking

(* A step changes the locks in one of five ways. *)
Lets(d) == \E also \in SUBSET Owners : DropFlock(d, also)
LockSteps ==
  \/ UNCHANGED <<records, flocks>>
  \/ \E t \in Threads : ~Barred(call[t]) /\ Take(t)
  \/ \E d \in Descs : Lets(d)
  \/ records' = records \ Mine(Process) /\ UNCHANGED flocks
  \/ \E d \in Descs : flocks[d] # <<>> /\ flocks' = [flocks EXCEPT ![d] = Tail(@)] /\ UNCHANGED records

LEMMA LocksChange ==
  ASSUME TypeOK, [Next]_vars
  PROVE  LockSteps
<1>0. \A t \in Threads : call[t].desc \in Descs
  BY Zenon DEF TypeOK
<1>1. CASE UNCHANGED vars
  BY <1>1, Zenon DEF vars, LockSteps
<1>2. ASSUME NEW t \in Threads, Acts(t)
      PROVE  LockSteps
  BY <1>2, Zenon DEF Acts, Open, Close, Dup, Call, LockSteps, locks
<1>3. ASSUME NEW t \in Threads, Wake(t) \/ GiveUp(t)
      PROVE  LockSteps
  BY <1>3, Zenon DEF Wake, GiveUp, LockSteps, locks
<1>4. ASSUME NEW t \in Threads, ReleaseDescription(t)
      PROVE  LockSteps
  <2>1. {<<"description", call[t].desc>>} \in SUBSET Owners
    BY <1>0 DEF Owners
  <2> QED
    BY <1>0, <1>4, <2>1, Zenon DEF ReleaseDescription, LockSteps, Lets
<1>5. ASSUME NEW t \in Threads, ReleaseProcess(t)
      PROVE  LockSteps
  BY <1>5, Zenon DEF ReleaseProcess, LockSteps
<1>6. ASSUME NEW t \in Threads, Attempt(t)
      PROVE  LockSteps
  <2>1. {} \in SUBSET Owners
    OBVIOUS
  <2> QED
    BY <1>0, <1>6, <2>1, ZenonT(40) DEF Attempt, LockSteps, Lets, locks
<1>7. ASSUME NEW t \in Threads, Retry(t)
      PROVE  LockSteps
  BY <1>7, Zenon DEF Retry, LockSteps, locks
<1>8. ASSUME NEW t \in Threads, Flock(t)
      PROVE  LockSteps
  <2>1. {} \in SUBSET Owners
    OBVIOUS
  <2> QED
    BY <1>0, <1>8, <2>1, ZenonT(40) DEF Flock, LockSteps, Lets, locks
<1> QED
  BY <1>1, <1>2, <1>3, <1>4, <1>5, <1>6, <1>7, <1>8, Zenon DEF Next, Proceeds

(* A lock taken is taken in normal form, over no lock in its way. *)
LEMMA TakeKeeps ==
  ASSUME IInv, NEW t \in Threads, ~Barred(call[t]), Take(t)
  PROVE  /\ records' \in SUBSET Ranges /\ flocks' \in [Descs -> Seq(BOOLEAN)]
         /\ InNormal(records') /\ Disjoint(records') /\ FlocksDisjoint'
<1> DEFINE c == call[t]
           o == OwnerOf(c)
<1>0. /\ records \subseteq Ranges /\ flocks \in [Descs -> Seq(BOOLEAN)]
      /\ c.desc \in Descs /\ InNormal(records) /\ Disjoint(records) /\ FlocksDisjoint
  BY Zenon DEF IInv, TypeOK
<1>1. CASE c.op = "flock" /\ ~FLOCKS_ARE_RECORDS
  <2>1. PICK x \in BOOLEAN : x = (c.kind = "write")
    BY ZenonT(40)
  <2> DEFINE d == c.desc
  <2>2. flocks' = [flocks EXCEPT ![d] = Append(@, x)] /\ records' = records
    BY <1>1, <2>1, Zenon DEF Take
  <2>3. ~FlockConflict(d, x)
    BY <1>1, <2>1, Zenon DEF Barred
  <2> HIDE DEF c
  <2>4. \A e \in Descs \ {d} : \A i \in DOMAIN flocks[e] : ~x /\ ~flocks[e][i]
    BY <2>3, Zenon DEF FlockConflict
  <2>5. flocks' \in [Descs -> Seq(BOOLEAN)]
    BY <1>0, <2>2
  <2>6. /\ \A e \in Descs \ {d} : flocks'[e] = flocks[e]
        /\ flocks'[d] = Append(flocks[d], x) /\ flocks[d] \in Seq(BOOLEAN)
    BY <1>0, <2>2, Zenon
  <2>7. \A i \in DOMAIN flocks'[d] :
          (i \in DOMAIN flocks[d] /\ flocks'[d][i] = flocks[d][i]) \/ flocks'[d][i] = x
    BY <2>6
  <2>8. ASSUME NEW e \in Descs, NEW f \in Descs, e # f,
               NEW i \in DOMAIN flocks'[e], NEW j \in DOMAIN flocks'[f]
        PROVE  ~flocks'[e][i]
    <3>1. CASE e = d
      BY <1>0, <2>4, <2>6, <2>7, <2>8, <3>1, ZenonT(40) DEF FlocksDisjoint
    <3>2. CASE e # d /\ f = d
      BY <2>4, <2>6, <2>8, <3>2, Zenon
    <3>3. CASE e # d /\ f # d
      BY <1>0, <2>6, <2>8, <3>3, Zenon DEF FlocksDisjoint
    <3> QED
      BY <3>1, <3>2, <3>3, Zenon
  <2>9. FlocksDisjoint'
    BY <2>8, Zenon DEF FlocksDisjoint
  <2> QED
    BY <1>0, <2>2, <2>5, <2>9, Zenon
<1>2. CASE ~(c.op = "flock" /\ ~FLOCKS_ARE_RECORDS)
  <2>1. records' = Set(o, c.start, c.end, c.kind) /\ flocks' = flocks
    BY <1>2, Zenon DEF Take
  <2>2. Asked(o, c.start, c.end, c.kind)
    BY CallAsks, Zenon DEF IInv
  <2>3. c.kind # "unlock" => ~Hits(records, o, c.start, c.end, c.kind = "write")
    <3>1. c.kind # "unlock" => Conflicts(o, c.start, c.end, c.kind = "write") = {}
      BY <1>2, Zenon DEF Barred
    <3> QED
      BY <3>1, Zenon DEF Hits, Conflicts
  <2>4. FlocksDisjoint'
    BY <1>0, <2>1, ZenonT(40) DEF FlocksDisjoint
  <2> HIDE DEF c, o
  <2>5. /\ Set(o, c.start, c.end, c.kind) \subseteq Ranges
        /\ InNormal(Set(o, c.start, c.end, c.kind))
        /\ Disjoint(Set(o, c.start, c.end, c.kind))
    BY <1>0, <2>2, <2>3, SetOthers, SetNormal, SetDisjoint, Zenon
  <2> QED
    BY <1>0, <2>1, <2>4, <2>5, Zenon
<1> QED
  BY <1>1, <1>2, Zenon

(* Every step keeps the table in normal form and exclusive. *)
LEMMA TableStep ==
  ASSUME IInv, [Next]_vars
  PROVE  /\ records' \in SUBSET Ranges /\ flocks' \in [Descs -> Seq(BOOLEAN)]
         /\ InNormal(records') /\ Disjoint(records') /\ FlocksDisjoint'
<1>0. /\ records \subseteq Ranges /\ flocks \in [Descs -> Seq(BOOLEAN)]
      /\ InNormal(records) /\ Disjoint(records) /\ FlocksDisjoint
  BY Zenon DEF IInv, TypeOK
<1>1. LockSteps
  BY LocksChange, Zenon DEF IInv
<1>2. ASSUME records' \subseteq records
      PROVE  records' \in SUBSET Ranges /\ InNormal(records') /\ Disjoint(records')
  BY <1>0, <1>2, Zenon DEF InNormal, Disjoint
<1>3. CASE UNCHANGED <<records, flocks>>
  BY <1>0, <1>3, Zenon DEF FlocksDisjoint
<1>4. CASE \E t \in Threads : ~Barred(call[t]) /\ Take(t)
  BY <1>4, TakeKeeps, Zenon
<1>5. ASSUME NEW d \in Descs, NEW also \in SUBSET Owners, DropFlock(d, also)
      PROVE  /\ records' \in SUBSET Ranges /\ flocks' \in [Descs -> Seq(BOOLEAN)]
             /\ InNormal(records') /\ Disjoint(records') /\ FlocksDisjoint'
  <2>1. records' \subseteq records /\ flocks' = [flocks EXCEPT ![d] = <<>>]
    BY <1>5, Zenon DEF DropFlock
  <2>2. /\ flocks' \in [Descs -> Seq(BOOLEAN)]
        /\ \A e \in Descs : IF e = d THEN flocks'[e] = <<>> ELSE flocks'[e] = flocks[e]
    BY <1>0, <2>1
  <2>3. FlocksDisjoint'
    BY <1>0, <2>2 DEF FlocksDisjoint
  <2> QED
    BY <1>2, <2>1, <2>2, <2>3, Zenon
<1>6. CASE records' = records \ Mine(Process) /\ UNCHANGED flocks
  BY <1>0, <1>2, <1>6, Zenon DEF FlocksDisjoint
<1>7. ASSUME NEW d \in Descs, flocks[d] # <<>>, flocks' = [flocks EXCEPT ![d] = Tail(@)],
             UNCHANGED records
      PROVE  flocks' \in [Descs -> Seq(BOOLEAN)] /\ FlocksDisjoint'
  <2>1. /\ flocks[d] \in Seq(BOOLEAN) /\ flocks'[d] = Tail(flocks[d])
        /\ \A e \in Descs \ {d} : flocks'[e] = flocks[e]
    BY <1>0, <1>7, Zenon
  <2>2. Tail(flocks[d]) \in Seq(BOOLEAN)
    <3>1. ASSUME NEW q \in Seq(BOOLEAN), q # <<>>
          PROVE  Tail(q) \in Seq(BOOLEAN)
      BY <3>1, HeadTailProperties, Zenon
    <3> QED
      BY <1>7, <2>1, <3>1, ZenonT(40)
  <2>3. flocks' \in [Descs -> Seq(BOOLEAN)]
    BY <1>0, <1>7, <2>2, Zenon
  <2>4. ASSUME NEW i \in DOMAIN flocks'[d]
        PROVE  \E k \in DOMAIN flocks[d] : flocks'[d][i] = flocks[d][k]
    <3> DEFINE q == flocks[d]
    <3>1. q \in Seq(BOOLEAN) /\ q # <<>> /\ i \in DOMAIN Tail(q)
      BY <1>7, <2>1, <2>4, Zenon
    <3> HIDE DEF q
    <3>2. i \in 1 .. Len(q) - 1 /\ Len(q) \in Nat /\ DOMAIN q = 1 .. Len(q)
      BY <3>1
    <3>3. Tail(q)[i] = q[i + 1]
      BY <3>1, <3>2
    <3> QED
      BY <2>1, <3>2, <3>3 DEF q
  <2>5. ASSUME NEW e \in Descs, NEW f \in Descs, e # f,
               NEW i \in DOMAIN flocks'[e], NEW j \in DOMAIN flocks'[f]
        PROVE  ~flocks'[e][i]
    <3>1. \A g \in Descs : \A k \in DOMAIN flocks'[g] :
            \E l \in DOMAIN flocks[g] : flocks'[g][k] = flocks[g][l]
      BY <2>1, <2>4, Zenon
    <3>2. PICK k \in DOMAIN flocks[e] : flocks'[e][i] = flocks[e][k]
      BY <3>1, Zenon
    <3>3. PICK l \in DOMAIN flocks[f] : TRUE
      BY <3>1, Zenon
    <3> QED
      BY <1>0, <2>5, <3>2, <3>3, Zenon DEF FlocksDisjoint
  <2> QED
    BY <2>3, <2>5, Zenon DEF FlocksDisjoint
<1> QED
  BY <1>0, <1>1, <1>3, <1>4, <1>5, <1>6, <1>7, Zenon DEF LockSteps, Lets

-----------------------------------------------------------------------------
(* The descriptors of a description, which are finitely many. *)
FdsOf(h, d) == {fd \in Fds : h[fd] = d}
LEMMA FdsFinite ==
  ASSUME NEW h, NEW d
  PROVE  IsFiniteSet(FdsOf(h, d)) /\ Cardinality(FdsOf(h, d)) \in Nat
<1>1. IsFiniteSet(FdsOf(h, d))
  BY Constants, FS_Subset, Zenon DEF FdsOf
<1> QED
  BY <1>1, FS_CardinalityType, Zenon

(* A description with one descriptor more, or one less. *)
LEMMA OneMore ==
  ASSUME NEW h, NEW g, NEW d, NEW fd, fd \notin FdsOf(h, d), FdsOf(g, d) = FdsOf(h, d) \cup {fd}
  PROVE  Cardinality(FdsOf(g, d)) = Cardinality(FdsOf(h, d)) + 1
  BY FdsFinite, FS_AddElement, Zenon

(* The other way round. *)
LEMMA OneLess ==
  ASSUME NEW h, NEW g, NEW d, NEW fd, fd \in FdsOf(h, d), FdsOf(g, d) = FdsOf(h, d) \ {fd}
  PROVE  Cardinality(FdsOf(g, d)) = Cardinality(FdsOf(h, d)) - 1
  BY FdsFinite, FS_RemoveElement, Zenon

(* Every step keeps each description's count of its descriptors. *)
LEMMA RefsStep ==
  ASSUME IInv, [Next]_vars
  PROVE  /\ handles' \in [Fds -> Descs \cup {None}] /\ refs' \in [Descs -> Nat]
         /\ opened' \in 0 .. MaxOpens /\ access' \in [Descs -> SUBSET {"read", "write"}]
         /\ setup' \in Setups /\ Made' /\ RefsAgree'
<1>0. /\ handles \in [Fds -> Descs \cup {None}] /\ refs \in [Descs -> Nat]
      /\ opened \in 0 .. MaxOpens /\ access \in [Descs -> SUBSET {"read", "write"}]
      /\ setup \in Setups /\ Made /\ \A d \in Descs : refs[d] = Cardinality(FdsOf(handles, d))
  BY Zenon DEF IInv, TypeOK, RefsAgree, FdsOf
<1> DEFINE Good == /\ handles' \in [Fds -> Descs \cup {None}] /\ refs' \in [Descs -> Nat]
                   /\ opened' \in 0 .. MaxOpens /\ access' \in [Descs -> SUBSET {"read", "write"}]
                   /\ setup' \in Setups /\ Made' /\ RefsAgree'
<1>1. None \notin Descs /\ Descs = 1 .. MaxOpens /\ MaxOpens \in Nat
  BY Constants, FileLocksAssumption, Zenon DEF Descs
<1>2. CASE UNCHANGED tables
  BY <1>0, <1>2, Zenon DEF tables, Made, RefsAgree, FdsOf
<1>3. ASSUME handles' \in [Fds -> Descs \cup {None}], refs' \in [Descs -> Int],
             \A d \in Descs : refs'[d] = Cardinality(FdsOf(handles', d))
      PROVE  refs' \in [Descs -> Nat] /\ RefsAgree'
  <2>1. \A d \in Descs : refs'[d] \in Nat
    BY <1>3, FdsFinite, Zenon
  <2> QED
    BY <1>3, <2>1, Zenon DEF RefsAgree, FdsOf
<1>4. ASSUME NEW t \in Threads, NEW fd \in Fds, Open(t, fd)
      PROVE  Good
  <2> DEFINE n == opened + 1
  <2>1. /\ handles[fd] = None /\ n \in Descs /\ opened < MaxOpens /\ opened' = n
        /\ handles' = [handles EXCEPT ![fd] = n] /\ refs' = [refs EXCEPT ![n] = 1]
        /\ setup' = setup
    BY <1>0, <1>1, <1>4 DEF Open, Free
  <2>2. access' \in [Descs -> SUBSET {"read", "write"}]
    <3>1. PICK a \in Accesses : access' = [access EXCEPT ![n] = a]
      BY <1>4, Zenon DEF Open
    <3>2. a \in SUBSET {"read", "write"}
      BY FileLocksAssumption, Zenon
    <3> QED
      BY <1>0, <3>1, <3>2, Zenon
  <2>3. handles' \in [Fds -> Descs \cup {None}] /\ refs' \in [Descs -> Int]
    BY <1>0, <2>1
  <2>4. \A g \in Fds : handles[g] # None => handles[g] # n
    BY <1>0, <1>1, <2>1 DEF Made
  <2>5. Made'
    BY <1>0, <1>1, <2>1 DEF Made
  <2>6. FdsOf(handles, n) = {}
    BY <1>1, <2>1, <2>4, Zenon DEF FdsOf
  <2>7. refs[n] = 0
    BY <1>0, <2>1, <2>6, FS_EmptySet, Zenon
  <2>8. ASSUME NEW d \in Descs
        PROVE  refs'[d] = Cardinality(FdsOf(handles', d))
    <3>1. CASE d = n
      <4>1. fd \notin FdsOf(handles, d) /\ FdsOf(handles', d) = FdsOf(handles, d) \cup {fd}
        BY <1>0, <1>1, <2>1, <3>1, Zenon DEF FdsOf
      <4>2. Cardinality(FdsOf(handles', d)) = Cardinality(FdsOf(handles, d)) + 1
        BY <4>1, OneMore, Zenon
      <4> QED
        BY <1>0, <2>1, <2>7, <3>1, <4>2
    <3>2. CASE d # n
      <4>1. FdsOf(handles', d) = FdsOf(handles, d)
        BY <1>0, <1>1, <2>1, <3>2, Zenon DEF FdsOf
      <4> QED
        BY <1>0, <2>1, <3>2, <4>1, Zenon
    <3> QED
      BY <3>1, <3>2, Zenon
  <2> QED
    <3>1. refs' \in [Descs -> Nat] /\ RefsAgree'
      BY <1>3, <2>3, <2>8, Zenon
    <3>2. opened' \in 0 .. MaxOpens
      BY <1>0, <1>1, <2>1
    <3> QED
      BY <1>0, <2>1, <2>2, <2>3, <2>5, <3>1, <3>2, Zenon
<1>5. ASSUME NEW t \in Threads, NEW fd \in Fds, Close(t, fd)
      PROVE  Good
  <2>1. /\ handles[fd] \in Descs /\ handles' = [handles EXCEPT ![fd] = None]
        /\ refs' = [refs EXCEPT ![handles[fd]] = @ - 1]
        /\ setup' = setup /\ access' = access /\ opened' = opened
    BY <1>0, <1>5, Zenon DEF Close, Free
  <2>2. handles' \in [Fds -> Descs \cup {None}] /\ refs' \in [Descs -> Int] /\ Made'
    BY <1>0, <2>1 DEF Made
  <2>3. ASSUME NEW d \in Descs
        PROVE  refs'[d] = Cardinality(FdsOf(handles', d))
    <3>1. CASE d = handles[fd]
      <4>1. fd \in FdsOf(handles, d) /\ FdsOf(handles', d) = FdsOf(handles, d) \ {fd}
        BY <1>0, <1>1, <2>1, <3>1, Zenon DEF FdsOf
      <4>2. Cardinality(FdsOf(handles', d)) = Cardinality(FdsOf(handles, d)) - 1
        BY <4>1, OneLess, Zenon
      <4> QED
        BY <1>0, <2>1, <3>1, <4>2, Zenon
    <3>2. CASE d # handles[fd]
      <4>1. FdsOf(handles', d) = FdsOf(handles, d)
        BY <1>0, <1>1, <2>1, <3>2, Zenon DEF FdsOf
      <4> QED
        BY <1>0, <2>1, <3>2, <4>1, Zenon
    <3> QED
      BY <3>1, <3>2, Zenon
  <2> QED
    BY <1>0, <1>3, <2>1, <2>2, <2>3, Zenon
<1>6. ASSUME NEW t \in Threads, NEW old \in Fds, NEW new \in Fds, Dup(t, old, new)
      PROVE  Good
  <2>1. /\ handles[old] \in Descs /\ handles' = [handles EXCEPT ![new] = handles[old]]
        /\ refs' = [d \in Descs |-> refs[d] + (IF d = handles[old] THEN 1 ELSE 0)
                                            - (IF d = handles[new] THEN 1 ELSE 0)]
        /\ setup' = setup /\ access' = access /\ opened' = opened
    BY <1>0, <1>6, Zenon DEF Dup, Free
  <2>2. handles' \in [Fds -> Descs \cup {None}] /\ refs' \in [Descs -> Int] /\ Made'
    BY <1>0, <2>1 DEF Made
  <2>3. ASSUME NEW d \in Descs
        PROVE  refs'[d] = Cardinality(FdsOf(handles', d))
    <3>1. CASE handles[old] = handles[new]
      <4>1. handles' = handles
        BY <1>0, <2>1, <3>1, Zenon
      <4> QED
        BY <1>0, <2>1, <3>1, <4>1
    <3>2. CASE handles[old] # handles[new] /\ d = handles[old]
      <4>1. new \notin FdsOf(handles, d) /\ FdsOf(handles', d) = FdsOf(handles, d) \cup {new}
        BY <1>0, <2>1, <3>2, Zenon DEF FdsOf
      <4>2. Cardinality(FdsOf(handles', d)) = Cardinality(FdsOf(handles, d)) + 1
        BY <4>1, OneMore, Zenon
      <4> QED
        BY <1>0, <2>1, <3>2, <4>2
    <3>3. CASE handles[old] # handles[new] /\ d = handles[new]
      <4>1. new \in FdsOf(handles, d) /\ FdsOf(handles', d) = FdsOf(handles, d) \ {new}
        BY <1>0, <2>1, <3>3, Zenon DEF FdsOf
      <4>2. Cardinality(FdsOf(handles', d)) = Cardinality(FdsOf(handles, d)) - 1
        BY <4>1, OneLess, Zenon
      <4> QED
        BY <1>0, <2>1, <3>3, <4>2
    <3>4. CASE d # handles[old] /\ d # handles[new]
      <4>1. FdsOf(handles', d) = FdsOf(handles, d)
        BY <1>0, <2>1, <3>4, Zenon DEF FdsOf
      <4> QED
        BY <1>0, <2>1, <3>4, <4>1
    <3> QED
      BY <3>1, <3>2, <3>3, <3>4, Zenon
  <2> QED
    BY <1>0, <1>3, <2>1, <2>2, <2>3, Zenon
<1>7. ASSUME NEW t \in Threads, NEW fd \in Fds, NEW op, NEW span, NEW kind, NEW block,
             Call(t, fd, op, span, kind, block)
      PROVE  UNCHANGED tables
  BY <1>7, Zenon DEF Call
<1>8. ASSUME NEW t \in Threads, Proceeds(t) \/ Retry(t) \/ GiveUp(t)
      PROVE  UNCHANGED tables
  BY <1>8, Zenon DEF Proceeds, Wake, ReleaseDescription, ReleaseProcess, Attempt, Flock, Retry, GiveUp
<1>9. ASSUME NEW t \in Threads, Acts(t)
      PROVE  Good
  BY <1>2, <1>4, <1>5, <1>6, <1>7, <1>9, Zenon DEF Acts
<1>10. CASE UNCHANGED vars
  BY <1>2, <1>10, Zenon DEF vars, tables
<1> QED
  BY <1>2, <1>8, <1>9, <1>10, Zenon DEF Next

(* Every step keeps what a thread is at, and a call asks for a range. *)
Calls == [op : Ops, desc : Descs, start : 0 .. Top, end : 0 .. Top, kind : Kinds, block : BOOLEAN]
LEMMA ControlStep ==
  ASSUME IInv, [Next]_vars
  PROVE  /\ pc' \in [Threads -> PC] /\ then' \in [Threads -> PC]
         /\ woken' \in [Threads -> BOOLEAN] /\ call' \in [Threads -> Calls] /\ Asking'
<1>0. /\ pc \in [Threads -> PC] /\ then \in [Threads -> PC] /\ woken \in [Threads -> BOOLEAN]
      /\ call \in [Threads -> Calls] /\ Asking
      /\ handles \in [Fds -> Descs \cup {None}]
  BY Zenon DEF IInv, TypeOK, Calls
<1>1. NoCall \in Calls /\ NoCall.start < NoCall.end
  BY Constants, Zenon DEF Calls
<1>2. {"idle", "attempt", "wait", "flock", "drop", "dropped", "wake"} \subseteq PC
  BY Zenon DEF PC
<1> DEFINE Good == /\ pc' \in [Threads -> PC] /\ then' \in [Threads -> PC]
                   /\ woken' \in [Threads -> BOOLEAN] /\ call' \in [Threads -> Calls] /\ Asking'
<1>3. CASE UNCHANGED <<pc, call, woken, then>>
  BY <1>0, <1>3, Zenon DEF Asking
<1>4. ASSUME NEW t \in Threads, NEW c \in Calls, c.start < c.end, call' = [call EXCEPT ![t] = c]
      PROVE  call' \in [Threads -> Calls] /\ Asking'
  BY <1>0, <1>4, Zenon DEF Asking
<1>5. ASSUME NEW t \in Threads, NEW d \in Descs, Removed(t, d)
      PROVE  pc' \in [Threads -> PC] /\ call' \in [Threads -> Calls] /\ Asking'
  <2>1. [NoCall EXCEPT !.desc = d] \in Calls
    BY <1>1, Zenon DEF Calls
  <2>2. [NoCall EXCEPT !.desc = d].start < [NoCall EXCEPT !.desc = d].end
    BY <1>1, Zenon DEF NoCall
  <2>3. call' \in [Threads -> Calls] /\ Asking'
    BY <1>4, <1>5, <2>1, <2>2, Zenon DEF Removed
  <2> QED
    BY <1>0, <1>2, <1>5, <2>3, Zenon DEF Removed, Goto
<1>6. ASSUME NEW t \in Threads, NEW next \in PC, NEW released \in BOOLEAN, WakeIf(t, released, next)
      PROVE  /\ pc' \in [Threads -> PC] /\ then' \in [Threads -> PC]
             /\ call' \in [Threads -> Calls] /\ Asking'
  <2>1. call' = [call EXCEPT ![t] = NoCall] \/ call' = call
    BY <1>0, <1>6, Zenon DEF WakeIf
  <2>2. call' \in [Threads -> Calls] /\ Asking'
    BY <1>0, <1>1, <1>4, <2>1, Zenon DEF Asking
  <2> QED
    BY <1>0, <1>2, <1>6, <2>2, Zenon DEF WakeIf, Goto
<1>7. ASSUME NEW t \in Threads, NEW fd \in Fds, Open(t, fd)
      PROVE  Good
  BY <1>3, <1>7, Zenon DEF Open
<1>8. ASSUME NEW t \in Threads, NEW fd \in Fds, Close(t, fd)
      PROVE  Good
  <2>1. handles[fd] \in Descs
    BY <1>0, <1>8, Zenon DEF Close, Free
  <2> QED
    BY <1>0, <1>5, <1>8, <2>1, Zenon DEF Close
<1>9. ASSUME NEW t \in Threads, NEW old \in Fds, NEW new \in Fds, Dup(t, old, new)
      PROVE  Good
  <2>1. CASE Free(new)
    BY <1>3, <1>9, <2>1, Zenon DEF Dup
  <2>2. CASE ~Free(new)
    <3>1. handles[new] \in Descs
      BY <1>0, <2>2, Zenon DEF Free
    <3> QED
      BY <1>0, <1>5, <1>9, <2>2, <3>1, Zenon DEF Dup
  <2> QED
    BY <2>1, <2>2, Zenon
<1>10. ASSUME NEW t \in Threads, NEW fd \in Fds, NEW op \in Ops, NEW span \in Spans, NEW kind \in Kinds,
              NEW block \in BOOLEAN, Call(t, fd, op, span, kind, block)
       PROVE  Good
  <2> DEFINE c == [op |-> op, desc |-> handles[fd], start |-> span[1], end |-> span[2],
                   kind |-> kind, block |-> block]
  <2>1. handles[fd] \in Descs
    BY <1>0, <1>10, Zenon DEF Call, Free
  <2>2. span[1] \in 0 .. Top /\ span[2] \in 0 .. Top /\ span[1] < span[2]
    BY Zenon DEF Spans
  <2>3. c \in Calls /\ c.start < c.end
    BY <2>1, <2>2, Zenon DEF Calls
  <2>4. call' = [call EXCEPT ![t] = c]
    BY <1>10, Zenon DEF Call
  <2> HIDE DEF c
  <2>5. call' \in [Threads -> Calls] /\ Asking'
    BY <1>4, <2>3, <2>4, Zenon
  <2> QED
    BY <1>0, <1>2, <1>10, <2>5, Zenon DEF Call, Goto
<1>11. ASSUME NEW t \in Threads, Acts(t)
       PROVE  Good
  <2>1. \A a \in Requests : a[1] \in Spans /\ a[2] \in Kinds /\ a[3] \in BOOLEAN
    BY FileLocksAssumption, Zenon
  <2>2. setup.calls \subseteq Ops /\ "flock" \in Ops
    BY FileLocksAssumption, Zenon DEF IInv, TypeOK, Ops
  <2>3. <<0, Top>> \in Spans
    BY TopNat DEF Spans
  <2> HIDE DEF Good
  <2> QED
    BY <1>7, <1>8, <1>9, <1>10, <1>11, <2>1, <2>2, <2>3, Zenon DEF Acts
<1>12. ASSUME NEW t \in Threads, Wake(t)
       PROVE  Good
  BY <1>0, <1>2, <1>12, Zenon DEF Wake, Goto, Asking
<1>13. ASSUME NEW t \in Threads, GiveUp(t)
       PROVE  Good
  <2>1. "idle" \in PC /\ FALSE \in BOOLEAN /\ WakeIf(t, FALSE, "idle") /\ woken' = woken
    BY <1>2, <1>13, Zenon DEF GiveUp
  <2> QED
    BY <1>0, <1>6, <2>1, Zenon
<1>14. ASSUME NEW t \in Threads, ReleaseDescription(t)
       PROVE  Good
  <2>1. "dropped" \in PC /\ Dropped \in BOOLEAN /\ WakeIf(t, Dropped, "dropped") /\ woken' = woken
    BY <1>2, <1>14, Zenon DEF ReleaseDescription, Dropped
  <2> QED
    BY <1>0, <1>6, <2>1, Zenon
<1>15. ASSUME NEW t \in Threads, ReleaseProcess(t)
       PROVE  Good
  <2>1. "idle" \in PC /\ (Mine(Process) # {}) \in BOOLEAN /\ WakeIf(t, Mine(Process) # {}, "idle")
        /\ woken' = woken
    BY <1>2, <1>15, Zenon DEF ReleaseProcess
  <2> QED
    BY <1>0, <1>6, <2>1, Zenon
<1>16. ASSUME NEW t \in Threads, Take(t)
       PROVE  \E released \in BOOLEAN : WakeIf(t, released, "idle")
  BY <1>16, Zenon DEF Take, Released
<1>17. ASSUME NEW t \in Threads, Attempt(t)
       PROVE  Good
  <2>1. \E released \in BOOLEAN, next \in {"idle", "wait"} : WakeIf(t, released, next)
    BY <1>16, <1>17, Zenon DEF Attempt, Dropped
  <2>2. woken' \in [Threads -> BOOLEAN]
    BY <1>0, <1>17, Zenon DEF Attempt
  <2> QED
    BY <1>2, <1>6, <2>1, <2>2, Zenon
<1>18. ASSUME NEW t \in Threads, Retry(t)
       PROVE  Good
  <2>1. (\E released \in BOOLEAN : WakeIf(t, released, "idle")) \/ UNCHANGED <<pc, call, then>>
    BY <1>16, <1>18, Zenon DEF Retry
  <2>2. woken' \in [Threads -> BOOLEAN]
    BY <1>0, <1>18, Zenon DEF Retry
  <2> QED
    BY <1>0, <1>2, <1>6, <2>1, <2>2, Zenon DEF Asking
<1>19. ASSUME NEW t \in Threads, Flock(t)
       PROVE  Good
  <2>1. \E released \in BOOLEAN, next \in {"idle", "wait", "attempt"} : WakeIf(t, released, next)
    BY <1>19, Zenon DEF Flock, Dropped
  <2>2. woken' = woken
    BY <1>19, Zenon DEF Flock
  <2> QED
    BY <1>0, <1>2, <1>6, <2>1, <2>2, Zenon
<1>20. CASE UNCHANGED vars
  BY <1>3, <1>20, Zenon DEF vars
<1> HIDE DEF Good
<1> QED
  BY <1>11, <1>12, <1>13, <1>14, <1>15, <1>17, <1>18, <1>19, <1>20, Zenon DEF Next, Proceeds, Good

(* What bars a call, as a function of the tables. *)
BarredBy(R, F, mac, c) ==
  IF c.op = "flock" /\ ~mac
  THEN \E e \in Descs \ {c.desc} : \E i \in DOMAIN F[e] : c.kind = "write" \/ F[e][i]
  ELSE c.kind # "unlock" /\ Hits(R, OwnerOf(c), c.start, c.end, c.kind = "write")

(* Barred reads the table, before a step and after it. *)
LEMMA BarredIs ==
  ASSUME NEW t \in Threads
  PROVE  /\ Barred(call[t]) <=> BarredBy(records, flocks, setup.mac, call[t])
         /\ Barred(call[t])' <=> BarredBy(records', flocks', setup'.mac, call'[t])
  BY Zenon DEF Barred, BarredBy, FlockConflict, Conflicts, Hits, FLOCKS_ARE_RECORDS, OwnerOf

(* A lock taken without a wake bars whom the table barred before. *)
LEMMA TakeBars ==
  ASSUME IInv, NEW t \in Threads, Take(t), pc'[t] # "wake", NEW c \in Calls, c.start < c.end,
         BarredBy(records, flocks, setup.mac, c)
  PROVE  BarredBy(records', flocks', setup.mac, c)
<1>0. /\ records \subseteq Ranges /\ flocks \in [Descs -> Seq(BOOLEAN)] /\ pc \in [Threads -> PC]
      /\ call[t].desc \in Descs /\ InNormal(records)
  BY Zenon DEF IInv, TypeOK
<1>1. CASE call[t].op = "flock" /\ ~FLOCKS_ARE_RECORDS
  <2> DEFINE d == call[t].desc
  <2>1. PICK x \in BOOLEAN : x = (call[t].kind = "write")
    BY ZenonT(40)
  <2>2. flocks' = [flocks EXCEPT ![d] = Append(@, x)] /\ records' = records
    BY <1>1, <2>1, Zenon DEF Take
  <2>3. /\ \A e \in Descs \ {d} : flocks'[e] = flocks[e]
        /\ flocks'[d] = Append(flocks[d], x) /\ flocks[d] \in Seq(BOOLEAN)
    BY <1>0, <2>2, Zenon
  <2>4. \A i \in DOMAIN flocks[d] : i \in DOMAIN flocks'[d] /\ flocks'[d][i] = flocks[d][i]
    <3>0. \A s \in Seq(BOOLEAN), y \in BOOLEAN :
            /\ Append(s, y) \in Seq(BOOLEAN) /\ Len(Append(s, y)) = Len(s) + 1
            /\ \A i \in 1 .. Len(s) : Append(s, y)[i] = s[i]
      BY AppendProperties, SMTT(30)
    <3>1. /\ Append(flocks[d], x) \in Seq(BOOLEAN) /\ Len(Append(flocks[d], x)) = Len(flocks[d]) + 1
          /\ \A i \in 1 .. Len(flocks[d]) : Append(flocks[d], x)[i] = flocks[d][i]
      BY <2>3, <3>0, Zenon
    <3>2. /\ DOMAIN flocks[d] = 1 .. Len(flocks[d])
          /\ DOMAIN Append(flocks[d], x) = 1 .. (Len(flocks[d]) + 1)
      BY <2>3, <3>1
    <3>3. Len(flocks[d]) \in Nat
      BY <2>3
    <3>4. 1 .. Len(flocks[d]) \subseteq 1 .. (Len(flocks[d]) + 1)
      BY <3>3
    <3> QED
      BY <2>3, <3>1, <3>2, <3>4, Zenon
  <2>5. \A e \in Descs : \A i \in DOMAIN flocks[e] :
          i \in DOMAIN flocks'[e] /\ flocks'[e][i] = flocks[e][i]
    BY <2>3, <2>4, Zenon
  <2> QED
    BY <2>2, <2>5, SMTT(30) DEF BarredBy
<1>2. CASE ~(call[t].op = "flock" /\ ~FLOCKS_ARE_RECORDS)
  <2> DEFINE k == call[t]
             o == OwnerOf(k)
  <2>1. /\ records' = Set(o, k.start, k.end, k.kind) /\ flocks' = flocks
        /\ ~Released(o, k.start, k.end, k.kind)
    BY <1>0, <1>2, Zenon DEF Take, WakeIf, Goto
  <2>2. Asked(o, k.start, k.end, k.kind)
    BY CallAsks, Zenon DEF IInv
  <2> HIDE DEF o, k
  <2>3. ASSUME NEW q, NEW write \in BOOLEAN, Hits(records, q, c.start, c.end, write)
        PROVE  Hits(records', q, c.start, c.end, write)
    <3>1. c.start \in 0 .. Top /\ c.end \in 0 .. Top
      BY Zenon DEF Calls
    <3> QED
      BY <1>0, <2>1, <2>2, <2>3, <3>1, SetBars, Zenon
  <2> QED
    BY <2>1, <2>3, ZenonT(40) DEF BarredBy
<1> QED
  BY <1>1, <1>2, Zenon

(* A step that lets a lock go is one of a thread on its way to wake the     *)
(* waiters.                                                                 *)
LEMMA ReleaseWakes ==
  ASSUME IInv, [Next]_vars
  PROVE  \/ UNCHANGED <<records, flocks>>
         \/ \E t \in Threads : pc'[t] = "wake"
         \/ \E t \in Threads : Take(t) /\ pc'[t] # "wake"
<1>0. pc \in [Threads -> PC]
  BY Zenon DEF IInv, TypeOK
<1>1. ASSUME NEW t \in Threads, NEW next, WakeIf(t, Dropped, next)
      PROVE  UNCHANGED <<records, flocks>> \/ pc'[t] = "wake"
  BY <1>0, <1>1, Zenon DEF WakeIf, Goto, Dropped
<1>2. CASE UNCHANGED vars
  BY <1>2, Zenon DEF vars
<1>3. ASSUME NEW t \in Threads, Acts(t) \/ Wake(t) \/ GiveUp(t)
      PROVE  UNCHANGED <<records, flocks>>
  BY <1>3, Zenon DEF Acts, Open, Close, Dup, Call, Wake, GiveUp, locks
<1>4. ASSUME NEW t \in Threads, ReleaseDescription(t)
      PROVE  UNCHANGED <<records, flocks>> \/ pc'[t] = "wake"
  BY <1>1, <1>4, Zenon DEF ReleaseDescription
<1>5. ASSUME NEW t \in Threads, ReleaseProcess(t)
      PROVE  UNCHANGED <<records, flocks>> \/ pc'[t] = "wake"
  <2>1. CASE Mine(Process) = {}
    BY <1>5, <2>1, Zenon DEF ReleaseProcess
  <2>2. CASE Mine(Process) # {}
    BY <1>0, <1>5, <2>2, Zenon DEF ReleaseProcess, WakeIf, Goto
  <2> QED
    BY <2>1, <2>2, Zenon
<1>6. ASSUME NEW t \in Threads, Attempt(t)
      PROVE  UNCHANGED <<records, flocks>> \/ pc'[t] = "wake" \/ Take(t)
  BY <1>1, <1>6, ZenonT(40) DEF Attempt, locks
<1>7. ASSUME NEW t \in Threads, Retry(t)
      PROVE  UNCHANGED <<records, flocks>> \/ Take(t)
  BY <1>7, Zenon DEF Retry, locks
<1>8. ASSUME NEW t \in Threads, Flock(t)
      PROVE  UNCHANGED <<records, flocks>> \/ pc'[t] = "wake"
  <2>1. ASSUME NEW next, WakeIf(t, TRUE, next)
        PROVE  pc'[t] = "wake"
    BY <1>0, <2>1, Zenon DEF WakeIf, Goto
  <2> QED
    BY <1>1, <1>8, <2>1, ZenonT(40) DEF Flock, locks
<1> QED
  BY <1>2, <1>3, <1>4, <1>5, <1>6, <1>7, <1>8, Zenon DEF Next, Proceeds

(* A step is one thread's: the others stay where they are, and are woken    *)
(* by nothing but `wake`.                                                   *)
Steps(t) == Acts(t) \/ Proceeds(t) \/ Retry(t) \/ GiveUp(t)
LEMMA Frame ==
  ASSUME IInv, NEW t \in Threads, Steps(t)
  PROVE  /\ setup' = setup
         /\ \A u \in Threads \ {t} :
              /\ pc'[u] = pc[u] /\ call'[u] = call[u] /\ then'[u] = then[u]
              /\ ~Wake(t) => woken'[u] = woken[u]
<1>0. /\ pc \in [Threads -> PC] /\ then \in [Threads -> PC] /\ woken \in [Threads -> BOOLEAN]
      /\ call \in [Threads -> Calls]
  BY Zenon DEF IInv, TypeOK, Calls
<1> DEFINE Kept == /\ setup' = setup
                   /\ \A u \in Threads \ {t} :
                        /\ pc'[u] = pc[u] /\ call'[u] = call[u] /\ then'[u] = then[u]
                        /\ ~Wake(t) => woken'[u] = woken[u]
<1>1. ASSUME NEW r, NEW next, WakeIf(t, r, next)
      PROVE  \A u \in Threads \ {t} : pc'[u] = pc[u] /\ call'[u] = call[u] /\ then'[u] = then[u]
  BY <1>0, <1>1, Zenon DEF WakeIf, Goto
<1>2. ASSUME NEW fd \in Fds, Open(t, fd) \/ Close(t, fd)
      PROVE  Kept
  BY <1>0, <1>2, Zenon DEF Open, Close, Removed, Goto
<1>3. ASSUME NEW old \in Fds, NEW new \in Fds, Dup(t, old, new)
      PROVE  Kept
  BY <1>0, <1>3, Zenon DEF Dup, Removed, Goto
<1>4. ASSUME NEW fd \in Fds, NEW op, NEW span, NEW kind, NEW block,
             Call(t, fd, op, span, kind, block)
      PROVE  Kept
  BY <1>0, <1>4, Zenon DEF Call, Goto, tables
<1>5. ASSUME Acts(t)
      PROVE  Kept
  BY <1>2, <1>3, <1>4, <1>5, Zenon DEF Acts
<1>6. ASSUME Wake(t)
      PROVE  Kept
  BY <1>0, <1>6, Zenon DEF Wake, Goto, tables
<1>7. ASSUME ReleaseDescription(t) \/ ReleaseProcess(t) \/ GiveUp(t)
      PROVE  Kept
  BY <1>1, <1>7, ZenonT(40) DEF ReleaseDescription, ReleaseProcess, GiveUp, tables
<1>8. ASSUME Take(t)
      PROVE  \A u \in Threads \ {t} : pc'[u] = pc[u] /\ call'[u] = call[u] /\ then'[u] = then[u]
  BY <1>1, <1>8, Zenon DEF Take
<1>9. ASSUME Attempt(t)
      PROVE  Kept
  <2>1. \A u \in Threads \ {t} : pc'[u] = pc[u] /\ call'[u] = call[u] /\ then'[u] = then[u]
    BY <1>1, <1>8, <1>9, Zenon DEF Attempt
  <2>2. setup' = setup /\ \A u \in Threads \ {t} : woken'[u] = woken[u]
    BY <1>0, <1>9, ZenonT(40) DEF Attempt, tables
  <2> QED
    BY <2>1, <2>2, Zenon
<1>10. ASSUME Retry(t)
      PROVE  Kept
  <2>1. \A u \in Threads \ {t} : pc'[u] = pc[u] /\ call'[u] = call[u] /\ then'[u] = then[u]
    BY <1>8, <1>10, Zenon DEF Retry
  <2>2. setup' = setup /\ \A u \in Threads \ {t} : woken'[u] = woken[u]
    BY <1>0, <1>10, Zenon DEF Retry, tables
  <2> QED
    BY <2>1, <2>2
<1>11. ASSUME Flock(t)
      PROVE  Kept
  BY <1>1, <1>11, Zenon DEF Flock, tables
<1> QED
  BY <1>5, <1>6, <1>7, <1>9, <1>10, <1>11, Zenon DEF Steps, Proceeds

(* A thread steps into a wait, or towards one, with an attempt to come,     *)
(* except that it sleeps on when an attempt finds it barred.                *)
LEMMA OwnStep ==
  ASSUME IInv, NEW t \in Threads, Steps(t)
  PROVE  /\ pc'[t] = "flock" /\ call'[t].block => woken'[t]
         /\ pc'[t] = "wake" /\ then'[t] = "wait" => woken'[t]
         /\ then'[t] # "flock"
         /\ pc'[t] = "wait" /\ ~woken'[t] =>
              Barred(call[t]) /\ call'[t] = call[t] /\ UNCHANGED <<records, flocks>>
<1>0. /\ pc \in [Threads -> PC] /\ then \in [Threads -> PC] /\ woken \in [Threads -> BOOLEAN]
      /\ call \in [Threads -> Calls] /\ Poised
  BY Zenon DEF IInv, TypeOK, Calls
<1> DEFINE Good ==
      /\ pc'[t] = "flock" /\ call'[t].block => woken'[t]
      /\ pc'[t] = "wake" /\ then'[t] = "wait" => woken'[t]
      /\ then'[t] # "flock"
      /\ pc'[t] = "wait" /\ ~woken'[t] =>
           Barred(call[t]) /\ call'[t] = call[t] /\ UNCHANGED <<records, flocks>>
<1>1. ASSUME NEW r, NEW next, WakeIf(t, r, next), next \in {"idle", "dropped"}
      PROVE  Good
  BY <1>0, <1>1, Zenon DEF WakeIf, Goto, Poised
<1>2. ASSUME NEW r, NEW next, WakeIf(t, r, next), next \in {"wait", "attempt"},
             next = "wait" => woken'[t]
      PROVE  Good
  BY <1>0, <1>2, Zenon DEF WakeIf, Goto, Poised
<1>3. ASSUME NEW fd \in Fds, Open(t, fd) \/ Close(t, fd)
      PROVE  Good
  BY <1>0, <1>3, Zenon DEF Open, Close, Removed, Goto, Poised
<1>4. ASSUME NEW old \in Fds, NEW new \in Fds, Dup(t, old, new)
      PROVE  Good
  BY <1>0, <1>4, Zenon DEF Dup, Removed, Goto, Poised
<1>5. ASSUME NEW fd \in Fds, NEW op, NEW span, NEW kind, NEW block \in BOOLEAN,
             Call(t, fd, op, span, kind, block)
      PROVE  Good
  <2>1. /\ call'[t].block = block /\ woken'[t] = block /\ then'[t] # "flock"
        /\ pc'[t] = IF op = "flock" THEN "flock" ELSE IF block THEN "wait" ELSE "attempt"
    BY <1>0, <1>5, Zenon DEF Call, Goto, Poised
  <2> QED
    BY <2>1, Zenon
<1>6. ASSUME Acts(t)
      PROVE  Good
  <2>1. \A a \in Requests : a[3] \in BOOLEAN
    BY FileLocksAssumption, Zenon
  <2> QED
    BY <1>3, <1>4, <1>5, <1>6, <2>1, Zenon DEF Acts
<1>7. ASSUME Wake(t)
      PROVE  Good
  <2>1. pc'[t] = then[t] /\ then'[t] = "idle" /\ woken'[t] = (woken[t] \/ pc[t] = "wait")
        /\ call' = call
    BY <1>0, <1>7, Zenon DEF Wake, Goto
  <2> QED
    BY <1>0, <1>7, <2>1, Zenon DEF Poised, Wake
<1>8. ASSUME ReleaseDescription(t) \/ ReleaseProcess(t) \/ GiveUp(t) \/ Take(t)
      PROVE  Good
  BY <1>1, <1>8, ZenonT(40) DEF ReleaseDescription, ReleaseProcess, GiveUp, Take
<1>9. ASSUME Attempt(t)
      PROVE  Good
  <2>1. CASE Take(t)
    BY <1>8, <2>1, Zenon
  <2>2. CASE WakeIf(t, FALSE, "idle")
    BY <1>1, <2>2, Zenon
  <2>3. CASE woken' = [woken EXCEPT ![t] = TRUE] /\ (WakeIf(t, FALSE, "wait") \/ WakeIf(t, Dropped, "wait"))
    BY <1>0, <1>2, <2>3, Zenon
  <2> QED
    BY <1>9, <2>1, <2>2, <2>3, ZenonT(40) DEF Attempt
<1>10. ASSUME Retry(t)
      PROVE  Good
  <2>1. CASE Take(t)
    BY <1>8, <2>1
  <2>2. CASE Barred(call[t]) /\ UNCHANGED <<locks, pc, call, then>>
    BY <1>0, <1>10, <2>2, Zenon DEF Retry, locks, Poised
  <2> QED
    BY <1>10, <2>1, <2>2, Zenon DEF Retry
<1>11. ASSUME Flock(t)
      PROVE  Good
  <2> DEFINE on == IF call[t].block /\ ~FLOCKS_ARE_RECORDS THEN "wait" ELSE "attempt"
  <2>1. on \in {"wait", "attempt"} /\ (on = "wait" => woken'[t])
    BY <1>0, <1>11, Zenon DEF Flock, Poised
  <2>2. \/ WakeIf(t, Dropped, "idle") \/ WakeIf(t, FALSE, "idle")
        \/ WakeIf(t, TRUE, on) \/ WakeIf(t, FALSE, on)
    BY <1>11, Zenon DEF Flock
  <2> QED
    BY <1>1, <1>2, <2>1, <2>2, Zenon
<1> QED
  BY <1>6, <1>7, <1>8, <1>9, <1>10, <1>11, Zenon DEF Steps, Proceeds

(* No release is lost: a waiter that sleeps on with no bump to come is      *)
(* barred after the step as it was before.                                  *)
LEMMA WakeStep ==
  ASSUME IInv, [Next]_vars
  PROVE  Poised' /\ NoLostRelease'
<1>0. pc \in [Threads -> PC] /\ call \in [Threads -> Calls] /\ Poised /\ NoLostRelease /\ Asking
  BY Zenon DEF IInv, TypeOK, Calls
<1>1. CASE UNCHANGED vars
  <2>1. \A t \in Threads : Barred(call[t])' <=> Barred(call[t])
    BY <1>1, BarredIs, Zenon DEF vars
  <2> QED
    BY <1>0, <1>1, <2>1, Zenon DEF vars, Poised, NoLostRelease
<1>2. ASSUME NEW t \in Threads, Steps(t)
      PROVE  Poised' /\ NoLostRelease'
  <2>1. /\ setup' = setup
        /\ \A u \in Threads \ {t} :
             /\ pc'[u] = pc[u] /\ call'[u] = call[u] /\ then'[u] = then[u]
             /\ ~Wake(t) => woken'[u] = woken[u]
    BY <1>2, Frame, Zenon
  <2>2. \A u \in Threads \ {t} : woken[u] => woken'[u]
    BY <2>1, Zenon DEF Wake
  <2>3. Poised'
    BY <1>0, <1>2, <2>1, <2>2, OwnStep, Zenon DEF Poised
  <2>4. ASSUME NEW u \in Threads, pc'[u] = "wait", ~woken'[u]
        PROVE  BarredBy(records', flocks', setup'.mac, call'[u])
                 \/ \E w \in Threads : pc'[w] = "wake"
    <3>1. CASE u = t
      <4>1. Barred(call[u]) /\ call'[u] = call[u] /\ UNCHANGED <<records, flocks>>
        BY <1>2, <2>4, <3>1, OwnStep, Zenon
      <4> QED
        BY <2>1, <4>1, BarredIs, Zenon
    <3>2. CASE u # t
      <4>1. ~Wake(t)
        BY <2>1, <2>4, <3>2, Zenon DEF Wake
      <4>2. pc[u] = "wait" /\ ~woken[u] /\ call'[u] = call[u]
        BY <2>1, <2>4, <3>2, <4>1, Zenon
      <4>3. CASE \E w \in Threads : pc[w] = "wake"
        <5>1. PICK w \in Threads : pc[w] = "wake"
          BY <4>3, Zenon
        <5>2. w # t
          BY <1>2, <4>1, <5>1, ZenonT(40)
          DEF Steps, Acts, Open, Close, Dup, Call, Proceeds, ReleaseDescription, ReleaseProcess,
              Attempt, Flock, Retry, GiveUp
        <5> QED
          BY <2>1, <5>1, <5>2, Zenon
      <4>4. CASE Barred(call[u])
        <5>1. PICK c \in Calls : c = call[u]
          BY <1>0, Zenon
        <5>2. c.start < c.end /\ BarredBy(records, flocks, setup.mac, c)
          BY <1>0, <4>4, <5>1, BarredIs, Zenon DEF Asking
        <5>3. CASE UNCHANGED <<records, flocks>>
          BY <2>1, <4>2, <5>1, <5>2, <5>3, Zenon
        <5>4. ASSUME NEW w \in Threads, Take(w), pc'[w] # "wake"
              PROVE  BarredBy(records', flocks', setup.mac, c)
          BY <5>2, <5>4, TakeBars, Zenon
        <5>5. CASE \E w \in Threads : Take(w) /\ pc'[w] # "wake"
          BY <2>1, <4>2, <5>1, <5>4, <5>5, Zenon
        <5> QED
          BY <5>3, <5>5, ReleaseWakes, Zenon
      <4> QED
        BY <1>0, <4>2, <4>3, <4>4, Zenon DEF NoLostRelease
    <3> QED
      BY <3>1, <3>2, Zenon
  <2>5. NoLostRelease'
    BY <2>4, BarredIs, Zenon DEF NoLostRelease
  <2> QED
    BY <2>3, <2>5, Zenon
<1> QED
  BY <1>1, <1>2, Zenon DEF Next, Steps

(* The inductive invariant. *)
LEMMA InitIInv == Init => IInv
<1> SUFFICES ASSUME Init
             PROVE  IInv
  OBVIOUS
<1>1. Descs \subseteq Nat /\ None \notin Descs
  BY FileLocksAssumption DEF Descs
<1>2. TypeOK
  <2>1. /\ records \subseteq Ranges /\ flocks \in [Descs -> Seq(BOOLEAN)]
        /\ pc \in [Threads -> PC] /\ then \in [Threads -> PC] /\ woken \in [Threads -> BOOLEAN]
        /\ handles \in [Fds -> Descs \cup {None}] /\ refs \in [Descs -> Nat]
        /\ access \in [Descs -> SUBSET {"read", "write"}] /\ setup \in Setups
    BY DEF Init, PC
  <2>2. call \in [Threads -> [op : Ops, desc : Descs, start : 0 .. Top, end : 0 .. Top,
                              kind : Kinds, block : BOOLEAN]]
    BY Constants, Zenon DEF Init
  <2>3. opened \in 0 .. MaxOpens
    BY FileLocksAssumption DEF Init
  <2> QED
    BY <2>1, <2>2, <2>3, Zenon DEF TypeOK
<1>3. Asking /\ Made /\ Poised /\ NoLostRelease
  BY Constants, Zenon DEF Init, Asking, Made, Poised, NoLostRelease
<1>4. InNormal(records) /\ Disjoint(records) /\ FlocksDisjoint
  BY DEF Init, InNormal, Disjoint, FlocksDisjoint
<1>5. RefsAgree
  <2>1. \A d \in Descs : {fd \in Fds : handles[fd] = d} = {}
    BY <1>1, Zenon DEF Init
  <2> QED
    BY <2>1, FS_EmptySet, Zenon DEF Init, RefsAgree
<1> QED
  BY <1>2, <1>3, <1>4, <1>5, Zenon DEF IInv

(* Every step keeps it. *)
LEMMA NextIInv == IInv /\ [Next]_vars => IInv'
<1> SUFFICES ASSUME IInv, [Next]_vars
             PROVE  IInv'
  OBVIOUS
<1>1. (InNormal(records) /\ Disjoint(records))' /\ FlocksDisjoint'
  BY TableStep, Zenon DEF InNormal, Disjoint, Apart, Overlaps
<1>2. TypeOK' /\ Asking' /\ Made' /\ RefsAgree'
  BY TableStep, RefsStep, ControlStep, Zenon DEF TypeOK, Calls
<1> QED
  BY <1>1, <1>2, WakeStep, Zenon DEF IInv

(* It holds in every state of every behaviour. *)
LEMMA Invariance == Spec => []IInv
  BY InitIInv, NextIInv, PTL DEF Spec

(* Table::conflict and Table::flock_conflict keep locks exclusive: no two   *)
(* owners ever hold overlapping locks one of which is exclusive.            *)
THEOREM ExclusiveHolds == Spec => []Exclusive
<1>1. IInv => Exclusive
  BY Zenon DEF IInv, Disjoint, FlocksDisjoint, Exclusive
<1> QED
  BY <1>1, Invariance, PTL

(* Table::set keeps every owner's ranges in normal form: none empty, none   *)
(* overlapping, and none of one type that meet.                             *)
THEOREM NormalHolds == Spec => []Normal
<1>1. IInv => Normal
  BY Zenon DEF IInv, InNormal, Apart, Normal
<1> QED
  BY <1>1, Invariance, PTL

(* OpenFiles: the count of a description's descriptors is exact, so its     *)
(* locks go with its last descriptor and not before.                        *)
THEOREM RefsHold == Spec => []RefsAgree
<1>1. IInv => RefsAgree
  BY Zenon DEF IInv
<1> QED
  BY <1>1, Invariance, PTL

(* `set` reports every change that may unblock a waiter, and whoever lets   *)
(* one go wakes: no waiter sleeps with nothing in its way and no bump due.  *)
THEOREM NoReleaseLost == Spec => []NoLostRelease
<1>1. IInv => NoLostRelease
  BY Zenon DEF IInv
<1> QED
  BY <1>1, Invariance, PTL

-----------------------------------------------------------------------------
(* FileLocks implements ByteLocks: splitting, merging and trimming ranges   *)
(* is setting and clearing bytes, for every file size and every request.    *)

(* An owner's bytes, as a function of the table. *)
HeldIn(R, o) ==
  [b \in 0 .. Top - 1 |->
     IF Covers(R, o, TRUE, b) THEN "write" ELSE IF Covers(R, o, FALSE, b) THEN "read" ELSE "unlock"]
Holdings(R) == [o \in Owners |-> HeldIn(R, o)]

(* HeldBy is HeldIn of the table, before a step and after. *)
LEMMA HeldIs ==
  /\ [o \in Owners |-> HeldBy(o)] = Holdings(records)
  /\ [o \in Owners |-> HeldBy(o)]' = Holdings(records')
<1>1. \A o \in Owners : HeldBy(o) = HeldIn(records, o)
  BY Zenon DEF HeldBy, HeldIn, Covers, Mine
<1>2. \A o \in Owners : HeldBy(o)' = HeldIn(records', o)
  BY Zenon DEF HeldBy, HeldIn, Covers, Mine
<1> QED
  BY <1>1, <1>2, Zenon DEF Holdings

(* ByteLocks' step, as a relation of two tables. *)
ByteStep(old, new) ==
  LET changed == {o \in Owners : old[o] # new[o]}
  IN \/ \A o \in changed : new[o] = Bytewise!Unlocked
     \/ \E o \in changed : changed = {o} /\ Bytewise!Set(o, old, new)

LEMMA StepIs == Bytewise!Next <=> ByteStep(Holdings(records), Holdings(records'))
  BY HeldIs, ZenonT(40) DEF Bytewise!Next, ByteStep

(* A release of whole owners clears their bytes and no others. *)
LEMMA ReleaseRefines ==
  ASSUME NEW D, records' = {r \in records : r.owner \notin D}
  PROVE  ByteStep(Holdings(records), Holdings(records'))
<1>1. ASSUME NEW o \in Owners, o \notin D
      PROVE  HeldIn(records', o) = HeldIn(records, o)
  <2>1. \A w, b : Covers(records', o, w, b) <=> Covers(records, o, w, b)
    BY <1>1, Zenon DEF Covers
  <2> QED
    BY <2>1, Zenon DEF HeldIn
<1>2. ASSUME NEW o \in Owners, o \in D
      PROVE  HeldIn(records', o) = Bytewise!Unlocked
  <2>1. \A w, b : ~Covers(records', o, w, b)
    BY <1>2, Zenon DEF Covers
  <2> QED
    BY <2>1, Zenon DEF HeldIn, Bytewise!Unlocked, Bytewise!Bytes
<1> QED
  BY <1>1, <1>2, Zenon DEF ByteStep, Holdings

(* A lock call sets its owner's bytes in its range, past nobody's lock. *)
LEMMA SetRefines ==
  ASSUME IInv, NEW o, NEW start, NEW end, NEW kind, Asked(o, start, end, kind),
         kind # "unlock" => ~Hits(records, o, start, end, kind = "write"),
         records' = Set(o, start, end, kind)
  PROVE  ByteStep(Holdings(records), Holdings(records'))
<1> DEFINE old == Holdings(records)
           new == Holdings(records')
           changed == {b \in 0 .. Top - 1 : old[o][b] # new[o][b]}
<1>0. /\ o \in Owners /\ start \in 0 .. Top /\ end \in 0 .. Top /\ start < end /\ kind \in Kinds
      /\ records \subseteq Ranges /\ InNormal(records) /\ Top \in Nat
  BY TopNat, Zenon DEF Asked, IInv, TypeOK
<1>1. ASSUME NEW p \in Owners, p # o
      PROVE  new[p] = old[p]
  <2>1. \A r : r.owner # o => (r \in records' <=> r \in records)
    BY <1>0, SetOthers, Zenon
  <2>2. \A w, b : Covers(records', p, w, b) <=> Covers(records, p, w, b)
    BY <1>1, <2>1, Zenon DEF Covers
  <2> QED
    BY <2>2, Zenon DEF HeldIn, Holdings
<1>2. ASSUME NEW b \in 0 .. Top - 1
      PROVE  new[o][b] = IF start <= b /\ b < end THEN kind ELSE old[o][b]
  <2>1. b \in 0 .. Top
    BY <1>0
  <2>2. Covers(records', o, TRUE, b)
          <=> IF start <= b /\ b < end THEN kind = "write" ELSE Covers(records, o, TRUE, b)
    <3>1. Covers(records', o, TRUE, b)
            <=> IF start <= b /\ b < end THEN kind # "unlock" /\ TRUE = (kind = "write")
                ELSE Covers(records, o, TRUE, b)
      BY <1>0, <2>1, SetCovers, Zenon
    <3> QED
      BY <3>1, Zenon
  <2>3. Covers(records', o, FALSE, b)
          <=> IF start <= b /\ b < end THEN kind = "read" ELSE Covers(records, o, FALSE, b)
    <3>1. Covers(records', o, FALSE, b)
            <=> IF start <= b /\ b < end THEN kind # "unlock" /\ FALSE = (kind = "write")
                ELSE Covers(records, o, FALSE, b)
      BY <1>0, <2>1, SetCovers, ZenonT(40)
    <3> QED
      BY <1>0, <3>1, Zenon DEF Kinds
  <2> QED
    BY <1>0, <2>2, <2>3, Zenon DEF HeldIn, Holdings, Kinds
<1>3. \A b \in changed : start <= b /\ b < end
  BY <1>2, Zenon
<1>4. ASSUME NEW b \in 0 .. Top - 1, NEW x \in changed, NEW y \in changed, x <= b, b <= y
      PROVE  new[o][b] = kind
  <2>1. start <= b /\ b < end
    BY <1>0, <1>3, <1>4
  <2> QED
    BY <1>2, <2>1, Zenon
<1>5. ASSUME kind # "unlock", NEW p \in Owners \ {o}, NEW b \in changed
      PROVE  old[p][b] = "unlock" \/ (kind = "read" /\ old[p][b] = "read")
  <2>1. PICK write \in BOOLEAN : write = (kind = "write")
    BY ZenonT(40)
  <2>2. ~Hits(records, o, start, end, write)
    BY <1>5, <2>1, Zenon
  <2>3. b \in 0 .. Top /\ start <= b /\ b < end
    BY <1>0, <1>3
  <2>4. \A v \in BOOLEAN : (write \/ v) => ~Covers(records, p, v, b)
    BY <1>0, <2>2, <2>3, ConflictByte
  <2>5. ~Covers(records, p, TRUE, b)
    BY <2>4, Zenon
  <2>6. kind = "write" => ~Covers(records, p, FALSE, b)
    BY <2>1, <2>4, ZenonT(40)
  <2>7. old[p][b] = IF Covers(records, p, TRUE, b) THEN "write"
                    ELSE IF Covers(records, p, FALSE, b) THEN "read" ELSE "unlock"
    BY Zenon DEF Holdings, HeldIn
  <2> QED
    BY <1>0, <1>5, <2>5, <2>6, <2>7, Zenon DEF Kinds
<1>6. Bytewise!Set(o, old, new)
  <2>1. kind \in {"read", "write", "unlock"}
    BY <1>0, Zenon DEF Kinds
  <2> HIDE DEF old, new
  <2> QED
    BY <1>4, <1>5, <2>1, Zenon DEF Bytewise!Set, Bytewise!Bytes
<1> HIDE DEF old, new
<1>7. ByteStep(old, new)
  BY <1>0, <1>1, <1>6, Zenon DEF ByteStep
<1> QED
  BY <1>7, Zenon DEF old, new

(* Table::set, release_process, release_description and drop_flock do to    *)
(* an owner's bytes what ByteLocks says a request and a release do.         *)
THEOREM Refinement == Spec => ImplementsByteLocks
<1>1. Init => Bytewise!Init
  <2> SUFFICES ASSUME Init
               PROVE  Bytewise!Init
    OBVIOUS
  <2>1. \A o, w, b : ~Covers(records, o, w, b)
    BY Zenon DEF Init, Covers
  <2>2. Holdings(records) = [o \in Owners |-> Bytewise!Unlocked]
    BY <2>1, Zenon DEF Holdings, HeldIn, Bytewise!Unlocked, Bytewise!Bytes
  <2> QED
    BY <2>2, HeldIs, Zenon DEF Bytewise!Init
<1>2. IInv /\ [Next]_vars => [Bytewise!Next]_([o \in Owners |-> HeldBy(o)])
  <2> SUFFICES ASSUME IInv, [Next]_vars
               PROVE  Bytewise!Next \/ Holdings(records') = Holdings(records)
    BY HeldIs, Zenon
  <2>1. LockSteps
    BY LocksChange, Zenon DEF IInv
  <2>2. ASSUME NEW D, records' = {r \in records : r.owner \notin D}
        PROVE  Bytewise!Next
    BY <2>2, ReleaseRefines, StepIs, Zenon
  <2>3. CASE \E d \in Descs : Lets(d)
    <3>1. PICK d \in Descs, also \in SUBSET Owners : DropFlock(d, also)
      BY <2>3, Zenon DEF Lets
    <3>2. records' = {r \in records : r.owner \notin also \cup {<<"flock", d>>}}
      BY <3>1, Zenon DEF DropFlock
    <3> QED
      BY <2>2, <3>2, Zenon
  <2>4. CASE records' = records \ Mine(Process)
    <3>1. records' = {r \in records : r.owner \notin {Process}}
      BY <2>4, Zenon DEF Mine
    <3> QED
      BY <2>2, <3>1, Zenon
  <2>5. ASSUME NEW t \in Threads, ~Barred(call[t]), Take(t)
        PROVE  Bytewise!Next \/ records' = records
    <3> DEFINE c == call[t]
    <3>1. CASE c.op = "flock" /\ ~FLOCKS_ARE_RECORDS
      BY <2>5, <3>1, Zenon DEF Take
    <3>2. CASE ~(c.op = "flock" /\ ~FLOCKS_ARE_RECORDS)
      <4>1. records' = Set(OwnerOf(c), c.start, c.end, c.kind)
        BY <2>5, <3>2, Zenon DEF Take
      <4>2. c.kind # "unlock" => ~Hits(records, OwnerOf(c), c.start, c.end, c.kind = "write")
        BY <2>5, <3>2, Zenon DEF Barred, Hits, Conflicts
      <4>3. Asked(OwnerOf(c), c.start, c.end, c.kind)
        BY CallAsks, Zenon DEF IInv
      <4> QED
        BY <4>1, <4>2, <4>3, SetRefines, StepIs, Zenon
    <3> QED
      BY <3>1, <3>2, Zenon
  <2> QED
    BY <2>1, <2>3, <2>4, <2>5, Zenon DEF LockSteps
<1> QED
  BY <1>1, <1>2, Invariance, PTL DEF Spec, ImplementsByteLocks, Bytewise!Spec
==============================================================================
