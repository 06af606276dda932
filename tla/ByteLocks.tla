------------------------------ MODULE ByteLocks ------------------------------
(***************************************************************************)
(* What record locks promise (POSIX.1-2017, fcntl), byte by byte: a byte   *)
(* is locked by each owner for reading, for writing or not at all; a       *)
(* request sets the bytes of a range for one owner, unless another owner's *)
(* lock on one of them is in the way, and a release takes all an owner's.  *)
(***************************************************************************)
EXTENDS Integers

CONSTANTS Owners, Top
VARIABLE held   \* [Owners -> [bytes -> "read", "write" or "unlock"]]

Bytes == 0 .. Top - 1
Unlocked == [b \in Bytes |-> "unlock"]
Init == held = [o \in Owners |-> Unlocked]

(* Owner o's bytes become those of `new`: a range of them is set to one     *)
(* kind of lock, or to none, the others stay, and none taken is barred.     *)
Set(o, old, new) ==
  \E kind \in {"read", "write", "unlock"} :
    LET changed == {b \in Bytes : old[o][b] # new[o][b]}
    IN /\ \A b \in Bytes :
            (\E x, y \in changed : x <= b /\ b <= y) => new[o][b] = kind
       /\ kind # "unlock" =>
            \A p \in Owners \ {o}, b \in changed :
              old[p][b] = "unlock" \/ (kind = "read" /\ old[p][b] = "read")

Next ==
  LET old == held
      new == held'
      changed == {o \in Owners : old[o] # new[o]}
  IN \/ \A o \in changed : new[o] = Unlocked
     \/ \E o \in changed : changed = {o} /\ Set(o, old, new)

Spec == Init /\ [][Next]_held
=============================================================================
