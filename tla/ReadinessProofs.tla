--------------------------- MODULE ReadinessProofs ---------------------------
(***************************************************************************)
(* Of the waits outside a schedule, for any threads, keys, delays,         *)
(* programs and MaxTime: no sleeper whose data is there is left            *)
(* unsignalled, no stale mark outlives its sleep, and no wait gives up in  *)
(* a domain where something can run, but for a clock move it has yet to    *)
(* hear of.  They follow from the inductive invariant `IInv`.              *)
(***************************************************************************)
EXTENDS Readiness, TLAPS

Outside == {"run", "left", "alone", "offer", "done", "register", "return"}
Beds == {"asleep", "settle"}
Gated == {"gated", "judged", "clear", "ungate"}
Places == Outside \cup Beds \cup Gated \cup
          {"check", "checked", "recheck", "rechecked", "bump", "ring", "skip", "skipped",
           "epoch", "epochsettle"}

Founds == [ready : BOOLEAN, needed : BOOLEAN, moved : BOOLEAN, poll : BOOLEAN,
           result : {"none", "ready", "timeout", "stuck"}]
NoteSet == [kind : {"none", "keys", "timer", "due"}, key : Keys \cup {None}, at : 0 .. MaxTime,
            next : {"run", "offer", "ungate"}]

(* The types of the waits, and of what they wait for. *)
Typed ==
  /\ setup \in Setups /\ now \in 0 .. MaxTime
  /\ data \in [Keys -> BOOLEAN] /\ coming \in [Keys -> Times] /\ events \subseteq 0 .. MaxTime
  /\ lease \in BOOLEAN /\ gate \in Threads \cup {None} /\ live \subseteq Threads
  /\ pc \in [Actors -> Places] /\ wait \in [Threads -> Waits] /\ w \in [Threads -> Waiters]
  /\ found \in [Threads -> Founds] /\ note \in [Actors -> NoteSet]
  /\ ring \in [Actors -> SUBSET Threads]

(* Where a thread is: telling the others (next says what for), about to     *)
(* check what it found, or parked, with or without a check under way.       *)
Telling(a, next) == pc[a] \in {"bump", "ring"} /\ note[a].next = next
Checking(t) == pc[t] \in {"check", "checked"}
Rechecking(t) == pc[t] \in {"recheck", "rechecked"}
Deep(t) ==
  pc[t] \in Beds \cup Gated \cup {"skip", "skipped", "epoch", "epochsettle"} \/ Telling(t, "ungate")
Down(t) == Rechecking(t) \/ Deep(t)

(* What each place says of the subscription, the domain and the gate. *)
Placed(t) ==
  /\ w[t].on <=> Checking(t) \/ Down(t)
  /\ w[t].sleeping <=> Down(t)
  /\ w[t].entered <=> Down(t)
  /\ t \in live <=> ~(pc[t] \in {"left", "alone", "offer", "done"} \/ Telling(t, "offer"))
  /\ gate = t <=> pc[t] \in Gated \/ Telling(t, "ungate")
  /\ wait[t].filed <=> wait[t].deadline # Never
  /\ Down(t) => (w[t].sensitive <=> wait[t].deadline # Never \/ w[t].steady)
  /\ Deep(t) => (w[t].steady <=> found[t].needed)

(* Whoever bumps: it rings for what it bumped, and a send's bump returns to *)
(* the program.  The holder of a lease is idle while it holds it.           *)
Telltale(a) ==
  /\ pc[a] # "ring" => ring[a] = {}
  /\ pc[a] = "bump" /\ note[a].kind = "keys" => note[a].next = "run"
Leased ==
  /\ lease => pc[Holder] = "run"
  /\ pc[Holder] \in {"run", "offer", "done"} \/ Telling(Holder, "offer")

(* What is still crossing a link has its event ahead. *)
Arrives == \A k \in Keys : coming[k] \in now + 1 .. MaxTime => coming[k] \in events

(* A mark is one of the sleep it was made in, and its sleeper is signalled  *)
(* or about to be.                                                          *)
Marked(t) ==
  /\ w[t].stale => w[t].sleeping /\ (w[t].hit \/ Rechecking(t))
  /\ w[t].sleeping /\ w[t].hit => w[t].stale
  /\ pc[t] \in Beds /\ w[t].stale => w[t].sig \/ \E a \in Actors : t \in ring[a]

(* What t waits for is there or on its way; someone is about to bump its    *)
(* key; or to tell of a move of the clock.                                  *)
Due(t) == Ready(t) \/ coming[wait[t].key] \in now + 1 .. MaxTime
KeyBump(t) == \E a \in Actors : pc[a] = "bump" /\ note[a].kind = "keys" /\ note[a].key = wait[t].key
TimeBump == \E a \in Actors : pc[a] = "bump" /\ note[a].kind \in {"timer", "due"} /\ note[a].next # "offer"

(* A waiter that does not listen to time has been told of every send, or is *)
(* about to be; one that does has been told of every arrival.               *)
Hears(t, steady, told, toldTime) ==
  /\ Due(t) /\ ~steady => told \/ KeyBump(t)
  /\ Ready(t) /\ steady => toldTime \/ KeyBump(t) \/ TimeBump

(* Whoever is parked; and whoever has just checked, by what that check says *)
(* of time, whether or not the subscription has been tuned to it.           *)
Differs(t) ==
  \/ ~(w[t].steady <=> found[t].needed)
  \/ ~(w[t].sensitive <=> wait[t].deadline # Never \/ found[t].needed)
ParkedHears(t) == Down(t) => Hears(t, w[t].steady, w[t].stale, w[t].stale)
CheckerHears(t) ==
  pc[t] \in {"checked", "rechecked"} /\ ~found[t].ready =>
    Hears(t, found[t].needed, w[t].hit, w[t].hit \/ (w[t].any /\ Differs(t)))

Sound(t) == Placed(t) /\ Marked(t) /\ ParkedHears(t) /\ CheckerHears(t)
IInv ==
  /\ Typed /\ Leased /\ Arrives
  /\ \A a \in Actors : Telltale(a)
  /\ \A t \in Threads : Sound(t)

-----------------------------------------------------------------------------
(* The operators on the table of subscriptions. *)

Tables == [Threads -> Waiters]

(* A record of the table has its fields. *)
LEMMA Fields ==
  ASSUME NEW v \in Tables, NEW t \in Threads
  PROVE  /\ v[t].on \in BOOLEAN /\ v[t].sleeping \in BOOLEAN /\ v[t].stale \in BOOLEAN
         /\ v[t].hit \in BOOLEAN /\ v[t].any \in BOOLEAN /\ v[t].sig \in BOOLEAN
         /\ v[t].sensitive \in BOOLEAN /\ v[t].steady \in BOOLEAN
         /\ v[t].entered \in BOOLEAN /\ v[t].last \in BOOLEAN
  BY Zenon DEF Tables, Waiters

LEMMA UnregisteredIs ==
  /\ Unregistered \in Waiters
  /\ ~Unregistered.on /\ ~Unregistered.sleeping /\ ~Unregistered.stale /\ ~Unregistered.entered
  BY Zenon DEF Unregistered, Waiters

(* Tuned changes two fields of one record. *)
LEMMA TunedIs ==
  ASSUME NEW v \in Tables, NEW t \in Threads, NEW n \in BOOLEAN
  PROVE  LET x == Tuned(v, t, n)
         IN  /\ x \in Tables /\ \A u \in Threads \ {t} : x[u] = v[u]
             /\ x[t].on = v[t].on /\ x[t].sleeping = v[t].sleeping /\ x[t].stale = v[t].stale
             /\ x[t].hit = v[t].hit /\ x[t].any = v[t].any /\ x[t].sig = v[t].sig
             /\ x[t].entered = v[t].entered /\ x[t].steady = n
             /\ x[t].sensitive = (wait[t].deadline # Never \/ n)
<1> DEFINE s == wait[t].deadline # Never \/ n
<1>1. s \in BOOLEAN
  OBVIOUS
<1> HIDE DEF s
<1>2. LET x == [v EXCEPT ![t].sensitive = s, ![t].steady = n]
      IN  /\ x \in Tables /\ \A u \in Threads \ {t} : x[u] = v[u]
          /\ x[t].on = v[t].on /\ x[t].sleeping = v[t].sleeping /\ x[t].stale = v[t].stale
          /\ x[t].hit = v[t].hit /\ x[t].any = v[t].any /\ x[t].sig = v[t].sig
          /\ x[t].entered = v[t].entered /\ x[t].steady = n /\ x[t].sensitive = s
  BY <1>1, ZenonT(60) DEF Tables, Waiters
<1> QED
  BY <1>2, Zenon DEF s, Tuned

(* What Asleep does after that: the sleeper counts, and has heard nothing. *)
LaidDown(y, t) == [y EXCEPT ![t].sleeping = TRUE, ![t].hit = FALSE, ![t].sig = FALSE]
LEMMA LaidDownIs ==
  ASSUME NEW y \in Tables, NEW t \in Threads
  PROVE  LET z == LaidDown(y, t)
         IN  /\ z \in Tables /\ \A u \in Threads \ {t} : z[u] = y[u]
             /\ z[t].on = y[t].on /\ z[t].sleeping /\ z[t].stale = y[t].stale /\ ~z[t].hit
             /\ z[t].entered = y[t].entered /\ z[t].steady = y[t].steady
             /\ z[t].sensitive = y[t].sensitive
  BY ZenonT(60) DEF LaidDown, Tables, Waiters

LEMMA AsleepIs ==
  ASSUME NEW v \in Tables, NEW t \in Threads, NEW f \in Founds
  PROVE  LET x == Asleep(v, t, f)
         IN  /\ x \in Tables /\ \A u \in Threads \ {t} : x[u] = v[u]
             /\ x[t].on = v[t].on /\ x[t].sleeping /\ x[t].stale = v[t].stale
             /\ ~x[t].hit /\ x[t].entered = v[t].entered /\ x[t].steady = f.needed
             /\ x[t].sensitive = (wait[t].deadline # Never \/ f.needed)
<1>1. f.needed \in BOOLEAN
  BY Zenon DEF Founds
<1> DEFINE y == Tuned(v, t, f.needed)
<1>2. /\ y \in Tables /\ \A u \in Threads \ {t} : y[u] = v[u]
      /\ y[t].on = v[t].on /\ y[t].stale = v[t].stale /\ y[t].entered = v[t].entered
      /\ y[t].steady = f.needed /\ y[t].sensitive = (wait[t].deadline # Never \/ f.needed)
  BY <1>1, TunedIs
<1> HIDE DEF y
<1> DEFINE z == LaidDown(y, t)
<1>3. /\ z \in Tables /\ \A u \in Threads \ {t} : z[u] = y[u]
      /\ z[t].on = y[t].on /\ z[t].sleeping /\ z[t].stale = y[t].stale /\ ~z[t].hit
      /\ z[t].entered = y[t].entered /\ z[t].steady = y[t].steady
      /\ z[t].sensitive = y[t].sensitive
  BY <1>2, LaidDownIs, Zenon
<1>4. Asleep(v, t, f) = z
  BY Zenon DEF Asleep, LaidDown, y
<1> HIDE DEF z
<1> QED
  BY <1>2, <1>3, <1>4, Zenon

(* Back takes the mark of a sleeper that a bump reached, and Woke any. *)
Unmarked(v, t) == [v EXCEPT ![t].stale = FALSE]
WithLast(v, t, l) == [v EXCEPT ![t].last = l]
LEMMA UnmarkedIs ==
  ASSUME NEW v \in Tables, NEW t \in Threads, NEW l \in BOOLEAN
  PROVE  /\ LET x == Unmarked(v, t)
            IN  /\ x \in Tables /\ \A u \in Threads \ {t} : x[u] = v[u]
                /\ x[t].on = v[t].on /\ x[t].entered = v[t].entered /\ ~x[t].stale
                /\ x[t].sleeping = v[t].sleeping /\ x[t].hit = v[t].hit
                /\ x[t].steady = v[t].steady /\ x[t].sensitive = v[t].sensitive
         /\ LET x == WithLast(v, t, l)
            IN  /\ x \in Tables /\ \A u \in Threads \ {t} : x[u] = v[u]
                /\ x[t].on = v[t].on /\ x[t].entered = v[t].entered /\ x[t].stale = v[t].stale
                /\ x[t].sleeping = v[t].sleeping /\ x[t].hit = v[t].hit
                /\ x[t].steady = v[t].steady /\ x[t].sensitive = v[t].sensitive
  BY ZenonT(60) DEF Unmarked, WithLast, Tables, Waiters

LEMMA AwakeIs ==
  ASSUME NEW v \in Tables, NEW t \in Threads
  PROVE  LET x == Awake(v, t)
         IN  /\ x \in Tables /\ \A u \in Threads \ {t} : x[u] = v[u]
             /\ x[t].on = v[t].on /\ x[t].entered = v[t].entered /\ x[t].stale = v[t].stale
             /\ ~x[t].sleeping /\ x[t].hit = v[t].hit
             /\ x[t].steady = v[t].steady /\ x[t].sensitive = v[t].sensitive
  BY ZenonT(60) DEF Awake, Tables, Waiters

LEMMA WokeIs ==
  ASSUME NEW v \in Tables, NEW t \in Threads
  PROVE  LET x == Woke(v, t)
         IN  /\ x \in Tables /\ \A u \in Threads \ {t} : x[u] = v[u]
             /\ x[t].on = v[t].on /\ x[t].entered = v[t].entered /\ ~x[t].stale
             /\ x[t].sleeping = v[t].sleeping /\ x[t].hit = v[t].hit
             /\ x[t].steady = v[t].steady /\ x[t].sensitive = v[t].sensitive
<1>1. CASE v[t].stale
  <2> DEFINE y == Unmarked(v, t)
             l == y[t].last \/ ~Settling(y)
             z == WithLast(y, t, l)
  <2>1. /\ y \in Tables /\ \A u \in Threads \ {t} : y[u] = v[u]
        /\ y[t].on = v[t].on /\ y[t].entered = v[t].entered /\ ~y[t].stale
        /\ y[t].sleeping = v[t].sleeping /\ y[t].hit = v[t].hit
        /\ y[t].steady = v[t].steady /\ y[t].sensitive = v[t].sensitive
    BY UnmarkedIs, Zenon
  <2>2. Woke(v, t) = z /\ l \in BOOLEAN
    BY <1>1, Zenon DEF Woke, Unmarked, WithLast
  <2> HIDE DEF y, l
  <2>3. /\ z \in Tables /\ \A u \in Threads \ {t} : z[u] = y[u]
        /\ z[t].on = y[t].on /\ z[t].entered = y[t].entered /\ z[t].stale = y[t].stale
        /\ z[t].sleeping = y[t].sleeping /\ z[t].hit = y[t].hit
        /\ z[t].steady = y[t].steady /\ z[t].sensitive = y[t].sensitive
    BY <2>1, <2>2, UnmarkedIs
  <2> HIDE DEF z
  <2> QED
    BY <2>1, <2>2, <2>3, Zenon
<1>2. CASE ~v[t].stale
  BY <1>2, Zenon DEF Woke
<1> QED
  BY <1>1, <1>2, Zenon

LEMMA BackIs ==
  ASSUME NEW v \in Tables, NEW t \in Threads
  PROVE  LET x == Back(v, t)
         IN  /\ x \in Tables /\ \A u \in Threads \ {t} : x[u] = v[u]
             /\ x[t].on = v[t].on /\ x[t].entered = v[t].entered
             /\ x[t].stale = (v[t].stale /\ ~v[t].hit) /\ ~x[t].sleeping /\ x[t].hit = v[t].hit
             /\ x[t].steady = v[t].steady /\ x[t].sensitive = v[t].sensitive
<1>1. Awake(v, t) \in Tables
  BY AwakeIs, Zenon
<1> DEFINE y == Awake(v, t)
           z == Woke(y, t)
<1>2. CASE v[t].hit
  <2>1. /\ z \in Tables /\ \A u \in Threads \ {t} : z[u] = y[u]
        /\ z[t].on = y[t].on /\ z[t].entered = y[t].entered /\ ~z[t].stale
        /\ z[t].sleeping = y[t].sleeping /\ z[t].hit = y[t].hit
        /\ z[t].steady = y[t].steady /\ z[t].sensitive = y[t].sensitive
    BY <1>1, WokeIs, Zenon
  <2>2. /\ \A u \in Threads \ {t} : y[u] = v[u]
        /\ y[t].on = v[t].on /\ y[t].entered = v[t].entered
        /\ ~y[t].sleeping /\ y[t].hit = v[t].hit
        /\ y[t].steady = v[t].steady /\ y[t].sensitive = v[t].sensitive
    BY AwakeIs, Zenon
  <2>3. Back(v, t) = z /\ z[t].stale \in BOOLEAN
    BY <1>2, <2>1, Fields, Zenon DEF Back
  <2> HIDE DEF y, z
  <2> QED
    BY <1>2, <2>1, <2>2, <2>3, Zenon
<1>3. CASE ~v[t].hit
  BY <1>3, AwakeIs, Fields DEF Back
<1> QED
  BY <1>2, <1>3, Zenon

-----------------------------------------------------------------------------
(* A step of another: what is said of thread u stays true. *)

(* A subscription after a bump that may have reached it. *)
Louder(x, y) ==
  /\ y.on <=> x.on
  /\ y.sleeping <=> x.sleeping
  /\ y.entered <=> x.entered
  /\ y.sensitive <=> x.sensitive
  /\ y.steady <=> x.steady
  /\ x.hit => y.hit
  /\ x.any => y.any
  /\ x.stale => y.stale
  /\ y.stale => x.stale \/ (y.hit /\ y.sleeping)
  /\ y.hit /\ y.sleeping => x.hit \/ y.stale

(* The signal of a sleeper that is marked is made or on its way. *)
Signals(u) ==
  /\ w[u].sig /\ w[u].sleeping => w'[u].sig
  /\ w'[u].stale => w[u].stale \/ w'[u].sig \/ \E a \in Actors : u \in ring'[a]
  /\ (\E a \in Actors : u \in ring[a]) /\ w[u].sleeping => w'[u].sig \/ \E a \in Actors : u \in ring'[a]

Frame(u) ==
  /\ pc'[u] = pc[u] /\ note'[u] = note[u] /\ found'[u] = found[u] /\ wait'[u] = wait[u]
  /\ u \in live' <=> u \in live
  /\ gate' = u <=> gate = u
  /\ Louder(w[u], w'[u]) /\ Signals(u)

(* No bump that is due is dropped, and data comes only with one. *)
Kept == \A a \in Actors : pc[a] = "bump" => pc'[a] = "bump" /\ note'[a] = note[a]
Learns(u) ==
  /\ Due(u)' => Due(u) \/ KeyBump(u)'
  /\ Ready(u)' => Ready(u) \/ KeyBump(u)' \/ (Due(u) /\ TimeBump')

LEMMA Sources ==
  ASSUME NEW u \in Threads, Kept, wait'[u] = wait[u]
  PROVE  (KeyBump(u) => KeyBump(u)') /\ (TimeBump => TimeBump')
  BY Zenon DEF Kept, KeyBump, TimeBump

LEMMA Unmoved ==
  ASSUME NEW u \in Threads, UNCHANGED <<now, data, coming>>, wait'[u] = wait[u]
  PROVE  Learns(u) /\ (Due(u)' <=> Due(u)) /\ (Ready(u)' <=> Ready(u))
  BY Zenon DEF Learns, Due, Ready

(* What a waiter hears of survives a step that drops no bump. *)
LEMMA HearsKept ==
  ASSUME NEW u \in Threads, NEW n, NEW m, NEW p, NEW q, NEW pp, NEW qq,
         Kept, Learns(u), wait'[u] = wait[u], Hears(u, n, p, q), m <=> n, p => pp, q => qq
  PROVE  /\ Due(u)' /\ ~m => pp \/ KeyBump(u)'
         /\ Ready(u)' /\ m => qq \/ KeyBump(u)' \/ TimeBump'
  BY Sources, Zenon DEF Hears, Learns

LEMMA Bystander ==
  ASSUME NEW u \in Threads, Sound(u), Frame(u), Kept, Learns(u)
  PROVE  Sound(u)'
<1>1. /\ Down(u)' <=> Down(u)
      /\ Rechecking(u)' <=> Rechecking(u)
      /\ Deep(u)' <=> Deep(u)
      /\ Checking(u)' <=> Checking(u)
  BY Zenon DEF Frame, Down, Rechecking, Deep, Checking, Telling
<1>2. Placed(u)'
  BY <1>1, Zenon DEF Sound, Placed, Frame, Louder, Telling
<1>3. Marked(u)'
  BY <1>1, Zenon DEF Sound, Marked, Frame, Louder, Signals
<1>4. ParkedHears(u)'
  <2> SUFFICES ASSUME Down(u)
               PROVE  Hears(u, w[u].steady, w[u].stale, w[u].stale)'
    BY <1>1, Zenon DEF ParkedHears
  <2>1. Hears(u, w[u].steady, w[u].stale, w[u].stale)
    BY Zenon DEF Sound, ParkedHears
  <2> QED
    BY <2>1, HearsKept, Zenon DEF Frame, Louder, Hears
<1>5. CheckerHears(u)'
  <2> SUFFICES ASSUME pc[u] \in {"checked", "rechecked"}, ~found[u].ready
               PROVE  Hears(u, found[u].needed, w[u].hit, w[u].hit \/ (w[u].any /\ Differs(u)))'
    BY Zenon DEF CheckerHears, Frame
  <2>1. Hears(u, found[u].needed, w[u].hit, w[u].hit \/ (w[u].any /\ Differs(u)))
    BY Zenon DEF Sound, CheckerHears
  <2>2. Differs(u) => Differs(u)'
    BY Zenon DEF Differs, Frame, Louder
  <2> QED
    BY <2>1, <2>2, HearsKept, Zenon DEF Frame, Louder, Hears
<1> QED
  BY <1>2, <1>3, <1>4, <1>5, Zenon DEF Sound

-----------------------------------------------------------------------------
(* The sections of a wait: each ends with t gone or asleep again. *)

Gone(t) == pc'[t] = "return" /\ w'[t] = Unregistered
Slept(t, n) ==
  /\ pc'[t] \in Beds \cup {"skip", "epoch", "epochsettle"}
  /\ w'[t].on /\ w'[t].sleeping /\ w'[t].entered /\ ~w'[t].stale /\ ~w'[t].hit
  /\ w'[t].steady <=> n
  /\ w'[t].sensitive <=> wait[t].deadline # Never \/ n
  /\ found'[t].needed <=> n
Ends(v, t, n) ==
  /\ w' \in Tables /\ found' \in [Threads -> Founds] /\ pc' \in [Actors -> Places]
  /\ \A u \in Threads \ {t} : w'[u] = v[u] /\ found'[u] = found[u]
  /\ \A a \in Actors \ {t} : pc'[a] = pc[a]
  /\ Gone(t) \/ Slept(t, n)

(* A table in which t is registered, counted and unmarked. *)
Fit(v, t) == v \in Tables /\ v[t].on /\ v[t].entered /\ ~v[t].stale

LEMMA FoundFields ==
  ASSUME NEW f \in Founds
  PROVE  /\ f.ready \in BOOLEAN /\ f.needed \in BOOLEAN
         /\ f.result \in {"none", "ready", "timeout", "stuck"}
  BY Zenon DEF Founds

LEMMA GoneTo ==
  ASSUME Typed, NEW t \in Threads, NEW p \in Places, Goto(t, p)
  PROVE  /\ pc' \in [Actors -> Places] /\ pc'[t] = p
         /\ \A a \in Actors \ {t} : pc'[a] = pc[a]
  BY Zenon DEF Typed, Goto, Actors

LEMMA IdleWith ==
  ASSUME NEW r \in {"none", "ready", "timeout", "stuck"}
  PROVE  /\ [Idle EXCEPT !.result = r] \in Founds
         /\ [Idle EXCEPT !.result = r].result = r
  BY Zenon DEF Idle, Founds

LEMMA LeaveEnds ==
  ASSUME Typed, NEW t \in Threads, NEW v \in Tables, NEW n,
         NEW r \in {"none", "ready", "timeout", "stuck"}, Leave(v, t, r)
  PROVE  Ends(v, t, n) /\ Gone(t) /\ found'[t].result = r
<1> DEFINE g == [Idle EXCEPT !.result = r]
<1>1. g \in Founds /\ g.result = r
  BY IdleWith, Zenon
<1>2. found' = [found EXCEPT ![t] = g] /\ w' = [v EXCEPT ![t] = Unregistered] /\ Goto(t, "return")
  BY Zenon DEF Leave
<1> HIDE DEF g
<1>3. found' \in [Threads -> Founds] /\ found'[t] = g /\ \A u \in Threads \ {t} : found'[u] = found[u]
  BY <1>1, <1>2, Zenon DEF Typed
<1>4. w' \in Tables /\ w'[t] = Unregistered /\ \A u \in Threads \ {t} : w'[u] = v[u]
  BY <1>2, UnregisteredIs, Zenon DEF Tables
<1>5. /\ pc' \in [Actors -> Places] /\ pc'[t] = "return"
      /\ \A a \in Actors \ {t} : pc'[a] = pc[a]
  BY <1>2, GoneTo, Zenon DEF Places, Outside
<1> QED
  BY <1>1, <1>3, <1>4, <1>5, Zenon DEF Ends, Gone

(* Both ways of going to sleep end in Asleep. *)
LiesDown(v, t, f, g, p) ==
  w' = Asleep(v, t, f) /\ found' = [found EXCEPT ![t] = g] /\ g.needed = f.needed /\ Goto(t, p)
LEMMA AsleepEnds ==
  ASSUME Typed, NEW t \in Threads, NEW v, NEW f \in Founds, NEW g \in Founds,
         NEW p \in Beds \cup {"skip", "epoch", "epochsettle"}, Fit(v, t), LiesDown(v, t, f, g, p)
  PROVE  Ends(v, t, f.needed) /\ found'[t] = g
<1> USE DEF LiesDown
<1>1. /\ w' \in Tables /\ \A u \in Threads \ {t} : w'[u] = v[u]
      /\ w'[t].on /\ w'[t].sleeping /\ w'[t].entered /\ ~w'[t].stale /\ ~w'[t].hit
      /\ w'[t].steady = f.needed /\ w'[t].sensitive = (wait[t].deadline # Never \/ f.needed)
  <2>1. v \in Tables /\ v[t].on /\ v[t].entered /\ ~v[t].stale
    BY Zenon DEF Fit
  <2> DEFINE y == Asleep(v, t, f)
  <2>2. /\ y \in Tables /\ \A u \in Threads \ {t} : y[u] = v[u]
        /\ y[t].on = v[t].on /\ y[t].sleeping /\ y[t].stale = v[t].stale
        /\ ~y[t].hit /\ y[t].entered = v[t].entered /\ y[t].steady = f.needed
        /\ y[t].sensitive = (wait[t].deadline # Never \/ f.needed)
    BY <2>1, AsleepIs, Zenon
  <2>3. w' = y
    OBVIOUS
  <2> HIDE DEF y
  <2> QED
    BY <2>1, <2>2, <2>3, Zenon
<1>2. found' \in [Threads -> Founds] /\ found'[t] = g /\ \A u \in Threads \ {t} : found'[u] = found[u]
  BY Zenon DEF Typed
<1>3. /\ pc' \in [Actors -> Places] /\ pc'[t] = p
      /\ \A a \in Actors \ {t} : pc'[a] = pc[a]
  BY GoneTo, Zenon DEF Places
<1> QED
  BY <1>1, <1>2, <1>3, Zenon DEF Ends, Slept

LEMMA FallEnds ==
  ASSUME Typed, NEW t \in Threads, NEW v, Fit(v, t), NEW f \in Founds,
         NEW p \in Beds, NEW q \in {"epoch", "epochsettle"}, FallAsleep(v, t, f, p, q)
  PROVE  Ends(v, t, f.needed) /\ found'[t] = f
<1> DEFINE x == WithLast(v, t, FALSE)
<1>1. Fit(x, t) /\ \A u \in Threads \ {t} : x[u] = v[u]
  BY UnmarkedIs, Zenon DEF Fit
<1>2. PICK r \in Beds \cup {"skip", "epoch", "epochsettle"} : Goto(t, r)
  BY Zenon DEF FallAsleep
<1>3. LiesDown(x, t, f, f, r)
  BY <1>2, Zenon DEF FallAsleep, WithLast, LiesDown
<1> HIDE DEF x
<1>4. Ends(x, t, f.needed) /\ found'[t] = f
  BY <1>1, <1>3, AsleepEnds, Zenon
<1> QED
  BY <1>1, <1>4, Zenon DEF Ends

LEMMA SkipEnds ==
  ASSUME Typed, NEW t \in Threads, NEW v, Fit(v, t), NEW f \in Founds,
         NEW poll \in BOOLEAN, TrySkip(v, t, f, poll)
  PROVE  Ends(v, t, f.needed) /\ found'[t].result = f.result
<1> DEFINE g == [f EXCEPT !.poll = poll, !.moved = FALSE]
<1>1. g \in Founds /\ g.needed = f.needed /\ g.result = f.result
  BY Zenon DEF Founds
<1>2. LiesDown(v, t, f, g, "skip")
  BY <1>1, Zenon DEF TrySkip, LiesDown
<1> HIDE DEF g
<1>3. Ends(v, t, f.needed) /\ found'[t] = g
  BY <1>1, <1>2, AsleepEnds, Zenon
<1> QED
  BY <1>1, <1>3, Zenon

(* The top of the loop never gives up, and neither does the end of a sleep. *)
Unstuck(t, f) == found'[t].result = "stuck" => f.result = "stuck"
LEMMA TopEnds ==
  ASSUME Typed, NEW t \in Threads, NEW v, Fit(v, t), NEW f \in Founds, Top(v, t, f)
  PROVE  Ends(v, t, f.needed) /\ Unstuck(t, f)
<1>0. v \in Tables
  BY Zenon DEF Fit
<1>1. CASE Passed(t) /\ Leave(v, t, Outcome(t))
  <2>1. Outcome(t) \in {"ready", "timeout"}
    BY <1>1, Zenon DEF Outcome
  <2> QED
    BY <1>0, <1>1, <2>1, LeaveEnds, Zenon DEF Unstuck
<1>2. CASE TrySkip(v, t, f, FALSE)
  BY <1>2, SkipEnds, Zenon DEF Unstuck
<1>3. CASE FallAsleep(v, t, f, "asleep", "epoch")
  BY <1>3, FallEnds, Zenon DEF Unstuck, Beds
<1> QED
  BY <1>1, <1>2, <1>3, Zenon DEF Top

LEMMA PostEnds ==
  ASSUME Typed, NEW t \in Threads, NEW v, Fit(v, t), NEW f \in Founds, NEW polled, Post(v, t, f, polled)
  PROVE  Ends(v, t, f.needed) /\ Unstuck(t, f) /\ (f.ready => Gone(t))
<1>0. v \in Tables
  BY Zenon DEF Fit
<1>1. CASE f.ready /\ Leave(v, t, "ready")
  BY <1>0, <1>1, LeaveEnds, Zenon DEF Unstuck
<1>2. CASE ~f.ready /\ Passed(t) /\ Leave(v, t, Outcome(t))
  <2>1. Outcome(t) \in {"ready", "timeout"}
    BY <1>2, Zenon DEF Outcome
  <2> QED
    BY <1>0, <1>2, <2>1, LeaveEnds, Zenon DEF Unstuck
<1>3. CASE ~f.ready /\ TrySkip(v, t, f, TRUE)
  BY <1>3, SkipEnds, Zenon DEF Unstuck
<1>4. CASE ~f.ready /\ Top(v, t, f)
  BY <1>4, TopEnds, Zenon
<1> QED
  BY <1>1, <1>2, <1>3, <1>4, Zenon DEF Post

(* Where a section of a wait starts. *)
Within == {"checked", "rechecked", "asleep", "settle", "epoch", "epochsettle", "skipped"}

LEMMA OwnEnd ==
  ASSUME IInv, NEW t \in Threads, NEW v, NEW n, Ends(v, t, n), pc[t] \in Within,
         Gone(t) \/ Hears(t, n, FALSE, FALSE),
         UNCHANGED <<now, data, coming, live, gate, wait, note, ring>>
  PROVE  Sound(t)'
<1>1. /\ t \in live /\ gate # t
      /\ wait[t].filed <=> wait[t].deadline # Never
  BY Zenon DEF IInv, Sound, Placed, Within, Telling, Gated
<1>2. Kept
  BY Zenon DEF Ends, Kept, Within
<1>3. CASE Gone(t)
  <2>1. /\ ~Checking(t)' /\ ~Down(t)' /\ ~Deep(t)' /\ ~Rechecking(t)' /\ pc'[t] = "return"
    BY <1>3, Zenon DEF Gone, Checking, Down, Deep, Rechecking, Telling, Beds, Gated
  <2>2. ~w'[t].on /\ ~w'[t].sleeping /\ ~w'[t].stale /\ ~w'[t].entered
    BY <1>3, UnregisteredIs, Zenon DEF Gone
  <2> QED
    BY <1>1, <2>1, <2>2, Zenon DEF Sound, Placed, Marked, ParkedHears, CheckerHears, Telling, Gated, Beds
<1>4. CASE Slept(t, n) /\ Hears(t, n, FALSE, FALSE)
  <2>1. /\ ~Checking(t)' /\ Down(t)' /\ Deep(t)' /\ ~Rechecking(t)'
        /\ pc'[t] \in {"asleep", "settle", "skip", "epoch", "epochsettle"}
    BY <1>4, Zenon DEF Slept, Checking, Down, Deep, Rechecking, Telling, Beds, Gated
  <2>2. Placed(t)'
    BY <1>1, <1>4, <2>1, Zenon DEF Placed, Slept, Telling, Gated
  <2>3. Marked(t)'
    BY <1>4, Zenon DEF Marked, Slept
  <2>4. ParkedHears(t)'
    BY <1>2, <1>4, Unmoved, Sources, Zenon DEF ParkedHears, Hears, Slept
  <2>5. CheckerHears(t)'
    BY <2>1, Zenon DEF CheckerHears
  <2> QED
    BY <2>2, <2>3, <2>4, <2>5, Zenon DEF Sound
<1> QED
  BY <1>3, <1>4, Zenon DEF Ends

(* What a section leaves of the others: what was there, or louder. *)
Others(v, t) ==
  \A u \in Threads \ {t} :
    /\ Louder(w[u], v[u])
    /\ w[u].sig => v[u].sig
    /\ v[u].stale => w[u].stale \/ v[u].sig

LEMMA SameOthers ==
  ASSUME NEW t \in Threads, NEW v, \A u \in Threads \ {t} : v[u] = w[u], w \in Tables
  PROVE  Others(v, t)
  BY Fields, Zenon DEF Others, Louder

LEMMA WaitStep ==
  ASSUME IInv, NEW t \in Threads, NEW v, NEW n, Ends(v, t, n), Others(v, t), pc[t] \in Within,
         Gone(t) \/ Hears(t, n, FALSE, FALSE),
         UNCHANGED <<setup, now, data, coming, events, lease, gate, live, wait, note, ring>>
  PROVE  IInv'
<1>0. Typed /\ Leased /\ Arrives /\ (\A a \in Actors : Telltale(a)) /\ \A u \in Threads : Sound(u)
  BY Zenon DEF IInv
<1>1. Typed'
  BY <1>0, Zenon DEF Typed, Ends, Tables
<1>2. Holder \in Actors \ {t} /\ pc'[Holder] = pc[Holder]
  BY ReadinessAssumption, Zenon DEF Ends, Actors
<1>3. Leased' /\ Arrives'
  BY <1>0, <1>2, Zenon DEF Leased, Arrives, Telling
<1>4. \A a \in Actors : Telltale(a)'
  <2>1. pc'[t] # "ring" /\ pc'[t] # "bump" /\ pc[t] # "ring" /\ pc[t] # "bump"
    BY Zenon DEF Ends, Gone, Slept, Beds, Within
  <2> QED
    BY <1>0, <2>1, Zenon DEF Telltale, Ends
<1>5. ASSUME NEW u \in Threads \ {t}
      PROVE  Sound(u)'
  <2>1. Kept
    BY Zenon DEF Ends, Kept, Within
  <2>2. Frame(u)
    BY Zenon DEF Ends, Others, Frame, Signals, Actors
  <2>3. Learns(u)
    BY Unmoved, Zenon
  <2> QED
    BY <1>0, <2>1, <2>2, <2>3, Bystander, Zenon
<1>6. Sound(t)'
  BY OwnEnd, Zenon
<1> QED
  BY <1>1, <1>3, <1>4, <1>5, <1>6, Zenon DEF IInv

(* A fresh check that found nothing has nothing left to hear. *)
LEMMA SeenIs ==
  ASSUME Typed, NEW t \in Threads
  PROVE  /\ Seen(t) \in Founds
         /\ Seen(t).ready <=> Ready(t)
         /\ Seen(t).needed <=> Needed(t)
         /\ Seen(t).result = found[t].result /\ Seen(t).moved = found[t].moved
         /\ Seen(t).poll = found[t].poll
<1>1. wait[t] \in Waits /\ found[t] \in Founds /\ data \in [Keys -> BOOLEAN]
  BY Zenon DEF Typed
<1>2. Ready(t) \in BOOLEAN /\ Needed(t) \in BOOLEAN
  BY <1>1, Zenon DEF Ready, Needed, Waits
<1> HIDE DEF Ready, Needed
<1> QED
  BY <1>1, <1>2, ZenonT(60) DEF Seen, Founds

LEMMA FreshHears ==
  ASSUME Typed, NEW t \in Threads, ~Ready(t)
  PROVE  Hears(t, Seen(t).needed, FALSE, FALSE)
  BY SeenIs, Zenon DEF Hears, Due, Needed

(* A sleeper that no bump reached has none left unheard. *)
LEMMA DeepHears ==
  ASSUME IInv, NEW t \in Threads, pc[t] \in {"asleep", "settle", "epoch", "epochsettle", "skipped"},
         ~w[t].hit
  PROVE  Hears(t, found[t].needed, FALSE, FALSE)
<1>1. Placed(t) /\ Marked(t) /\ ParkedHears(t)
  BY Zenon DEF IInv, Sound
<1>2. Down(t) /\ Deep(t) /\ ~Rechecking(t)
  BY Zenon DEF Down, Deep, Rechecking, Beds
<1>3. ~w[t].stale /\ (w[t].steady <=> found[t].needed)
  BY <1>1, <1>2, Zenon DEF Marked, Placed
<1> QED
  BY <1>1, <1>2, <1>3, Zenon DEF ParkedHears, Hears

LEMMA BackFits ==
  ASSUME IInv, NEW t \in Threads, pc[t] \in {"asleep", "settle", "epoch", "epochsettle", "skipped"}
  PROVE  Fit(Back(w, t), t) /\ \A u \in Threads \ {t} : Back(w, t)[u] = w[u]
<1>1. Placed(t) /\ Marked(t) /\ w \in Tables
  BY Zenon DEF IInv, Sound, Typed, Tables
<1>2. Down(t) /\ ~Rechecking(t)
  BY Zenon DEF Down, Deep, Rechecking, Beds
<1>3. w[t].on /\ w[t].entered /\ ~(w[t].stale /\ ~w[t].hit)
  BY <1>1, <1>2, Zenon DEF Marked, Placed
<1> DEFINE x == Back(w, t)
<1>4. /\ x \in Tables /\ \A u \in Threads \ {t} : x[u] = w[u]
      /\ x[t].on = w[t].on /\ x[t].entered = w[t].entered
      /\ x[t].stale = (w[t].stale /\ ~w[t].hit)
  BY <1>1, BackIs, Zenon
<1> HIDE DEF x
<1>5. Fit(x, t) /\ \A u \in Threads \ {t} : x[u] = w[u]
  BY <1>3, <1>4, Zenon DEF Fit
<1> QED
  BY <1>5, Zenon DEF x

LEMMA SleepStep ==
  ASSUME IInv, NEW t \in Threads, NEW late \in BOOLEAN, SleepEnds(t, late)
  PROVE  IInv' /\ Unstuck(t, found[t])
<1> DEFINE v == Back(w, t)
<1>0. Typed /\ w \in Tables /\ pc[t] = "asleep"
  BY Zenon DEF IInv, Typed, Tables, SleepEnds
<1>1. Fit(v, t) /\ Others(v, t)
  BY <1>0, BackFits, SameOthers, Zenon
<1>2. PICK polled : Post(v, t, Seen(t), polled)
  BY Zenon DEF SleepEnds
<1> HIDE DEF v
<1>3. Ends(v, t, Seen(t).needed) /\ Unstuck(t, Seen(t)) /\ (Seen(t).ready => Gone(t))
  BY <1>0, <1>1, <1>2, SeenIs, PostEnds, Zenon
<1>4. Gone(t) \/ Hears(t, Seen(t).needed, FALSE, FALSE)
  BY <1>0, <1>3, SeenIs, FreshHears, Zenon
<1>5. UNCHANGED <<setup, now, data, coming, events, lease, gate, live, wait, note, ring>>
  BY Zenon DEF SleepEnds
<1>6. IInv'
  BY <1>0, <1>1, <1>3, <1>4, <1>5, WaitStep, Zenon DEF Within
<1> QED
  BY <1>0, <1>3, <1>6, SeenIs, Zenon DEF Unstuck

(* The two ends of the sleep that lets a skip settle. *)
LEMMA SettledEnds ==
  ASSUME Typed, NEW t \in Threads, NEW v, Fit(v, t), Settled(v, t)
  PROVE  /\ Ends(v, t, Seen(t).needed) /\ Unstuck(t, found[t])
         /\ Gone(t) \/ Hears(t, Seen(t).needed, FALSE, FALSE)
<1>0. v \in Tables
  BY Zenon DEF Fit
<1>1. CASE Leave(v, t, "ready")
  BY <1>0, <1>1, LeaveEnds, Zenon DEF Unstuck
<1>2. CASE ~Ready(t) /\ Top(v, t, Seen(t))
  BY <1>2, TopEnds, SeenIs, FreshHears, Zenon DEF Unstuck
<1> QED
  BY <1>1, <1>2, Zenon DEF Settled

LEMMA SettleStep ==
  ASSUME IInv, NEW t \in Threads, SettleEnds(t)
  PROVE  IInv' /\ Unstuck(t, found[t])
<1> DEFINE v == Back(w, t)
<1>0. Typed /\ w \in Tables /\ pc[t] = "settle" /\ Settled(v, t)
  BY Zenon DEF IInv, Typed, Tables, SettleEnds
<1>1. Fit(v, t) /\ Others(v, t)
  BY <1>0, BackFits, SameOthers, Zenon
<1> HIDE DEF v
<1>2. UNCHANGED <<setup, now, data, coming, events, lease, gate, live, wait, note, ring>>
  BY Zenon DEF SettleEnds
<1> QED
  BY <1>0, <1>1, <1>2, SettledEnds, WaitStep, Zenon DEF Within

LEMMA EpochStep ==
  ASSUME IInv, NEW t \in Threads, EpochMoved(t)
  PROVE  IInv' /\ Unstuck(t, found[t])
<1> DEFINE v == Back(w, t)
<1>0. Typed /\ w \in Tables /\ pc[t] \in {"epoch", "epochsettle"} /\ found[t] \in Founds
  BY Zenon DEF IInv, Typed, Tables, EpochMoved
<1>1. Fit(v, t) /\ Others(v, t)
  BY <1>0, BackFits, SameOthers, Zenon
<1>2. UNCHANGED <<setup, now, data, coming, events, lease, gate, live, wait, note, ring>>
  BY Zenon DEF EpochMoved
<1>3. CASE ~w[t].hit /\ w' = Asleep(Awake(w, t), t, found[t]) /\ UNCHANGED found
           /\ \E p \in Beds : Goto(t, p)
  <2>1. v = Awake(w, t)
    BY <1>3, Zenon DEF Back
  <2>2. PICK p \in Beds : Goto(t, p)
    BY <1>3, Zenon
  <2>3. LiesDown(v, t, found[t], found[t], p)
    BY <1>0, <1>3, <2>1, <2>2, Zenon DEF LiesDown, Typed
  <2> HIDE DEF v
  <2>4. Ends(v, t, found[t].needed) /\ found'[t] = found[t]
    BY <1>0, <1>1, <2>3, AsleepEnds, Zenon
  <2>5. Hears(t, found[t].needed, FALSE, FALSE)
    BY <1>0, <1>3, DeepHears, Zenon
  <2> QED
    BY <1>0, <1>1, <1>2, <2>4, <2>5, WaitStep, Zenon DEF Within, Unstuck
<1>4. CASE Post(v, t, Seen(t), FALSE)
  <2> HIDE DEF v
  <2>1. Ends(v, t, Seen(t).needed) /\ Unstuck(t, Seen(t)) /\ (Seen(t).ready => Gone(t))
    BY <1>0, <1>1, <1>4, SeenIs, PostEnds, Zenon
  <2>2. Gone(t) \/ Hears(t, Seen(t).needed, FALSE, FALSE)
    BY <1>0, <2>1, SeenIs, FreshHears, Zenon
  <2>3. IInv'
    BY <1>0, <1>1, <1>2, <2>1, <2>2, WaitStep, Zenon DEF Within
  <2> QED
    BY <1>0, <2>1, <2>3, SeenIs, Zenon DEF Unstuck
<1>5. CASE Settled(v, t)
  <2> HIDE DEF v
  <2> QED
    BY <1>0, <1>1, <1>2, <1>5, SettledEnds, WaitStep, Zenon DEF Within
<1> QED
  BY <1>3, <1>4, <1>5, Zenon DEF EpochMoved, Beds

(* The table after a bump. *)
BumpOf(r, h) == [r EXCEPT !.any = TRUE, !.hit = @ \/ h, !.stale = @ \/ (h /\ r.sleeping)]
LEMMA BumpOfIs ==
  ASSUME NEW r \in Waiters, NEW h \in BOOLEAN
  PROVE  LET x == BumpOf(r, h)
         IN  /\ x \in Waiters
             /\ x.on = r.on /\ x.sleeping = r.sleeping /\ x.entered = r.entered /\ x.sig = r.sig
             /\ x.sensitive = r.sensitive /\ x.steady = r.steady /\ x.any
             /\ x.hit <=> r.hit \/ h
             /\ x.stale <=> r.stale \/ (h /\ r.sleeping)
  BY ZenonT(60) DEF Waiters, BumpOf

LEMMA BumpedIs ==
  ASSUME NEW v \in Tables, NEW e
  PROVE  LET x == Bumped(v, e)
         IN  /\ x \in Tables
             /\ \A t \in Threads :
                  /\ x[t].on = v[t].on /\ x[t].sleeping = v[t].sleeping
                  /\ x[t].entered = v[t].entered /\ x[t].sig = v[t].sig
                  /\ x[t].sensitive = v[t].sensitive /\ x[t].steady = v[t].steady /\ x[t].any
                  /\ x[t].hit <=> v[t].hit \/ Reached(v, e, t)
                  /\ x[t].stale <=> v[t].stale \/ (Reached(v, e, t) /\ v[t].sleeping)
<1>1. ASSUME NEW t \in Threads
      PROVE  v[t] \in Waiters /\ Reached(v, e, t) \in BOOLEAN
  BY Zenon DEF Tables, Reached
<1>2. ASSUME NEW t \in Threads
      PROVE  LET y == BumpOf(v[t], Reached(v, e, t))
             IN  /\ y \in Waiters
                 /\ y.on = v[t].on /\ y.sleeping = v[t].sleeping
                 /\ y.entered = v[t].entered /\ y.sig = v[t].sig
                 /\ y.sensitive = v[t].sensitive /\ y.steady = v[t].steady /\ y.any
                 /\ y.hit <=> v[t].hit \/ Reached(v, e, t)
                 /\ y.stale <=> v[t].stale \/ (Reached(v, e, t) /\ v[t].sleeping)
  BY <1>1, BumpOfIs
<1>3. Bumped(v, e) = [t \in Threads |-> BumpOf(v[t], Reached(v, e, t))]
  BY Zenon DEF Bumped, BumpOf
<1> QED
  BY <1>2, <1>3 DEF Tables

(* The table after bump_locked, which signals as well. *)
Roused(v, e) == [u \in Threads |-> [Bumped(v, e)[u] EXCEPT !.sig = @ \/ u \in Woken(v, e)]]
RouseOf(r, h) == [r EXCEPT !.sig = @ \/ h]
LEMMA RouseOfIs ==
  ASSUME NEW r \in Waiters, NEW h \in BOOLEAN
  PROVE  LET x == RouseOf(r, h)
         IN  /\ x \in Waiters
             /\ x.on = r.on /\ x.sleeping = r.sleeping /\ x.entered = r.entered
             /\ x.sensitive = r.sensitive /\ x.steady = r.steady /\ x.any = r.any
             /\ x.hit = r.hit /\ x.stale = r.stale
             /\ x.sig <=> r.sig \/ h
  BY ZenonT(60) DEF Waiters, RouseOf

LEMMA RousedIs ==
  ASSUME NEW v \in Tables, NEW e
  PROVE  LET x == Roused(v, e)
         IN  /\ x \in Tables
             /\ \A t \in Threads :
                  /\ x[t].on = v[t].on /\ x[t].sleeping = v[t].sleeping
                  /\ x[t].entered = v[t].entered
                  /\ x[t].sensitive = v[t].sensitive /\ x[t].steady = v[t].steady /\ x[t].any
                  /\ x[t].hit <=> v[t].hit \/ Reached(v, e, t)
                  /\ x[t].stale <=> v[t].stale \/ (Reached(v, e, t) /\ v[t].sleeping)
                  /\ x[t].sig <=> v[t].sig \/ (Reached(v, e, t) /\ v[t].sleeping)
<1> DEFINE b == Bumped(v, e)
<1>1. /\ b \in Tables
      /\ \A t \in Threads :
           /\ b[t].on = v[t].on /\ b[t].sleeping = v[t].sleeping
           /\ b[t].entered = v[t].entered /\ b[t].sig = v[t].sig
           /\ b[t].sensitive = v[t].sensitive /\ b[t].steady = v[t].steady /\ b[t].any
           /\ b[t].hit <=> v[t].hit \/ Reached(v, e, t)
           /\ b[t].stale <=> v[t].stale \/ (Reached(v, e, t) /\ v[t].sleeping)
  BY BumpedIs, Zenon
<1>2. Roused(v, e) = [t \in Threads |-> RouseOf(b[t], t \in Woken(v, e))]
  BY Zenon DEF Roused, RouseOf
<1> HIDE DEF b
<1>3. ASSUME NEW t \in Threads
      PROVE  LET y == RouseOf(b[t], t \in Woken(v, e))
             IN  /\ y \in Waiters
                 /\ y.on = b[t].on /\ y.sleeping = b[t].sleeping /\ y.entered = b[t].entered
                 /\ y.sensitive = b[t].sensitive /\ y.steady = b[t].steady /\ y.any = b[t].any
                 /\ y.hit = b[t].hit /\ y.stale = b[t].stale
                 /\ y.sig <=> b[t].sig \/ t \in Woken(v, e)
  <2>1. b[t] \in Waiters /\ (t \in Woken(v, e)) \in BOOLEAN
    BY <1>1 DEF Tables
  <2> QED
    BY <2>1, RouseOfIs, Zenon
<1>4. \A t \in Threads : t \in Woken(v, e) <=> Reached(v, e, t) /\ v[t].sleeping
  BY Zenon DEF Woken
<1>5. Roused(v, e) \in Tables
  BY <1>2, <1>3, Zenon DEF Tables
<1>6. \A t \in Threads : Roused(v, e)[t] = RouseOf(b[t], t \in Woken(v, e))
  BY <1>2, Zenon
<1> QED
  BY <1>1, <1>3, <1>4, <1>5, <1>6

(* After a skip that moved time: the others are louder. *)
LEMMA RousedFits ==
  ASSUME IInv, NEW t \in Threads, pc[t] = "skipped", NEW e
  PROVE  Fit(Roused(Back(w, t), e), t) /\ Others(Roused(Back(w, t), e), t)
<1> DEFINE v == Back(w, t)
           m == Roused(v, e)
<1>1. Fit(v, t) /\ (\A u \in Threads \ {t} : v[u] = w[u]) /\ v \in Tables
  BY BackFits, Zenon DEF Fit
<1>2. ~v[t].sleeping /\ w \in Tables
  BY BackIs, Zenon DEF IInv, Typed, Tables
<1> HIDE DEF v
<1>3. /\ m \in Tables
      /\ \A u \in Threads :
           /\ m[u].on = v[u].on /\ m[u].sleeping = v[u].sleeping
           /\ m[u].entered = v[u].entered
           /\ m[u].sensitive = v[u].sensitive /\ m[u].steady = v[u].steady /\ m[u].any
           /\ m[u].hit <=> v[u].hit \/ Reached(v, e, u)
           /\ m[u].stale <=> v[u].stale \/ (Reached(v, e, u) /\ v[u].sleeping)
           /\ m[u].sig <=> v[u].sig \/ (Reached(v, e, u) /\ v[u].sleeping)
  BY <1>1, RousedIs, Zenon
<1> HIDE DEF m
<1>4. Fit(m, t)
  BY <1>1, <1>2, <1>3, Zenon DEF Fit
<1>5. Others(m, t)
  BY <1>1, <1>3 DEF Others, Louder
<1> QED
  BY <1>4, <1>5, Zenon DEF m, v

(* The end of a skip: what the waiter goes on with has nothing unheard. *)
SkipFound(t) == IF w[t].hit THEN Seen(t) ELSE found[t]
LEMMA SkipHears ==
  ASSUME IInv, NEW t \in Threads, pc[t] = "skipped", ~(w[t].hit /\ Ready(t))
  PROVE  /\ SkipFound(t) \in Founds /\ SkipFound(t).result = found[t].result
         /\ Hears(t, SkipFound(t).needed, FALSE, FALSE)
<1>0. Typed /\ found[t] \in Founds
  BY Zenon DEF IInv, Typed
<1>1. CASE w[t].hit
  BY <1>0, <1>1, SeenIs, FreshHears, Zenon DEF SkipFound
<1>2. CASE ~w[t].hit
  BY <1>0, <1>2, DeepHears, Zenon DEF SkipFound
<1> QED
  BY <1>1, <1>2, Zenon

(* A wait gives up there, if all is quiescent and it has nothing to read. *)
Surrenders(t) == pc[t] = "skipped" /\ Quiescent(Back(w, t)) /\ ~Ready(t)
LEMMA SkippedStep ==
  ASSUME IInv, NEW t \in Threads, Skipped(t)
  PROVE  IInv' /\ (Unstuck(t, found[t]) \/ Surrenders(t))
<1> DEFINE v == Back(w, t)
           timer == [NoNote EXCEPT !.kind = "timer"]
           m == Roused(v, timer)
           f == SkipFound(t)
<1>0. Typed /\ w \in Tables /\ pc[t] = "skipped"
  BY Zenon DEF IInv, Typed, Tables, Skipped
<1>1. Fit(v, t) /\ Others(v, t) /\ v \in Tables
  BY <1>0, BackFits, SameOthers, Zenon DEF Fit
<1>2. Fit(m, t) /\ Others(m, t) /\ m \in Tables
  BY <1>0, RousedFits, Zenon DEF Fit
<1>3. UNCHANGED <<setup, now, data, coming, events, lease, gate, live, wait, note, ring>>
  BY Zenon DEF Skipped
<1>4. \/ Leave(v, t, "ready")
      \/ /\ ~(w[t].hit /\ Ready(t))
         /\ \/ Leave(m, t, "ready")
            \/ Leave(m, t, "timeout")
            \/ ~Ready(t) /\ FallAsleep(m, t, Seen(t), "settle", "epochsettle")
            \/ FallAsleep(v, t, f, "asleep", "epoch")
            \/ Top(m, t, f)
            \/ Top(v, t, f)
            \/ Quiescent(v) /\ Leave(v, t, Outcome(t))
  BY Zenon DEF Skipped, Refusal, Roused, SkipFound
<1> HIDE DEF v, m, f
<1>5. CASE Leave(v, t, "ready")
  BY <1>0, <1>1, <1>3, <1>5, LeaveEnds, WaitStep, Zenon DEF Within, Unstuck
<1>6. CASE ~(w[t].hit /\ Ready(t)) /\ (Leave(m, t, "ready") \/ Leave(m, t, "timeout"))
  BY <1>0, <1>2, <1>3, <1>6, LeaveEnds, WaitStep, Zenon DEF Within, Unstuck
<1>7. CASE ~Ready(t) /\ FallAsleep(m, t, Seen(t), "settle", "epochsettle")
  <2>1. Ends(m, t, Seen(t).needed) /\ found'[t] = Seen(t)
    BY <1>0, <1>2, <1>7, SeenIs, FallEnds, Zenon DEF Beds
  <2>2. Hears(t, Seen(t).needed, FALSE, FALSE)
    BY <1>0, <1>7, FreshHears, Zenon
  <2> QED
    BY <1>0, <1>2, <1>3, <2>1, <2>2, SeenIs, WaitStep, Zenon DEF Within, Unstuck
<1>8. CASE ~(w[t].hit /\ Ready(t)) /\ FallAsleep(v, t, f, "asleep", "epoch")
  <2>1. f \in Founds /\ f.result = found[t].result /\ Hears(t, f.needed, FALSE, FALSE)
    BY <1>0, <1>8, SkipHears, Zenon DEF f
  <2>2. Ends(v, t, f.needed) /\ found'[t] = f
    BY <1>0, <1>1, <1>8, <2>1, FallEnds, Zenon DEF Beds
  <2> QED
    BY <1>0, <1>1, <1>3, <2>1, <2>2, WaitStep, Zenon DEF Within, Unstuck
<1>9. CASE ~(w[t].hit /\ Ready(t)) /\ (Top(m, t, f) \/ Top(v, t, f))
  <2>1. f \in Founds /\ f.result = found[t].result /\ Hears(t, f.needed, FALSE, FALSE)
    BY <1>0, <1>9, SkipHears, Zenon DEF f
  <2>2. CASE Top(m, t, f)
    BY <1>0, <1>2, <1>3, <2>1, <2>2, TopEnds, WaitStep, Zenon DEF Within, Unstuck
  <2>3. CASE Top(v, t, f)
    BY <1>0, <1>1, <1>3, <2>1, <2>3, TopEnds, WaitStep, Zenon DEF Within, Unstuck
  <2> QED
    BY <1>9, <2>2, <2>3, Zenon
<1>10. CASE Quiescent(v) /\ Leave(v, t, Outcome(t))
  <2>1. Outcome(t) \in {"ready", "timeout", "stuck"} /\ (Outcome(t) = "stuck" => ~Ready(t))
    BY Zenon DEF Outcome
  <2>2. Ends(v, t, TRUE) /\ Gone(t) /\ found'[t].result = Outcome(t)
    BY <1>0, <1>1, <1>10, <2>1, LeaveEnds, Zenon
  <2>3. IInv'
    BY <1>0, <1>1, <1>3, <2>2, WaitStep, Zenon DEF Within
  <2> QED
    BY <1>0, <1>10, <2>1, <2>2, <2>3, Zenon DEF Unstuck, Surrenders, v
<1> QED
  BY <1>4, <1>5, <1>6, <1>7, <1>8, <1>9, <1>10, Zenon

(* A check that must be made again: only t's subscription changes. *)
Reset(v, t) == [v EXCEPT ![t].hit = FALSE, ![t].any = FALSE]
LEMMA ResetIs ==
  ASSUME NEW v \in Tables, NEW t \in Threads
  PROVE  LET x == Reset(v, t)
         IN  /\ x \in Tables /\ \A u \in Threads \ {t} : x[u] = v[u]
             /\ x[t].on = v[t].on /\ x[t].sleeping = v[t].sleeping /\ x[t].stale = v[t].stale
             /\ x[t].entered = v[t].entered /\ ~x[t].hit
             /\ x[t].steady = v[t].steady /\ x[t].sensitive = v[t].sensitive
  BY ZenonT(60) DEF Reset, Tables, Waiters

-----------------------------------------------------------------------------
(* The other steps of one actor: all but its own state stays. *)

SoleStep(a) ==
  /\ \A b \in Actors \ {a} : pc'[b] = pc[b] /\ note'[b] = note[b]
  /\ ring' = ring
  /\ \A u \in Threads \ {a} :
       /\ w'[u] = w[u] /\ found'[u] = found[u] /\ wait'[u] = wait[u]
       /\ u \in live' <=> u \in live
       /\ gate' = u <=> gate = u

LEMMA SoleKept ==
  ASSUME NEW a \in Actors, SoleStep(a), pc[a] # "bump"
  PROVE  Kept
  BY Zenon DEF SoleStep, Kept

LEMMA ActStep ==
  ASSUME IInv, NEW a \in Actors, SoleStep(a), pc[a] # "bump",
         Typed', Leased', Arrives', Telltale(a)', \A u \in Threads \ {a} : Learns(u),
         a \in Threads => Sound(a)'
  PROVE  IInv'
<1>0. w \in Tables /\ (\A b \in Actors : Telltale(b)) /\ \A u \in Threads : Sound(u)
  BY Zenon DEF IInv, Typed, Tables
<1>1. ASSUME NEW u \in Threads \ {a}
      PROVE  Sound(u)'
  <2>1. u \in Actors \ {a}
    BY Zenon DEF Actors
  <2>2. Frame(u)
    BY <1>0, <2>1, Fields, Zenon DEF SoleStep, Frame, Signals, Louder
  <2>3. Kept
    BY SoleKept, Zenon
  <2> QED
    BY <1>0, <2>2, <2>3, Bystander, Zenon
<1>2. \A b \in Actors : Telltale(b)'
  BY <1>0, Zenon DEF SoleStep, Telltale
<1> QED
  BY <1>1, <1>2, Zenon DEF IInv

(* A thread outside of any wait, before and after. *)
LEMMA OutsideSound ==
  ASSUME NEW t \in Threads, Sound(t), ~Checking(t), ~Down(t), ~Checking(t)', ~Down(t)',
         w'[t] = w[t],
         (t \in live <=> ~(pc[t] \in {"left", "alone", "offer", "done"} \/ Telling(t, "offer")))',
         gate' # t, (wait[t].filed <=> wait[t].deadline # Never)'
  PROVE  Sound(t)'
<1>1. ~Deep(t)' /\ ~Rechecking(t)'
  BY Zenon DEF Down
<1>2. ~w'[t].on /\ ~w'[t].sleeping /\ ~w'[t].entered /\ ~w'[t].stale
  BY Zenon DEF Sound, Placed, Marked
<1>3. ~(pc[t] \in Gated \/ Telling(t, "ungate"))'
  BY <1>1, Zenon DEF Deep
<1>4. pc'[t] \notin {"checked", "rechecked"} /\ pc'[t] \notin Beds
  BY <1>1, Zenon DEF Checking, Deep, Rechecking
<1> QED
  BY <1>1, <1>2, <1>3, <1>4, Zenon DEF Sound, Placed, Marked, ParkedHears, CheckerHears

(* A parked thread on its way through a skip. *)
LEMMA DeepSound ==
  ASSUME NEW t \in Threads, Sound(t), Deep(t), Deep(t)', pc'[t] \notin Beds,
         w'[t] = w[t], wait'[t] = wait[t], found'[t].needed = found[t].needed,
         t \in live, t \in live', (gate = t <=> pc[t] \in Gated \/ Telling(t, "ungate"))',
         Kept, Learns(t)
  PROVE  Sound(t)'
<1>1. ~Rechecking(t) /\ ~Rechecking(t)' /\ ~Checking(t) /\ ~Checking(t)' /\ Down(t) /\ Down(t)'
  BY Zenon DEF Deep, Rechecking, Checking, Down, Telling, Beds, Gated
<1>2. ~(pc[t] \in {"left", "alone", "offer", "done"} \/ Telling(t, "offer"))'
  BY Zenon DEF Deep, Telling, Beds, Gated
<1>3. Placed(t)'
  BY <1>1, <1>2, Zenon DEF Sound, Placed
<1>4. Marked(t)'
  BY <1>1, Zenon DEF Sound, Marked
<1>5. ParkedHears(t)'
  <2>1. Hears(t, w[t].steady, w[t].stale, w[t].stale)
    BY <1>1, Zenon DEF Sound, ParkedHears
  <2> QED
    BY <2>1, HearsKept, Zenon DEF ParkedHears, Hears
<1>6. CheckerHears(t)'
  BY <1>1, Zenon DEF CheckerHears, Checking, Rechecking
<1> QED
  BY <1>3, <1>4, <1>5, <1>6, Zenon DEF Sound

LEMMA MovesTo ==
  ASSUME Typed, NEW a \in Actors, NEW p \in Places, Goto(a, p)
  PROVE  /\ pc' \in [Actors -> Places] /\ pc'[a] = p
         /\ \A b \in Actors \ {a} : pc'[b] = pc[b]
  BY Zenon DEF Typed, Goto

LEMMA NotesTo ==
  ASSUME Typed, NEW a \in Actors, NEW kind \in {"none", "keys", "timer", "due"},
         NEW k \in Keys \cup {None}, NEW at \in 0 .. MaxTime, NEW next \in {"run", "offer", "ungate"},
         Notes(a, kind, k, at, next)
  PROVE  /\ note' \in [Actors -> NoteSet]
         /\ note'[a].kind = kind /\ note'[a].key = k /\ note'[a].next = next
         /\ \A b \in Actors \ {a} : note'[b] = note[b]
  BY Zenon DEF Typed, Notes, NoteSet

(* A thread that runs is in no wait and in the domain. *)
LEMMA RunningIs ==
  ASSUME IInv, NEW t \in Threads, Running(t)
  PROVE  /\ ~Checking(t) /\ ~Down(t) /\ gate # t /\ t \in live /\ pc[t] = "run"
         /\ Sound(t) /\ Telltale(t) /\ t \in Actors
         /\ wait[t].filed <=> wait[t].deadline # Never
  BY Zenon DEF IInv, Sound, Placed, Running, Checking, Down, Deep, Rechecking, Telling, Beds, Gated,
         Actors

LEMMA HolderIs == Holder \in Actors /\ Holder \notin Threads /\ \A t \in Threads : Holder \in Actors \ {t}
  BY ReadinessAssumption, Zenon DEF Actors

(* A send, at once or later: whoever waits for it has its bump ahead. *)
LEMMA SendStep ==
  ASSUME IInv, NEW t \in Threads, NEW k \in Keys,
         Send(t, k) \/ \E d \in Delays : SendLater(t, k, d)
  PROVE  IInv'
<1>0. Typed /\ Leased /\ Arrives
  BY Zenon DEF IInv
<1>1. /\ ~Checking(t) /\ ~Down(t) /\ gate # t /\ t \in live /\ pc[t] = "run"
      /\ Sound(t) /\ Telltale(t) /\ t \in Actors
      /\ wait[t].filed <=> wait[t].deadline # Never
  BY RunningIs, Zenon DEF Send, SendLater
<1>2. /\ pc' \in [Actors -> Places] /\ pc'[t] = "bump"
      /\ \A b \in Actors \ {t} : pc'[b] = pc[b]
  BY <1>0, <1>1, MovesTo, Zenon DEF Send, SendLater, Places
<1>3. /\ note' \in [Actors -> NoteSet]
      /\ note'[t].kind = "keys" /\ note'[t].key = k /\ note'[t].next = "run"
      /\ \A b \in Actors \ {t} : note'[b] = note[b]
  <2>1. Notes(t, "keys", k, now, "run") /\ now \in 0 .. MaxTime
    BY <1>0, Zenon DEF Send, SendLater, Typed
  <2> QED
    BY <1>0, <1>1, <2>1, NotesTo, Zenon
<1>4. /\ setup' = setup /\ now' = now /\ lease' = lease /\ gate' = gate /\ live' = live
      /\ wait' = wait /\ w' = w /\ found' = found /\ ring' = ring
  BY Zenon DEF Send, SendLater
<1>5. SoleStep(t)
  BY <1>2, <1>3, <1>4, Zenon DEF SoleStep
<1>6. MaxTime \in Nat /\ \A d \in Delays : d \in Nat /\ d > 0
  BY ReadinessAssumption
<1>7. /\ data' \in [Keys -> BOOLEAN] /\ coming' \in [Keys -> Times] /\ events' \subseteq 0 .. MaxTime
      /\ \A j \in Keys \ {k} : data'[j] = data[j] /\ coming'[j] = coming[j]
      /\ \A j \in Keys : coming'[j] \in now + 1 .. MaxTime => coming'[j] \in events'
  <2>1. CASE Send(t, k)
    <3>1. data' = [data EXCEPT ![k] = coming[k] \notin now + 1 .. MaxTime]
          /\ coming' = coming /\ events' = events
      BY <2>1, Zenon DEF Send
    <3> QED
      BY <1>0, <3>1, Zenon DEF Typed, Arrives
  <2>2. CASE \E d \in Delays : SendLater(t, k, d)
    <3>1. PICK d \in Delays : /\ coming' = [coming EXCEPT ![k] = now + d]
                             /\ events' = events \cup {now + d}
                             /\ data' = data /\ now + d <= MaxTime
      BY <2>2, Zenon DEF SendLater
    <3>2. now + d \in 0 .. MaxTime /\ now + d \in Times
      BY <1>0, <1>6, <3>1 DEF Typed, Times, Never
    <3> QED
      BY <1>0, <3>1, <3>2, Zenon DEF Typed, Arrives
  <2> QED
    BY <2>1, <2>2, Zenon
<1>8. Typed'
  BY <1>0, <1>2, <1>3, <1>4, <1>7, Zenon DEF Typed
<1>9. Arrives'
  BY <1>4, <1>7, Zenon DEF Arrives
<1>10. Leased'
  BY <1>0, <1>2, <1>3, <1>4, HolderIs, Zenon DEF Leased, Telling
<1>11. Telltale(t)'
  BY <1>1, <1>2, <1>3, <1>4, Zenon DEF Telltale
<1>12. ASSUME NEW u \in Threads \ {t}
       PROVE  Learns(u)
  <2>1. wait[u].key \in Keys /\ wait'[u] = wait[u]
    BY <1>0, <1>4, Zenon DEF Typed, Waits
  <2>2. CASE wait[u].key = k
    BY <1>1, <1>2, <1>3, <2>1, <2>2, Zenon DEF Learns, KeyBump
  <2>3. CASE wait[u].key # k
    BY <1>4, <1>7, <2>1, <2>3, Zenon DEF Learns, Due, Ready
  <2> QED
    BY <2>2, <2>3, Zenon
<1>13. Sound(t)'
  <2>1. ~Checking(t)' /\ ~Down(t)'
    BY <1>2, <1>3, Zenon DEF Checking, Down, Deep, Rechecking, Telling, Beds, Gated
  <2> QED
    BY <1>1, <1>2, <1>3, <1>4, <2>1, OutsideSound, Zenon DEF Telling
<1> QED
  BY <1>1, <1>5, <1>8, <1>9, <1>10, <1>11, <1>12, <1>13, ActStep, Zenon

(* A read takes what has arrived. *)
LEMMA TakeStep ==
  ASSUME IInv, NEW t \in Threads, NEW k \in Keys, Take(t, k)
  PROVE  IInv'
<1>0. Typed /\ Leased /\ Arrives
  BY Zenon DEF IInv
<1>1. /\ ~Checking(t) /\ ~Down(t) /\ gate # t /\ t \in live /\ pc[t] = "run"
      /\ Sound(t) /\ Telltale(t) /\ t \in Actors
      /\ wait[t].filed <=> wait[t].deadline # Never
  BY RunningIs, Zenon DEF Take
<1>2. /\ setup' = setup /\ now' = now /\ lease' = lease /\ gate' = gate /\ live' = live /\ pc' = pc
      /\ wait' = wait /\ w' = w /\ found' = found /\ note' = note /\ ring' = ring /\ events' = events
  BY Zenon DEF Take
<1>3. MaxTime \in Nat /\ now \in 0 .. MaxTime
  BY <1>0, ReadinessAssumption, Zenon DEF Typed
<1>4. /\ data' \in [Keys -> BOOLEAN] /\ coming' \in [Keys -> Times]
      /\ \A j \in Keys : data'[j] => data[j]
      /\ \A j \in Keys : coming'[j] = coming[j] \/ coming'[j] = Never
  BY <1>0, <1>3 DEF Take, Typed, Times, Never
<1>5. SoleStep(t) /\ Leased' /\ Telltale(t)'
  BY <1>0, <1>1, <1>2, Zenon DEF SoleStep, Leased, Telltale, Telling
<1>6. Typed'
  BY <1>0, <1>2, <1>4, Zenon DEF Typed
<1>7. Arrives'
  BY <1>0, <1>2, <1>3, <1>4 DEF Arrives, Never
<1>8. \A u \in Threads : Learns(u)
  <2> SUFFICES ASSUME NEW u \in Threads
               PROVE  Learns(u)
    OBVIOUS
  <2>1. wait[u].key \in Keys /\ wait'[u] = wait[u]
    BY <1>0, <1>2, Zenon DEF Typed, Waits
  <2> QED
    BY <1>2, <1>3, <1>4, <2>1 DEF Learns, Due, Ready, Never
<1>9. Sound(t)'
  <2>1. (Checking(t)' <=> Checking(t)) /\ (Down(t)' <=> Down(t))
    BY <1>2, Zenon DEF Checking, Down, Deep, Rechecking, Telling
  <2> QED
    BY <1>1, <1>2, <2>1, OutsideSound, Zenon DEF Telling
<1> QED
  BY <1>1, <1>5, <1>6, <1>7, <1>8, <1>9, ActStep, Zenon

(* Steps that move neither data nor time. *)
LEMMA QuietStep ==
  ASSUME IInv, NEW a \in Actors, SoleStep(a), pc[a] # "bump",
         UNCHANGED <<setup, now, data, coming, events>>,
         Typed', Leased', Telltale(a)', a \in Threads => Sound(a)'
  PROVE  IInv'
<1>1. Arrives'
  BY Zenon DEF IInv, Arrives
<1>2. \A u \in Threads \ {a} : Learns(u)
  BY Unmoved, Zenon DEF SoleStep
<1> QED
  BY <1>1, <1>2, ActStep, Zenon

(* A thread starts a wait, or exits. *)
LEMMA StartStep ==
  ASSUME IInv, NEW t \in Threads, NEW k \in Keys, NEW span \in Nat, NEW broad \in BOOLEAN,
         StartWait(t, k, span, broad)
  PROVE  IInv'
<1>0. Typed /\ Leased
  BY Zenon DEF IInv
<1>1. /\ ~Checking(t) /\ ~Down(t) /\ gate # t /\ t \in live /\ pc[t] = "run"
      /\ Sound(t) /\ Telltale(t) /\ t \in Actors
  BY RunningIs, Zenon DEF StartWait
<1>2. /\ pc' \in [Actors -> Places] /\ pc'[t] = "register"
      /\ \A b \in Actors \ {t} : pc'[b] = pc[b]
  BY <1>0, <1>1, MovesTo, Zenon DEF StartWait, Places, Outside
<1>3. UNCHANGED <<setup, now, data, coming, events, lease, gate, live, w, found, note, ring>>
  BY Zenon DEF StartWait
<1> DEFINE at == IF span = 0 THEN Never ELSE now + span
           x == [key |-> k, broad |-> broad, deadline |-> at, filed |-> at # Never]
<1>4. MaxTime \in Nat /\ now \in 0 .. MaxTime /\ now + span <= MaxTime
  BY <1>0, ReadinessAssumption, Zenon DEF Typed, StartWait
<1>5. at \in Times
  BY <1>4 DEF Times, Never
<1>6. wait' = [wait EXCEPT ![t] = x]
  BY Zenon DEF StartWait
<1> HIDE DEF at
<1>7. x \in Waits /\ (x.filed <=> x.deadline # Never)
  BY <1>5, Zenon DEF Waits
<1> HIDE DEF x
<1>8. wait' \in [Threads -> Waits] /\ wait'[t] = x /\ \A u \in Threads \ {t} : wait'[u] = wait[u]
  BY <1>0, <1>6, <1>7, Zenon DEF Typed
<1>9. SoleStep(t) /\ Telltale(t)'
  BY <1>1, <1>2, <1>3, <1>8, Zenon DEF SoleStep, Telltale
<1>10. Typed'
  BY <1>0, <1>2, <1>3, <1>8, Zenon DEF Typed
<1>11. Leased'
  BY <1>0, <1>2, <1>3, HolderIs, Zenon DEF Leased, Telling
<1>12. Sound(t)'
  <2>1. ~Checking(t)' /\ ~Down(t)'
    BY <1>2, Zenon DEF Checking, Down, Deep, Rechecking, Telling, Beds, Gated
  <2> QED
    BY <1>1, <1>2, <1>3, <1>7, <1>8, <2>1, OutsideSound, Zenon DEF Telling
<1> QED
  BY <1>1, <1>3, <1>9, <1>10, <1>11, <1>12, QuietStep, Zenon

LEMMA ExitStep ==
  ASSUME IInv, NEW t \in Threads, ExitThread(t)
  PROVE  IInv'
<1>0. Typed /\ Leased
  BY Zenon DEF IInv
<1>1. /\ ~Checking(t) /\ ~Down(t) /\ gate # t /\ t \in live /\ pc[t] = "run"
      /\ Sound(t) /\ Telltale(t) /\ t \in Actors
      /\ wait[t].filed <=> wait[t].deadline # Never
  BY RunningIs, Zenon DEF ExitThread
<1>2. /\ pc' \in [Actors -> Places] /\ pc'[t] = "left"
      /\ \A b \in Actors \ {t} : pc'[b] = pc[b]
  BY <1>0, <1>1, MovesTo, Zenon DEF ExitThread, Places, Outside
<1>3. /\ UNCHANGED <<setup, now, data, coming, events, lease, gate, wait, w, found, note, ring>>
      /\ live' = live \ {t}
  BY Zenon DEF ExitThread
<1>4. SoleStep(t) /\ Telltale(t)'
  BY <1>1, <1>2, <1>3, Zenon DEF SoleStep, Telltale
<1>5. Typed'
  BY <1>0, <1>2, <1>3, Zenon DEF Typed
<1>6. Leased'
  BY <1>0, <1>2, <1>3, HolderIs, Zenon DEF Leased, Telling
<1>7. Sound(t)'
  <2>1. ~Checking(t)' /\ ~Down(t)'
    BY <1>2, Zenon DEF Checking, Down, Deep, Rechecking, Telling, Beds, Gated
  <2> QED
    BY <1>1, <1>2, <1>3, <2>1, OutsideSound, Zenon DEF Telling
<1> QED
  BY <1>1, <1>3, <1>4, <1>5, <1>6, <1>7, QuietStep, Zenon

(* What a thread that has left, and the holder of a lease, still asks. *)
LEMMA AskStep ==
  ASSUME IInv, NEW a \in Actors, Offer(a) \/ (a \in Threads /\ (LeftSettling(a) \/ WakeIfQuiescent(a)))
  PROVE  IInv'
<1>0. Typed /\ Leased /\ Telltale(a) /\ (a \in Threads => Sound(a))
  BY Zenon DEF IInv
<1>1. /\ UNCHANGED <<setup, now, data, coming, events, lease, gate, live, wait, w, found, ring>>
      /\ pc[a] \in {"left", "alone", "offer"}
  BY Zenon DEF Offer, LeftSettling, WakeIfQuiescent
<1>2. \/ \E p \in {"offer", "alone", "done"} : Goto(a, p) /\ note' = note /\ (p # "done" => a \in Threads)
      \/ a \in Threads /\ Goto(a, "bump") /\ Notes(a, "timer", None, now, "offer")
  BY Zenon DEF Offer, LeftSettling, WakeIfQuiescent
<1>3. /\ pc' \in [Actors -> Places] /\ pc'[a] \in {"offer", "alone", "done", "bump"}
      /\ pc'[a] # "done" => a \in Threads
      /\ \A b \in Actors \ {a} : pc'[b] = pc[b]
  BY <1>0, <1>2, MovesTo, Zenon DEF Places, Outside
<1>4. now \in 0 .. MaxTime
  BY <1>0, Zenon DEF Typed
<1>5. /\ note' \in [Actors -> NoteSet] /\ \A b \in Actors \ {a} : note'[b] = note[b]
      /\ pc'[a] = "bump" => note'[a].kind = "timer" /\ note'[a].next = "offer"
  <2>1. CASE note' = note /\ pc'[a] # "bump"
    BY <1>0, <2>1, Zenon DEF Typed
  <2>2. CASE Notes(a, "timer", None, now, "offer")
    BY <1>0, <1>4, <2>2, NotesTo, Zenon
  <2> QED
    BY <1>0, <1>2, <2>1, <2>2, MovesTo, Zenon DEF Places, Outside
<1>6. SoleStep(a) /\ Telltale(a)'
  BY <1>0, <1>1, <1>3, <1>5, Zenon DEF SoleStep, Telltale
<1>7. Typed'
  BY <1>0, <1>1, <1>3, <1>5, Zenon DEF Typed
<1>8. Leased'
  BY <1>0, <1>1, <1>3, <1>5, HolderIs, Zenon DEF Leased, Telling
<1>9. ASSUME a \in Threads
      PROVE  Sound(a)'
  <2>1. ~Checking(a)' /\ ~Down(a)' /\ ~Checking(a) /\ ~Down(a)
    BY <1>1, <1>3, <1>5, Zenon DEF Checking, Down, Deep, Rechecking, Telling, Beds, Gated
  <2>2. /\ a \notin live /\ gate # a
        /\ wait[a].filed <=> wait[a].deadline # Never
    BY <1>0, <1>1, <1>9, <2>1, Zenon DEF Sound, Placed, Deep, Down
  <2> QED
    BY <1>0, <1>1, <1>3, <1>5, <1>9, <2>1, <2>2, OutsideSound, Zenon DEF Telling
<1> QED
  BY <1>1, <1>6, <1>7, <1>8, <1>9, QuietStep, Zenon

(* The lease is taken and given back. *)
LEMMA LeaseStep ==
  ASSUME IInv, TakeLease \/ GiveLease
  PROVE  IInv'
<1>0. Typed /\ Leased /\ Telltale(Holder) /\ Holder \in Actors /\ pc[Holder] = "run"
  BY HolderIs, Zenon DEF IInv, Leased, TakeLease, GiveLease
<1>1. UNCHANGED <<setup, now, data, coming, events, gate, live, wait, w, found, ring>>
  BY Zenon DEF TakeLease, GiveLease
<1>2. now \in 0 .. MaxTime
  BY <1>0, Zenon DEF Typed
<1>3. CASE TakeLease
  <2>1. pc' = pc /\ note' = note /\ lease' = TRUE
    BY <1>3, Zenon DEF TakeLease
  <2>2. SoleStep(Holder) /\ Telltale(Holder)' /\ Leased' /\ Typed'
    BY <1>0, <1>1, <2>1, Zenon DEF SoleStep, Telltale, Leased, Typed
  <2> QED
    BY <1>0, <1>1, <2>2, QuietStep, HolderIs, Zenon
<1>4. CASE GiveLease
  <2>1. Goto(Holder, "bump") /\ Notes(Holder, "timer", None, now, "offer") /\ lease' = FALSE
    BY <1>4, Zenon DEF GiveLease
  <2>2. /\ pc' \in [Actors -> Places] /\ pc'[Holder] = "bump"
        /\ \A b \in Actors \ {Holder} : pc'[b] = pc[b]
    BY <1>0, <2>1, MovesTo, Zenon DEF Places
  <2>3. /\ note' \in [Actors -> NoteSet]
        /\ note'[Holder].kind = "timer" /\ note'[Holder].next = "offer"
        /\ \A b \in Actors \ {Holder} : note'[b] = note[b]
    BY <1>0, <1>2, <2>1, NotesTo, Zenon
  <2>4. SoleStep(Holder) /\ Telltale(Holder)'
    BY <1>0, <1>1, <2>2, <2>3, Zenon DEF SoleStep, Telltale
  <2>5. Leased' /\ Typed'
    BY <1>0, <1>1, <2>1, <2>2, <2>3, Zenon DEF Leased, Typed, Telling
  <2> QED
    BY <1>0, <1>1, <2>4, <2>5, QuietStep, HolderIs, Zenon
<1> QED
  BY <1>3, <1>4, Zenon

-----------------------------------------------------------------------------
(* The end of a wait, which may tell the waiters a skip was refused to. *)
LEMMA ReturnStep ==
  ASSUME IInv, NEW t \in Threads, Return(t)
  PROVE  IInv' /\ Unstuck(t, found[t])
<1>0. Typed /\ Leased /\ Telltale(t) /\ Sound(t) /\ t \in Actors /\ pc[t] = "return"
  BY Zenon DEF IInv, Return, Actors
<1>1. UNCHANGED <<setup, now, data, coming, events, lease, gate, live, w, ring>>
  BY Zenon DEF Return
<1>2. \/ Goto(t, "run") /\ note' = note
      \/ Goto(t, "bump") /\ Notes(t, "timer", None, now, "run")
  BY Zenon DEF Return
<1>3. /\ pc' \in [Actors -> Places] /\ pc'[t] \in {"run", "bump"}
      /\ \A b \in Actors \ {t} : pc'[b] = pc[b]
  BY <1>0, <1>2, MovesTo, Zenon DEF Places, Outside
<1>4. now \in 0 .. MaxTime
  BY <1>0, Zenon DEF Typed
<1>5. /\ note' \in [Actors -> NoteSet] /\ \A b \in Actors \ {t} : note'[b] = note[b]
      /\ pc'[t] = "bump" => note'[t].kind = "timer" /\ note'[t].next = "run"
  <2>1. CASE note' = note /\ pc'[t] # "bump"
    BY <1>0, <2>1, Zenon DEF Typed
  <2>2. CASE Notes(t, "timer", None, now, "run")
    BY <1>0, <1>4, <2>2, NotesTo, Zenon
  <2> QED
    BY <1>0, <1>2, <2>1, <2>2, MovesTo DEF Places, Outside
<1>6. /\ wait' \in [Threads -> Waits] /\ ~wait'[t].filed /\ wait'[t].deadline = Never
      /\ \A u \in Threads \ {t} : wait'[u] = wait[u]
  <2>1. Never \in Times
    BY ReadinessAssumption DEF Never, Times
  <2>2. wait' = [wait EXCEPT ![t].filed = FALSE, ![t].deadline = Never] /\ wait \in [Threads -> Waits]
    BY <1>0, Zenon DEF Return, Typed
  <2> QED
    BY <2>1, <2>2, Zenon DEF Waits
<1>7. found' \in [Threads -> Founds] /\ found'[t].result = "none"
      /\ \A u \in Threads \ {t} : found'[u] = found[u]
  <2>1. Idle \in Founds /\ Idle.result = "none"
    BY Zenon DEF Idle, Founds
  <2>2. found' = [found EXCEPT ![t] = Idle]
    BY Zenon DEF Return
  <2> QED
    BY <1>0, <2>1, <2>2, Zenon DEF Typed
<1>8. SoleStep(t) /\ Telltale(t)'
  BY <1>0, <1>1, <1>3, <1>5, <1>6, <1>7, Zenon DEF SoleStep, Telltale
<1>9. Typed'
  BY <1>0, <1>1, <1>3, <1>5, <1>6, <1>7, Zenon DEF Typed
<1>10. Leased'
  BY <1>0, <1>1, <1>3, <1>5, HolderIs, Zenon DEF Leased, Telling
<1>11. Sound(t)'
  <2>1. ~Checking(t)' /\ ~Down(t)' /\ ~Checking(t) /\ ~Down(t)
    BY <1>0, <1>3, <1>5, Zenon DEF Checking, Down, Deep, Rechecking, Telling, Beds, Gated
  <2>2. t \in live /\ gate # t
    BY <1>0, <2>1, Zenon DEF Sound, Placed, Deep, Down, Telling
  <2> QED
    BY <1>0, <1>1, <1>3, <1>5, <1>6, <2>1, <2>2, OutsideSound DEF Telling
<1>12. IInv'
  BY <1>0, <1>1, <1>8, <1>9, <1>10, <1>11, QuietStep, Zenon
<1> QED
  BY <1>7, <1>12, Zenon DEF Unstuck

(* A thread subscribes, and checks. *)
LEMMA RegisterStep ==
  ASSUME IInv, NEW t \in Threads, Register(t)
  PROVE  IInv'
<1>0. Typed /\ Leased /\ Telltale(t) /\ Sound(t) /\ t \in Actors /\ pc[t] = "register"
  BY Zenon DEF IInv, Register, Actors
<1>1. UNCHANGED <<setup, now, data, coming, events, lease, gate, live, wait, found, note, ring>>
  BY Zenon DEF Register
<1>2. /\ pc' \in [Actors -> Places] /\ pc'[t] = "check"
      /\ \A b \in Actors \ {t} : pc'[b] = pc[b]
  BY <1>0, MovesTo, Zenon DEF Register, Places
<1> DEFINE x == [Unregistered EXCEPT !.on = TRUE, !.sensitive = wait[t].broad]
<1>3. x \in Waiters /\ x.on /\ ~x.sleeping /\ ~x.entered /\ ~x.stale
  <2>1. wait[t].broad \in BOOLEAN
    BY <1>0, Zenon DEF Typed, Waits
  <2> QED
    BY <2>1, Zenon DEF Unregistered, Waiters
<1>4. w' = [w EXCEPT ![t] = x]
  BY Zenon DEF Register
<1> HIDE DEF x
<1>5. w' \in [Threads -> Waiters] /\ w'[t] = x /\ \A u \in Threads \ {t} : w'[u] = w[u]
  BY <1>0, <1>3, <1>4, Zenon DEF Typed
<1>6. SoleStep(t) /\ Telltale(t)'
  BY <1>0, <1>1, <1>2, <1>5, Zenon DEF SoleStep, Telltale
<1>7. Typed'
  BY <1>0, <1>1, <1>2, <1>5, Zenon DEF Typed
<1>8. Leased'
  BY <1>0, <1>1, <1>2, HolderIs, Zenon DEF Leased, Telling
<1>9. Sound(t)'
  <2>1. /\ t \in live /\ gate # t
        /\ wait[t].filed <=> wait[t].deadline # Never
    BY <1>0, Zenon DEF Sound, Placed, Telling, Gated
  <2>2. ~Down(t)' /\ ~Deep(t)' /\ Checking(t)' /\ ~(pc[t] \in Gated \/ Telling(t, "ungate"))'
        /\ pc'[t] \notin Beds
    BY <1>2, Zenon DEF Down, Deep, Rechecking, Checking, Telling, Gated, Beds
  <2>3. ~(pc[t] \in {"left", "alone", "offer", "done"} \/ Telling(t, "offer"))'
    BY <1>2, Zenon DEF Telling
  <2> QED
    BY <1>1, <1>2, <1>3, <1>5, <2>1, <2>2, <2>3, Zenon
       DEF Sound, Placed, Marked, ParkedHears, CheckerHears
<1> QED
  BY <1>0, <1>1, <1>6, <1>7, <1>8, <1>9, QuietStep, Zenon

LEMMA CheckStep ==
  ASSUME IInv, NEW t \in Threads, Check(t)
  PROVE  IInv' /\ Unstuck(t, found[t])
<1>0. Typed /\ Leased /\ Telltale(t) /\ Sound(t) /\ t \in Actors /\ pc[t] \in {"check", "recheck"}
  BY Zenon DEF IInv, Check, Actors
<1>1. UNCHANGED <<setup, now, data, coming, events, lease, gate, live, wait, w, note, ring>>
  BY Zenon DEF Check
<1>2. /\ pc' \in [Actors -> Places] /\ pc'[t] = IF pc[t] = "check" THEN "checked" ELSE "rechecked"
      /\ \A b \in Actors \ {t} : pc'[b] = pc[b]
  BY <1>0, MovesTo, Zenon DEF Check, Places
<1>3. found' \in [Threads -> Founds] /\ found'[t] = Seen(t) /\ \A u \in Threads \ {t} : found'[u] = found[u]
  BY <1>0, SeenIs, Zenon DEF Check, Typed
<1>4. SoleStep(t) /\ Telltale(t)'
  BY <1>0, <1>1, <1>2, <1>3, Zenon DEF SoleStep, Telltale
<1>5. Typed'
  BY <1>0, <1>1, <1>2, <1>3, Zenon DEF Typed
<1>6. Leased'
  BY <1>0, <1>1, <1>2, HolderIs, Zenon DEF Leased, Telling
<1>7. Sound(t)'
  <2>1. /\ Down(t)' <=> Down(t)
        /\ Checking(t)' <=> Checking(t)
        /\ Rechecking(t)' <=> Rechecking(t)
        /\ ~Deep(t)' /\ ~Deep(t) /\ pc'[t] \notin Beds
    BY <1>0, <1>2, Zenon DEF Down, Deep, Rechecking, Checking, Telling, Gated, Beds
  <2>2. Placed(t)'
    BY <1>0, <1>1, <1>2, <2>1, Zenon DEF Sound, Placed, Telling, Gated
  <2>3. Marked(t)'
    BY <1>0, <1>1, <2>1, Zenon DEF Sound, Marked
  <2>4. Kept /\ wait'[t] = wait[t]
    BY <1>0, <1>1, <1>4, SoleKept, Zenon
  <2>5. ParkedHears(t)'
    <3>1. Down(t) => Hears(t, w[t].steady, w[t].stale, w[t].stale)
      BY <1>0, Zenon DEF Sound, ParkedHears
    <3>2. Learns(t)
      BY <1>1, Unmoved, Zenon
    <3> QED
      BY <1>1, <2>1, <2>4, <3>1, <3>2, HearsKept, Zenon DEF ParkedHears, Hears
  <2>6. CheckerHears(t)'
    <3> SUFFICES ASSUME ~found'[t].ready
                 PROVE  Hears(t, found[t].needed, w[t].hit, w[t].hit \/ (w[t].any /\ Differs(t)))'
      BY Zenon DEF CheckerHears
    <3>1. ~Ready(t)
      BY <1>0, <1>3, SeenIs, Zenon
    <3>2. Hears(t, Seen(t).needed, FALSE, FALSE)
      BY <1>0, <3>1, FreshHears, Zenon
    <3>3. (KeyBump(t) => KeyBump(t)') /\ (TimeBump => TimeBump') /\ (Due(t)' <=> Due(t)) /\ (Ready(t)' <=> Ready(t))
      BY <1>1, <2>4, Sources, Unmoved, Zenon
    <3> QED
      BY <1>3, <3>2, <3>3, Zenon DEF Hears
  <2> QED
    BY <2>2, <2>3, <2>5, <2>6, Zenon DEF Sound
<1>8. IInv'
  BY <1>0, <1>1, <1>4, <1>5, <1>6, <1>7, QuietStep, Zenon
<1> QED
  BY <1>0, <1>3, <1>8, SeenIs, Zenon DEF Unstuck

(* A signalled sleeper checks, still marked. *)
LEMMA SignalledStep ==
  ASSUME IInv, NEW t \in Threads, Signalled(t)
  PROVE  IInv'
<1>0. Typed /\ Leased /\ Telltale(t) /\ Sound(t) /\ t \in Actors /\ pc[t] = "asleep"
  BY Zenon DEF IInv, Signalled, Actors
<1>1. UNCHANGED <<setup, now, data, coming, events, lease, gate, live, wait, found, note, ring>>
  BY Zenon DEF Signalled
<1>2. /\ pc' \in [Actors -> Places] /\ pc'[t] = "recheck"
      /\ \A b \in Actors \ {t} : pc'[b] = pc[b]
  BY <1>0, MovesTo, Zenon DEF Signalled, Places
<1>3. w' = Reset(w, t) /\ w \in Tables
  BY <1>0, Zenon DEF Signalled, Reset, Typed, Tables
<1>4. /\ w' \in Tables /\ \A u \in Threads \ {t} : w'[u] = w[u]
      /\ w'[t].on = w[t].on /\ w'[t].sleeping = w[t].sleeping /\ w'[t].stale = w[t].stale
      /\ w'[t].entered = w[t].entered /\ ~w'[t].hit
      /\ w'[t].steady = w[t].steady /\ w'[t].sensitive = w[t].sensitive
  BY <1>3, ResetIs, Zenon
<1>5. SoleStep(t) /\ Telltale(t)'
  BY <1>0, <1>1, <1>2, <1>4, Zenon DEF SoleStep, Telltale
<1>6. Typed'
  BY <1>0, <1>1, <1>2, <1>4, Zenon DEF Typed, Tables
<1>7. Leased'
  BY <1>0, <1>1, <1>2, HolderIs, Zenon DEF Leased, Telling
<1>8. Sound(t)'
  <2>1. /\ Down(t)' /\ Down(t) /\ ~Checking(t)' /\ ~Checking(t)
        /\ Rechecking(t)' /\ ~Deep(t)' /\ pc'[t] \notin Beds
    BY <1>0, <1>2, Zenon DEF Down, Deep, Rechecking, Checking, Telling, Gated, Beds
  <2>2. Placed(t)'
    BY <1>0, <1>1, <1>2, <1>4, <2>1, Zenon DEF Sound, Placed, Telling, Gated
  <2>3. Marked(t)'
    BY <1>0, <1>4, <2>1, Zenon DEF Sound, Marked
  <2>4. ParkedHears(t)'
    <3>1. Hears(t, w[t].steady, w[t].stale, w[t].stale)
      BY <1>0, <2>1, Zenon DEF Sound, ParkedHears
    <3>2. Learns(t) /\ Kept /\ wait'[t] = wait[t]
      BY <1>0, <1>1, <1>5, Unmoved, SoleKept, Zenon
    <3> QED
      BY <1>4, <3>1, <3>2, HearsKept, Zenon DEF ParkedHears, Hears
  <2> QED
    BY <1>2, <2>2, <2>3, <2>4, Zenon DEF Sound, CheckerHears
<1> QED
  BY <1>0, <1>1, <1>5, <1>6, <1>7, <1>8, QuietStep, Zenon

(* A check that says otherwise of time retunes. *)
LEMMA DiffersRetunes ==
  ASSUME Typed, NEW t \in Threads, Differs(t)
  PROVE  Tuned(w, t, found[t].needed) # w
<1>1. w \in Tables /\ found[t].needed \in BOOLEAN
  BY FoundFields, Zenon DEF Typed, Tables
<1> DEFINE x == Tuned(w, t, found[t].needed)
<1>2. x[t].steady = found[t].needed /\ x[t].sensitive = (wait[t].deadline # Never \/ found[t].needed)
  BY <1>1, TunedIs
<1> HIDE DEF x
<1>3. x # w
  BY <1>2, Zenon DEF Differs
<1> QED
  BY <1>3, Zenon DEF x

(* A check made again: a parked waiter hears what it heard, retuned or not. *)
LEMMA AgainStep ==
  ASSUME IInv, NEW t \in Threads, Again(t),
         \/ pc[t] = "checked" /\ CheckAgain(t, "check")
         \/ pc[t] = "rechecked" /\ CheckAgain(t, "recheck"),
         UNCHANGED <<setup, now, data, coming, events, lease, gate, live, wait, note, ring>>
  PROVE  IInv' /\ Unstuck(t, found[t])
<1>0. /\ Typed /\ Leased /\ Telltale(t) /\ Sound(t) /\ t \in Actors /\ w \in Tables
      /\ pc[t] \in {"checked", "rechecked"} /\ found' = found
      /\ found[t].needed \in BOOLEAN /\ ~found[t].ready
  BY FoundFields, Zenon DEF IInv, Actors, Typed, Tables, CheckAgain, Again
<1>1. /\ pc' \in [Actors -> Places] /\ pc'[t] = IF pc[t] = "checked" THEN "check" ELSE "recheck"
      /\ \A b \in Actors \ {t} : pc'[b] = pc[b]
  BY <1>0, MovesTo, Zenon DEF CheckAgain, Places
<1> DEFINE y == IF w[t].hit THEN w ELSE Tuned(w, t, found[t].needed)
<1>2. /\ y \in Tables /\ \A u \in Threads \ {t} : y[u] = w[u]
      /\ y[t].on = w[t].on /\ y[t].sleeping = w[t].sleeping /\ y[t].stale = w[t].stale
      /\ y[t].entered = w[t].entered
      /\ w[t].hit => y[t].steady = w[t].steady /\ y[t].sensitive = w[t].sensitive
      /\ ~w[t].hit => /\ y[t].steady = found[t].needed
                      /\ y[t].sensitive = (wait[t].deadline # Never \/ found[t].needed)
  <2>1. CASE w[t].hit
    BY <1>0, <2>1, Zenon
  <2>2. CASE ~w[t].hit
    <3>1. y = Tuned(w, t, found[t].needed)
      BY <2>2, Zenon
    <3> HIDE DEF y
    <3> QED
      BY <1>0, <2>2, <3>1, TunedIs
  <2> QED
    BY <2>1, <2>2, Zenon
<1>3. w' = Reset(y, t)
  BY Zenon DEF CheckAgain, Reset
<1> HIDE DEF y
<1>4. /\ w' \in Tables /\ \A u \in Threads \ {t} : w'[u] = y[u]
      /\ w'[t].on = y[t].on /\ w'[t].sleeping = y[t].sleeping /\ w'[t].stale = y[t].stale
      /\ w'[t].entered = y[t].entered /\ ~w'[t].hit
      /\ w'[t].steady = y[t].steady /\ w'[t].sensitive = y[t].sensitive
  BY <1>2, <1>3, ResetIs, Zenon
<1>5. SoleStep(t) /\ Telltale(t)'
  BY <1>0, <1>1, <1>2, <1>4, Zenon DEF SoleStep, Telltale
<1>6. Typed'
  BY <1>0, <1>1, <1>4, Zenon DEF Typed, Tables
<1>7. Leased'
  BY <1>0, <1>1, HolderIs, Zenon DEF Leased, Telling
<1>8. Sound(t)'
  <2>1. /\ Down(t)' <=> Down(t)
        /\ Checking(t)' <=> Checking(t)
        /\ Rechecking(t)' <=> Rechecking(t)
        /\ ~Deep(t)' /\ ~Deep(t) /\ pc'[t] \notin Beds
    BY <1>0, <1>1, Zenon DEF Down, Deep, Rechecking, Checking, Telling, Gated, Beds
  <2>2. /\ w'[t].on = w[t].on /\ w'[t].sleeping = w[t].sleeping /\ w'[t].stale = w[t].stale
        /\ w'[t].entered = w[t].entered /\ ~w'[t].hit
    BY <1>2, <1>4, Zenon
  <2>3. Down(t) => (w'[t].sensitive <=> wait[t].deadline # Never \/ w'[t].steady)
    BY <1>0, <1>2, <1>4, Zenon DEF Sound, Placed
  <2>4. Placed(t)'
    BY <1>0, <1>1, <2>1, <2>2, <2>3, Zenon DEF Sound, Placed, Telling, Gated
  <2>5. Marked(t)'
    <3>1. w[t].stale => Rechecking(t)
      BY <1>0, <2>1, Zenon DEF Sound, Marked, Placed, Down
    <3>2. w[t].stale => w[t].sleeping
      BY <1>0, Zenon DEF Sound, Marked
    <3> QED
      BY <2>1, <2>2, <3>1, <3>2, Zenon DEF Marked
  <2>6. ParkedHears(t)'
    <3> SUFFICES ASSUME Down(t)
                 PROVE  Hears(t, w[t].steady, w[t].stale, w[t].stale)'
      BY <2>1, Zenon DEF ParkedHears
    <3>1. Hears(t, w[t].steady, w[t].stale, w[t].stale)
      BY <1>0, Zenon DEF Sound, ParkedHears
    <3>2. Hears(t, found[t].needed, w[t].hit, w[t].hit \/ (w[t].any /\ Differs(t)))
      BY <1>0, Zenon DEF Sound, CheckerHears
    <3>3. (KeyBump(t) => KeyBump(t)') /\ (TimeBump => TimeBump') /\ (Due(t)' <=> Due(t)) /\ (Ready(t)' <=> Ready(t))
      BY <1>0, <1>5, SoleKept, Sources, Unmoved, Zenon
    <3>4. Ready(t) => Due(t)
      BY Zenon DEF Due
    <3>5. CASE w[t].hit
      BY <1>2, <1>4, <3>1, <3>3, <3>5, Zenon DEF Hears
    <3>6. CASE ~w[t].hit /\ found[t].needed
      BY <1>2, <1>4, <3>1, <3>3, <3>4, <3>6, Zenon DEF Hears
    <3>7. CASE ~w[t].hit /\ ~found[t].needed
      BY <1>2, <1>4, <3>2, <3>3, <3>7, Zenon DEF Hears
    <3> QED
      BY <3>5, <3>6, <3>7, Zenon
  <2> QED
    BY <1>0, <1>1, <2>4, <2>5, <2>6, Zenon DEF Sound, CheckerHears
<1>9. IInv'
  BY <1>0, <1>5, <1>6, <1>7, <1>8, QuietStep, Zenon
<1> QED
  BY <1>0, <1>9, Zenon DEF Unstuck

(* A check that need not be made again has heard of all there is. *)
LEMMA OnceHears ==
  ASSUME IInv, NEW t \in Threads, pc[t] \in {"checked", "rechecked"}, ~found[t].ready, ~Again(t)
  PROVE  ~w[t].hit /\ Hears(t, found[t].needed, FALSE, FALSE)
<1>1. Typed /\ CheckerHears(t)
  BY Zenon DEF IInv, Sound
<1>2. ~w[t].hit /\ ~(w[t].any /\ Tuned(w, t, found[t].needed) # w)
  BY <1>1, Zenon DEF Again
<1>3. ~(w[t].any /\ Differs(t))
  BY <1>1, <1>2, DiffersRetunes, Zenon
<1> QED
  BY <1>1, <1>2, <1>3, Zenon DEF CheckerHears, Hears

Entered(v, t) == [v EXCEPT ![t].entered = TRUE]
LEMMA EnteredIs ==
  ASSUME NEW v \in Tables, NEW t \in Threads
  PROVE  LET x == Entered(v, t)
         IN  /\ x \in Tables /\ \A u \in Threads \ {t} : x[u] = v[u]
             /\ x[t].on = v[t].on /\ x[t].entered /\ x[t].stale = v[t].stale
  BY ZenonT(60) DEF Entered, Tables, Waiters

LEMMA CheckedStep ==
  ASSUME IInv, NEW t \in Threads, Checked(t)
  PROVE  IInv' /\ Unstuck(t, found[t])
<1>0. /\ Typed /\ Sound(t) /\ w \in Tables /\ pc[t] = "checked" /\ found[t] \in Founds
      /\ found[t].needed \in BOOLEAN
  BY FoundFields, Zenon DEF IInv, Typed, Tables, Checked
<1>1. UNCHANGED <<setup, now, data, coming, events, lease, gate, live, wait, note, ring>>
  BY Zenon DEF Checked
<1>2. CASE found[t].ready /\ Leave(w, t, "ready")
  BY <1>0, <1>1, <1>2, LeaveEnds, SameOthers, WaitStep, Zenon DEF Within, Unstuck
<1>3. CASE Again(t) /\ CheckAgain(t, "check")
  BY <1>0, <1>1, <1>3, AgainStep, Zenon
<1> DEFINE y == Tuned(w, t, found[t].needed)
           v == Entered(y, t)
<1>4. CASE ~found[t].ready /\ ~Again(t) /\ Top(v, t, found[t])
  <2>1. w[t].on /\ ~w[t].stale
    BY <1>0, Zenon DEF Sound, Placed, Marked, Checking, Down, Deep, Rechecking, Telling, Beds, Gated
  <2>2. /\ y \in Tables /\ \A u \in Threads \ {t} : y[u] = w[u]
        /\ y[t].on = w[t].on /\ y[t].stale = w[t].stale
    BY <1>0, TunedIs
  <2> HIDE DEF y
  <2>3. Fit(v, t) /\ \A u \in Threads \ {t} : v[u] = w[u]
    BY <2>1, <2>2, EnteredIs, Zenon DEF Fit
  <2> HIDE DEF v
  <2>4. Ends(v, t, found[t].needed) /\ Unstuck(t, found[t])
    BY <1>0, <1>4, <2>3, TopEnds, Zenon
  <2>5. Others(v, t)
    BY <1>0, <2>3, SameOthers, Zenon
  <2>6. Hears(t, found[t].needed, FALSE, FALSE)
    BY <1>0, <1>4, OnceHears, Zenon
  <2> QED
    BY <1>0, <1>1, <2>4, <2>5, <2>6, WaitStep, Zenon DEF Within
<1> QED
  BY <1>2, <1>3, <1>4, Zenon DEF Checked, Entered

LEMMA RecheckedStep ==
  ASSUME IInv, NEW t \in Threads, Rechecked(t)
  PROVE  IInv' /\ Unstuck(t, found[t])
<1>0. /\ Typed /\ Sound(t) /\ w \in Tables /\ pc[t] = "rechecked" /\ found[t] \in Founds
      /\ found[t].needed \in BOOLEAN
  BY FoundFields, Zenon DEF IInv, Typed, Tables, Rechecked
<1>1. UNCHANGED <<setup, now, data, coming, events, lease, gate, live, wait, note, ring>>
  BY Zenon DEF Rechecked
<1>2. CASE Again(t) /\ CheckAgain(t, "recheck")
  BY <1>0, <1>1, <1>2, AgainStep, Zenon
<1> DEFINE x == Tuned(w, t, found[t].needed)
           y == Awake(x, t)
           v == Woke(y, t)
<1>3. CASE ~Again(t) /\ Post(v, t, found[t], FALSE)
  <2>1. w[t].on /\ w[t].entered
    BY <1>0, Zenon DEF Sound, Placed, Down, Rechecking
  <2>2. /\ x \in Tables /\ \A u \in Threads \ {t} : x[u] = w[u]
        /\ x[t].on = w[t].on /\ x[t].entered = w[t].entered
    BY <1>0, TunedIs
  <2> HIDE DEF x
  <2>3. /\ y \in Tables /\ \A u \in Threads \ {t} : y[u] = x[u]
        /\ y[t].on = x[t].on /\ y[t].entered = x[t].entered
    BY <2>2, AwakeIs, Zenon
  <2> HIDE DEF y
  <2>4. /\ v \in Tables /\ \A u \in Threads \ {t} : v[u] = y[u]
        /\ v[t].on = y[t].on /\ v[t].entered = y[t].entered /\ ~v[t].stale
    BY <2>3, WokeIs, Zenon
  <2> HIDE DEF v
  <2>5. Fit(v, t) /\ Others(v, t)
    BY <1>0, <2>1, <2>2, <2>3, <2>4, SameOthers, Zenon DEF Fit
  <2>6. Ends(v, t, found[t].needed) /\ Unstuck(t, found[t]) /\ (found[t].ready => Gone(t))
    BY <1>0, <1>3, <2>5, PostEnds, Zenon
  <2>7. Gone(t) \/ Hears(t, found[t].needed, FALSE, FALSE)
    BY <1>0, <1>3, <2>6, OnceHears, Zenon
  <2> QED
    BY <1>0, <1>1, <2>5, <2>6, <2>7, WaitStep, Zenon DEF Within
<1> QED
  BY <1>2, <1>3, Zenon DEF Rechecked

-----------------------------------------------------------------------------
(* The steps of a skip. *)

WithMoved(t, b) == [found EXCEPT ![t].moved = b]
LEMMA WithMovedIs ==
  ASSUME found \in [Threads -> Founds], NEW t \in Threads, NEW b \in BOOLEAN
  PROVE  LET x == WithMoved(t, b)
         IN  /\ x \in [Threads -> Founds] /\ \A u \in Threads \ {t} : x[u] = found[u]
             /\ x[t].needed = found[t].needed /\ x[t].result = found[t].result
  BY ZenonT(60) DEF WithMoved, Founds

(* Those that move no time: in at the gate, on, or out of it. *)
Passes(t) ==
  /\ pc[t] \in {"skip", "gated", "judged", "clear", "ungate"}
  /\ \E p \in {"gated", "judged", "clear", "skipped"} :
       Goto(t, p) /\ gate' = IF p = "skipped" THEN None ELSE t
  /\ gate \in {None, t}
  /\ found' = found \/ found' = WithMoved(t, FALSE)
  /\ UNCHANGED <<setup, now, data, coming, lease, live, wait, w, note, ring>>

LEMMA PassStep ==
  ASSUME IInv, NEW t \in Threads, Passes(t), events' \subseteq 0 .. MaxTime, Arrives'
  PROVE  IInv' /\ Unstuck(t, found[t])
<1>0. Typed /\ Leased /\ Telltale(t) /\ Sound(t) /\ t \in Actors
  BY Zenon DEF IInv, Actors
<1>1. UNCHANGED <<setup, now, data, coming, lease, live, wait, w, note, ring>>
  BY Zenon DEF Passes
<1>2. PICK p \in {"gated", "judged", "clear", "skipped"} :
        Goto(t, p) /\ gate' = IF p = "skipped" THEN None ELSE t
  BY Zenon DEF Passes
<1>3. pc' \in [Actors -> Places] /\ pc'[t] = p /\ \A b \in Actors \ {t} : pc'[b] = pc[b]
  BY <1>0, <1>2, MovesTo, Zenon DEF Places, Gated
<1>4. /\ found' \in [Threads -> Founds] /\ \A u \in Threads \ {t} : found'[u] = found[u]
      /\ found'[t].needed = found[t].needed /\ found'[t].result = found[t].result
  <2>1. found \in [Threads -> Founds]
    BY <1>0, Zenon DEF Typed
  <2> QED
    BY <2>1, WithMovedIs, Zenon DEF Passes
<1>5. gate' \in {None, t} /\ gate \in {None, t} /\ pc[t] \in {"skip", "gated", "judged", "clear", "ungate"}
  BY <1>2, Zenon DEF Passes
<1>6. SoleStep(t) /\ Telltale(t)'
  BY <1>0, <1>1, <1>3, <1>4, <1>5, ReadinessAssumption, Zenon DEF SoleStep, Telltale
<1>7. Typed'
  BY <1>0, <1>1, <1>3, <1>4, <1>5, Zenon DEF Typed
<1>8. Leased'
  BY <1>0, <1>1, <1>3, HolderIs, Zenon DEF Leased, Telling
<1>9. \A u \in Threads : Learns(u)
  BY <1>1, Unmoved, Zenon
<1>10. Sound(t)'
  <2>1. Deep(t) /\ Deep(t)' /\ pc'[t] \notin Beds
    BY <1>3, <1>5, Zenon DEF Deep, Gated, Beds
  <2>2. t \in live
    BY <1>0, <1>5, Zenon DEF Sound, Placed, Telling
  <2>3. (gate = t <=> pc[t] \in Gated \/ Telling(t, "ungate"))'
    BY <1>2, <1>3, ReadinessAssumption, Zenon DEF Gated, Telling
  <2>4. Kept
    BY <1>0, <1>5, <1>6, SoleKept, Zenon
  <2> QED
    BY <1>0, <1>1, <1>4, <1>9, <2>1, <2>2, <2>3, <2>4, DeepSound
<1>11. IInv'
  BY <1>0, <1>5, <1>6, <1>7, <1>8, <1>9, <1>10, ActStep
<1> QED
  BY <1>4, <1>11, Zenon DEF Unstuck

LEMMA GateStep ==
  ASSUME IInv, NEW t \in Threads, EnterGate(t) \/ JudgeSettling(t) \/ Judge(t) \/ Ungate(t)
  PROVE  IInv' /\ Unstuck(t, found[t])
<1>1. gate \in {None, t}
  BY Zenon DEF IInv, Sound, Placed, Gated, EnterGate, JudgeSettling, Judge, Ungate
<1>2. Passes(t)
  BY <1>1, Zenon DEF EnterGate, JudgeSettling, Judge, Ungate, Passes, Refused, WithMoved,
              IInv, Sound, Placed, Gated
<1>3. events' = events /\ UNCHANGED <<now, coming>>
  BY Zenon DEF EnterGate, JudgeSettling, Judge, Ungate
<1> QED
  BY <1>2, <1>3, PassStep, Zenon DEF IInv, Typed, Arrives

(* A timer a skip may land on is ahead. *)
LEMMA AheadIs ==
  ASSUME Typed
  PROVE  \A x \in Ahead : x \in Nat /\ x > now /\ x <= Never
<1>1. MaxTime \in Nat /\ now \in Nat /\ events \subseteq 0 .. MaxTime
  BY ReadinessAssumption DEF Typed
<1>2. \A u \in Threads : wait[u].deadline \in 0 .. Never
  BY Zenon DEF Typed, Waits, Times
<1>3. ASSUME NEW x \in Ahead
      PROVE  x \in Nat /\ x > now /\ x <= Never
  <2>1. (x \in events \/ \E u \in Threads : x = wait[u].deadline) /\ x > now
    BY Zenon DEF Ahead
  <2>2. CASE x \in events
    BY <1>1, <2>1, <2>2 DEF Never
  <2>3. CASE \E u \in Threads : x = wait[u].deadline
    <3>1. x \in 0 .. Never
      BY <1>2, <2>3, Zenon
    <3> QED
      BY <1>1, <2>1, <3>1 DEF Never
  <2> QED
    BY <2>1, <2>2, <2>3, Zenon
<1> QED
  BY <1>3, Zenon

(* skip_to_next_deadline: what arrives by the move has its bump ahead. *)
LEMMA LandStep ==
  ASSUME IInv, NEW t \in Threads, SkipToNext(t)
  PROVE  IInv' /\ Unstuck(t, found[t])
<1>0. /\ Typed /\ Leased /\ Arrives /\ Telltale(t) /\ Sound(t) /\ t \in Actors
      /\ pc[t] = "clear" /\ gate = t /\ t \in live
  BY Zenon DEF IInv, Actors, SkipToNext, Sound, Placed, Gated, Telling
<1>1. MaxTime \in Nat /\ now \in 0 .. MaxTime /\ coming \in [Keys -> Times]
  BY <1>0, ReadinessAssumption, Zenon DEF Typed
<1>2. CASE WaitDue /\ Refused(t) /\ gate' = None /\ UNCHANGED <<now, events, note>>
  <2>1. Passes(t)
    BY <1>0, <1>2, Zenon DEF SkipToNext, Passes, Refused, WithMoved
  <2> QED
    BY <1>0, <1>2, <2>1, PassStep, Zenon DEF Typed, Arrives, SkipToNext
<1>3. CASE Ahead = {} /\ Refused(t) /\ gate' = None /\ events' = {} /\ UNCHANGED <<now, note>>
  <2>1. Passes(t)
    BY <1>0, <1>3, Zenon DEF SkipToNext, Passes, Refused, WithMoved
  <2>2. \A k \in Keys : coming[k] \notin now + 1 .. MaxTime
    BY <1>0, <1>1, <1>3 DEF Arrives, Ahead
  <2>3. Arrives'
    BY <1>3, <2>2, Zenon DEF Arrives, SkipToNext
  <2> QED
    BY <1>3, <2>1, <2>3, PassStep, Zenon
<1>4. CASE /\ now' \in Ahead /\ events' = {e \in events : e > now}
           /\ found' = [found EXCEPT ![t].moved = TRUE]
           /\ Notes(t, "timer", None, now', "ungate") /\ Goto(t, "bump") /\ gate' = gate
  <2>1. UNCHANGED <<setup, data, coming, lease, live, wait, w, ring>>
    BY Zenon DEF SkipToNext
  <2>2. now' \in Nat /\ now' > now /\ now' <= MaxTime
    <3>1. now' <= Never /\ now' # Never
      BY <1>0, <1>1, <1>4, AheadIs DEF Ahead, Sound, Placed, IInv, Typed, Never
    <3> QED
      BY <1>0, <1>1, <1>4, <3>1, AheadIs DEF Never
  <2>3. /\ pc' \in [Actors -> Places] /\ pc'[t] = "bump"
        /\ \A b \in Actors \ {t} : pc'[b] = pc[b]
    BY <1>0, <1>4, MovesTo, Zenon DEF Places
  <2>4. /\ note' \in [Actors -> NoteSet]
        /\ note'[t].kind = "timer" /\ note'[t].next = "ungate"
        /\ \A b \in Actors \ {t} : note'[b] = note[b]
    BY <1>0, <1>1, <1>4, <2>2, NotesTo
  <2>5. /\ found' \in [Threads -> Founds] /\ \A u \in Threads \ {t} : found'[u] = found[u]
        /\ found'[t].needed = found[t].needed /\ found'[t].result = found[t].result
    <3>1. found \in [Threads -> Founds] /\ found' = WithMoved(t, TRUE)
      BY <1>0, <1>4, Zenon DEF Typed, WithMoved
    <3> QED
      BY <3>1, WithMovedIs, Zenon
  <2>6. SoleStep(t) /\ Telltale(t)'
    BY <1>0, <1>4, <2>1, <2>3, <2>4, <2>5, Zenon DEF SoleStep, Telltale
  <2>7. Typed'
    BY <1>0, <1>1, <1>4, <2>1, <2>2, <2>3, <2>4, <2>5 DEF Typed
  <2>8. Leased'
    BY <1>0, <2>1, <2>3, <2>4, HolderIs, Zenon DEF Leased, Telling
  <2>9. Arrives'
    BY <1>0, <1>1, <1>4, <2>1, <2>2 DEF Arrives, Times, Never
  <2>10. ASSUME NEW u \in Threads
         PROVE  Learns(u)
    <3>1. wait'[u] = wait[u] /\ wait[u].key \in Keys /\ TimeBump'
      BY <1>0, <2>1, <2>3, <2>4, Zenon DEF Typed, Waits, TimeBump
    <3>2. coming[wait[u].key] \in Nat
      BY <1>1, <3>1 DEF Times, Never
    <3>3. Due(u)' => Due(u)
      BY <1>1, <2>1, <2>2, <3>1, <3>2 DEF Due, Ready
    <3> QED
      BY <3>1, <3>3, Zenon DEF Learns, Due
  <2>11. Sound(t)'
    <3>1. Deep(t) /\ Deep(t)' /\ pc'[t] \notin Beds
      BY <1>0, <2>3, <2>4, Zenon DEF Deep, Gated, Beds, Telling
    <3>2. (gate = t <=> pc[t] \in Gated \/ Telling(t, "ungate"))'
      BY <1>0, <1>4, <2>3, <2>4, Zenon DEF Telling
    <3>3. Kept
      BY <1>0, <2>6, SoleKept, Zenon
    <3> QED
      BY <1>0, <2>1, <2>5, <2>10, <3>1, <3>2, <3>3, DeepSound, Zenon
  <2>12. IInv'
    BY <1>0, <2>6, <2>7, <2>8, <2>9, <2>10, <2>11, ActStep, Zenon
  <2> QED
    BY <2>5, <2>12, Zenon DEF Unstuck
<1> QED
  BY <1>2, <1>3, <1>4, Zenon DEF SkipToNext

(* charge_latency: what a call's cost reaches, it tells of. *)
LEMMA ChargeStep ==
  ASSUME IInv, NEW t \in Threads, Charge(t)
  PROVE  IInv'
<1>0. Typed /\ Leased /\ Arrives
  BY Zenon DEF IInv
<1>1. /\ ~Checking(t) /\ ~Down(t) /\ gate # t /\ t \in live /\ pc[t] = "run"
      /\ Sound(t) /\ Telltale(t) /\ t \in Actors
      /\ wait[t].filed <=> wait[t].deadline # Never
  BY RunningIs, Zenon DEF Charge
<1>2. /\ MaxTime \in Nat /\ now \in Nat /\ now < MaxTime /\ now' = now + 1
      /\ events' = events \ {now + 1} /\ coming \in [Keys -> Times]
      /\ UNCHANGED <<setup, data, coming, lease, gate, live, wait, w, found, ring>>
  BY <1>0, ReadinessAssumption DEF Charge, Typed
<1>3. /\ Goto(t, IF now + 1 \in Ahead THEN "bump" ELSE "run")
      /\ IF now + 1 \in Ahead THEN Notes(t, "due", None, now + 1, "run") ELSE note' = note
  BY Zenon DEF Charge
<1>4. /\ pc' \in [Actors -> Places] /\ pc'[t] \in {"bump", "run"}
      /\ now + 1 \in Ahead => pc'[t] = "bump"
      /\ now + 1 \notin Ahead => pc'[t] = "run"
      /\ \A b \in Actors \ {t} : pc'[b] = pc[b]
  BY <1>0, <1>1, <1>3, MovesTo, Zenon DEF Places, Outside
<1>5. /\ note' \in [Actors -> NoteSet] /\ \A b \in Actors \ {t} : note'[b] = note[b]
      /\ now + 1 \in Ahead => note'[t].kind = "due" /\ note'[t].next = "run"
  <2>1. CASE now + 1 \in Ahead
    BY <1>0, <1>1, <1>2, <1>3, <2>1, NotesTo
  <2>2. CASE now + 1 \notin Ahead
    BY <1>0, <1>3, <2>2, Zenon DEF Typed
  <2> QED
    BY <2>1, <2>2, Zenon
<1>6. SoleStep(t) /\ Telltale(t)'
  BY <1>1, <1>2, <1>4, <1>5, Zenon DEF SoleStep, Telltale
<1>7. Typed'
  BY <1>0, <1>2, <1>4, <1>5 DEF Typed
<1>8. Leased'
  BY <1>0, <1>2, <1>4, <1>5, HolderIs, Zenon DEF Leased, Telling
<1>9. Arrives'
  BY <1>0, <1>2 DEF Arrives, Times, Never
<1>10. ASSUME NEW u \in Threads
       PROVE  Learns(u)
  <2>1. wait'[u] = wait[u] /\ wait[u].key \in Keys
    BY <1>0, <1>2, Zenon DEF Typed, Waits
  <2>2. coming[wait[u].key] \in Nat
    BY <1>2, <2>1 DEF Times, Never
  <2>3. Due(u)' => Due(u)
    BY <1>2, <2>1, <2>2 DEF Due, Ready
  <2>4. Ready(u)' => Ready(u) \/ coming[wait[u].key] = now + 1
    BY <1>2, <2>1, <2>2 DEF Ready
  <2>5. coming[wait[u].key] = now + 1 => now + 1 \in Ahead
    BY <1>0, <1>2, <2>1 DEF Arrives, Ahead
  <2>6. now + 1 \in Ahead => TimeBump'
    BY <1>1, <1>4, <1>5, Zenon DEF TimeBump
  <2>7. coming[wait[u].key] = now + 1 => Due(u)
    BY <1>2 DEF Due
  <2> QED
    BY <2>3, <2>4, <2>5, <2>6, <2>7, Zenon DEF Learns
<1>11. Sound(t)'
  <2>1. ~Checking(t)' /\ ~Down(t)' /\ ~Telling(t, "offer")'
    BY <1>4, <1>5, Zenon DEF Checking, Down, Deep, Rechecking, Telling, Beds, Gated
  <2> QED
    BY <1>1, <1>2, <1>4, <2>1, OutsideSound, Zenon
<1> QED
  BY <1>1, <1>6, <1>7, <1>8, <1>9, <1>10, <1>11, ActStep, Zenon

-----------------------------------------------------------------------------
(* A bump: whom its maker meant to tell is told, or was not tuned to it. *)

SamePlace(u) ==
  /\ Checking(u)' <=> Checking(u)
  /\ Rechecking(u)' <=> Rechecking(u)
  /\ Deep(u)' <=> Deep(u)
  /\ pc'[u] \in Beds <=> pc[u] \in Beds
  /\ (pc[u] \in Gated \/ Telling(u, "ungate"))' <=> pc[u] \in Gated \/ Telling(u, "ungate")
  /\ (pc[u] \in {"left", "alone", "offer", "done"} \/ Telling(u, "offer"))' <=>
       pc[u] \in {"left", "alone", "offer", "done"} \/ Telling(u, "offer")
  /\ found' = found /\ wait' = wait /\ live' = live /\ gate' = gate

LEMMA PlacedKept ==
  ASSUME NEW u \in Threads, Sound(u), SamePlace(u), Louder(w[u], w'[u]), Signals(u)
  PROVE  Placed(u)' /\ Marked(u)' /\ (Down(u)' <=> Down(u))
<1>1. Down(u)' <=> Down(u)
  BY Zenon DEF SamePlace, Down
<1>2. Placed(u)'
  BY <1>1, Zenon DEF Sound, Placed, SamePlace, Louder
<1>3. Marked(u)'
  BY Zenon DEF Sound, Marked, SamePlace, Louder, Signals
<1> QED
  BY <1>1, <1>2, <1>3, Zenon

(* The bump of actor a's note is what is heard of, or another is. *)
LEMMA BumpHeard ==
  ASSUME NEW a \in Actors, NEW u \in Threads, pc[a] = "bump", UNCHANGED <<wait, note>>,
         \A b \in Actors \ {a} : pc'[b] = pc[b], w[u].on
  PROVE  /\ KeyBump(u) => KeyBump(u)' \/ Reached(w, note[a], u)
         /\ TimeBump /\ w[u].sensitive /\ w[u].steady => TimeBump' \/ Reached(w, note[a], u)
<1>1. ASSUME KeyBump(u), ~KeyBump(u)'
      PROVE  Reached(w, note[a], u)
  <2>1. PICK b \in Actors : pc[b] = "bump" /\ note[b].kind = "keys" /\ note[b].key = wait[u].key
    BY <1>1, Zenon DEF KeyBump
  <2>2. b = a
    BY <1>1, <2>1, Zenon DEF KeyBump
  <2> QED
    BY <2>1, <2>2, Zenon DEF Reached
<1>2. ASSUME TimeBump, ~TimeBump', w[u].sensitive, w[u].steady
      PROVE  Reached(w, note[a], u)
  <2>1. PICK b \in Actors : pc[b] = "bump" /\ note[b].kind \in {"timer", "due"} /\ note[b].next # "offer"
    BY <1>2, Zenon DEF TimeBump
  <2>2. b = a
    BY <1>2, <2>1, Zenon DEF TimeBump
  <2> QED
    BY <1>2, <2>1, <2>2, Zenon DEF Reached
<1> QED
  BY <1>1, <1>2, Zenon

LEMMA BumpStep ==
  ASSUME IInv, NEW a \in Actors, Bump(a)
  PROVE  IInv'
<1>0. /\ Typed /\ Leased /\ Arrives /\ Telltale(a) /\ w \in Tables /\ pc[a] = "bump" /\ ring[a] = {}
      /\ (\A b \in Actors : Telltale(b)) /\ \A u \in Threads : Sound(u)
  BY Zenon DEF IInv, Bump, Typed, Tables, Telltale
<1>1. UNCHANGED <<setup, now, data, coming, events, lease, gate, live, wait, found, note>>
  BY Zenon DEF Bump
<1>2. /\ pc' \in [Actors -> Places] /\ pc'[a] = "ring"
      /\ \A b \in Actors \ {a} : pc'[b] = pc[b]
  BY <1>0, MovesTo, Zenon DEF Bump, Places
<1>3. /\ w' \in Tables
      /\ \A u \in Threads :
           /\ w'[u].on = w[u].on /\ w'[u].sleeping = w[u].sleeping
           /\ w'[u].entered = w[u].entered /\ w'[u].sig = w[u].sig
           /\ w'[u].sensitive = w[u].sensitive /\ w'[u].steady = w[u].steady /\ w'[u].any
           /\ w'[u].hit <=> w[u].hit \/ Reached(w, note[a], u)
           /\ w'[u].stale <=> w[u].stale \/ (Reached(w, note[a], u) /\ w[u].sleeping)
  BY <1>0, BumpedIs DEF Bump
<1>4. /\ ring' \in [Actors -> SUBSET Threads] /\ \A b \in Actors \ {a} : ring'[b] = ring[b]
      /\ \A u \in Threads : u \in ring'[a] <=> Reached(w, note[a], u) /\ w[u].sleeping
  <2>1. ring' = [ring EXCEPT ![a] = Woken(w, note[a])] /\ Woken(w, note[a]) \subseteq Threads
    BY Zenon DEF Bump, Woken
  <2>2. \A u \in Threads : u \in Woken(w, note[a]) <=> Reached(w, note[a], u) /\ w[u].sleeping
    BY Zenon DEF Woken
  <2> QED
    BY <1>0, <2>1, <2>2, Zenon DEF Typed
<1>5. Typed'
  BY <1>0, <1>1, <1>2, <1>3, <1>4, Zenon DEF Typed, Tables
<1>6. Leased' /\ Arrives'
  BY <1>0, <1>1, <1>2, HolderIs, Zenon DEF Leased, Arrives, Telling
<1>7. \A b \in Actors : Telltale(b)'
  BY <1>0, <1>1, <1>2, <1>4, Zenon DEF Telltale
<1>8. ASSUME NEW u \in Threads
      PROVE  Sound(u)'
  <2>1. u \in Actors
    BY Zenon DEF Actors
  <2>2. SamePlace(u) /\ (pc'[u] \in {"checked", "rechecked"} <=> pc[u] \in {"checked", "rechecked"})
    <3>1. CASE u = a
      BY <1>0, <1>1, <1>2, <3>1, Zenon DEF SamePlace, Checking, Rechecking, Deep, Telling, Beds, Gated
    <3>2. CASE u # a
      BY <1>1, <1>2, <2>1, <3>2, Zenon DEF SamePlace, Checking, Rechecking, Deep, Telling
    <3> QED
      BY <3>1, <3>2, Zenon
  <2>3. Louder(w[u], w'[u])
    BY <1>3, Zenon DEF Louder
  <2>4. Signals(u)
    <3>1. w'[u].stale => w[u].stale \/ u \in ring'[a]
      BY <1>3, <1>4, Zenon
    <3>2. ASSUME NEW b \in Actors, u \in ring[b]
          PROVE  u \in ring'[b]
      BY <1>0, <1>4, <3>2, Zenon
    <3> QED
      BY <1>3, <3>1, <3>2, Zenon DEF Signals
  <2>5. Placed(u)' /\ Marked(u)' /\ (Down(u)' <=> Down(u))
    BY <1>0, <2>2, <2>3, <2>4, PlacedKept, Zenon
  <2>6. (Due(u)' <=> Due(u)) /\ (Ready(u)' <=> Ready(u))
    BY <1>1, Unmoved, Zenon
  <2>7. w[u].on => /\ KeyBump(u) => KeyBump(u)' \/ Reached(w, note[a], u)
                   /\ TimeBump /\ w[u].sensitive /\ w[u].steady => TimeBump' \/ Reached(w, note[a], u)
    BY <1>0, <1>1, <1>2, BumpHeard, Zenon
  <2>8. ParkedHears(u)'
    <3> SUFFICES ASSUME Down(u)
                 PROVE  Hears(u, w[u].steady, w[u].stale, w[u].stale)'
      BY <2>5, Zenon DEF ParkedHears
    <3>1. Hears(u, w[u].steady, w[u].stale, w[u].stale)
      BY <1>0, Zenon DEF Sound, ParkedHears
    <3>2. w[u].on /\ w[u].sleeping /\ (w[u].steady => w[u].sensitive)
      BY <1>0, Zenon DEF Sound, Placed
    <3> QED
      BY <1>3, <2>6, <2>7, <3>1, <3>2, Zenon DEF Hears
  <2>9. CheckerHears(u)'
    <3> SUFFICES ASSUME pc[u] \in {"checked", "rechecked"}, ~found[u].ready
                 PROVE  Hears(u, found[u].needed, w[u].hit, w[u].hit \/ (w[u].any /\ Differs(u)))'
      BY <1>1, <2>2, Zenon DEF CheckerHears
    <3>1. Hears(u, found[u].needed, w[u].hit, w[u].hit \/ (w[u].any /\ Differs(u)))
      BY <1>0, Zenon DEF Sound, CheckerHears
    <3>2. w[u].on
      BY <1>0, Zenon DEF Sound, Placed, Checking, Down, Rechecking
    <3>3. Differs(u)' <=> Differs(u)
      BY <1>1, <1>3, Zenon DEF Differs
    <3>4. found[u].needed => (w[u].sensitive /\ w[u].steady) \/ Differs(u)
      BY Zenon DEF Differs
    <3>5. w'[u].any /\ (w'[u].hit <=> w[u].hit \/ Reached(w, note[a], u))
      BY <1>3, Zenon
    <3> QED
      BY <1>1, <2>6, <2>7, <3>1, <3>2, <3>3, <3>4, <3>5 DEF Hears
  <2> QED
    BY <2>5, <2>8, <2>9, Zenon DEF Sound
<1> QED
  BY <1>5, <1>6, <1>7, <1>8, Zenon DEF IInv

(* The signals of a bump, one at a time, and where its maker goes on. *)
Rung(v, u) == [v EXCEPT ![u].sig = v[u].sleeping]
LEMMA RungIs ==
  ASSUME NEW v \in Tables, NEW u \in Threads
  PROVE  LET x == Rung(v, u)
         IN  /\ x \in Tables /\ \A t \in Threads \ {u} : x[t] = v[t]
             /\ x[u].on = v[u].on /\ x[u].sleeping = v[u].sleeping /\ x[u].stale = v[u].stale
             /\ x[u].hit = v[u].hit /\ x[u].any = v[u].any /\ x[u].entered = v[u].entered
             /\ x[u].sensitive = v[u].sensitive /\ x[u].steady = v[u].steady
             /\ x[u].sig = v[u].sleeping
  BY ZenonT(60) DEF Rung, Tables, Waiters

LEMMA RingOneStep ==
  ASSUME IInv, NEW a \in Actors, NEW u \in Threads, w' = Rung(w, u), pc[a] = "ring", u \in ring[a],
         ring' = [ring EXCEPT ![a] = @ \ {u}],
         UNCHANGED <<setup, now, data, coming, events, lease, gate, live, pc, wait, found, note>>
  PROVE  IInv'
<1>0. /\ Typed /\ Leased /\ Arrives /\ w \in Tables
      /\ (\A b \in Actors : Telltale(b)) /\ \A t \in Threads : Sound(t)
  BY Zenon DEF IInv, Typed, Tables
<1>1. /\ w' \in Tables /\ \A t \in Threads \ {u} : w'[t] = w[t]
      /\ w'[u].on = w[u].on /\ w'[u].sleeping = w[u].sleeping /\ w'[u].stale = w[u].stale
      /\ w'[u].hit = w[u].hit /\ w'[u].any = w[u].any /\ w'[u].entered = w[u].entered
      /\ w'[u].sensitive = w[u].sensitive /\ w'[u].steady = w[u].steady
      /\ w'[u].sig = w[u].sleeping
  BY <1>0, RungIs, Zenon
<1>2. /\ ring' \in [Actors -> SUBSET Threads] /\ \A b \in Actors \ {a} : ring'[b] = ring[b]
      /\ ring'[a] = ring[a] \ {u}
  BY <1>0, Zenon DEF Typed
<1>3. Typed' /\ Leased' /\ Arrives'
  BY <1>0, <1>1, <1>2, Zenon DEF Typed, Tables, Leased, Arrives, Telling
<1>4. \A b \in Actors : Telltale(b)'
  BY <1>0, <1>2, Zenon DEF Telltale
<1>5. ASSUME NEW t \in Threads
      PROVE  Sound(t)'
  <2>1. Louder(w[t], w'[t])
    BY <1>1, Zenon DEF Louder
  <2>2. Signals(t)
    <3>1. CASE t = u
      BY <1>1, <3>1, Zenon DEF Signals
    <3>2. CASE t # u
      <4>1. w'[t] = w[t] /\ \A b \in Actors : t \in ring'[b] <=> t \in ring[b]
        BY <1>1, <1>2, <3>2, Zenon
      <4> QED
        BY <4>1, Zenon DEF Signals
    <3> QED
      BY <3>1, <3>2, Zenon
  <2>3. Frame(t) /\ Kept /\ Learns(t)
    BY <2>1, <2>2, Unmoved, Zenon DEF Frame, Kept
  <2> QED
    BY <1>0, <2>3, Bystander, Zenon
<1> QED
  BY <1>3, <1>4, <1>5, Zenon DEF IInv

LEMMA NoNoteIs == NoNote \in NoteSet
  BY ReadinessAssumption DEF NoNote, NoteSet

LEMMA RingStep ==
  ASSUME IInv, NEW a \in Actors, Ring(a)
  PROVE  IInv'
<1>0. Typed /\ Leased /\ Telltale(a) /\ pc[a] = "ring" /\ (a \in Threads => Sound(a))
  BY Zenon DEF IInv, Ring
<1>1. UNCHANGED <<setup, now, data, coming, events, lease, gate, live, wait, found>>
  BY Zenon DEF Ring
<1>2. CASE \E u \in ring[a] : /\ w' = [w EXCEPT ![u].sig = w[u].sleeping]
                              /\ ring' = [ring EXCEPT ![a] = @ \ {u}]
                              /\ UNCHANGED <<pc, note>>
  <2>1. PICK u \in ring[a] : /\ w' = Rung(w, u) /\ ring' = [ring EXCEPT ![a] = @ \ {u}]
                             /\ UNCHANGED <<pc, note>>
    BY <1>2, Zenon DEF Rung
  <2>2. u \in Threads
    BY <1>0, Zenon DEF Typed
  <2> QED
    BY <1>0, <1>1, <2>1, <2>2, RingOneStep, Zenon
<1>3. CASE /\ ring[a] = {} /\ Goto(a, note[a].next) /\ note' = [note EXCEPT ![a] = NoNote]
           /\ UNCHANGED <<w, ring>>
  <2>1. note[a].next \in {"run", "offer", "ungate"}
    BY <1>0, Zenon DEF Typed, NoteSet
  <2>2. /\ pc' \in [Actors -> Places] /\ pc'[a] = note[a].next
        /\ \A b \in Actors \ {a} : pc'[b] = pc[b]
    BY <1>0, <1>3, <2>1, MovesTo, Zenon DEF Places, Outside, Gated
  <2>3. note' \in [Actors -> NoteSet] /\ \A b \in Actors \ {a} : note'[b] = note[b]
    BY <1>0, <1>3, NoNoteIs, Zenon DEF Typed
  <2>4. SoleStep(a) /\ Telltale(a)'
    BY <1>1, <1>3, <2>1, <2>2, <2>3, Zenon DEF SoleStep, Telltale
  <2>5. Typed'
    BY <1>0, <1>1, <1>3, <2>2, <2>3, Zenon DEF Typed
  <2>6. Leased'
    BY <1>0, <1>1, <2>2, <2>3, HolderIs, Zenon DEF Leased, Telling
  <2>7. ASSUME a \in Threads
        PROVE  Sound(a)'
    <3>1. ~Telling(a, "offer")' /\ ~Telling(a, "ungate")' /\ ~Checking(a) /\ ~Checking(a)'
      BY <1>0, <2>1, <2>2, Zenon DEF Telling, Checking
    <3>2. /\ a \in live <=> note[a].next # "offer"
          /\ gate = a <=> note[a].next = "ungate"
          /\ wait[a].filed <=> wait[a].deadline # Never
      BY <1>0, <2>1, <2>7, Zenon DEF Sound, Placed, Telling, Gated
    <3>3. CASE note[a].next = "ungate"
      <4>1. Deep(a) /\ Deep(a)' /\ pc'[a] \notin Beds
        BY <1>0, <2>2, <3>3, Zenon DEF Deep, Telling, Gated, Beds
      <4>2. (gate = a <=> pc[a] \in Gated \/ Telling(a, "ungate"))'
        BY <1>1, <2>2, <3>2, <3>3, Zenon DEF Gated
      <4>3. Kept /\ Learns(a)
        BY <1>0, <1>1, <2>4, <2>7, SoleKept, Unmoved, Zenon
      <4> QED
        BY <1>0, <1>1, <1>3, <2>7, <3>2, <3>3, <4>1, <4>2, <4>3, DeepSound
    <3>4. CASE note[a].next \in {"run", "offer"}
      <4>1. ~Down(a) /\ ~Down(a)'
        BY <1>0, <2>2, <3>4, Zenon DEF Down, Deep, Rechecking, Telling, Beds, Gated
      <4> QED
        BY <1>0, <1>1, <1>3, <2>2, <2>7, <3>1, <3>2, <3>4, <4>1, OutsideSound
    <3> QED
      BY <2>1, <3>3, <3>4, Zenon
  <2> QED
    BY <1>0, <1>1, <2>4, <2>5, <2>6, <2>7, QuietStep, Zenon
<1> QED
  BY <1>2, <1>3, Zenon DEF Ring

-----------------------------------------------------------------------------
(* Every step keeps the invariant, and a wait gives up only in Surrenders. *)

(* A section of t's wait records what it found for t alone. *)
Own(t) == \A u \in Threads \ {t} : found'[u] = found[u]
LEMMA OwnParts ==
  ASSUME Typed, NEW t \in Threads, NEW v, NEW f, NEW r, NEW p, NEW q
  PROVE  /\ Leave(v, t, r) => Own(t)
         /\ FallAsleep(v, t, f, p, q) => Own(t)
         /\ Top(v, t, f) => Own(t)
         /\ Post(v, t, f, p) => Own(t)
         /\ Settled(v, t) => Own(t)
<1>0. found \in [Threads -> Founds]
  BY Zenon DEF Typed
<1>1. ASSUME NEW g, found' = [found EXCEPT ![t] = g]
      PROVE  Own(t)
  BY <1>0, <1>1, Zenon DEF Own
<1>2. ASSUME NEW x, NEW s
      PROVE  Leave(x, t, s) => Own(t)
  BY <1>1, Zenon DEF Leave
<1>3. ASSUME NEW x, NEW g, NEW c, NEW e
      PROVE  (FallAsleep(x, t, g, c, e) => Own(t)) /\ (TrySkip(x, t, g, c) => Own(t))
  BY <1>1, Zenon DEF FallAsleep, TrySkip
<1>4. ASSUME NEW g
      PROVE  Top(v, t, g) => Own(t)
  BY <1>2, <1>3, Zenon DEF Top
<1>5. Post(v, t, f, p) => Own(t)
  BY <1>2, <1>3, <1>4, Zenon DEF Post
<1>6. Settled(v, t) => Own(t)
  BY <1>2, <1>4, Zenon DEF Settled
<1> QED
  BY <1>2, <1>3, <1>4, <1>5, <1>6, Zenon

Fine(t) == IInv' /\ Own(t) /\ (Unstuck(t, found[t]) \/ Surrenders(t))
Silent == IInv' /\ found' = found

LEMMA ActsStep ==
  ASSUME IInv, NEW t \in Threads, Acts(t)
  PROVE  Silent
<1>1. setup.keys \subseteq Keys /\ setup.kinds \subseteq Nat \X BOOLEAN
  BY ReadinessAssumption, Zenon DEF IInv, Typed
<1>2. CASE \E k \in setup.keys : Send(t, k) \/ Take(t, k)
  BY <1>1, <1>2, SendStep, TakeStep, Zenon DEF Silent, Send, Take
<1>3. CASE \E k \in setup.keys, d \in Delays : SendLater(t, k, d)
  BY <1>1, <1>3, SendStep, Zenon DEF Silent, SendLater
<1>4. CASE \E k \in setup.keys, kind \in setup.kinds : StartWait(t, k, kind[1], kind[2])
  <2>1. PICK k \in setup.keys, kind \in setup.kinds : StartWait(t, k, kind[1], kind[2])
    BY <1>4, Zenon
  <2>2. k \in Keys /\ kind[1] \in Nat /\ kind[2] \in BOOLEAN
    BY <1>1, Zenon
  <2>3. found' = found
    BY <2>1, Zenon DEF StartWait
  <2> QED
    BY <2>1, <2>2, <2>3, StartStep, Zenon DEF Silent
<1>5. CASE Charge(t)
  BY <1>5, ChargeStep, Zenon DEF Silent, Charge
<1>6. CASE ExitThread(t)
  BY <1>6, ExitStep, Zenon DEF Silent, ExitThread
<1> QED
  BY <1>2, <1>3, <1>4, <1>5, <1>6, Zenon DEF Acts

LEMMA NudgesStep ==
  ASSUME IInv, NEW a \in Actors, Nudges(a)
  PROVE  Silent
<1>1. CASE Bump(a)
  BY <1>1, BumpStep, Zenon DEF Silent, Bump
<1>2. CASE Ring(a)
  BY <1>2, RingStep, Zenon DEF Silent, Ring
<1>3. CASE Offer(a)
  BY <1>3, AskStep, Zenon DEF Silent, Offer
<1> QED
  BY <1>1, <1>2, <1>3, Zenon DEF Nudges

LEMMA ProceedsStep ==
  ASSUME IInv, NEW t \in Threads, Proceeds(t) \/ SleepEnds(t, FALSE)
  PROVE  Silent \/ Fine(t)
<1>0. Typed /\ found \in [Threads -> Founds] /\ t \in Actors
  BY Zenon DEF IInv, Typed, Actors
<1>1. CASE Nudges(t)
  BY <1>0, <1>1, NudgesStep, Zenon
<1>2. CASE LeftSettling(t) \/ WakeIfQuiescent(t)
  BY <1>0, <1>2, AskStep, Zenon DEF Silent, LeftSettling, WakeIfQuiescent
<1>3. CASE Register(t)
  BY <1>3, RegisterStep, Zenon DEF Silent, Register
<1>4. CASE Check(t)
  BY <1>0, <1>4, CheckStep, Zenon DEF Fine, Own, Check
<1>5. CASE Checked(t)
  <2>1. Own(t)
    BY <1>0, <1>5, OwnParts, Zenon DEF Checked, CheckAgain, Own
  <2> QED
    BY <1>5, <2>1, CheckedStep, Zenon DEF Fine
<1>6. CASE Signalled(t)
  BY <1>6, SignalledStep, Zenon DEF Silent, Signalled
<1>7. CASE Rechecked(t)
  <2>1. Own(t)
    BY <1>0, <1>7, OwnParts, Zenon DEF Rechecked, CheckAgain, Own
  <2> QED
    BY <1>7, <2>1, RecheckedStep DEF Fine
<1>8. CASE SleepEnds(t, TRUE) \/ SleepEnds(t, FALSE)
  <2>1. Own(t)
    BY <1>0, <1>8, OwnParts, Zenon DEF SleepEnds
  <2> QED
    BY <1>8, <2>1, SleepStep, Zenon DEF Fine
<1>9. CASE SettleEnds(t)
  <2>1. Own(t)
    BY <1>0, <1>9, OwnParts, Zenon DEF SettleEnds
  <2> QED
    BY <1>9, <2>1, SettleStep, Zenon DEF Fine
<1>10. CASE EpochMoved(t)
  <2>1. Own(t)
    BY <1>0, <1>10, OwnParts, Zenon DEF EpochMoved, Own
  <2> QED
    BY <1>10, <2>1, EpochStep DEF Fine
<1>11. CASE EnterGate(t) \/ JudgeSettling(t) \/ Judge(t) \/ Ungate(t)
  <2>1. Own(t)
    BY <1>0, <1>11, Zenon DEF EnterGate, JudgeSettling, Judge, Ungate, Refused, Own
  <2> QED
    BY <1>11, <2>1, GateStep, Zenon DEF Fine
<1>12. CASE SkipToNext(t)
  <2>1. Own(t)
    BY <1>0, <1>12, Zenon DEF SkipToNext, Refused, Own
  <2> QED
    BY <1>12, <2>1, LandStep, Zenon DEF Fine
<1>13. CASE Skipped(t)
  <2>1. Own(t)
    BY <1>0, <1>13, OwnParts, Zenon DEF Skipped, Refusal
  <2> QED
    BY <1>13, <2>1, SkippedStep, Zenon DEF Fine
<1>14. CASE Return(t)
  <2>1. Own(t)
    BY <1>0, <1>14, Zenon DEF Return, Own
  <2> QED
    BY <1>14, <2>1, ReturnStep DEF Fine
<1> QED
  BY <1>1, <1>2, <1>3, <1>4, <1>5, <1>6, <1>7, <1>8, <1>9, <1>10, <1>11, <1>12, <1>13, <1>14
     DEF Proceeds

LEMMA NextStep ==
  ASSUME IInv, Next
  PROVE  IInv' /\ \A u \in Threads : GivesUp(u) => Surrenders(u)
<1>1. Silent \/ \E t \in Threads : Fine(t)
  <2>1. CASE \E t \in Threads : Acts(t) \/ Proceeds(t) \/ SleepEnds(t, FALSE)
    BY <2>1, ActsStep, ProceedsStep, Zenon
  <2>2. CASE Nudges(Holder)
    BY <2>2, NudgesStep, HolderIs, Zenon
  <2>3. CASE TakeLease \/ GiveLease
    BY <2>3, LeaseStep, Zenon DEF Silent, TakeLease, GiveLease
  <2> QED
    BY <2>1, <2>2, <2>3, Zenon DEF Next
<1>2. CASE Silent
  BY <1>2, Zenon DEF Silent, GivesUp
<1>3. CASE \E t \in Threads : Fine(t)
  <2>1. PICK t \in Threads : Fine(t)
    BY <1>3, Zenon
  <2> QED
    BY <2>1, Zenon DEF Fine, Own, GivesUp, Unstuck
<1> QED
  BY <1>1, <1>2, <1>3, Zenon

LEMMA InitInv == Init => IInv
<1> SUFFICES ASSUME Init
             PROVE  IInv
  OBVIOUS
<1>1. MaxTime \in Nat /\ Keys # {} /\ None \notin Threads /\ Holder \notin Threads
  BY ReadinessAssumption, Zenon
<1> DEFINE first == [key |-> CHOOSE k \in Keys : TRUE, broad |-> FALSE, deadline |-> Never, filed |-> FALSE]
<1>2. first \in Waits /\ first.deadline = Never /\ ~first.filed
  <2>1. (CHOOSE k \in Keys : TRUE) \in Keys
    BY <1>1, Zenon
  <2>2. Never \in Times
    BY <1>1 DEF Never, Times
  <2> QED
    BY <2>1, <2>2, Zenon DEF Waits
<1>3. wait = [t \in Threads |-> first]
  BY Zenon DEF Init
<1> HIDE DEF first
<1>4. Idle \in Founds
  BY Zenon DEF Idle, Founds
<1>5. Typed
  <2>1. setup \in Setups /\ now \in 0 .. MaxTime /\ data \in [Keys -> BOOLEAN] /\ events \subseteq 0 .. MaxTime
    BY <1>1 DEF Init
  <2>2. coming \in [Keys -> Times]
    BY <1>1 DEF Init, Never, Times
  <2>3. /\ lease \in BOOLEAN /\ gate \in Threads \cup {None} /\ live \subseteq Threads
        /\ pc \in [Actors -> Places]
    BY Zenon DEF Init, Places, Outside
  <2>4. wait \in [Threads -> Waits] /\ w \in [Threads -> Waiters] /\ found \in [Threads -> Founds]
    BY <1>2, <1>3, <1>4, UnregisteredIs, Zenon DEF Init
  <2>5. note \in [Actors -> NoteSet] /\ ring \in [Actors -> SUBSET Threads]
    BY NoNoteIs, Zenon DEF Init
  <2> QED
    BY <2>1, <2>2, <2>3, <2>4, <2>5, Zenon DEF Typed
<1>6. Leased /\ Arrives /\ \A a \in Actors : Telltale(a)
  BY <1>1, HolderIs DEF Init, Leased, Arrives, Telltale, Never
<1>7. ASSUME NEW t \in Threads
      PROVE  Sound(t)
  <2>1. /\ pc[t] = "run" /\ w[t] = Unregistered /\ wait[t].deadline = Never /\ ~wait[t].filed
        /\ gate # t /\ t \in live
    BY <1>1, <1>2, <1>3, Zenon DEF Init, Actors
  <2>2. ~Checking(t) /\ ~Down(t) /\ ~Deep(t) /\ ~Rechecking(t) /\ ~Telling(t, "offer") /\ ~Telling(t, "ungate")
    BY <2>1, Zenon DEF Checking, Down, Deep, Rechecking, Telling, Beds, Gated
  <2> QED
    BY <2>1, <2>2, UnregisteredIs, Zenon DEF Sound, Placed, Marked, ParkedHears, CheckerHears, Beds, Gated
<1> QED
  BY <1>5, <1>6, <1>7, Zenon DEF IInv

LEMMA StutterInv ==
  ASSUME IInv, UNCHANGED vars
  PROVE  IInv'
<1>1. /\ setup' = setup /\ now' = now /\ data' = data /\ coming' = coming /\ events' = events
      /\ lease' = lease /\ gate' = gate /\ live' = live /\ pc' = pc /\ wait' = wait /\ w' = w
      /\ found' = found /\ note' = note /\ ring' = ring
  BY Zenon DEF vars
<1>2. w \in Tables
  BY Zenon DEF IInv, Typed, Tables
<1>3. Typed' /\ Leased' /\ Arrives' /\ \A a \in Actors : Telltale(a)'
  BY <1>1, Zenon DEF IInv, Typed, Leased, Arrives, Telltale, Telling
<1>4. ASSUME NEW t \in Threads
      PROVE  Sound(t)'
  <2>1. Kept /\ Learns(t) /\ Sound(t)
    BY <1>1, Unmoved, Zenon DEF Kept, IInv
  <2>2. Frame(t)
    BY <1>1, <1>2, Fields, Zenon DEF Frame, Louder, Signals
  <2> QED
    BY <2>1, <2>2, Bystander, Zenon
<1> QED
  BY <1>3, <1>4, Zenon DEF IInv

(* What the invariant says of the sleepers and of the marks. *)
LEMMA InvHeard == IInv => NoLostWake /\ MarksTaken
<1> SUFFICES ASSUME IInv
             PROVE  NoLostWake /\ MarksTaken
  OBVIOUS
<1>1. MarksTaken
  BY Zenon DEF IInv, Sound, Marked, MarksTaken, Rechecking
<1>2. ASSUME NEW t \in Threads, pc[t] \in {"asleep", "settle"}, Ready(t)
      PROVE  \/ w[t].sig
             \/ \E u \in Actors : t \in ring[u] \/ (pc[u] = "bump" /\ Reached(w, note[u], t))
  <2>1. Placed(t) /\ Marked(t) /\ ParkedHears(t) /\ Down(t) /\ pc[t] \in Beds
    BY <1>2, Zenon DEF IInv, Sound, Down, Deep, Beds
  <2>2. w[t].on /\ (w[t].steady => w[t].sensitive)
    BY <2>1, Zenon DEF Placed
  <2>3. w[t].stale \/ KeyBump(t) \/ (w[t].steady /\ TimeBump)
    BY <1>2, <2>1, Zenon DEF ParkedHears, Hears, Due
  <2>4. CASE w[t].stale
    BY <2>1, <2>4, Zenon DEF Marked
  <2>5. CASE KeyBump(t)
    BY <2>2, <2>5, Zenon DEF KeyBump, Reached
  <2>6. CASE w[t].steady /\ TimeBump
    BY <2>2, <2>6, Zenon DEF TimeBump, Reached
  <2> QED
    BY <2>3, <2>4, <2>5, <2>6, Zenon
<1> QED
  BY <1>1, <1>2, Zenon DEF NoLostWake

(* Where a wait gives up, another that has something to read would have a   *)
(* bump ahead, whose maker runs or is inside the gate.                      *)
LEMMA SurrenderQuiet ==
  ASSUME IInv, NEW t \in Threads, Surrenders(t)
  PROVE  Quiet \/ gate \notin {None, t}
<1>0. /\ Typed /\ Leased /\ w \in Tables /\ pc[t] = "skipped" /\ ~Ready(t)
      /\ (\A a \in Actors : Telltale(a)) /\ \A u \in Threads : Sound(u)
  BY Zenon DEF IInv, Typed, Tables, Surrenders
<1> DEFINE v == Back(w, t)
<1>1. /\ \A u \in Threads \ {t} : v[u] = w[u]
      /\ v[t].on = w[t].on /\ v[t].entered = w[t].entered
  BY <1>0, BackIs, Zenon
<1>2. /\ ~lease /\ ~WaitDue /\ \A u \in live : v[u].entered
      /\ \A u \in Threads : ~(v[u].on /\ v[u].stale)
  BY Zenon DEF Surrenders, Quiescent, Settling, Still
<1> HIDE DEF v
<1> SUFFICES ASSUME gate \in {None, t}
             PROVE  Quiet
  OBVIOUS
<1>3. gate = None
  BY <1>0, Zenon DEF Sound, Placed, Gated, Telling
<1>4. live \subseteq Threads /\ \A u \in live : w[u].entered
  BY <1>0, <1>1, <1>2, Zenon DEF Typed
<1>5. ASSUME NEW a \in Actors, pc[a] = "bump", note[a].kind = "keys" \/ note[a].next # "offer"
      PROVE  FALSE
  <2>1. note[a].next # "offer"
    BY <1>0, <1>5, Zenon DEF Telltale
  <2>2. a \in Threads
    BY <1>0, <1>5, <2>1, Zenon DEF Leased, Telling, Actors
  <2>3. note[a].next # "ungate"
    BY <1>0, <1>3, <1>5, <2>2, ReadinessAssumption, Zenon DEF Sound, Placed, Telling
  <2>4. ~Down(a)
    BY <1>5, <2>3, Zenon DEF Down, Deep, Rechecking, Telling, Beds, Gated
  <2>5. a \in live
    BY <1>0, <1>5, <2>1, <2>2, Zenon DEF Sound, Placed, Telling
  <2> QED
    BY <1>0, <1>4, <2>2, <2>4, <2>5, Zenon DEF Sound, Placed
<1>6. ASSUME NEW u \in live
      PROVE  ~Ready(u) /\ ~Passed(u)
  <2>1. u \in Threads /\ w[u].entered /\ wait[u] \in Waits /\ now \in 0 .. MaxTime /\ MaxTime \in Nat
    BY <1>0, <1>4, ReadinessAssumption, Zenon DEF Typed
  <2>2. ~Passed(u)
    <3> SUFFICES ASSUME wait[u].deadline <= now
                 PROVE  FALSE
      BY Zenon DEF Passed
    <3>1. wait[u].deadline # Never
      BY <2>1 DEF Never
    <3> QED
      BY <1>0, <1>2, <2>1, <3>1, Zenon DEF Sound, Placed, WaitDue
  <2>3. ~Ready(u)
    <3> SUFFICES ASSUME u # t, Ready(u)
                 PROVE  FALSE
      BY <1>0, Zenon
    <3>1. Down(u) /\ w[u].on /\ ~w[u].stale
      BY <1>0, <1>1, <1>2, <2>1, Zenon DEF Sound, Placed
    <3>2. KeyBump(u) \/ TimeBump
      BY <1>0, <2>1, <3>1, Zenon DEF Sound, ParkedHears, Hears, Due
    <3> QED
      BY <1>5, <3>2, Zenon DEF KeyBump, TimeBump
  <2> QED
    BY <2>2, <2>3, Zenon
<1> QED
  BY <1>2, <1>4, <1>6, Zenon DEF Quiet

-----------------------------------------------------------------------------
(* The theorems. *)

LEMMA Inductive == Spec => []IInv
<1>1. Init => IInv
  BY InitInv, Zenon
<1>2. IInv /\ [Next]_vars => IInv'
  BY NextStep, StutterInv, Zenon
<1> QED
  BY <1>1, <1>2, PTL DEF Spec

(* A sleeper whose data is there is signalled or about to be, in any        *)
(* interleaving of checks, retunes, bumps and skips (readiness.rs: check,   *)
(* sleep, State::reach).                                                    *)
THEOREM WakesKept == Spec => []NoLostWake
<1>1. IInv => NoLostWake
  BY InvHeard, Zenon
<1> QED
  BY <1>1, Inductive, PTL

(* No stale mark outlives the sleep it was made in, so that none holds time *)
(* for good (readiness.rs: awake, woke).                                    *)
THEOREM MarksKept == Spec => []MarksTaken
<1>1. IInv => MarksTaken
  BY InvHeard, Zenon
<1> QED
  BY <1>1, Inductive, PTL

(* A wait gives up only in a domain where nothing can run, or while another *)
(* thread's move of the clock is still to be told of (readiness.rs:         *)
(* wait_inner).                                                             *)
THEOREM GiveUpsQuiet == Spec => GiveUpIsQuiet
<1>1. IInv /\ [Next]_vars =>
        [\A t \in Threads : GivesUp(t) => Quiet \/ gate \notin {None, t}]_vars
  BY NextStep, SurrenderQuiet, Zenon
<1> QED
  BY <1>1, Inductive, PTL DEF Spec, GiveUpIsQuiet
=============================================================================
