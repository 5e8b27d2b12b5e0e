---------------------------- MODULE TrafficHistory ----------------------------
(***************************************************************************)
(* The daily traffic totals (traffic_history.rs).  The device has a byte   *)
(* counter that starts again at midnight; samples turn it into increments  *)
(* of days.  A correction of the clock renames the day without starting    *)
(* the counter again, and datad knows of its own corrections only by a     *)
(* generation that it forgets when it restarts.                            *)
(***************************************************************************)
EXTENDS Naturals, FiniteSets, FiniteSetsExt, Functions

CONSTANTS
    None,
    Day,        \* sample intervals in a day
    MaxNow,     \* bound: the clock, in sample intervals; 0 is before 2024
    MaxBytes,   \* bound: bytes that go over the air
    MaxDays,    \* days the history keeps
    MaxEvents   \* bound: corrections, restarts and writes that fail

VARIABLES
    now,       \* the system clock
    counter,   \* day_rx_bytes + day_tx_bytes
    real,      \* history: all bytes that went over the air
    gen,       \* clock_generation of this process
    stored,    \* days, at (last_sample_at), active
    disk,      \* traffic-history.json
    seen,      \* clock_generation of the history
    relabel,   \* allow_relabel
    due,       \* a sample interval of boot time went by since the last sample
    unseen,    \* history: the day was renamed and this process does not know
    events

vars == <<now, counter, real, gen, stored, disk, seen, relabel, due, unseen, events>>

Date(t) == (t - 1) \div Day + 1
Empty == [days |-> [d \in {} |-> 0], at |-> 0, active |-> None]
Sum(f) ==
    LET upTo[n \in 0..MaxNow] == IF n = 0 THEN 0 ELSE upTo[n - 1] + f[n] IN upTo[MaxNow]
Total(s) == Sum([d \in 1..MaxNow |-> IF d \in DOMAIN s.days THEN s.days[d].bytes ELSE 0])

Happens == events < MaxEvents /\ events' = events + 1

\* The newest observation: the active day, else the greatest.
Latest(s) == IF s.active # None THEN s.active
             ELSE IF DOMAIN s.days = {} THEN None ELSE Max(DOMAIN s.days)

(***************************************************************************)
(* apply_sample.                                                           *)
(***************************************************************************)

\* Its early returns.
Refused(s, at, label) ==
    LET d == Date(at) IN
    \/ at = 0 \/ at < s.at
    \/ ~label /\ Latest(s) # None /\ d < Latest(s)
    \/ d \in DOMAIN s.days /\ at - s.at < 1
    \/ s.active = d /\ s.days[d].last = counter

\* A midnight starts the counter; a renamed day does not.
Increment(s, d, label) ==
    IF Latest(s) = None \/ (Latest(s) # d /\ ~label) \/ counter < s.days[Latest(s)].last
    THEN counter ELSE counter - s.days[Latest(s)].last

\* The oldest day that is not the active one goes.
Evict(days, active) ==
    IF Cardinality(DOMAIN days) <= MaxDays THEN days
    ELSE Restrict(days, DOMAIN days \ {Min(DOMAIN days \ {active})})

\* The day with the increment, and the counter it was seen at.
Applied(s, at, label) ==
    LET d == Date(at)
        old == IF d \in DOMAIN s.days THEN s.days[d].bytes ELSE 0
        days == [e \in DOMAIN s.days \cup {d} |->
                   IF e = d THEN [bytes |-> old + Increment(s, d, label), last |-> counter] ELSE s.days[e]]
    IN  [days |-> Evict(days, d), at |-> at, active |-> d]

(***************************************************************************)
(* record and load.                                                        *)
(***************************************************************************)

\* What a changed generation, or a clock behind the last sample, does first.
Told == gen # seen \/ now < stored.at
Base == IF Told THEN [stored EXCEPT !.at = 0] ELSE stored

MutLabel == relabel

Label == relabel \/ Told

\* record, with the clock lease held; a write that fails is only logged.
Record ==
    /\ due
    /\ seen' = gen /\ due' = FALSE
    /\ \/ /\ Refused(Base, now, Label)
          /\ stored' = Base /\ relabel' = Label
          /\ UNCHANGED <<disk, unseen, events>>
       \/ /\ ~Refused(Base, now, Label)
          /\ stored' = Applied(Base, now, Label)
          /\ relabel' = FALSE
          /\ \/ disk' = stored' /\ UNCHANGED events
             \/ Happens /\ UNCHANGED disk
          /\ UNCHANGED unseen
    /\ UNCHANGED <<now, counter, real, gen>>

\* datad restarts: load.
Load ==
    /\ Happens
    /\ stored' = disk
    /\ gen' = 0 /\ seen' = 0 /\ relabel' = FALSE /\ due' = TRUE
    /\ unseen' = (unseen \/ gen # seen \/ relabel \/ stored # disk)
    /\ UNCHANGED <<now, counter, real, disk>>

(***************************************************************************)
(* The device.                                                             *)
(***************************************************************************)

\* An interval goes by; at midnight the counter starts again.
Tick ==
    /\ now < MaxNow
    /\ now' = now + 1
    /\ counter' = IF now > 0 /\ Date(now + 1) # Date(now) THEN 0 ELSE counter
    /\ due' = TRUE
    /\ UNCHANGED <<real, gen, stored, disk, seen, relabel, unseen, events>>

Traffic ==
    /\ real < MaxBytes
    /\ counter' = counter + 1 /\ real' = real + 1
    /\ UNCHANGED <<now, gen, stored, disk, seen, relabel, due, unseen, events>>

\* datad corrects the clock (time_control); the counter may start again.
Correct(t) ==
    /\ Happens
    /\ t # now
    /\ now' = t
    /\ gen' = gen + 1
    /\ counter' \in {0, counter}
    /\ UNCHANGED <<real, stored, disk, seen, relabel, due, unseen>>

\* Another program sets the clock back: the samples show it.
SetBack(t) ==
    /\ Happens
    /\ t < stored.at
    /\ now' = t
    /\ counter' \in {0, counter}
    /\ UNCHANGED <<real, gen, stored, disk, seen, relabel, due, unseen>>

Init ==
    /\ now = 1 /\ counter = 0 /\ real = 0
    /\ gen = 0 /\ seen = 0
    /\ stored = Empty /\ disk = Empty
    /\ relabel = FALSE /\ due = TRUE
    /\ unseen = FALSE /\ events = 0

Next ==
    \/ Record \/ Load \/ Tick \/ Traffic
    \/ \E t \in 0..MaxNow : Correct(t) \/ SetBack(t)

Spec == Init /\ [][Next]_vars

(***************************************************************************)
(* Properties.                                                             *)
(***************************************************************************)

\* No byte is counted twice: the days add up to no more than what went over the
\* air, through midnights, corrections of the clock that rename a day, failed
\* writes and restarts (apply_sample: "so timezone corrections do not duplicate
\* traffic"), except where a restart made datad forget a correction or a sample.
CountedOnce == ~unseen => Total(stored) <= real

(***************************************************************************)
(* The inductive invariant behind CountedOnce.                             *)
(***************************************************************************)
Shapes ==
    /\ now \in 0..MaxNow /\ counter \in Nat /\ real \in Nat /\ gen \in Nat /\ seen \in Nat /\ seen <= gen
    /\ unseen \in BOOLEAN /\ relabel \in BOOLEAN

\* The active day is one of the days, and without one there are none.
Whole ==
    /\ stored = [days |-> stored.days, at |-> stored.at, active |-> stored.active] /\ stored.at \in Nat
    /\ DOMAIN stored.days \subseteq 1..MaxNow
    /\ \A d \in DOMAIN stored.days : stored.days[d].bytes \in Nat /\ stored.days[d].last \in Nat
    /\ IF stored.active = None THEN DOMAIN stored.days = {} ELSE stored.active \in DOMAIN stored.days

\* What the counter has shown since the last sample, had no midnight gone by.
Since ==
    IF stored.active = None THEN counter
    ELSE IF counter < stored.days[stored.active].last THEN counter ELSE counter - stored.days[stored.active].last

\* Those bytes are not in the days yet.
Once == Total(stored) + Since <= real

\* Without a correction, the active day is that of the last sample, and on
\* another day the whole counter is new.
Fresh ==
    ~relabel /\ stored.active # None =>
        /\ stored.at > 0 /\ Date(stored.at) = stored.active
        /\ gen = seen /\ now >= stored.at /\ Date(now) # stored.active => Total(stored) + counter <= real

TrafficInv == Shapes /\ (~unseen => Whole /\ Once /\ Fresh)
=============================================================================
