---------------------------- MODULE PowerNotice ----------------------------
(***************************************************************************)
(* Battery notices: Forwarder::observe_power of rust/src/sms_forward.rs    *)
(* and the part of update that sets its baseline.  Every tick of the       *)
(* forwarding loop brings one reading of the battery.  A notice is         *)
(* delivered by module SmsForward.                                         *)
(***************************************************************************)
EXTENDS Integers, FiniteSets

CONSTANTS
    Levels,   \* battery levels (0..100)
    Points,   \* POWER_THRESHOLDS
    Rearm,    \* POWER_REARM_PERCENT (3)
    NoPower   \* no usable reading, no baseline, no threshold

VARIABLES
    power,    \* [on, enabled, last, point] in memory
    disk,     \* the same in sms-forward.json
    notice,   \* the notice the last observation returned
    quiet,    \* history: points notified that the level has not left since
    told      \* history: bound on notices

vars == <<power, disk, notice, quiet, told>>

CONSTANT MaxTold  \* bound: notices

Charging == 1..2  \* charge_status: charging, discharging (of 1..4)
Readings == Levels \X Charging
Off == [on |-> FALSE, enabled |-> FALSE, last |-> NoPower, point |-> NoPower]
Silent == [charge |-> FALSE, point |-> NoPower]

Init ==
    /\ power = Off /\ disk = Off
    /\ notice = Silent
    /\ quiet = {}
    /\ told = 0

Distance(a, b) == IF a > b THEN a - b ELSE b - a

\* crossed_power_threshold: the last point crossed on the way from old to new.
Crossed(old, new) ==
    LET up   == {p \in Points : old < p /\ new >= p}
        down == {p \in Points : old > p /\ new <= p}
    IN  IF up # {} THEN CHOOSE p \in up : \A q \in up : q <= p
        ELSE IF down # {} THEN CHOOSE p \in down : \A q \in down : p <= q
        ELSE NoPower

\* The notified points that a reading has not left.
Near(reading) == {p \in quiet : reading = NoPower \/ Distance(reading[1], p) < Rearm}

\* The history of what a reading and a notice mean for every point.
Note(reading, n) ==
    /\ notice' = n
    /\ quiet' = Near(reading) \cup (IF n.point = NoPower THEN {} ELSE {n.point})
    /\ told' = told + (IF n = Silent THEN 0 ELSE 1)
    /\ told < MaxTold

Keep(p, ok) ==
    /\ power' = IF ok THEN p ELSE power
    /\ disk'  = IF ok THEN p ELSE disk

MutArmed(reading) == IF reading[1] # power.point THEN NoPower ELSE power.point

\* The point that is still suppressed at this level.
Armed(reading) ==
    IF power.point # NoPower /\ Distance(reading[1], power.point) >= Rearm
    THEN NoPower ELSE power.point

\* observe_power_with_clock on one reading.
Observe(reading) ==
    \/ \* nothing changed
       /\ reading = power.last
       /\ Note(reading, Silent)
       /\ UNCHANGED <<power, disk>>
    \/ \* switched off: the baseline follows in memory only
       /\ reading # power.last
       /\ ~(power.on /\ power.enabled)
       /\ power' = [power EXCEPT !.last = reading]
       /\ Note(reading, Silent)
       /\ UNCHANGED disk
    \/ \* the battery disappears or comes back: a new baseline
       /\ reading # power.last
       /\ power.on /\ power.enabled
       /\ NoPower \in {reading, power.last}
       /\ \E ok \in BOOLEAN : Keep([power EXCEPT !.last = reading], ok)
       /\ Note(reading, Silent)
    \/ \* a change: recorded before a notice of it is returned
       /\ NoPower \notin {reading, power.last}
       /\ reading # power.last
       /\ power.on /\ power.enabled
       /\ LET hit    == Crossed(power.last[1], reading[1])
              point  == IF hit = Armed(reading) THEN NoPower ELSE hit
              charge == reading[2] # power.last[2]
              next   == [power EXCEPT !.last = reading,
                                      !.point = IF point = NoPower THEN Armed(reading) ELSE point]
              n      == [charge |-> charge, point |-> point]
          IN  \/ Keep(next, TRUE) /\ Note(reading, n)
              \/ \* no clock for a notice, or a failed write
                 UNCHANGED <<power, disk>> /\ Note(reading, Silent)

\* update: switching notices on needs a reading; that switch, or the main one
\* while notices are on, sets the baseline anew.
Switch(explicit, on, enabled, reading) ==
    /\ explicit /\ on => reading # NoPower
    /\ LET reset == explicit \/ (enabled /\ ~power.enabled /\ power.on)
       IN  Keep([power EXCEPT !.on = IF explicit THEN on ELSE @, !.enabled = enabled,
                              !.last = IF reset THEN reading ELSE @], TRUE)
    /\ notice' = Silent
    /\ quiet' = Near(reading)
    /\ UNCHANGED told

Restart ==
    /\ power' = disk
    /\ notice' = Silent
    /\ UNCHANGED <<disk, quiet, told>>

Next ==
    \/ \E r \in Readings \cup {NoPower} : Observe(r)
    \/ \E explicit, on, enabled \in BOOLEAN, r \in Readings \cup {NoPower} :
          Switch(explicit, on, enabled, r)
    \/ Restart

Spec == Init /\ [][Next]_vars

\* A level that wobbles around a point reports it once: the same point is not
\* notified again before a reading at least Rearm away from it, also when
\* notices are switched off and on, the battery disappears in between, a write
\* fails or the process restarts.
WobbleOnce ==
    [][told' > told /\ notice'.point \in quiet
          => Distance(power'.last[1], notice'.point) >= Rearm]_vars

\* No other point lies on the way from p to the level of a baseline.
Adjacent(p, last) ==
    last # NoPower => \A q \in Points \ {p} : ~(p < q /\ q <= last[1]) /\ ~(last[1] <= q /\ q < p)

Baselines == [on : BOOLEAN, enabled : BOOLEAN, last : Readings \cup {NoPower},
              point : Points \cup {NoPower}]

\* The inductive invariant of WobbleOnce: the one point that is suppressed, in
\* memory and on disk, is the one that was notified and not left, and no other
\* point can be crossed on the way back to it.
WobbleInv ==
    /\ power \in Baselines /\ disk \in Baselines
    /\ quiet \subseteq Points
    /\ told \in Nat
    /\ \A p \in quiet : /\ power.point = p /\ Adjacent(p, power.last)
                       /\ disk.point = p /\ Adjacent(p, disk.last)
=============================================================================
