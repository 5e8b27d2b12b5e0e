--------------------------- MODULE ChargeProtection ---------------------------
(***************************************************************************)
(* The long-charge protection switch (charge_protection.rs).  The driver   *)
(* forgets everything at boot, a threshold write hides a running hold      *)
(* without ending it, and only a change of the charge policy ends one: so  *)
(* a release writes another policy and then the old one again.  The stock  *)
(* user interface changes the policy too.                                  *)
(***************************************************************************)
EXTENDS Naturals

CONSTANTS
    None,
    Policies,   \* UI charge policies
    Zgd,        \* the one that is never touched
    MaxEvents,  \* bound: what the driver, its user and datad's end do
    MaxFaults   \* bound: writes and calls that fail

VARIABLES
    saved,     \* charge_protection.conf: disabled
    disabled,  \* DISABLED
    kern,      \* the driver: mode, hold, long (threshold), debug, policy
    op,        \* the operation that holds LOCK, or None
    events, faults,
    good       \* history: told disabled and verified, and nothing happened since

vars == <<saved, disabled, kern, op, events, faults, good>>

Fault == faults < MaxFaults /\ faults' = faults + 1

\* The driver after a boot.
Booted(p) == [mode |-> 1, hold |-> FALSE, long |-> FALSE, debug |-> FALSE, policy |-> p]

Other(p) == CHOOSE q \in Policies : q # p

MutHolding(k, answered) == k.mode = 2

\* holding: mode 2, or the stock services still report it.
Holding(k, answered) == k.mode = 2 \/ (answered /\ kern.hold)

(***************************************************************************)
(* Operations, under LOCK.                                                 *)
(***************************************************************************)

\* execute: set.  The driver is read, the switch is stored, then enforced or
\* taken back.
Set(wanted) ==
    /\ op = None
    /\ \/ /\ saved' = wanted /\ disabled' = wanted
          /\ op' = IF wanted THEN [step |-> "ask", seen |-> kern, release |-> FALSE, sure |-> TRUE]
                   ELSE IF kern.debug THEN [step |-> "default", seen |-> kern, release |-> FALSE, sure |-> FALSE] ELSE None
          /\ good' = FALSE
          /\ UNCHANGED faults
       \/ Fault /\ UNCHANGED <<saved, disabled, op, good>>
    /\ UNCHANGED <<kern, events>>

\* tick: every 30 seconds while disabled.
Tick ==
    /\ op = None /\ disabled
    /\ op' = [step |-> "ask", seen |-> kern, release |-> FALSE, sure |-> TRUE]
    /\ UNCHANGED <<saved, disabled, kern, events, faults, good>>

\* execute: release, once, whatever the switch says.
Release ==
    /\ op = None
    /\ \E answered \in BOOLEAN :
         /\ IF answered THEN UNCHANGED faults ELSE Fault
         /\ Holding(kern, answered) /\ kern.policy # Zgd
    /\ op' = [step |-> "other", seen |-> kern, release |-> TRUE, sure |-> FALSE]
    /\ UNCHANGED <<saved, disabled, kern, events, good>>

\* enforce: whether a hold runs is asked before the threshold is written.
Ask ==
    /\ op # None /\ op.step = "ask"
    /\ \E answered \in BOOLEAN :
         /\ IF answered THEN UNCHANGED faults ELSE Fault
         /\ op' = [op EXCEPT !.step = "threshold", !.release = Holding(op.seen, answered), !.sure = answered]
    /\ UNCHANGED <<saved, disabled, kern, events, good>>

\* Where enforce goes on after the threshold: k is what was read last.
After(k) == IF op.release /\ k.policy # Zgd THEN [op EXCEPT !.step = "other", !.seen = k] ELSE None

\* History: enforce ends here and nothing came in between.
Verified == good' = (op.sure /\ disabled /\ ~op.release)

\* set_threshold, unless it is long already, and its readback.
Threshold ==
    /\ op # None /\ op.step = "threshold"
    /\ \/ /\ op.seen.long /\ op.seen.debug
          /\ op' = After(op.seen) /\ Verified
          /\ UNCHANGED <<kern, faults>>
       \/ /\ ~(op.seen.long /\ op.seen.debug)
          /\ kern' = [kern EXCEPT !.long = TRUE, !.debug = TRUE, !.mode = 1]
          /\ op' = After(kern') /\ Verified
          /\ UNCHANGED faults
       \/ Fault /\ op' = None /\ UNCHANGED <<kern, good>>
    /\ UNCHANGED <<saved, disabled, events>>

\* restore_default.
Default ==
    /\ op # None /\ op.step = "default"
    /\ \/ kern' = [kern EXCEPT !.long = FALSE, !.debug = FALSE] /\ UNCHANGED faults
       \/ Fault /\ UNCHANGED kern
    /\ op' = None
    /\ UNCHANGED <<saved, disabled, events, good>>

\* release_hold: another policy, which ends the hold,
WriteOther ==
    /\ op # None /\ op.step = "other"
    /\ \/ /\ kern' = [kern EXCEPT !.policy = Other(op.seen.policy), !.hold = FALSE, !.mode = 1]
          /\ op' = [op EXCEPT !.step = "back"]
          /\ UNCHANGED faults
       \/ Fault /\ op' = None /\ UNCHANGED kern
    /\ UNCHANGED <<saved, disabled, events, good>>

\* and the one that was read before.
WriteBack ==
    /\ op # None /\ op.step = "back"
    /\ \/ /\ kern' = [kern EXCEPT !.policy = op.seen.policy, !.hold = FALSE, !.mode = 1]
          /\ good' = (op.sure /\ disabled)
          /\ UNCHANGED faults
       \/ Fault /\ UNCHANGED <<kern, good>>
    /\ op' = None
    /\ UNCHANGED <<saved, disabled, events>>

(***************************************************************************)
(* The driver, its user, and the end of datad.                             *)
(***************************************************************************)
Happens == events < MaxEvents /\ events' = events + 1 /\ good' = FALSE

\* What a running operation has read may be out of date now.
Unsure == op' = IF op = None THEN None ELSE [op EXCEPT !.sure = FALSE]

\* The charger was on for the period.
HoldStarts ==
    /\ Happens /\ ~kern.hold
    /\ kern' = [kern EXCEPT !.hold = TRUE, !.mode = 2]
    /\ Unsure
    /\ UNCHANGED <<saved, disabled, faults>>

StockPolicy ==
    /\ Happens
    /\ \E p \in Policies \cup {Zgd} : p # kern.policy /\ kern' = [kern EXCEPT !.policy = p, !.hold = FALSE, !.mode = 1]
    /\ Unsure
    /\ UNCHANGED <<saved, disabled, faults>>

Reboot ==
    /\ Happens
    /\ kern' = Booted(kern.policy) /\ disabled' = saved /\ op' = None
    /\ UNCHANGED <<saved, faults>>

\* datad ends and init loads the switch.
Restart ==
    /\ Happens
    /\ disabled' = saved /\ op' = None
    /\ UNCHANGED <<saved, kern, faults>>

Init ==
    /\ saved = FALSE /\ disabled = FALSE /\ kern = Booted(CHOOSE p \in Policies : TRUE)
    /\ op = None /\ events = 0 /\ faults = 0 /\ good = FALSE

Next ==
    \/ \E wanted \in BOOLEAN : Set(wanted)
    \/ Tick \/ Release \/ Ask \/ Threshold \/ Default \/ WriteOther \/ WriteBack
    \/ HoldStarts \/ StockPolicy \/ Reboot \/ Restart

Spec == Init /\ [][Next]_vars

(***************************************************************************)
(* Properties.                                                             *)
(***************************************************************************)

\* Once a control or a round says the protection is off, no hold runs, not even
\* one that a threshold write of an operation that was cut short had hidden,
\* and the long threshold is set; the ZGD policy is left alone (enforce).
OffMeansOff ==
    good /\ kern.policy # Zgd => ~kern.hold /\ kern.long
(* The inductive invariant of OffMeansOff.  What an operation read of the    *)
(* threshold stays true while it runs; whether a hold runs is asked anew;    *)
(* and a switch that goes back to the default was told so before.            *)
Driver == [mode: {1, 2}, hold: BOOLEAN, long: BOOLEAN, debug: BOOLEAN, policy: Policies \cup {Zgd}]
Operation == [step: {"ask", "threshold", "default", "other", "back"}, seen: Driver,
              release: BOOLEAN, sure: BOOLEAN]
Read == /\ op # None /\ op.step \in {"ask", "threshold"} =>
             op.seen.long = kern.long /\ op.seen.debug = kern.debug
        /\ op # None /\ op.step = "threshold" /\ op.sure => op.release \/ ~kern.hold
        /\ op # None /\ op.step \in {"other", "back"} /\ op.sure => kern.long
        /\ op # None /\ op.step = "default" => ~good
ChargeInv ==
    /\ kern \in Driver /\ op \in Operation \cup {None}
    /\ good \in BOOLEAN /\ disabled \in BOOLEAN /\ saved \in BOOLEAN
    /\ Read /\ OffMeansOff /\ (good => kern.long)
=============================================================================
