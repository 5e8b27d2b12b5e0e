------------------------------- MODULE Cooling -------------------------------
(***************************************************************************)
(* Fan and pump control (cooling.rs).  Controls, the tick of every round,  *)
(* the sample of the native switches and the shutdown take COOLING_LOCK;   *)
(* the revision and the switches are read without it.  Temperature, the    *)
(* native switches and the power state change at any moment.               *)
(***************************************************************************)
EXTENDS Naturals

CONSTANTS
    None,
    MaxOps,     \* bound: controls
    MaxEvents,  \* bound: changes of the surroundings, restarts
    MaxFaults   \* bound: driver, uci and file writes that fail

VARIABLES
    conf,      \* cooling.conf, or None
    fan,       \* who drives the fan, and the PWM datad last wrote
    pump,      \* the waveform the pump plays
    temp,      \* the temperature: "lost", "warm" or "hot" (80 degrees and more)
    vendor,    \* the native switches in UCI
    off,       \* the OEM power manager is in a power-off state
    mem,       \* HARD_OVERRIDE, HANDED_BACK, STOPPING, LIQUID_WRITTEN
    op,        \* the control that holds the lock, or None
    sample,    \* the native switches the collector has read, or None
    ops, events, faults,
    last       \* history: the last policy applied

vars == <<conf, fan, pump, temp, vendor, off, mem, op, sample, ops, events, faults, last>>
world == <<temp, vendor, off>>
counts == <<ops, events, faults>>

Default == [always |-> FALSE, mode |-> "custom", liquid |-> "off"]

load == IF conf = None THEN Default ELSE conf

Fresh == [hard |-> FALSE, handed |-> FALSE, stopping |-> FALSE, written |-> None]

Fault == faults < MaxFaults /\ faults' = faults + 1

NoFault == UNCHANGED faults

\* CONTROL_REVISION goes up: a sample that has read it no longer matches.
Counted(s) == IF s = None THEN None ELSE [s EXCEPT !.stale = TRUE]

(***************************************************************************)
(* apply_fan and apply_liquid.                                             *)
(***************************************************************************)

\* curve_pwm: no answer without a temperature.
curve_pwm(t) == IF t = "hot" THEN "full" ELSE IF t = "lost" THEN None ELSE "curve"

MutUrgent(m) == temp = "hot"

\* 80 degrees, or no reading since then.
Urgent(m) == temp = "hot" \/ (temp = "lost" /\ m.hard)

\* apply_fan: what the policy comes to, if every write succeeds.
Policy(c, m) ==
    IF Urgent(m) THEN [by |-> "datad", pwm |-> "full", hard |-> TRUE]
    ELSE IF c.always THEN [by |-> "datad", pwm |-> "fixed", hard |-> m.hard]
    ELSE IF c.mode = "automatic" THEN [by |-> "kernel", pwm |-> fan.pwm, hard |-> FALSE]
    ELSE [by |-> "datad", pwm |-> curve_pwm(temp), hard |-> FALSE]

\* restore_kernel_fan: two writes, both tried.
Restored == [fan EXCEPT !.by = "kernel"]

\* apply_fan_recorded: the policy; or the kernel takes over; or not even that.
\* m is the memory as the caller leaves it.
Apply(c, m, ok) ==
    LET p == Policy(c, m) IN
    \/ /\ p.pwm # None /\ ok /\ NoFault
       /\ fan' = [by |-> p.by, pwm |-> p.pwm] /\ mem' = [m EXCEPT !.hard = p.hard]
       /\ last' = [ok |-> TRUE, temp |-> temp, seen |-> IF temp = "lost" THEN last.seen ELSE temp, broken |-> FALSE]
    \/ /\ ~ok
       /\ \/ Fault
          \/ p.pwm = None /\ NoFault
       /\ fan' = Restored /\ mem' = m
       /\ last' = [last EXCEPT !.ok = FALSE, !.broken = FALSE]
    \/ /\ ~ok /\ Fault
       /\ fan' = [fan EXCEPT !.by = "datad"] /\ mem' = m
       /\ last' = [last EXCEPT !.ok = FALSE, !.broken = TRUE]

\* apply_liquid: a waveform that plays is left alone unless forced.
Pumped(c, m, force) ==
    IF ~force /\ m.written = c.liquid /\ pump = c.liquid THEN [pump |-> pump, written |-> m.written]
    ELSE [pump |-> c.liquid, written |-> c.liquid]

(***************************************************************************)
(* Controls: apply, then the native switch, then the file.                 *)
(***************************************************************************)
FanInputs == {[always |-> TRUE], [always |-> FALSE, mode |-> "automatic"], [always |-> FALSE, mode |-> "custom"]}

\* execute takes the lock and counts the revision up; cooling.fan.*
ExecuteFan ==
    /\ op = None /\ ops < MaxOps /\ ops' = ops + 1
    /\ mem' = [mem EXCEPT !.handed = FALSE]
    /\ IF mem.stopping THEN UNCHANGED <<op, sample>>
       ELSE /\ sample' = Counted(sample)
            /\ \E i \in FanInputs :
                 op' = [step |-> "apply", what |-> "fan",
                        c |-> [load EXCEPT !.always = i.always, !.mode = IF i.always THEN @ ELSE i.mode]]
    /\ UNCHANGED <<conf, fan, pump, world, events, faults, last>>

\* cooling.liquid.*
ExecuteLiquid ==
    /\ op = None /\ ops < MaxOps /\ ops' = ops + 1 /\ ~mem.stopping
    /\ mem' = [mem EXCEPT !.handed = FALSE] /\ sample' = Counted(sample)
    /\ \E l \in {"off", "low", "high"} : op' = [step |-> "apply", what |-> "liquid", c |-> [load EXCEPT !.liquid = l]]
    /\ UNCHANGED <<conf, fan, pump, world, events, faults, last>>

ControlApply ==
    /\ op # None /\ op.step = "apply"
    /\ \/ /\ op.what = "fan"
          /\ \E ok \in BOOLEAN :
               Apply(op.c, mem, ok) /\ op' = IF ok THEN [op EXCEPT !.step = "vendor"] ELSE None
          /\ UNCHANGED pump
       \/ /\ op.what = "liquid" /\ NoFault
          /\ pump' = Pumped(op.c, mem, TRUE).pump /\ mem' = [mem EXCEPT !.written = op.c.liquid]
          /\ op' = [op EXCEPT !.step = "vendor"]
          /\ UNCHANGED <<fan, last>>
       \/ /\ op.what = "liquid" /\ Fault
          /\ op' = None
          /\ UNCHANGED <<fan, pump, mem, last>>
    /\ UNCHANGED <<conf, world, sample, ops, events>>

\* vendor: uci set and commit.
ControlVendor ==
    /\ op # None /\ op.step = "vendor"
    /\ \/ /\ NoFault /\ op' = [op EXCEPT !.step = "save"]
          /\ vendor' = IF op.what = "fan" THEN [vendor EXCEPT !.fan = op.c.always] ELSE [vendor EXCEPT !.liquid = op.c.liquid # "off"]
       \/ Fault /\ op' = None /\ UNCHANGED vendor
    /\ UNCHANGED <<conf, fan, pump, temp, off, mem, sample, ops, events, last>>

\* save: a temporary file, renamed.  A sample read before this is older.
ControlSave ==
    /\ op # None /\ op.step = "save"
    /\ \/ /\ NoFault /\ conf' = op.c
          /\ sample' = IF sample # None /\ sample.step = "sync" THEN [sample EXCEPT !.old = TRUE] ELSE sample
       \/ Fault /\ UNCHANGED <<conf, sample>>
    /\ op' = None
    /\ UNCHANGED <<fan, pump, world, mem, ops, events, last>>

(***************************************************************************)
(* The collector: the revision, then the switches, then the lock.          *)
(***************************************************************************)
SampleRevision ==
    /\ sample = None
    /\ sample' = [step |-> "fan", stale |-> FALSE, fan |-> FALSE, liquid |-> FALSE, old |-> FALSE]
    /\ UNCHANGED <<conf, fan, pump, world, mem, op, counts, last>>

SampleFan ==
    /\ sample # None /\ sample.step = "fan"
    /\ sample' = [sample EXCEPT !.step = "liquid", !.fan = vendor.fan]
    /\ UNCHANGED <<conf, fan, pump, world, mem, op, counts, last>>

SampleLiquid ==
    /\ sample # None /\ sample.step = "liquid"
    /\ sample' = [sample EXCEPT !.step = "sync", !.liquid = vendor.liquid]
    /\ UNCHANGED <<conf, fan, pump, world, mem, op, counts, last>>

\* sync_vendor_switches: what the sample makes of the configuration.
Synced(s) ==
    [conf EXCEPT !.always = s.fan,
                 !.mode = IF s.fan \/ ~conf.always THEN @ ELSE "custom",
                 !.liquid = IF s.liquid = (conf.liquid # "off") THEN @ ELSE IF s.liquid THEN "high" ELSE "off"]

SampleSync ==
    /\ op = None /\ sample # None /\ sample.step = "sync"
    /\ sample' = None
    /\ IF mem.stopping \/ sample.stale \/ conf = None \/ Synced(sample) = conf
       THEN NoFault /\ UNCHANGED <<conf, fan, pump, mem, last>>
       ELSE LET c == Synced(sample)
                l == Pumped(c, mem, TRUE)
            IN  \E ok \in BOOLEAN :
                 /\ IF c.always = conf.always
                    THEN ok /\ NoFault /\ mem' = [mem EXCEPT !.written = l.written] /\ UNCHANGED <<fan, last>>
                    ELSE Apply(c, IF ok /\ c.liquid # conf.liquid THEN [mem EXCEPT !.written = l.written] ELSE mem, ok)
                 /\ pump' = IF ok /\ c.liquid # conf.liquid THEN l.pump ELSE pump
                 /\ conf' = IF ok THEN c ELSE conf
    /\ UNCHANGED <<world, op, ops, events>>

(***************************************************************************)
(* tick, shutdown and restarts.                                            *)
(***************************************************************************)

MayTick == ~mem.stopping /\ conf # None

\* Powered off: handed back once.
TickOff ==
    /\ op = None /\ MayTick /\ off
    /\ IF mem.handed THEN NoFault /\ UNCHANGED <<fan, pump, mem, last>>
       ELSE /\ mem' = [mem EXCEPT !.handed = TRUE, !.written = IF conf.liquid # "off" THEN "off" ELSE @]
            /\ pump' = IF conf.liquid # "off" THEN "off" ELSE pump
            /\ \/ NoFault /\ fan' = Restored /\ last' = [last EXCEPT !.ok = FALSE, !.broken = FALSE]
               \/ Fault /\ UNCHANGED <<fan, last>>
    /\ UNCHANGED <<conf, world, op, sample, ops, events>>

TickOn ==
    /\ op = None /\ MayTick /\ ~off
    /\ LET m == [mem EXCEPT !.handed = FALSE]
           l == IF conf.liquid = "off" THEN [pump |-> pump, written |-> m.written] ELSE Pumped(conf, m, mem.handed)
       IN  /\ pump' = l.pump
           /\ \E ok \in BOOLEAN : Apply(conf, [m EXCEPT !.written = l.written], ok)
    /\ UNCHANGED <<conf, world, op, sample, ops, events>>

\* shutdown: the kernel drives the fan again, if it was ever configured.
Shutdown ==
    /\ op = None /\ ~mem.stopping
    /\ mem' = [mem EXCEPT !.stopping = TRUE]
    /\ \/ NoFault /\ fan' = (IF conf = None THEN fan ELSE Restored)
          /\ last' = IF conf = None THEN last ELSE [last EXCEPT !.ok = FALSE, !.broken = FALSE]
       \/ conf # None /\ Fault /\ UNCHANGED fan /\ last' = [last EXCEPT !.broken = TRUE]
    /\ UNCHANGED <<conf, pump, world, op, sample, ops, events>>

\* datad ends at any moment and starts again.
Restart ==
    /\ events < MaxEvents /\ events' = events + 1
    /\ mem' = Fresh /\ op' = None /\ sample' = None
    /\ last' = [ok |-> FALSE, temp |-> "warm", seen |-> "warm", broken |-> FALSE]
    /\ UNCHANGED <<conf, fan, pump, world, ops, faults>>

(***************************************************************************)
(* Surroundings.                                                           *)
(***************************************************************************)
Event ==
    /\ events < MaxEvents /\ events' = events + 1
    /\ \/ \E t \in {"lost", "warm", "hot"} : t # temp /\ temp' = t /\ UNCHANGED <<vendor, off, pump>>
       \/ \E k \in {"fan", "liquid"} : vendor' = [vendor EXCEPT ![k] = ~@] /\ UNCHANGED <<temp, off, pump>>
       \/ off' = ~off /\ UNCHANGED <<temp, vendor, pump>>
       \/ pump # "off" /\ pump' = "off" /\ UNCHANGED <<temp, vendor, off>>
    /\ UNCHANGED <<conf, fan, mem, op, sample, ops, faults, last>>

Init ==
    /\ conf = None /\ fan = [by |-> "kernel", pwm |-> "curve"] /\ pump = "off"
    /\ temp = "warm" /\ vendor = [fan |-> FALSE, liquid |-> FALSE] /\ off = FALSE
    /\ mem = Fresh /\ op = None /\ sample = None
    /\ ops = 0 /\ events = 0 /\ faults = 0
    /\ last = [ok |-> FALSE, temp |-> "warm", seen |-> "warm", broken |-> FALSE]

Next ==
    \/ ExecuteFan \/ ExecuteLiquid \/ ControlApply \/ ControlVendor \/ ControlSave
    \/ SampleRevision \/ SampleFan \/ SampleLiquid \/ SampleSync
    \/ TickOff \/ TickOn \/ Shutdown \/ Restart \/ Event

Spec == Init /\ [][Next]_vars

(***************************************************************************)
(* Properties.                                                             *)
(***************************************************************************)

\* Once the device was seen at 80 degrees, a sensor that cannot be read any more
\* keeps the fan at full speed, whatever mode is chosen meanwhile, until a
\* lower temperature has been read (HARD_OVERRIDE).
HotStaysFull ==
    last.ok /\ last.temp = "lost" /\ last.seen = "hot" => fan = [by |-> "datad", pwm |-> "full"]

\* After the shutdown of a configured controller the kernel drives the fan, and
\* no control, sample or tick that waited for the lock takes it again; only a
\* driver that refuses the writes may prevent it.
KernelRules ==
    mem.stopping /\ op = None /\ conf # None /\ ~last.broken => fan.by = "kernel"

(* The inductive invariant of both: a device that was last seen hot has the  *)
(* override on, and no control is under way once the shutdown began.         *)
Config == [always: BOOLEAN, mode: {"automatic", "custom"}, liquid: {"off", "low", "high"}]
Switching == [step: {"apply", "vendor", "save"}, what: {"fan", "liquid"}, c: Config]
Reading == [step: {"fan", "liquid", "sync"}, stale: BOOLEAN, fan: BOOLEAN, liquid: BOOLEAN, old: BOOLEAN]
Memory == [hard: BOOLEAN, handed: BOOLEAN, stopping: BOOLEAN, written: {"off", "low", "high", None}]
Driven == [by: {"kernel", "datad"}, pwm: {"full", "fixed", "curve"}]
Temps == {"lost", "warm", "hot"}
Applied == [ok: BOOLEAN, temp: Temps, seen: Temps, broken: BOOLEAN]
Shapes ==
    /\ conf \in Config \cup {None} /\ op \in Switching \cup {None} /\ sample \in Reading \cup {None}
    /\ mem \in Memory /\ fan \in Driven /\ last \in Applied /\ temp \in Temps
    /\ vendor \in [fan: BOOLEAN, liquid: BOOLEAN]
CoolInv ==
    /\ Shapes
    /\ last.seen = "hot" => mem.hard
    /\ mem.stopping => op = None
    /\ HotStaysFull /\ KernelRules
=============================================================================
