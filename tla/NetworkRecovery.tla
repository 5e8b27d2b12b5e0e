-------------------------- MODULE NetworkRecovery --------------------------
(***************************************************************************)
(* Automatic network recovery: rust/src/network_recovery.rs (Recovery), its *)
(* worker in rust/src/server.rs (spawn_recovery), the user's controls that  *)
(* share NETWORK_GATE with it (rust/src/control.rs, execute and             *)
(* execute_recovery), and the settings routes that do not take the gate.    *)
(*                                                                         *)
(* Time is counted in ticks of the wall clock.  A tick is longer than the   *)
(* device calls of one round (the code bounds them by 20 + 3 + 30 s), so    *)
(* none passes between a plan and its last device call.  The wall clock is  *)
(* stepped only by a datad clock transition, which the worker's clock lease *)
(* keeps out of a round (module ClockDomain).                               *)
(*                                                                         *)
(* Left out: `status`, `last_check` and the activity records, which only    *)
(* describe; the manual connectivity check, which touches no counter; and   *)
(* the probe targets.  A snapshot that is stale or not cellular, and the    *)
(* result of a probe, are choices of the environment.                       *)
(*                                                                         *)
(* Every action has a name, so that the history can speak of it: the list   *)
(* action_times, which the code only counts, filters and fills, maps the    *)
(* names of the actions in it to their times.                               *)
(***************************************************************************)
EXTENDS Integers, FiniteSets

CONSTANTS
    Threshold,       \* config.failure_threshold
    Cooldown,        \* config.cooldown_seconds
    MaxRedials,      \* config.max_redials
    Grace,           \* 120 s after startup and after any user change
    Hour,            \* the rolling window of the action budget (3600 s)
    HourlyLimit,     \* actions per window (5)
    RebootGap,       \* 21600 s between automatic reboots
    FirstValid,      \* 1_704_067_200, the earliest plausible wall clock
    StartWall,       \* wall clock of the first start
    MaxWall,         \* bound: the wall clock of a behaviour
    MaxUpsets        \* bound: restarts, clock steps, failed writes and user
                     \* requests of a behaviour, counted together

ASSUME NetworkRecoveryAssumption ==
    /\ {Cooldown, Grace, Hour, HourlyLimit, RebootGap} \subseteq Nat \ {0}
    /\ {Threshold, MaxRedials, FirstValid} \subseteq Nat \ {0}
    /\ {StartWall, MaxWall, MaxUpsets} \subseteq Nat
    /\ Grace <= Cooldown

VARIABLES
    wall,      \* activity::now()
    clock,     \* ClockDomain.generation of this process
    disk,      \* network-recovery.json
    rec,       \* the Recovery value behind the mutex
    gate,      \* NETWORK_GATE: "free", "user" or "worker"
    wpc,       \* where the worker is in its round
    round,     \* Recovery.generation read at the start of the round
    plan,      \* the Plan being executed
    errors,    \* bound: failed writes so far
    used,      \* bound: restarts, clock steps and user requests so far
    \* History of what happened in real time.
    recent,    \* the recovery actions of the last Hour, each with its age
    rebootAge, \* time since recovery last rebooted the device
    quiet,     \* time since the last start, user control or settings change
    userOff,   \* the user's last word was disconnect or poweroff, and the
               \* pause was written
    stepLost,  \* datad restarted after a clock step that no round had seen
    overruled  \* a user control was accepted after the plan was made

recovery == <<disk, rec, errors>>
worker == <<wpc, round, plan>>
kept == <<recent, rebootAge, quiet, userOff, stepLost>>
history == <<kept, overruled>>
vars == <<wall, clock, recovery, gate, worker, used, history>>

Least(a, b) == IF a < b THEN a ELSE b
Most(a, b) == IF a > b THEN a ELSE b

\* Vec<u64>, by the names of the actions in it.
Lists == UNION {[names -> Nat] : names \in SUBSET Nat}

\* struct Stored, of whose configuration the switches matter here.
Stored == [enabled : BOOLEAN, reboot_after : BOOLEAN, paused : BOOLEAN,
           redials : Nat, next_allowed : Nat, last_reboot : Nat,
           action_times : Lists]

\* A list with one more action, and the actions of a list that `Keep` keeps.
With(list, name, value) ==
    [n \in DOMAIN list \cup {name} |-> IF n = name THEN value ELSE list[n]]
Retained(list, Keep(_)) ==
    [n \in {m \in DOMAIN list : Keep(list[m])} |-> list[n]]
NewName(taken) == CHOOSE n \in 1..(Cardinality(taken) + 1) : n \notin taken

DefaultStored ==
    [enabled |-> FALSE, reboot_after |-> FALSE, paused |-> FALSE,
     redials |-> 0, next_allowed |-> 0, last_reboot |-> 0,
     action_times |-> << >>]

\* Recovery::load, at a wall clock of `now`.
Load(stored, now) ==
    [stored |-> stored, generation |-> 0, failures |-> 0, successes |-> 0,
     storage_ok |-> TRUE, startup_until |-> now + Grace,
     clock_generation |-> 0]

NoPlan == [generation |-> 0, reboot |-> FALSE, name |-> 0]

\* A first start, or one with the settings an earlier process saved.
Init ==
    /\ wall = StartWall
    /\ clock = 0
    /\ \E enabled, reboot_after \in BOOLEAN :
          disk = [DefaultStored EXCEPT !.enabled = enabled,
                                       !.reboot_after = reboot_after]
    /\ rec = Load(disk, StartWall)
    /\ gate = "free"
    /\ wpc = "sleeping"
    /\ round = 0
    /\ plan = NoPlan
    /\ errors = 0
    /\ used = 0
    /\ recent = << >>
    /\ rebootAge = RebootGap
    /\ quiet = 0
    /\ userOff = FALSE
    /\ stepLost = FALSE
    /\ overruled = FALSE

MayUpset == errors + used < MaxUpsets
Upset == MayUpset /\ used' = used + 1

\* Recovery::store.  A failed save leaves the old file and the old value and
\* turns storage_ok off.  `after` is the rest of the caller after a success,
\* `otherwise` the rest of it after a failure.
Store(next, after, otherwise) ==
    \/ /\ disk' = next
       /\ rec' = [after EXCEPT !.stored = next, !.storage_ok = TRUE]
       /\ UNCHANGED errors
    \/ /\ MayUpset
       /\ errors' = errors + 1
       /\ rec' = [otherwise EXCEPT !.storage_ok = FALSE]
       /\ UNCHANGED disk

(***************************************************************************)
(* The settings routes: Recovery::update and Recovery::resume.  They take  *)
(* the recovery mutex but not the gate.                                    *)
(***************************************************************************)

\* A change by the user: a new generation cancels the plans made before it.
Changed(r) == [r EXCEPT !.generation = @ + 1, !.failures = 0]

NotBefore(stored) == Most(stored.next_allowed, wall + Grace)

Update(enabled, reboot_after) ==
    /\ Upset
    /\ Store([rec.stored EXCEPT !.enabled = enabled,
                                !.reboot_after = reboot_after,
                                !.next_allowed = NotBefore(rec.stored)],
             Changed(rec), rec)
    /\ quiet' = IF errors' = errors THEN 0 ELSE quiet
    /\ UNCHANGED <<wall, clock, gate, worker, recent, rebootAge, userOff, stepLost, overruled>>

Resume ==
    /\ Upset
    /\ Store([rec.stored EXCEPT !.paused = FALSE,
                                !.redials = 0,
                                !.next_allowed = NotBefore(rec.stored)],
             Changed(rec), rec)
    /\ quiet' = IF errors' = errors THEN 0 ELSE quiet
    /\ userOff' = (userOff /\ errors' # errors)
    /\ UNCHANGED <<wall, clock, gate, worker, recent, rebootAge, stepLost, overruled>>

(***************************************************************************)
(* A network control of the user: control::execute takes the gate, records *)
(* the intent (Recovery::manual_intent) and runs the device call under it. *)
(***************************************************************************)

\* The pause that an intent leaves behind; "other" stands for the band, cell,
\* APN, mode, SIM and reboot controls.
PausedBy(action) ==
    CASE action \in {"disconnect", "poweroff"} -> TRUE
      [] action = "connect" -> FALSE
      [] action = "other" -> rec.stored.paused

IntentStored(action) ==
    [rec.stored EXCEPT !.paused = PausedBy(action),
                       !.next_allowed = NotBefore(rec.stored)]

\* No disk churn while recovery is off and the pause does not change.  When
\* the write fails, execute still cancels the plans in flight.
ManualIntent(action) ==
    IF PausedBy(action) # rec.stored.paused \/ rec.stored.enabled
    THEN Store(IntentStored(action), Changed(rec),
               [rec EXCEPT !.generation = @ + 1])
    ELSE rec' = Changed(rec) /\ UNCHANGED <<disk, errors>>

MutExecute(action) ==
    /\ Upset
    /\ ManualIntent(action)
    /\ quiet' = 0
    /\ userOff' = CASE action \in {"disconnect", "poweroff"} -> userOff \/ errors' = errors
                    [] action = "connect" -> FALSE
                    [] action = "other" -> userOff
    /\ overruled' = (wpc \notin {"sleeping", "probing"})
    /\ UNCHANGED <<wall, clock, gate, worker, recent, rebootAge, stepLost>>

Execute(action) ==
    /\ gate = "free"
    /\ Upset
    /\ gate' = "user"
    /\ ManualIntent(action)
    /\ quiet' = 0
    /\ userOff' = CASE action \in {"disconnect", "poweroff"} -> userOff \/ errors' = errors
                    [] action = "connect" -> FALSE
                    [] action = "other" -> userOff
    /\ overruled' = (wpc \notin {"sleeping", "probing"})
    /\ UNCHANGED <<wall, clock, worker, recent, rebootAge, stepLost>>

\* The device call answers, fails, or the request is dropped.
ExecuteDone ==
    /\ gate = "user"
    /\ gate' = "free"
    /\ UNCHANGED <<wall, clock, recovery, worker, used, history>>

(***************************************************************************)
(* A round of the worker.                                                  *)
(***************************************************************************)

\* The tail of Recovery::may_probe, after the clock generation was handled.
Probable(r) ==
    /\ r.stored.enabled /\ ~r.stored.paused /\ r.storage_ok
    /\ wall >= FirstValid
    /\ \A n \in DOMAIN r.stored.action_times : wall >= r.stored.action_times[n]
    /\ wall >= r.stored.last_reboot
    /\ wall >= r.startup_until

\* What may_probe makes of the budgets when the clock was corrected.
Rebased(stored) ==
    [stored EXCEPT !.action_times = [n \in DOMAIN @ |-> wall],
                   !.last_reboot = IF @ # 0 THEN wall ELSE 0,
                   !.next_allowed = wall + Cooldown]

\* The worker wakes up, takes a clock lease and calls may_probe.
StartRound ==
    /\ wpc = "sleeping"
    /\ IF rec.clock_generation # clock
       THEN Store(Rebased(rec.stored),
                  [Changed(rec) EXCEPT !.clock_generation = clock,
                                       !.startup_until = wall + Grace,
                                       !.successes = 0],
                  rec)
       ELSE UNCHANGED recovery
    /\ IF Probable(rec')
       THEN wpc' = "probing" /\ round' = rec'.generation
       ELSE UNCHANGED <<wpc, round>>
    /\ UNCHANGED <<wall, clock, gate, plan, used, history>>

\* The locals of the round go out of scope and its clock lease is dropped.
EndRound ==
    /\ wpc' = "sleeping"
    /\ round' = 0
    /\ plan' = NoPlan
    /\ overruled' = FALSE

\* The snapshot is stale or not cellular, before or after the probe.
Hold ==
    /\ wpc = "probing"
    /\ rec' = [rec EXCEPT !.failures = 0, !.successes = 0]
    /\ EndRound
    /\ UNCHANGED <<wall, clock, disk, errors, gate, used, kept>>

\* A user's change during the probe, or a lapsed permission, drops its result.
Discard ==
    /\ wpc = "probing"
    /\ rec.generation # round \/ ~Probable(rec)
    /\ EndRound
    /\ UNCHANGED <<wall, clock, recovery, gate, used, kept>>

CanObserve == wpc = "probing" /\ rec.generation = round /\ Probable(rec)

\* Recovery::observe(true).  Two successes in a row end the outage.
ObserveOnline ==
    /\ CanObserve
    /\ LET up == [rec EXCEPT !.failures = 0,
                             !.successes = Least(@ + 1, 2)]
       IN IF up.successes = 2 /\ rec.stored.redials > 0
          THEN Store([rec.stored EXCEPT !.redials = 0], up, up)
          ELSE rec' = up /\ UNCHANGED <<disk, errors>>
    /\ EndRound
    /\ UNCHANGED <<wall, clock, gate, used, kept>>

\* Recovery::observe(false), up to its early returns.
Down == [rec EXCEPT !.successes = 0, !.failures = Least(@ + 1, Threshold)]

StillSpent == Retained(rec.stored.action_times, LAMBDA at : wall - at < Hour)

WantsReboot == rec.stored.redials >= MaxRedials

MayReboot ==
    /\ rec.stored.reboot_after
    /\ rec.stored.last_reboot # 0 => wall - rec.stored.last_reboot >= RebootGap

MutMayAct ==
    /\ Down.failures >= Threshold
    /\ Cardinality(DOMAIN StillSpent) < HourlyLimit
    /\ WantsReboot => MayReboot

MayAct ==
    /\ Down.failures >= Threshold
    /\ wall >= rec.stored.next_allowed
    /\ Cardinality(DOMAIN StillSpent) < HourlyLimit
    /\ WantsReboot => MayReboot

ObserveOffline ==
    /\ CanObserve
    /\ ~MayAct
    /\ rec' = Down
    /\ EndRound
    /\ UNCHANGED <<wall, clock, disk, errors, gate, used, kept>>

PlanName == NewName(DOMAIN rec.stored.action_times \cup DOMAIN recent)

\* The budget is spent on disk before the plan exists.
MakePlan ==
    /\ CanObserve
    /\ MayAct
    /\ Store([rec.stored EXCEPT
                 !.action_times = With(StillSpent, PlanName, wall),
                 !.next_allowed = wall + Cooldown,
                 !.last_reboot = IF WantsReboot THEN wall ELSE @,
                 !.redials = IF WantsReboot THEN @ ELSE @ + 1],
             [Down EXCEPT !.failures = 0], Down)
    /\ IF errors' = errors
       THEN /\ plan' = [generation |-> rec.generation, reboot |-> WantsReboot,
                         name |-> PlanName]
            /\ wpc' = "planned"
            /\ UNCHANGED <<round, overruled>>
       ELSE EndRound
    /\ UNCHANGED <<wall, clock, gate, used, kept>>

\* Recovery::allows, under the gate in control::execute_recovery.
Allows ==
    /\ rec.storage_ok
    /\ rec.stored.enabled
    /\ ~rec.stored.paused
    /\ rec.generation = plan.generation

\* The first device call of a plan; a plan counts as one action.
BeginPlan ==
    /\ wpc = "planned"
    /\ gate = "free"
    /\ Allows
    /\ gate' = "worker"
    /\ wpc' = IF plan.reboot THEN "rebooting" ELSE "disconnecting"
    /\ recent' = With(recent, plan.name, 0)
    /\ rebootAge' = IF plan.reboot THEN 0 ELSE rebootAge
    /\ UNCHANGED <<wall, clock, recovery, round, plan, used, quiet, userOff, stepLost, overruled>>

\* Cancelled, or the timeout passes while the gate is taken.  A redial goes
\* on to its connect, which is checked again.
SkipPlan ==
    /\ wpc = "planned"
    /\ gate # "free" \/ ~Allows
    /\ IF plan.reboot
       THEN EndRound
       ELSE wpc' = "redialing" /\ UNCHANGED <<round, plan, overruled>>
    /\ UNCHANGED <<wall, clock, recovery, gate, used, kept>>

BeginConnect ==
    /\ wpc = "redialing"
    /\ gate = "free"
    /\ Allows
    /\ gate' = "worker"
    /\ wpc' = "connecting"
    /\ UNCHANGED <<wall, clock, recovery, round, plan, used, history>>

SkipConnect ==
    /\ wpc = "redialing"
    /\ gate # "free" \/ ~Allows
    /\ EndRound
    /\ UNCHANGED <<wall, clock, recovery, gate, used, kept>>

\* The device call answers, fails or times out, and the gate is released.
EndCall ==
    /\ wpc \in {"disconnecting", "connecting", "rebooting"}
    /\ gate' = "free"
    /\ IF wpc = "disconnecting"
       THEN wpc' = "redialing" /\ UNCHANGED <<round, plan, overruled>>
       ELSE EndRound
    /\ UNCHANGED <<wall, clock, recovery, used, kept>>

(***************************************************************************)
(* The environment.                                                        *)
(***************************************************************************)

Older(ages) == Retained([n \in DOMAIN ages |-> ages[n] + 1], LAMBDA age : age < Hour)

Tick ==
    /\ wpc \in {"sleeping", "probing"}
    /\ wall < MaxWall
    /\ wall' = wall + 1
    /\ recent' = Older(recent)
    /\ rebootAge' = Least(rebootAge + 1, RebootGap)
    /\ quiet' = Least(quiet + 1, Grace)
    /\ UNCHANGED <<clock, recovery, gate, worker, used, userOff, stepLost, overruled>>

\* A clock transition; the worker holds no lease while it sleeps.
CorrectClock(now) ==
    /\ wpc = "sleeping"
    /\ Upset
    /\ wall' = now
    /\ clock' = clock + 1
    /\ UNCHANGED <<recovery, gate, worker, history>>

\* The daemon, or the whole device, restarts at any point.
Restart ==
    /\ Upset
    /\ rec' = Load(disk, wall)
    /\ clock' = 0
    /\ gate' = "free"
    /\ EndRound
    /\ quiet' = 0
    /\ stepLost' = (stepLost \/ rec.clock_generation # clock)
    /\ UNCHANGED <<wall, disk, errors, recent, rebootAge, userOff>>

Actions == {"connect", "disconnect", "poweroff", "other"}

Next ==
    \/ \E enabled, reboot_after \in BOOLEAN : Update(enabled, reboot_after)
    \/ Resume
    \/ \E action \in Actions : Execute(action)
    \/ ExecuteDone
    \/ StartRound \/ Hold \/ Discard
    \/ ObserveOnline \/ ObserveOffline \/ MakePlan
    \/ BeginPlan \/ SkipPlan \/ BeginConnect \/ SkipConnect \/ EndCall
    \/ Tick
    \/ \E now \in 1..MaxWall : CorrectClock(now)
    \/ Restart

Spec == Init /\ [][Next]_vars

-----------------------------------------------------------------------------
WorkerStates == {"sleeping", "probing", "planned", "disconnecting",
                 "redialing", "connecting", "rebooting"}

\* Every variable keeps its type, and the loader's own limits (at most five
\* redials and five action times) are never exceeded by what is written, so a
\* restart never rejects its own file.
TypeOK ==
    /\ wall \in Nat /\ clock \in Nat
    /\ disk \in Stored /\ rec.stored \in Stored
    /\ disk.redials <= MaxRedials
    /\ Cardinality(DOMAIN disk.action_times) <= HourlyLimit
    /\ rec.generation \in Nat
    /\ rec.failures \in 0..Threshold
    /\ rec.successes \in 0..2
    /\ rec.storage_ok \in BOOLEAN
    /\ rec.startup_until \in Nat
    /\ rec.clock_generation \in Nat
    /\ gate \in {"free", "user", "worker"}
    /\ wpc \in WorkerStates
    /\ round \in Nat
    /\ plan \in [generation : Nat, reboot : BOOLEAN, name : Nat]
    /\ quiet \in 0..Grace
    /\ rebootAge \in 0..RebootGap
    /\ {userOff, stepLost, overruled} \subseteq BOOLEAN

DeviceCall == wpc \in {"disconnecting", "connecting", "rebooting"}

\* No device call of recovery runs after a network control of the user was
\* accepted: the control either waits for the call at the gate, or cancels
\* the plan (also when recording the intent failed).
NoStalePlan == DeviceCall => ~overruled

\* In any window of Hour of real time recovery acts at most HourlyLimit times,
\* whatever crashes, clock steps and failed writes come in between, except that
\* a clock step no round has seen before a restart is not recognised any more.
HourlyBudget == ~stepLost => Cardinality(DOMAIN recent) <= HourlyLimit

\* The same without the exception, as docs/CONTROL_API.md states it.
BudgetSurvivesRestarts == Cardinality(DOMAIN recent) <= HourlyLimit

\* Two automatic reboots are at least RebootGap of real time apart, with the
\* same exception.
RebootSpacing ==
    [][wpc = "planned" /\ wpc' = "rebooting" => rebootAge >= RebootGap \/ stepLost]_vars

\* Recovery makes no plan within Grace of real time of a start, of a settings
\* change or of a user's network control.
QuietBeforePlan ==
    [][wpc = "probing" /\ wpc' = "planned" => quiet >= Grace]_vars

\* After an explicit disconnect or poweroff whose pause could be written,
\* recovery makes no device call until an explicit connect or a resume, also
\* when later writes fail and datad restarts.
ManualPause == DeviceCall => ~userOff

\* Recovery never acts against a newer wish of the user: neither on a plan that
\* a control has overruled, nor while the user wants to be offline.
UserRules == NoStalePlan /\ ManualPause

\* Recovery keeps its limits in real time: the hourly budget, the gap between
\* reboots and the quiet time after a start or a control.
LimitsKept == []HourlyBudget /\ RebootSpacing /\ QuietBeforePlan
=============================================================================
