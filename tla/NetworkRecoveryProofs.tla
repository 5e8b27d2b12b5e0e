----------------------- MODULE NetworkRecoveryProofs -----------------------
(***************************************************************************)
(* The promises of automatic recovery, for every value of the constants: a *)
(* user's network control is never followed by a device call of an older   *)
(* plan; an explicit disconnect whose pause could be written is never      *)
(* undone by recovery, not even after failed writes and restarts; and the  *)
(* budgets that are stored as wall clock times hold in real time.  The     *)
(* last part is about TimeOwnership, which MCRecovery checks beside it:    *)
(* what datad changed it can give back, and nobody else's change is lost.  *)
(***************************************************************************)
EXTENDS MCRecovery, FiniteSetTheorems, TLAPS

\* A Recovery value has the fields the argument looks at.
RecoveryShape(r) ==
    {"stored", "generation", "storage_ok"} \subseteq DOMAIN r

\* What the argument needs to know of the variables' types.
Shape ==
    /\ RecoveryShape(rec)
    /\ rec.generation \in Nat
    /\ plan.generation \in Nat
    /\ errors \in Nat
    /\ wpc \in WorkerStates

NoRound == wpc \in {"sleeping", "probing"}

\* A device call of recovery holds the gate.
CallHoldsGate == DeviceCall => gate = "worker"

\* A plan that was overruled carries an older generation.
OverruledIsOlder ==
    ~NoRound => /\ plan.generation <= rec.generation
                /\ overruled => plan.generation # rec.generation

\* The inductive invariant for NoStalePlan.
PlanInv ==
    /\ Shape
    /\ CallHoldsGate
    /\ OverruledIsOlder
    /\ NoRound => ~overruled
    /\ NoStalePlan

\* The settings routes and the intents only ever raise the generation.
LEMMA StoreGeneration ==
    ASSUME NEW next, NEW after, NEW otherwise,
           RecoveryShape(after), RecoveryShape(otherwise),
           Store(next, after, otherwise), errors \in Nat
    PROVE  /\ RecoveryShape(rec)'
           /\ errors' \in Nat
           /\ \/ errors' = errors /\ rec'.generation = after.generation
                 /\ rec'.stored = next /\ disk' = next
              \/ errors' = errors + 1 /\ rec'.generation = otherwise.generation
                 /\ rec'.stored = otherwise.stored /\ disk' = disk
<1>1. CASE /\ disk' = next
           /\ rec' = [after EXCEPT !.stored = next, !.storage_ok = TRUE]
           /\ UNCHANGED errors
  <2>1. DOMAIN rec' = DOMAIN after
    BY <1>1
  <2>2. rec'.generation = after.generation /\ rec'.stored = next
    BY <1>1 DEF RecoveryShape
  <2> QED
    BY <1>1, <2>1, <2>2 DEF RecoveryShape
<1>2. CASE /\ MayUpset
           /\ errors' = errors + 1
           /\ rec' = [otherwise EXCEPT !.storage_ok = FALSE]
           /\ UNCHANGED disk
  <2>1. DOMAIN rec' = DOMAIN otherwise
    BY <1>2
  <2>2. rec'.generation = otherwise.generation /\ rec'.stored = otherwise.stored
    BY <1>2 DEF RecoveryShape
  <2> QED
    BY <1>2, <2>1, <2>2 DEF RecoveryShape
<1> QED
  BY <1>1, <1>2 DEF Store

\* PlanInv holds initially.
LEMMA InitPlanInv == Init => PlanInv
<1> SUFFICES ASSUME Init PROVE PlanInv
  OBVIOUS
<1> QED
  BY DEF Init, PlanInv, Shape, RecoveryShape, Load, NoPlan, CallHoldsGate,
         DeviceCall, OverruledIsOlder, NoRound, NoStalePlan, WorkerStates

\* The steps of the user keep PlanInv.
LEMMA UserPlanInv ==
    ASSUME PlanInv,
           \/ \E enabled, reboot_after \in BOOLEAN : Update(enabled, reboot_after)
           \/ Resume
           \/ \E action \in Actions : Execute(action)
           \/ ExecuteDone
    PROVE  PlanInv'
<1> USE DEF PlanInv
<1>0. /\ RecoveryShape(Changed(rec))
      /\ Changed(rec).generation = rec.generation + 1
      /\ RecoveryShape([rec EXCEPT !.generation = @ + 1])
      /\ [rec EXCEPT !.generation = @ + 1].generation = rec.generation + 1
  BY DEF Shape, RecoveryShape, Changed
<1>1. ASSUME NEW enabled \in BOOLEAN, NEW reboot_after \in BOOLEAN,
             Update(enabled, reboot_after)
      PROVE  PlanInv'
  <2>0. PICK next : Store(next, Changed(rec), rec)
    BY <1>1 DEF Update
  <2>1. /\ RecoveryShape(rec)'
        /\ errors' \in Nat
        /\ rec'.generation \in {rec.generation, rec.generation + 1}
    BY <1>0, <2>0, StoreGeneration DEF Shape
  <2>2. UNCHANGED <<gate, wpc, plan, overruled>>
    BY <1>1 DEF Update, worker
  <2>3. rec.generation \in Nat /\ rec'.generation \in Nat
    BY <2>1 DEF Shape
  <2>4. Shape'
    BY <2>1, <2>2, <2>3 DEF Shape
  <2> QED
    BY <2>1, <2>2, <2>3, <2>4
       DEF CallHoldsGate, DeviceCall, OverruledIsOlder, NoRound, NoStalePlan, Shape
<1>2. CASE Resume
  <2>0. PICK next : Store(next, Changed(rec), rec)
    BY <1>2 DEF Resume
  <2>1. /\ RecoveryShape(rec)'
        /\ errors' \in Nat
        /\ rec'.generation \in {rec.generation, rec.generation + 1}
    BY <1>0, <2>0, StoreGeneration DEF Shape
  <2>2. UNCHANGED <<gate, wpc, plan, overruled>>
    BY <1>2 DEF Resume, worker
  <2>3. rec.generation \in Nat /\ rec'.generation \in Nat
    BY <2>1 DEF Shape
  <2>4. Shape'
    BY <2>1, <2>2, <2>3 DEF Shape
  <2> QED
    BY <2>1, <2>2, <2>3, <2>4
       DEF CallHoldsGate, DeviceCall, OverruledIsOlder, NoRound, NoStalePlan, Shape
<1>3. ASSUME NEW action \in Actions, Execute(action)
      PROVE  PlanInv'
  <2>1. /\ RecoveryShape(rec)'
        /\ errors' \in Nat
        /\ rec'.generation = rec.generation + 1
    <3> DEFINE bumped == [rec EXCEPT !.generation = @ + 1]
    <3>1. CASE PausedBy(action) # rec.stored.paused \/ rec.stored.enabled
      <4>1. Store(IntentStored(action), Changed(rec), bumped)
        BY <1>3, <3>1 DEF Execute, ManualIntent
      <4>2. RecoveryShape(bumped) /\ bumped.generation = rec.generation + 1
        BY <1>0
      <4> HIDE DEF bumped
      <4> QED
        BY <1>0, <4>1, <4>2, StoreGeneration DEF Shape
    <3>2. CASE ~(PausedBy(action) # rec.stored.paused \/ rec.stored.enabled)
      BY <1>0, <1>3, <3>2 DEF Execute, ManualIntent, Shape
    <3> QED
      BY <3>1, <3>2
  <2>2. UNCHANGED <<wpc, plan>> /\ gate = "free" /\ ~DeviceCall
    BY <1>3 DEF Execute, worker, CallHoldsGate
  <2>3. overruled' = ~NoRound
    BY <1>3 DEF Execute, NoRound
  <2>4. Shape'
    BY <2>1, <2>2 DEF Shape
  <2>5. OverruledIsOlder'
    BY <2>1, <2>2 DEF OverruledIsOlder, NoRound, Shape
  <2> QED
    BY <2>2, <2>3, <2>4, <2>5 DEF CallHoldsGate, DeviceCall, NoRound, NoStalePlan
<1>4. CASE ExecuteDone
  <2>1. UNCHANGED <<rec, errors, wpc, plan, overruled>> /\ ~DeviceCall
    BY <1>4 DEF ExecuteDone, recovery, worker, history, CallHoldsGate
  <2> QED
    BY <2>1 DEF Shape, CallHoldsGate, DeviceCall, OverruledIsOlder, NoRound, NoStalePlan
<1> QED
  BY <1>1, <1>2, <1>3, <1>4

\* A round that ends leaves no plan behind.
LEMMA EndRoundPlanInv ==
    ASSUME EndRound, RecoveryShape(rec)', rec'.generation \in Nat, errors' \in Nat
    PROVE  PlanInv'
<1> QED
  BY DEF EndRound, NoPlan, PlanInv, Shape, CallHoldsGate, DeviceCall,
         OverruledIsOlder, NoRound, NoStalePlan, WorkerStates

\* The steps of the worker before it has a plan keep PlanInv.
LEMMA ProbePlanInv ==
    ASSUME PlanInv, StartRound \/ Hold \/ Discard \/ ObserveOnline
                    \/ ObserveOffline \/ MakePlan
    PROVE  PlanInv'
<1> USE DEF PlanInv
<1>1. CASE StartRound
  <2> DEFINE fresh == [Changed(rec) EXCEPT !.clock_generation = clock,
                                           !.startup_until = wall + Grace,
                                           !.successes = 0]
  <2>1. RecoveryShape(fresh) /\ fresh.generation = rec.generation + 1
    BY DEF Changed, Shape, RecoveryShape
  <2>2. /\ RecoveryShape(rec)'
        /\ rec'.generation \in Nat
        /\ errors' \in Nat
    <3>1. CASE rec.clock_generation # clock
      <4> HIDE DEF fresh
      <4>1. Store(Rebased(rec.stored), fresh, rec)
        BY <1>1, <3>1 DEF StartRound, fresh
      <4> QED
        BY <2>1, <4>1, StoreGeneration DEF Shape
    <3>2. CASE rec.clock_generation = clock
      BY <1>1, <3>2 DEF StartRound, recovery, Shape, RecoveryShape
    <3> QED
      BY <3>1, <3>2
  <2>3. /\ wpc \in {"sleeping"} /\ wpc' \in {"sleeping", "probing"}
        /\ UNCHANGED <<gate, plan, overruled>>
    BY <1>1 DEF StartRound, history
  <2> QED
    BY <2>2, <2>3 DEF Shape, CallHoldsGate, DeviceCall, OverruledIsOlder,
                      NoRound, NoStalePlan, WorkerStates
<1>2. CASE Hold
  BY <1>2, EndRoundPlanInv DEF Hold, Shape, RecoveryShape
<1>3. CASE Discard
  BY <1>3, EndRoundPlanInv DEF Discard, recovery, Shape, RecoveryShape
<1>4. CASE ObserveOnline
  <2> DEFINE up == [rec EXCEPT !.failures = 0, !.successes = Least(@ + 1, 2)]
  <2>1. RecoveryShape(up) /\ up.generation = rec.generation
    BY DEF Shape, RecoveryShape
  <2>2. \/ Store([rec.stored EXCEPT !.redials = 0], up, up)
        \/ rec' = up /\ UNCHANGED <<disk, errors>>
    BY <1>4 DEF ObserveOnline
  <2> HIDE DEF up
  <2>3. RecoveryShape(rec)' /\ rec'.generation \in Nat /\ errors' \in Nat
    BY <2>1, <2>2, StoreGeneration DEF Shape
  <2> QED
    BY <1>4, <2>3, EndRoundPlanInv DEF ObserveOnline
<1>5. CASE ObserveOffline
  BY <1>5, EndRoundPlanInv DEF ObserveOffline, Down, Shape, RecoveryShape
<1>6. CASE MakePlan
  <2> DEFINE acted == [Down EXCEPT !.failures = 0]
  <2>1. /\ RecoveryShape(Down) /\ Down.generation = rec.generation
        /\ RecoveryShape(acted) /\ acted.generation = rec.generation
    BY DEF Down, Shape, RecoveryShape
  <2>2. PICK next : Store(next, acted, Down)
    BY <1>6 DEF MakePlan
  <2> HIDE DEF acted
  <2>3. RecoveryShape(rec)' /\ rec'.generation = rec.generation /\ errors' \in Nat
    BY <2>1, <2>2, StoreGeneration DEF Shape
  <2>4. CASE errors' = errors
    <3>1. /\ plan'.generation = rec.generation
          /\ wpc' = "planned" /\ ~overruled /\ ~overruled'
      BY <1>6, <2>4 DEF MakePlan, CanObserve, NoRound
    <3> QED
      BY <2>3, <3>1 DEF Shape, CallHoldsGate, DeviceCall, OverruledIsOlder,
                        NoRound, NoStalePlan, WorkerStates
  <2>5. CASE errors' # errors
    BY <1>6, <2>3, <2>5, EndRoundPlanInv DEF MakePlan, Shape
  <2> QED
    BY <2>4, <2>5
<1> QED
  BY <1>1, <1>2, <1>3, <1>4, <1>5, <1>6

\* The steps of the worker that carry out a plan keep PlanInv.
LEMMA CallPlanInv ==
    ASSUME PlanInv, BeginPlan \/ SkipPlan \/ BeginConnect \/ SkipConnect \/ EndCall
    PROVE  PlanInv'
<1> USE DEF PlanInv
<1>1. ASSUME EndRound, UNCHANGED recovery PROVE PlanInv'
  BY <1>1, EndRoundPlanInv DEF recovery, Shape, RecoveryShape
<1>2. CASE BeginPlan
  <2>1. /\ UNCHANGED <<rec, errors, plan, overruled>>
        /\ gate' = "worker" /\ wpc = "planned"
        /\ wpc' \in {"rebooting", "disconnecting"}
        /\ rec.generation = plan.generation
    BY <1>2 DEF BeginPlan, recovery, Allows
  <2> QED
    BY <2>1 DEF Shape, CallHoldsGate, DeviceCall, OverruledIsOlder,
                NoRound, NoStalePlan, WorkerStates
<1>3. CASE BeginConnect
  <2>1. /\ UNCHANGED <<rec, errors, plan, overruled>>
        /\ gate' = "worker" /\ wpc = "redialing" /\ wpc' = "connecting"
        /\ rec.generation = plan.generation
    BY <1>3 DEF BeginConnect, recovery, Allows, history
  <2> QED
    BY <2>1 DEF Shape, CallHoldsGate, DeviceCall, OverruledIsOlder,
                NoRound, NoStalePlan, WorkerStates
<1>4. ASSUME wpc \in {"planned", "disconnecting"}, wpc' = "redialing",
             UNCHANGED <<recovery, plan, overruled>>
      PROVE  PlanInv'
  BY <1>4 DEF recovery, Shape, CallHoldsGate, DeviceCall, OverruledIsOlder,
              NoRound, NoStalePlan, WorkerStates
<1>5. CASE SkipPlan
  BY <1>1, <1>4, <1>5 DEF SkipPlan
<1>6. CASE SkipConnect
  BY <1>1, <1>6 DEF SkipConnect
<1>7. CASE EndCall
  BY <1>1, <1>4, <1>7 DEF EndCall
<1> QED
  BY <1>2, <1>3, <1>5, <1>6, <1>7

\* The steps of the environment keep PlanInv.
LEMMA EnvironmentPlanInv ==
    ASSUME PlanInv, Tick \/ Restart \/ \E now \in 1..MaxWall : CorrectClock(now)
    PROVE  PlanInv'
<1> USE DEF PlanInv
<1>1. CASE Tick
  BY <1>1 DEF Tick, recovery, worker, Shape, CallHoldsGate, DeviceCall,
              OverruledIsOlder, NoRound, NoStalePlan
<1>2. CASE Restart
  <2>1. RecoveryShape(rec)' /\ rec'.generation \in Nat /\ errors' \in Nat
    BY <1>2 DEF Restart, Load, Shape, RecoveryShape
  <2> QED
    BY <1>2, <2>1, EndRoundPlanInv DEF Restart
<1>3. CASE \E now \in 1..MaxWall : CorrectClock(now)
  BY <1>3 DEF CorrectClock, recovery, worker, history, Shape, CallHoldsGate,
              DeviceCall, OverruledIsOlder, NoRound, NoStalePlan
<1> QED
  BY <1>1, <1>2, <1>3

\* PlanInv holds in every reachable state.
THEOREM PlanInductive == Spec => []PlanInv
<1>1. Init => PlanInv
  BY InitPlanInv
<1>2. PlanInv /\ [Next]_vars => PlanInv'
  <2> SUFFICES ASSUME PlanInv, [Next]_vars PROVE PlanInv'
    OBVIOUS
  <2>1. CASE UNCHANGED vars
    BY <2>1 DEF vars, recovery, worker, history, PlanInv, Shape, CallHoldsGate,
                DeviceCall, OverruledIsOlder, NoRound, NoStalePlan
  <2>2. CASE Next
    BY <2>2, UserPlanInv, ProbePlanInv, CallPlanInv, EnvironmentPlanInv DEF Next
  <2> QED
    BY <2>1, <2>2
<1> QED
  BY <1>1, <1>2, PTL DEF Spec

\* A user's network control is never followed by a device call of a plan that
\* was made before it, whatever writes fail and whenever the daemon restarts.
THEOREM NoStalePlanHolds == Spec => []NoStalePlan
<1>1. PlanInv => NoStalePlan
  BY DEF PlanInv
<1> QED
  BY <1>1, PlanInductive, PTL

-----------------------------------------------------------------------------
\* The pause of an explicit disconnect is in memory and on disk.
PauseStored ==
    /\ "paused" \in DOMAIN disk
    /\ rec.stored = disk
    /\ userOff => disk.paused

PauseInv == PlanInv /\ PauseStored /\ ManualPause

\* A write either reaches memory and disk alike or leaves both alone.
LEMMA StoreKeepsStep ==
    ASSUME errors \in Nat,
           NEW next, NEW after, NEW otherwise,
           RecoveryShape(after), RecoveryShape(otherwise),
           otherwise.stored = rec.stored,
           Store(next, after, otherwise)
    PROVE  \/ rec'.stored = next /\ disk' = next /\ errors' = errors
           \/ rec'.stored = rec.stored /\ disk' = disk /\ errors' # errors
<1> QED
  BY StoreGeneration

\* The steps of the user keep the pause.
LEMMA UserPauseInv ==
    ASSUME PauseInv,
           \/ \E enabled, reboot_after \in BOOLEAN : Update(enabled, reboot_after)
           \/ Resume
           \/ \E action \in Actions : Execute(action)
           \/ ExecuteDone
    PROVE  PauseStored' /\ ManualPause'
<1> USE DEF PauseInv
<1>0. /\ RecoveryShape(rec) /\ errors \in Nat
      /\ RecoveryShape(Changed(rec)) /\ Changed(rec).stored = rec.stored
  BY DEF PlanInv, Shape, RecoveryShape, Changed
<1>1. ASSUME NEW enabled \in BOOLEAN, NEW reboot_after \in BOOLEAN,
             Update(enabled, reboot_after)
      PROVE  PauseStored' /\ ManualPause'
  <2> DEFINE next == [rec.stored EXCEPT !.enabled = enabled,
                                        !.reboot_after = reboot_after,
                                        !.next_allowed = NotBefore(rec.stored)]
  <2>1. "paused" \in DOMAIN next /\ next.paused = disk.paused
    BY DEF PauseStored
  <2>2. Store(next, Changed(rec), rec) /\ UNCHANGED <<wpc, userOff>>
    BY <1>1 DEF Update, worker
  <2> HIDE DEF next
  <2>3. \/ rec'.stored = next /\ disk' = next
        \/ rec'.stored = rec.stored /\ disk' = disk
    BY <1>0, <2>2, StoreKeepsStep
  <2> QED
    BY <2>1, <2>2, <2>3 DEF PauseStored, ManualPause, DeviceCall
<1>2. CASE Resume
  <2> DEFINE next == [rec.stored EXCEPT !.paused = FALSE,
                                        !.redials = 0,
                                        !.next_allowed = NotBefore(rec.stored)]
  <2>1. "paused" \in DOMAIN next
    BY DEF PauseStored
  <2>2. Store(next, Changed(rec), rec) /\ UNCHANGED wpc
    BY <1>2 DEF Resume, worker
  <2> HIDE DEF next
  <2>3. CASE rec'.stored = next /\ disk' = next /\ errors' = errors
    <3>1. ~userOff'
      BY <1>2, <2>3 DEF Resume
    <3> QED
      BY <2>1, <2>3, <3>1 DEF PauseStored, ManualPause
  <2>4. CASE rec'.stored = rec.stored /\ disk' = disk /\ errors' # errors
    <3>1. userOff' => userOff
      BY <1>2 DEF Resume
    <3> QED
      BY <2>2, <2>4, <3>1 DEF PauseStored, ManualPause, DeviceCall
  <2> QED
    BY <1>0, <2>2, <2>3, <2>4, StoreKeepsStep
<1>3. ASSUME NEW action \in Actions, Execute(action)
      PROVE  PauseStored' /\ ManualPause'
  <2>1. ~DeviceCall /\ wpc' = wpc
    BY <1>3 DEF Execute, worker, PlanInv, CallHoldsGate
  <2>2. userOff' => PausedBy(action)
    <3>1. CASE action \in {"disconnect", "poweroff"}
      BY <3>1 DEF PausedBy
    <3>2. CASE action = "connect"
      BY <1>3, <3>2 DEF Execute
    <3>3. CASE action = "other"
      BY <1>3, <3>3 DEF Execute, PausedBy, PauseStored
    <3> QED
      BY <3>1, <3>2, <3>3 DEF Actions
  <2>3. CASE PausedBy(action) # rec.stored.paused \/ rec.stored.enabled
    <3> DEFINE bumped == [rec EXCEPT !.generation = @ + 1]
    <3>1. Store(IntentStored(action), Changed(rec), bumped)
      BY <1>3, <2>3 DEF Execute, ManualIntent
    <3>2. RecoveryShape(bumped) /\ bumped.stored = rec.stored
      BY <1>0 DEF RecoveryShape
    <3> HIDE DEF bumped
    <3>3. /\ "paused" \in DOMAIN IntentStored(action)
          /\ IntentStored(action).paused = PausedBy(action)
      BY DEF IntentStored, PauseStored
    <3>4. CASE rec'.stored = IntentStored(action) /\ disk' = IntentStored(action)
      BY <2>1, <2>2, <3>3, <3>4 DEF PauseStored, ManualPause, DeviceCall
    <3>5. CASE rec'.stored = rec.stored /\ disk' = disk /\ errors' # errors
      <4>1. userOff' => userOff
        BY <1>3, <3>5 DEF Execute, Actions
      <4> QED
        BY <2>1, <3>5, <4>1 DEF PauseStored, ManualPause, DeviceCall
    <3> QED
      BY <1>0, <3>1, <3>2, <3>4, <3>5, StoreKeepsStep
  <2>4. CASE ~(PausedBy(action) # rec.stored.paused \/ rec.stored.enabled)
    <3>1. rec' = Changed(rec) /\ disk' = disk
      BY <1>3, <2>4 DEF Execute, ManualIntent
    <3>2. rec'.stored = rec.stored
      BY <1>0, <3>1
    <3>3. userOff' => disk'.paused
      BY <2>2, <2>4, <3>1 DEF PauseStored
    <3> QED
      BY <2>1, <3>1, <3>2, <3>3 DEF PauseStored, ManualPause, DeviceCall
  <2> QED
    BY <2>3, <2>4
<1>4. CASE ExecuteDone
  BY <1>4 DEF ExecuteDone, recovery, worker, history, kept, PauseStored,
              ManualPause, DeviceCall
<1> QED
  BY <1>1, <1>2, <1>3, <1>4

\* The steps of the worker before it has a plan keep the pause.
LEMMA ProbePauseInv ==
    ASSUME PauseInv,
           StartRound \/ Hold \/ Discard \/ ObserveOnline
           \/ ObserveOffline \/ MakePlan
    PROVE  PauseStored' /\ ManualPause'
<1> USE DEF PauseInv
<1>0. RecoveryShape(rec) /\ errors \in Nat
  BY DEF PlanInv, Shape
<1>1. userOff' = userOff
  BY DEF StartRound, Hold, Discard, ObserveOnline, ObserveOffline, MakePlan,
         history, kept
<1>2. ~DeviceCall'
  BY DEF StartRound, Hold, Discard, ObserveOnline, ObserveOffline, MakePlan,
         CanObserve, EndRound, DeviceCall
<1>3. ASSUME NEW next, NEW after, NEW otherwise,
             RecoveryShape(after), RecoveryShape(otherwise),
             otherwise.stored = rec.stored,
             Store(next, after, otherwise),
             "paused" \in DOMAIN next, next.paused = disk.paused
      PROVE  PauseStored'
  <2>1. \/ rec'.stored = next /\ disk' = next
        \/ rec'.stored = rec.stored /\ disk' = disk
    BY <1>0, <1>3, StoreKeepsStep
  <2> QED
    BY <1>1, <1>3, <2>1 DEF PauseStored
<1>4. ASSUME rec'.stored = rec.stored, disk' = disk PROVE PauseStored'
  BY <1>1, <1>4 DEF PauseStored
<1>5. CASE StartRound
  <2> DEFINE fresh == [Changed(rec) EXCEPT !.clock_generation = clock,
                                           !.startup_until = wall + Grace,
                                           !.successes = 0]
  <2>1. RecoveryShape(fresh)
    BY <1>0 DEF Changed, RecoveryShape
  <2>2. /\ "paused" \in DOMAIN Rebased(rec.stored)
        /\ Rebased(rec.stored).paused = disk.paused
    BY DEF Rebased, PauseStored
  <2>3. CASE rec.clock_generation # clock
    <3>1. Store(Rebased(rec.stored), fresh, rec)
      BY <1>5, <2>3 DEF StartRound
    <3> HIDE DEF fresh
    <3>2. PauseStored'
      BY <1>0, <1>3, <2>1, <2>2, <3>1
    <3> QED
      BY <1>2, <3>2 DEF ManualPause
  <2>4. CASE rec.clock_generation = clock
    BY <1>2, <1>4, <1>5, <2>4 DEF StartRound, recovery, ManualPause
  <2> QED
    BY <2>3, <2>4
<1>6. CASE Hold
  <2>1. rec'.stored = rec.stored /\ disk' = disk
    BY <1>0, <1>6 DEF Hold, RecoveryShape
  <2> QED
    BY <1>2, <1>4, <2>1 DEF ManualPause
<1>7. CASE Discard
  BY <1>2, <1>4, <1>7 DEF Discard, recovery, ManualPause
<1>8. CASE ObserveOnline
  <2> DEFINE up == [rec EXCEPT !.failures = 0, !.successes = Least(@ + 1, 2)]
             next == [rec.stored EXCEPT !.redials = 0]
  <2>1. RecoveryShape(up) /\ up.stored = rec.stored
    BY <1>0 DEF RecoveryShape
  <2>2. "paused" \in DOMAIN next /\ next.paused = disk.paused
    BY DEF PauseStored
  <2>3. Store(next, up, up) \/ (rec' = up /\ disk' = disk)
    BY <1>8 DEF ObserveOnline
  <2> HIDE DEF up, next
  <2>4. PauseStored'
    BY <1>3, <1>4, <2>1, <2>2, <2>3
  <2> QED
    BY <1>2, <2>4 DEF ManualPause
<1>9. CASE ObserveOffline
  <2>1. rec'.stored = rec.stored /\ disk' = disk
    BY <1>0, <1>9 DEF ObserveOffline, Down, RecoveryShape
  <2> QED
    BY <1>2, <1>4, <2>1 DEF ManualPause
<1>10. CASE MakePlan
  <2> DEFINE acted == [Down EXCEPT !.failures = 0]
             next == [rec.stored EXCEPT
                        !.action_times = With(StillSpent, PlanName, wall),
                        !.next_allowed = wall + Cooldown,
                        !.last_reboot = IF WantsReboot THEN wall ELSE @,
                        !.redials = IF WantsReboot THEN @ ELSE @ + 1]
  <2>1. RecoveryShape(Down) /\ RecoveryShape(acted) /\ Down.stored = rec.stored
    BY <1>0 DEF Down, RecoveryShape
  <2>2. "paused" \in DOMAIN next /\ next.paused = disk.paused
    BY DEF PauseStored
  <2>3. Store(next, acted, Down)
    BY <1>10 DEF MakePlan
  <2> HIDE DEF acted, next
  <2>4. PauseStored'
    BY <1>3, <2>1, <2>2, <2>3
  <2> QED
    BY <1>2, <2>4 DEF ManualPause
<1> QED
  BY <1>5, <1>6, <1>7, <1>8, <1>9, <1>10

\* Device calls, time, clock corrections and restarts keep the pause.
LEMMA CallPauseInv ==
    ASSUME PauseInv,
           \/ BeginPlan \/ SkipPlan \/ BeginConnect \/ SkipConnect \/ EndCall
           \/ Tick \/ Restart \/ \E now \in 1..MaxWall : CorrectClock(now)
    PROVE  PauseStored' /\ ManualPause'
<1> USE DEF PauseInv
<1>1. userOff' = userOff /\ disk' = disk
  BY DEF BeginPlan, SkipPlan, BeginConnect, SkipConnect, EndCall, Tick, Restart,
         CorrectClock, recovery, history, kept
<1>2. PauseStored'
  <2>1. CASE rec' = rec
    BY <1>1, <2>1 DEF PauseStored
  <2>2. CASE Restart
    BY <1>1, <2>2 DEF Restart, Load, PauseStored
  <2> QED
    BY <2>1, <2>2 DEF BeginPlan, SkipPlan, BeginConnect, SkipConnect, EndCall,
                      Tick, CorrectClock, recovery
<1>3. ManualPause'
  <2>1. CASE BeginPlan \/ BeginConnect
    BY <1>1, <2>1 DEF BeginPlan, BeginConnect, Allows, PauseStored, ManualPause
  <2>2. CASE Tick \/ \E now \in 1..MaxWall : CorrectClock(now)
    BY <1>1, <2>2 DEF Tick, CorrectClock, worker, ManualPause, DeviceCall
  <2>3. CASE SkipPlan \/ SkipConnect \/ EndCall \/ Restart
    <3>1. wpc' \in {"sleeping", "redialing"}
      BY <2>3 DEF SkipPlan, SkipConnect, EndCall, Restart, EndRound
    <3> QED
      BY <3>1 DEF ManualPause, DeviceCall
  <2> QED
    BY <2>1, <2>2, <2>3
<1> QED
  BY <1>2, <1>3

\* Once the pause of an explicit disconnect or poweroff is written, recovery
\* makes no device call before the next connect or resume (manual_intent,
\* allows), whatever writes fail afterwards and whenever datad restarts.
THEOREM ManualPauseHolds == Spec => []ManualPause
<1>1. Init => PauseInv
  <2> SUFFICES ASSUME Init PROVE PauseInv
    OBVIOUS
  <2>1. PlanInv
    BY InitPlanInv
  <2>2. PauseStored
    BY DEF Init, DefaultStored, Load, PauseStored
  <2>3. ManualPause
    BY DEF Init, ManualPause
  <2> QED
    BY <2>1, <2>2, <2>3 DEF PauseInv
<1>2. PauseInv /\ [Next]_vars => PauseInv'
  <2> SUFFICES ASSUME PauseInv, [Next]_vars PROVE PauseInv'
    OBVIOUS
  <2>1. CASE UNCHANGED vars
    BY <2>1 DEF vars, recovery, worker, history, kept, PauseInv, PauseStored,
                ManualPause, PlanInv, Shape, CallHoldsGate, DeviceCall,
                OverruledIsOlder, NoRound, NoStalePlan
  <2>2. CASE Next
    <3>1. PlanInv'
      BY <2>2, UserPlanInv, ProbePlanInv, CallPlanInv, EnvironmentPlanInv
         DEF Next, PauseInv
    <3>2. PauseStored' /\ ManualPause'
      BY <2>2, UserPauseInv, ProbePauseInv, CallPauseInv DEF Next
    <3> QED
      BY <3>1, <3>2 DEF PauseInv
  <2> QED
    BY <2>1, <2>2
<1>3. PauseInv => ManualPause
  BY DEF PauseInv
<1> QED
  BY <1>1, <1>2, <1>3, PTL DEF Spec

\* Recovery never acts against a newer wish of the user (execute_recovery and
\* its checks under NETWORK_GATE), for all thresholds, restarts, clock steps
\* and failed writes.
THEOREM UserRulesHold == Spec => []UserRules
<1>1. NoStalePlan /\ ManualPause => UserRules
  BY DEF UserRules
<1> QED
  BY <1>1, NoStalePlanHolds, ManualPauseHolds, PTL

-----------------------------------------------------------------------------
(* The limits in real time.  The ages that the environment counts and the  *)
(* wall clock times that are stored agree while no clock step is pending;  *)
(* may_probe rebases the times when one is, and a round begins only then.  *)

StoredTimed(stored) ==
    /\ {"enabled", "reboot_after", "paused", "redials", "next_allowed", "last_reboot",
        "action_times"} \subseteq DOMAIN stored
    /\ stored.next_allowed \in Nat /\ stored.last_reboot \in Nat

Timed(r) ==
    /\ {"stored", "generation", "failures", "successes", "storage_ok", "startup_until",
        "clock_generation"} \subseteq DOMAIN r
    /\ r.startup_until \in Nat /\ r.clock_generation \in Nat
    /\ StoredTimed(r.stored)

StepPending == rec.clock_generation # clock

TimeTypes ==
    /\ wall \in Nat /\ clock \in Nat /\ errors \in Nat
    /\ quiet \in Nat /\ rebootAge \in Nat
    /\ Timed(rec) /\ rec.stored = disk
    /\ wpc \in WorkerStates

\* A round runs under a clock that may_probe has seen.
RoundKnowsClock ==
    /\ rec.clock_generation <= clock
    /\ wpc # "sleeping" => ~StepPending
    /\ StepPending => wall >= 1

\* What keeps a plan from being made in the quiet time.
QuietKept ==
    ~StepPending => \/ quiet >= Grace
                    \/ ~rec.storage_ok \/ ~rec.stored.enabled
                    \/ rec.startup_until + quiet >= wall + Grace
                    \/ rec.stored.next_allowed + quiet >= wall + Grace

\* The last reboot is stored, not longer ago than it was.
RebootStored ==
    ~stepLost /\ rebootAge < RebootGap =>
        /\ rec.stored.last_reboot # 0
        /\ ~StepPending => rec.stored.last_reboot + rebootAge >= wall

\* The plan of a reboot was made at this time, and the gap had passed.
RebootPlanned ==
    wpc = "planned" /\ plan.reboot =>
        /\ rec.stored.last_reboot # 0 /\ rec.stored.last_reboot >= wall
        /\ stepLost \/ rebootAge >= RebootGap

\* The stored list is a list that the loader accepts.
ListOK(list) ==
    /\ IsFiniteSet(DOMAIN list) /\ Cardinality(DOMAIN list) <= HourlyLimit
    /\ \A n \in DOMAIN list : list[n] \in Nat

\* Every action of the last hour is in the stored list, not longer ago than it
\* was; an action that is planned is there too.
BudgetStored ==
    /\ ListOK(rec.stored.action_times)
    /\ \A n \in DOMAIN recent : recent[n] \in Nat /\ recent[n] < Hour
    /\ ~stepLost =>
           \A n \in DOMAIN recent :
               /\ n \in DOMAIN rec.stored.action_times
               /\ ~StepPending => rec.stored.action_times[n] + recent[n] >= wall
    /\ wpc = "planned" => /\ plan.name \in DOMAIN rec.stored.action_times
                          /\ rec.stored.action_times[plan.name] >= wall

TimeInv ==
    /\ TimeTypes /\ RoundKnowsClock
    /\ QuietKept /\ RebootStored /\ RebootPlanned /\ BudgetStored

\* The budget of an unchanged list and an unchanged history.
LEMMA ListKept ==
    ASSUME BudgetStored, UNCHANGED <<wall, recent, stepLost>>,
           rec'.stored.action_times = rec.stored.action_times,
           StepPending' = StepPending,
           wpc' = "planned" => wpc = "planned" /\ plan' = plan
    PROVE  BudgetStored'
BY DEF BudgetStored, ListOK
\* What a write leaves of the times, after a success and after a failure.
LEMMA StoreTimes ==
    ASSUME NEW next, NEW after, NEW otherwise, StoredTimed(next),
           Timed(after), Timed(otherwise),
           Store(next, after, otherwise), errors \in Nat
    PROVE  /\ errors' \in Nat
           /\ Timed(rec)'
           /\ \/ /\ errors' = errors /\ disk' = next /\ rec'.stored = next
                 /\ rec'.startup_until = after.startup_until
                 /\ rec'.clock_generation = after.clock_generation
              \/ /\ errors' # errors /\ disk' = disk /\ rec'.stored = otherwise.stored
                 /\ ~rec'.storage_ok
                 /\ rec'.startup_until = otherwise.startup_until
                 /\ rec'.clock_generation = otherwise.clock_generation
<1>1. CASE /\ disk' = next
           /\ rec' = [after EXCEPT !.stored = next, !.storage_ok = TRUE]
           /\ UNCHANGED errors
  <2> DEFINE half == [after EXCEPT !.stored = next]
  <2>1. /\ DOMAIN half = DOMAIN after /\ half.stored = next
        /\ half.startup_until = after.startup_until
        /\ half.clock_generation = after.clock_generation
    BY DEF Timed
  <2>2. rec' = [half EXCEPT !.storage_ok = TRUE]
    BY <1>1
  <2> HIDE DEF half
  <2>3. /\ DOMAIN rec' = DOMAIN after /\ rec'.stored = next
        /\ rec'.startup_until = after.startup_until
        /\ rec'.clock_generation = after.clock_generation
    BY <2>1, <2>2
  <2>4. Timed(rec)'
    BY <2>3 DEF Timed, StoredTimed
  <2> QED
    BY <1>1, <2>3, <2>4
<1>2. CASE /\ MayUpset
           /\ errors' = errors + 1
           /\ rec' = [otherwise EXCEPT !.storage_ok = FALSE]
           /\ UNCHANGED disk
  <2>1. /\ DOMAIN rec' = DOMAIN otherwise /\ rec'.stored = otherwise.stored
        /\ rec'.startup_until = otherwise.startup_until
        /\ rec'.clock_generation = otherwise.clock_generation
        /\ rec'.storage_ok = FALSE
    BY <1>2 DEF Timed
  <2>2. Timed(rec)'
    BY <2>1 DEF Timed, StoredTimed
  <2> QED
    BY <1>2, <2>1, <2>2
<1> QED
  BY <1>1, <1>2 DEF Store

\* A change by the user is a Recovery value with the same times.
LEMMA ChangedTimes ==
    ASSUME Timed(rec)
    PROVE  /\ Timed(Changed(rec)) /\ Timed([rec EXCEPT !.generation = @ + 1])
           /\ Changed(rec).stored = rec.stored
           /\ Changed(rec).startup_until = rec.startup_until
           /\ Changed(rec).clock_generation = rec.clock_generation
           /\ Changed(rec).storage_ok = rec.storage_ok
           /\ [rec EXCEPT !.generation = @ + 1].stored = rec.stored
           /\ [rec EXCEPT !.generation = @ + 1].startup_until = rec.startup_until
           /\ [rec EXCEPT !.generation = @ + 1].clock_generation = rec.clock_generation
<1> DEFINE bumped == [rec EXCEPT !.generation = @ + 1]
<1>1. /\ DOMAIN bumped = DOMAIN rec /\ bumped.stored = rec.stored
      /\ bumped.startup_until = rec.startup_until
      /\ bumped.clock_generation = rec.clock_generation
      /\ bumped.storage_ok = rec.storage_ok
  BY DEF Timed
<1>2. Changed(rec) = [bumped EXCEPT !.failures = 0]
  BY DEF Changed
<1>3. Timed(bumped)
  BY <1>1 DEF Timed
<1> HIDE DEF bumped
<1>4. /\ DOMAIN Changed(rec) = DOMAIN rec /\ Changed(rec).stored = rec.stored
      /\ Changed(rec).startup_until = rec.startup_until
      /\ Changed(rec).clock_generation = rec.clock_generation
      /\ Changed(rec).storage_ok = rec.storage_ok
  BY <1>1, <1>2
<1>5. Timed(Changed(rec))
  BY <1>4 DEF Timed
<1> QED
  BY <1>1, <1>3, <1>4, <1>5 DEF bumped

\* NotBefore is at least Grace away.
LEMMA NotBeforeGrace ==
    ASSUME NEW stored, StoredTimed(stored), wall \in Nat
    PROVE  NotBefore(stored) \in Nat /\ NotBefore(stored) >= wall + Grace
BY NetworkRecoveryAssumption DEF NotBefore, Most, StoredTimed

\* A write by the user: recovery is quiet from now on, and the last reboot and
\* the clock stay known.  A write that fails disables recovery instead.
UserWrote ==
    /\ Timed(rec)' /\ errors' \in Nat /\ disk' = rec'.stored
    /\ rec'.stored.last_reboot = rec.stored.last_reboot
    /\ rec'.stored.action_times = rec.stored.action_times
    /\ rec'.clock_generation = rec.clock_generation
    /\ \/ quiet' = 0 /\ rec'.stored.next_allowed >= wall + Grace
       \/ quiet' = 0 /\ ~rec'.stored.enabled
       \/ quiet' \in {0, quiet} /\ ~rec'.storage_ok

LEMMA UserWroteTimeInv ==
    ASSUME TimeInv, UserWrote, UNCHANGED <<wall, clock, worker, recent, rebootAge, stepLost>>
    PROVE  TimeInv'
<1>1. /\ UNCHANGED <<wall, clock, recent, rebootAge, stepLost>>
      /\ wpc' = wpc /\ plan' = plan
  BY DEF worker
<1>2. StepPending' = StepPending
  BY <1>1 DEF UserWrote, StepPending
<1>3. TimeTypes'
  BY <1>1 DEF TimeInv, TimeTypes, UserWrote
<1>4. RoundKnowsClock'
  BY <1>1, <1>2 DEF TimeInv, RoundKnowsClock, UserWrote
<1>5. QuietKept'
  <2>1. wall \in Nat /\ Grace \in Nat /\ rec'.stored.next_allowed \in Nat
    BY NetworkRecoveryAssumption DEF TimeInv, TimeTypes, UserWrote, Timed, StoredTimed
  <2> QED
    BY <1>1, <2>1 DEF UserWrote, QuietKept
<1>6. RebootStored' /\ RebootPlanned'
  BY <1>1, <1>2 DEF TimeInv, RebootStored, RebootPlanned, UserWrote
<1>7. BudgetStored'
  BY <1>1, <1>2, ListKept DEF TimeInv, UserWrote
<1> QED
  BY <1>3, <1>4, <1>5, <1>6, <1>7 DEF TimeInv

LEMMA UserTimeInv ==
    ASSUME TimeInv,
           \/ \E enabled, reboot_after \in BOOLEAN : Update(enabled, reboot_after)
           \/ Resume
           \/ \E action \in Actions : Execute(action)
    PROVE  TimeInv'
<1>1. /\ wall \in Nat /\ errors \in Nat /\ Timed(rec) /\ StoredTimed(rec.stored)
      /\ disk = rec.stored
  BY DEF TimeInv, TimeTypes, Timed
<1> DEFINE soon == NotBefore(rec.stored)
<1>2. soon \in Nat /\ soon >= wall + Grace
  BY <1>1, NotBeforeGrace
<1>3. /\ Timed(Changed(rec)) /\ Timed([rec EXCEPT !.generation = @ + 1])
      /\ Changed(rec).clock_generation = rec.clock_generation
      /\ [rec EXCEPT !.generation = @ + 1].stored = rec.stored
      /\ [rec EXCEPT !.generation = @ + 1].clock_generation = rec.clock_generation
  BY <1>1, ChangedTimes
<1> HIDE DEF soon
<1>4. ASSUME NEW enabled \in BOOLEAN, NEW reboot_after \in BOOLEAN,
             Update(enabled, reboot_after)
      PROVE  TimeInv'
  <2> DEFINE one == [rec.stored EXCEPT !.enabled = enabled]
             two == [one EXCEPT !.reboot_after = reboot_after]
             next == [two EXCEPT !.next_allowed = soon]
  <2>1. /\ DOMAIN one = DOMAIN rec.stored /\ one.last_reboot = rec.stored.last_reboot
        /\ one.action_times = rec.stored.action_times
    BY <1>1 DEF StoredTimed
  <2>a. Store(next, Changed(rec), rec)
    BY <1>4 DEF Update, soon
  <2> HIDE DEF one
  <2>2. /\ DOMAIN two = DOMAIN rec.stored /\ two.last_reboot = rec.stored.last_reboot
        /\ two.action_times = rec.stored.action_times
    BY <2>1
  <2> HIDE DEF two
  <2>3. /\ DOMAIN next = DOMAIN rec.stored /\ next.last_reboot = rec.stored.last_reboot
        /\ next.next_allowed = soon /\ next.action_times = rec.stored.action_times
    BY <2>2, <1>1 DEF StoredTimed
  <2>4. StoredTimed(next)
    BY <1>1, <1>2, <2>3 DEF StoredTimed
  <2> HIDE DEF next
  <2>b. quiet' = IF errors' = errors THEN 0 ELSE quiet
    BY <1>4 DEF Update
  <2>c. /\ Timed(rec)' /\ errors' \in Nat
        /\ \/ /\ errors' = errors /\ disk' = next /\ rec'.stored = next
              /\ rec'.clock_generation = rec.clock_generation
           \/ /\ errors' # errors /\ disk' = disk /\ rec'.stored = rec.stored
              /\ ~rec'.storage_ok /\ rec'.clock_generation = rec.clock_generation
    BY <1>1, <1>3, <2>a, <2>4, StoreTimes
  <2>5. UserWrote
    BY <1>1, <1>2, <2>b, <2>c, <2>3 DEF UserWrote
  <2>6. UNCHANGED <<wall, clock, worker, recent, rebootAge, stepLost>>
    BY <1>4 DEF Update
  <2> QED
    BY <2>5, <2>6, UserWroteTimeInv
<1>5. CASE Resume
  <2> DEFINE one == [rec.stored EXCEPT !.paused = FALSE]
             two == [one EXCEPT !.redials = 0]
             next == [two EXCEPT !.next_allowed = soon]
  <2>1. /\ DOMAIN one = DOMAIN rec.stored /\ one.last_reboot = rec.stored.last_reboot
        /\ one.action_times = rec.stored.action_times
    BY <1>1 DEF StoredTimed
  <2>a. Store(next, Changed(rec), rec)
    BY <1>5 DEF Resume, soon
  <2> HIDE DEF one
  <2>2. /\ DOMAIN two = DOMAIN rec.stored /\ two.last_reboot = rec.stored.last_reboot
        /\ two.action_times = rec.stored.action_times
    BY <2>1
  <2> HIDE DEF two
  <2>3. /\ DOMAIN next = DOMAIN rec.stored /\ next.last_reboot = rec.stored.last_reboot
        /\ next.next_allowed = soon /\ next.action_times = rec.stored.action_times
    BY <2>2, <1>1 DEF StoredTimed
  <2>4. StoredTimed(next)
    BY <1>1, <1>2, <2>3 DEF StoredTimed
  <2> HIDE DEF next
  <2>b. quiet' = IF errors' = errors THEN 0 ELSE quiet
    BY <1>5 DEF Resume
  <2>c. /\ Timed(rec)' /\ errors' \in Nat
        /\ \/ /\ errors' = errors /\ disk' = next /\ rec'.stored = next
              /\ rec'.clock_generation = rec.clock_generation
           \/ /\ errors' # errors /\ disk' = disk /\ rec'.stored = rec.stored
              /\ ~rec'.storage_ok /\ rec'.clock_generation = rec.clock_generation
    BY <1>1, <1>3, <2>a, <2>4, StoreTimes
  <2>5. UserWrote
    BY <1>1, <1>2, <2>b, <2>c, <2>3 DEF UserWrote
  <2>6. UNCHANGED <<wall, clock, worker, recent, rebootAge, stepLost>>
    BY <1>5 DEF Resume
  <2> QED
    BY <2>5, <2>6, UserWroteTimeInv
<1>6. ASSUME NEW action \in Actions, Execute(action)
      PROVE  TimeInv'
  <2>1. quiet' = 0 /\ UNCHANGED <<wall, clock, worker, recent, rebootAge, stepLost>>
    BY <1>6 DEF Execute
  <2>2. CASE PausedBy(action) # rec.stored.paused \/ rec.stored.enabled
    <3> DEFINE bumped == [rec EXCEPT !.generation = @ + 1]
               one == [rec.stored EXCEPT !.paused = PausedBy(action)]
               next == [one EXCEPT !.next_allowed = soon]
    <3>1. /\ DOMAIN one = DOMAIN rec.stored /\ one.last_reboot = rec.stored.last_reboot
          /\ one.action_times = rec.stored.action_times
      BY <1>1 DEF StoredTimed
    <3>a. Store(next, Changed(rec), bumped)
      BY <1>6, <2>2 DEF Execute, ManualIntent, IntentStored, soon
    <3> HIDE DEF one
    <3>3. /\ DOMAIN next = DOMAIN rec.stored /\ next.last_reboot = rec.stored.last_reboot
          /\ next.next_allowed = soon /\ next.action_times = rec.stored.action_times
      BY <3>1, <1>1 DEF StoredTimed
    <3>4. StoredTimed(next)
      BY <1>1, <1>2, <3>3 DEF StoredTimed
    <3>5. /\ Timed(bumped) /\ bumped.stored = rec.stored
          /\ bumped.clock_generation = rec.clock_generation
      BY <1>3
    <3> HIDE DEF next, bumped
    <3>6. UserWrote
      BY <1>1, <1>2, <1>3, <2>1, <3>a, <3>3, <3>4, <3>5, StoreTimes DEF UserWrote
    <3> QED
      BY <2>1, <3>6, UserWroteTimeInv
  <2>3. CASE ~(PausedBy(action) # rec.stored.paused \/ rec.stored.enabled)
    <3>1. rec' = Changed(rec) /\ UNCHANGED <<disk, errors>> /\ ~rec.stored.enabled
      BY <1>6, <2>3 DEF Execute, ManualIntent
    <3>2. Changed(rec).stored = rec.stored
      BY <1>1, ChangedTimes
    <3>3. Timed(rec)'
      BY <1>3, <3>1 DEF Timed, StoredTimed
    <3>4. UserWrote
      BY <1>1, <1>3, <2>1, <3>1, <3>2, <3>3 DEF UserWrote
    <3> QED
      BY <2>1, <3>4, UserWroteTimeInv
  <2> QED
    BY <2>2, <2>3
<1> QED
  BY <1>4, <1>5, <1>6

\* A step that leaves the times alone, or turns storage_ok off, and makes no
\* plan and begins no round.
Idles ==
    /\ UNCHANGED <<wall, clock, recent, quiet, rebootAge, stepLost>>
    /\ errors' \in Nat /\ Timed(rec)' /\ disk' = rec'.stored
    /\ rec'.storage_ok => rec.storage_ok
    /\ rec'.stored.enabled = rec.stored.enabled
    /\ rec'.stored.next_allowed = rec.stored.next_allowed
    /\ rec'.stored.last_reboot = rec.stored.last_reboot
    /\ rec'.stored.action_times = rec.stored.action_times
    /\ rec'.startup_until = rec.startup_until
    /\ rec'.clock_generation = rec.clock_generation
    /\ wpc' \in WorkerStates
    /\ wpc' # "sleeping" => wpc # "sleeping"
    /\ wpc' = "planned" => wpc = "planned" /\ plan' = plan

LEMMA IdlesTimeInv == TimeInv /\ Idles => TimeInv'
<1> SUFFICES ASSUME TimeInv, Idles PROVE TimeInv'
  OBVIOUS
<1>1. StepPending' = StepPending
  BY DEF Idles, StepPending
<1>2. TimeTypes'
  BY DEF TimeInv, TimeTypes, Idles
<1>3. RoundKnowsClock' /\ QuietKept' /\ RebootStored' /\ RebootPlanned'
  BY <1>1 DEF TimeInv, RoundKnowsClock, QuietKept, RebootStored, RebootPlanned, Idles
<1>4. BudgetStored'
  BY <1>1, ListKept DEF TimeInv, Idles
<1> QED
  BY <1>2, <1>3, <1>4 DEF TimeInv

\* A step that does not touch the Recovery value at all.
LEMMA UntouchedIdles ==
    ASSUME TimeInv, UNCHANGED <<wall, clock, rec, disk, errors, recent, quiet, rebootAge, stepLost>>,
           wpc' \in WorkerStates, wpc' # "sleeping" => wpc # "sleeping",
           wpc' = "planned" => wpc = "planned" /\ plan' = plan
    PROVE  Idles
BY DEF TimeInv, TimeTypes, Timed, StoredTimed, Idles

\* The counters of the probes are no times.
LEMMA CountersTimes ==
    ASSUME NEW f, NEW s, Timed(rec)
    PROVE  LET r == [rec EXCEPT !.failures = f, !.successes = s]
           IN  /\ Timed(r) /\ r.stored = rec.stored /\ r.storage_ok = rec.storage_ok
               /\ r.startup_until = rec.startup_until
               /\ r.clock_generation = rec.clock_generation
<1> DEFINE half == [rec EXCEPT !.failures = f]
           r == [half EXCEPT !.successes = s]
<1>1. /\ DOMAIN half = DOMAIN rec /\ half.stored = rec.stored
      /\ half.storage_ok = rec.storage_ok
      /\ half.startup_until = rec.startup_until
      /\ half.clock_generation = rec.clock_generation
  BY DEF Timed
<1>2. r = [rec EXCEPT !.failures = f, !.successes = s]
  OBVIOUS
<1> HIDE DEF half
<1>3. /\ DOMAIN r = DOMAIN rec /\ r.stored = rec.stored /\ r.storage_ok = rec.storage_ok
      /\ r.startup_until = rec.startup_until
      /\ r.clock_generation = rec.clock_generation
  BY <1>1 DEF Timed
<1>4. Timed(r)
  BY <1>3 DEF Timed
<1> QED
  BY <1>2, <1>3, <1>4

LEMMA ObserveTimeInv ==
    ASSUME TimeInv, Hold \/ Discard \/ ObserveOnline \/ ObserveOffline
    PROVE  TimeInv'
<1>1. /\ errors \in Nat /\ Timed(rec) /\ StoredTimed(rec.stored) /\ disk = rec.stored
      /\ wpc \in WorkerStates
  BY DEF TimeInv, TimeTypes, Timed
<1> DEFINE Ends == /\ wpc' = "sleeping"
                   /\ UNCHANGED <<wall, clock, recent, quiet, rebootAge, stepLost>>
<1>2. Ends
  BY DEF Hold, Discard, ObserveOnline, ObserveOffline, EndRound, kept
<1>3. "sleeping" \in WorkerStates
  BY DEF WorkerStates
<1>4. CASE Discard
  <2>1. Idles
    BY <1>2, <1>3, <1>4, UntouchedIdles DEF Discard, recovery
  <2> QED
    BY <2>1, IdlesTimeInv
<1>5. CASE Hold
  <2>1. /\ Timed([rec EXCEPT !.failures = 0, !.successes = 0])
        /\ rec' = [rec EXCEPT !.failures = 0, !.successes = 0]
        /\ UNCHANGED <<disk, errors>>
        /\ rec'.stored = rec.stored /\ rec'.storage_ok = rec.storage_ok
        /\ rec'.startup_until = rec.startup_until
        /\ rec'.clock_generation = rec.clock_generation
    BY <1>1, <1>5, CountersTimes DEF Hold
  <2>2. Timed(rec)'
    BY <2>1 DEF Timed, StoredTimed
  <2>3. Idles
    BY <1>1, <1>2, <1>3, <2>1, <2>2 DEF Idles
  <2> QED
    BY <2>3, IdlesTimeInv
<1>6. CASE ObserveOffline
  <2> DEFINE f == Least(rec.failures + 1, Threshold)
  <2>0. Down = [rec EXCEPT !.successes = 0, !.failures = f]
    BY <1>1 DEF Down, Timed
  <2>a. Down = [rec EXCEPT !.failures = f, !.successes = 0]
    BY <1>1, <2>0 DEF Timed
  <2> HIDE DEF f
  <2>1. /\ Timed(Down) /\ rec' = Down
        /\ UNCHANGED <<disk, errors>>
        /\ rec'.stored = rec.stored /\ rec'.storage_ok = rec.storage_ok
        /\ rec'.startup_until = rec.startup_until
        /\ rec'.clock_generation = rec.clock_generation
    BY <1>1, <1>6, <2>a, CountersTimes DEF ObserveOffline
  <2>2. Timed(rec)'
    BY <2>1 DEF Timed, StoredTimed
  <2>3. Idles
    BY <1>1, <1>2, <1>3, <2>1, <2>2 DEF Idles
  <2> QED
    BY <2>3, IdlesTimeInv
<1>7. CASE ObserveOnline
  <2> DEFINE s == Least(rec.successes + 1, 2)
             up == [rec EXCEPT !.failures = 0, !.successes = s]
             next == [rec.stored EXCEPT !.redials = 0]
  <2>1. \/ Store(next, up, up)
        \/ rec' = up /\ UNCHANGED <<disk, errors>>
    BY <1>7, <1>1 DEF ObserveOnline, Timed
  <2>2. rec.storage_ok
    BY <1>7 DEF ObserveOnline, CanObserve, Probable
  <2>3. /\ Timed(up) /\ up.stored = rec.stored /\ up.storage_ok = rec.storage_ok
        /\ up.startup_until = rec.startup_until
        /\ up.clock_generation = rec.clock_generation
    BY <1>1, CountersTimes
  <2>4. /\ StoredTimed(next) /\ next.enabled = rec.stored.enabled
        /\ next.next_allowed = rec.stored.next_allowed
        /\ next.last_reboot = rec.stored.last_reboot
        /\ next.action_times = rec.stored.action_times
    BY <1>1 DEF StoredTimed
  <2> HIDE DEF up, next
  <2>5. CASE Store(next, up, up)
    <3>1. Idles
      BY <1>1, <1>2, <1>3, <2>2, <2>3, <2>4, <2>5, StoreTimes DEF Idles
    <3> QED
      BY <3>1, IdlesTimeInv
  <2>6. CASE rec' = up /\ UNCHANGED <<disk, errors>>
    <3>1. Timed(rec)'
      BY <2>3, <2>6 DEF Timed, StoredTimed
    <3>2. Idles
      BY <1>1, <1>2, <1>3, <2>2, <2>3, <2>6, <3>1 DEF Idles
    <3> QED
      BY <3>2, IdlesTimeInv
  <2> QED
    BY <2>1, <2>5, <2>6
<1> QED
  BY <1>4, <1>5, <1>6, <1>7

LEMMA CallTimeInv ==
    ASSUME TimeInv, ExecuteDone \/ SkipPlan \/ BeginConnect \/ SkipConnect \/ EndCall
    PROVE  TimeInv'
<1>1. UNCHANGED <<wall, clock, rec, disk, errors, recent, quiet, rebootAge, stepLost>>
  BY DEF ExecuteDone, SkipPlan, BeginConnect, SkipConnect, EndCall, recovery, kept, history
<1>2. wpc \in WorkerStates
  BY DEF TimeInv, TimeTypes
<1>3. /\ wpc' \in WorkerStates
      /\ wpc' # "sleeping" => wpc # "sleeping"
      /\ wpc' = "planned" => wpc = "planned" /\ plan' = plan
  BY <1>2 DEF ExecuteDone, SkipPlan, BeginConnect, SkipConnect, EndCall, worker, EndRound,
              WorkerStates
<1> QED
  BY <1>1, <1>3, UntouchedIdles, IdlesTimeInv

\* may_probe sees the step of the clock before a round begins.
LEMMA StartTimeInv ==
    ASSUME TimeInv, StartRound
    PROVE  TimeInv'
<1>1. /\ errors \in Nat /\ Timed(rec) /\ StoredTimed(rec.stored) /\ disk = rec.stored
      /\ wall \in Nat /\ clock \in Nat /\ quiet \in Nat /\ rebootAge \in Nat
  BY DEF TimeInv, TimeTypes, Timed
<1>2. /\ UNCHANGED <<wall, clock, recent, quiet, rebootAge, stepLost, plan>>
      /\ wpc = "sleeping" /\ wpc' \in {"sleeping", "probing"}
  BY DEF StartRound, history, kept
<1>3. Grace \in Nat /\ Cooldown \in Nat
  BY NetworkRecoveryAssumption
<1>4. wpc' \in WorkerStates /\ wpc' # "planned"
  BY <1>2 DEF WorkerStates
<1>5. CASE rec.clock_generation = clock
  <2>1. UNCHANGED <<rec, disk, errors>>
    BY <1>5 DEF StartRound, recovery
  <2>2. StepPending' = StepPending /\ ~StepPending
    BY <1>2, <1>5, <2>1 DEF StepPending
  <2>3. TimeTypes'
    BY <1>2, <1>4, <2>1 DEF TimeInv, TimeTypes, Timed, StoredTimed
  <2>4. RoundKnowsClock' /\ QuietKept' /\ RebootStored' /\ RebootPlanned'
    BY <1>2, <1>4, <2>1, <2>2
       DEF TimeInv, RoundKnowsClock, QuietKept, RebootStored, RebootPlanned
  <2>5. BudgetStored'
    BY <1>2, <1>4, <2>1, <2>2, ListKept DEF TimeInv
  <2> QED
    BY <2>3, <2>4, <2>5 DEF TimeInv
<1>6. CASE rec.clock_generation # clock
  <2> DEFINE filled == [n \in DOMAIN rec.stored.action_times |-> wall]
             next == Rebased(rec.stored)
             base == Changed(rec)
             one == [base EXCEPT !.clock_generation = clock]
             two == [one EXCEPT !.startup_until = wall + Grace]
             after == [two EXCEPT !.successes = 0]
  <2>1. Store(next, after, rec)
    BY <1>6 DEF StartRound
  <2>2. /\ StoredTimed(next)
        /\ next.last_reboot = IF rec.stored.last_reboot # 0 THEN wall ELSE 0
        /\ next.action_times = filled
    <3> DEFINE s1 == [rec.stored EXCEPT !.action_times = [n \in DOMAIN @ |-> wall]]
               s2 == [s1 EXCEPT !.last_reboot = IF @ # 0 THEN wall ELSE 0]
    <3>1. /\ DOMAIN s1 = DOMAIN rec.stored /\ s1.last_reboot = rec.stored.last_reboot
          /\ s1.action_times = filled
      BY <1>1 DEF StoredTimed
    <3>2. next = [s2 EXCEPT !.next_allowed = wall + Cooldown]
      BY DEF Rebased
    <3> HIDE DEF s1, filled
    <3>3. /\ DOMAIN s2 = DOMAIN rec.stored
          /\ s2.last_reboot = IF rec.stored.last_reboot # 0 THEN wall ELSE 0
          /\ s2.action_times = filled
      BY <1>1, <3>1 DEF StoredTimed
    <3> HIDE DEF s2, next
    <3>4. /\ DOMAIN next = DOMAIN rec.stored /\ next.next_allowed = wall + Cooldown
          /\ next.last_reboot = IF rec.stored.last_reboot # 0 THEN wall ELSE 0
          /\ next.action_times = filled
      BY <1>1, <3>2, <3>3 DEF StoredTimed
    <3> QED
      BY <1>1, <1>3, <3>4 DEF StoredTimed
  <2>3. Timed(base) /\ base.stored = rec.stored
    BY <1>1, ChangedTimes
  <2> HIDE DEF base
  <2>4. DOMAIN one = DOMAIN base /\ one.stored = rec.stored /\ one.clock_generation = clock
    BY <2>3 DEF Timed
  <2> HIDE DEF one
  <2>5. /\ DOMAIN two = DOMAIN base /\ two.stored = rec.stored
        /\ two.clock_generation = clock /\ two.startup_until = wall + Grace
    BY <2>3, <2>4 DEF Timed
  <2> HIDE DEF two
  <2>6. /\ DOMAIN after = DOMAIN base /\ after.stored = rec.stored
        /\ after.clock_generation = clock /\ after.startup_until = wall + Grace
    BY <2>5
  <2>7. Timed(after)
    BY <1>1, <1>3, <2>3, <2>6 DEF Timed
  <2> HIDE DEF after, next
  <2>8. /\ errors' \in Nat /\ Timed(rec)'
        /\ \/ /\ errors' = errors /\ disk' = next /\ rec'.stored = next
              /\ rec'.startup_until = wall + Grace /\ rec'.clock_generation = clock
           \/ /\ disk' = disk /\ rec'.stored = rec.stored /\ ~rec'.storage_ok
              /\ rec'.startup_until = rec.startup_until
              /\ rec'.clock_generation = rec.clock_generation
    BY <1>1, <2>1, <2>2, <2>6, <2>7, StoreTimes
  <2>9. TimeTypes'
    BY <1>1, <1>2, <1>4, <2>8 DEF TimeTypes
  <2>10. RebootPlanned'
    BY <1>4 DEF RebootPlanned
  <2>11. wall >= 1 /\ StepPending
    BY <1>6 DEF TimeInv, RoundKnowsClock, StepPending
  <2>12. CASE /\ disk' = next /\ rec'.stored = next
              /\ rec'.startup_until = wall + Grace /\ rec'.clock_generation = clock
    <3>1. ~StepPending'
      BY <1>2, <2>12 DEF StepPending
    <3>2. RoundKnowsClock'
      BY <1>1, <1>2, <2>12, <3>1 DEF RoundKnowsClock
    <3>3. QuietKept'
      BY <1>1, <1>2, <1>3, <2>12 DEF QuietKept
    <3>4. RebootStored'
      BY <1>1, <1>2, <2>2, <2>11, <2>12 DEF TimeInv, RebootStored
    <3>5. BudgetStored'
      <4>1. /\ rec'.stored.action_times = filled /\ DOMAIN filled = DOMAIN rec.stored.action_times
            /\ \A n \in DOMAIN filled : filled[n] = wall
        BY <2>2, <2>12
      <4> HIDE DEF filled
      <4>2. ListOK(rec.stored.action_times)'
        BY <1>1, <4>1 DEF TimeInv, BudgetStored, ListOK
      <4>3. \A n \in DOMAIN recent : recent[n] \in Nat
        BY DEF TimeInv, BudgetStored
      <4> QED
        BY <1>1, <1>2, <1>4, <4>1, <4>2, <4>3 DEF TimeInv, BudgetStored
    <3> QED
      BY <2>9, <2>10, <3>2, <3>3, <3>4, <3>5 DEF TimeInv
  <2>13. CASE /\ rec'.stored = rec.stored /\ ~rec'.storage_ok
              /\ rec'.clock_generation = rec.clock_generation
    <3>1. StepPending'
      BY <1>2, <1>6, <2>13 DEF StepPending
    <3>2. ~Probable(rec')
      BY <2>13 DEF Probable
    <3>3. wpc' = "sleeping"
      BY <1>2, <3>2 DEF StartRound
    <3>4. RoundKnowsClock'
      BY <1>2, <2>11, <2>13, <3>3 DEF TimeInv, RoundKnowsClock
    <3>5. QuietKept'
      BY <3>1 DEF QuietKept
    <3>6. RebootStored'
      BY <1>2, <2>13, <3>1 DEF TimeInv, RebootStored
    <3>7. BudgetStored'
      BY <1>2, <1>4, <2>11, <2>13, <3>1, ListKept DEF TimeInv
    <3> QED
      BY <2>9, <2>10, <3>4, <3>5, <3>6, <3>7 DEF TimeInv
  <2> QED
    BY <2>8, <2>12, <2>13
<1> QED
  BY <1>5, <1>6

\* When a plan may be made, the quiet time and the gap of the reboots are over.
LEMMA PlanIsDue ==
    ASSUME TimeInv, CanObserve, MayAct
    PROVE  /\ ~StepPending
           /\ wall >= 1
           /\ quiet >= Grace
           /\ WantsReboot => stepLost \/ rebootAge >= RebootGap
<1>1. /\ wall \in Nat /\ quiet \in Nat /\ rebootAge \in Nat
      /\ rec.startup_until \in Nat /\ rec.stored.next_allowed \in Nat
      /\ rec.stored.last_reboot \in Nat
  BY DEF TimeInv, TimeTypes, Timed, StoredTimed
<1>2. /\ Grace \in Nat /\ RebootGap \in Nat /\ FirstValid \in Nat /\ FirstValid # 0
  BY NetworkRecoveryAssumption
<1>3. ~StepPending
  BY DEF CanObserve, TimeInv, RoundKnowsClock
<1>4. /\ rec.stored.enabled /\ rec.storage_ok /\ wall >= FirstValid
      /\ wall >= rec.startup_until /\ wall >= rec.stored.next_allowed
  BY DEF CanObserve, Probable, MayAct
<1>5. quiet >= Grace
  BY <1>1, <1>2, <1>3, <1>4 DEF TimeInv, QuietKept
<1>6. ASSUME WantsReboot, ~stepLost, ~(rebootAge >= RebootGap)
      PROVE  FALSE
  <2>1. rec.stored.last_reboot # 0 /\ rec.stored.last_reboot + rebootAge >= wall
    BY <1>1, <1>2, <1>3, <1>6 DEF TimeInv, RebootStored
  <2>2. wall - rec.stored.last_reboot >= RebootGap
    BY <1>6, <2>1 DEF MayAct, MayReboot
  <2> QED
    BY <1>1, <1>2, <1>6, <2>1, <2>2
<1> QED
  BY <1>1, <1>2, <1>3, <1>4, <1>5, <1>6

\* The list that a plan leaves: one action more, within the budget.
LEMMA PlannedList ==
    ASSUME TimeInv, MayAct
    PROVE  LET list == With(StillSpent, PlanName, wall)
           IN  ListOK(list) /\ PlanName \in DOMAIN list /\ list[PlanName] = wall
<1> DEFINE spent == StillSpent
           name == PlanName
           times == rec.stored.action_times
           list == With(spent, name, wall)
<1>1. wall \in Nat /\ HourlyLimit \in Nat /\ ListOK(times)
  BY NetworkRecoveryAssumption DEF TimeInv, TimeTypes, BudgetStored
<1>2. /\ DOMAIN spent \subseteq DOMAIN times
      /\ \A n \in DOMAIN spent : spent[n] = times[n]
  BY DEF StillSpent, Retained
<1>3. Cardinality(DOMAIN spent) < HourlyLimit
  BY DEF MayAct
<1> HIDE DEF spent, name
<1>4. IsFiniteSet(DOMAIN spent) /\ Cardinality(DOMAIN spent) \in Nat
  BY <1>1, <1>2, FS_Subset, FS_CardinalityType DEF ListOK
<1>5. /\ DOMAIN list = DOMAIN spent \cup {name}
      /\ \A n \in DOMAIN list : list[n] = IF n = name THEN wall ELSE spent[n]
  BY DEF With
<1>6. /\ IsFiniteSet(DOMAIN spent \cup {name})
      /\ Cardinality(DOMAIN spent \cup {name}) <= Cardinality(DOMAIN spent) + 1
  BY <1>4, FS_AddElement
<1>7. IsFiniteSet(DOMAIN list) /\ Cardinality(DOMAIN list) \in Nat
  BY <1>5, <1>6, FS_CardinalityType
<1>8. Cardinality(DOMAIN list) <= HourlyLimit
  BY <1>1, <1>3, <1>4, <1>5, <1>6, <1>7
<1>9. \A n \in DOMAIN list : list[n] \in Nat
  BY <1>1, <1>2, <1>5 DEF ListOK
<1> HIDE DEF list
<1>10. ListOK(list)
  BY <1>7, <1>8, <1>9 DEF ListOK
<1> QED
  BY <1>5, <1>10 DEF list, spent, name

\* What is dropped from the list is an hour old.
LEMMA PlannedKeeps ==
    ASSUME TimeInv, ~StepPending, ~stepLost, NEW n \in DOMAIN recent
    PROVE  LET list == With(StillSpent, PlanName, wall)
           IN  n \in DOMAIN list /\ list[n] + recent[n] >= wall
<1> DEFINE times == rec.stored.action_times
<1>1. /\ n \in DOMAIN times /\ times[n] + recent[n] >= wall
      /\ times[n] \in Nat /\ recent[n] \in Nat /\ recent[n] < Hour
  BY DEF TimeInv, BudgetStored, ListOK
<1>2. wall \in Nat /\ Hour \in Nat
  BY NetworkRecoveryAssumption DEF TimeInv, TimeTypes
<1>3. wall - times[n] < Hour
  BY <1>1, <1>2
<1>4. n \in DOMAIN StillSpent /\ StillSpent[n] = times[n]
  BY <1>1, <1>3 DEF StillSpent, Retained
<1> QED
  BY <1>1, <1>2, <1>4 DEF With

LEMMA MakePlanTimeInv ==
    ASSUME TimeInv, MakePlan
    PROVE  TimeInv'
<1>1. /\ errors \in Nat /\ Timed(rec) /\ StoredTimed(rec.stored) /\ disk = rec.stored
      /\ wall \in Nat /\ clock \in Nat /\ quiet \in Nat /\ rebootAge \in Nat
      /\ wpc = "probing"
  BY DEF TimeInv, TimeTypes, Timed, MakePlan, CanObserve
<1>2. UNCHANGED <<wall, clock, recent, quiet, rebootAge, stepLost>>
  BY DEF MakePlan, kept
<1>3. Grace \in Nat /\ Cooldown \in Nat /\ Grace <= Cooldown
  BY NetworkRecoveryAssumption
<1>4. /\ ~StepPending /\ wall >= 1 /\ rec.storage_ok
      /\ WantsReboot => stepLost \/ rebootAge >= RebootGap
  BY PlanIsDue DEF MakePlan, CanObserve, Probable
<1> DEFINE f == Least(rec.failures + 1, Threshold)
           last == IF WantsReboot THEN wall ELSE rec.stored.last_reboot
           list == With(StillSpent, PlanName, wall)
           s1 == [rec.stored EXCEPT !.action_times = list]
           s2 == [s1 EXCEPT !.next_allowed = wall + Cooldown]
           s3 == [s2 EXCEPT !.last_reboot = IF WantsReboot THEN wall ELSE @]
           next == [s3 EXCEPT !.redials = IF WantsReboot THEN @ ELSE @ + 1]
           after == [Down EXCEPT !.failures = 0]
<1>5. Store(next, after, Down)
  BY DEF MakePlan
<1>6. /\ StoredTimed(next) /\ next.last_reboot = last
      /\ next.next_allowed = wall + Cooldown /\ next.action_times = list
  <2>1. /\ DOMAIN s1 = DOMAIN rec.stored /\ s1.last_reboot = rec.stored.last_reboot
        /\ s1.action_times = list
    BY <1>1 DEF StoredTimed
  <2> HIDE DEF s1, list
  <2>2. /\ DOMAIN s2 = DOMAIN rec.stored /\ s2.last_reboot = rec.stored.last_reboot
        /\ s2.next_allowed = wall + Cooldown /\ s2.action_times = list
    BY <1>1, <2>1 DEF StoredTimed
  <2> HIDE DEF s2
  <2>3. /\ DOMAIN s3 = DOMAIN rec.stored /\ s3.last_reboot = last
        /\ s3.next_allowed = wall + Cooldown /\ s3.action_times = list
    BY <1>1, <2>2 DEF StoredTimed
  <2> HIDE DEF s3, last
  <2>4. /\ DOMAIN next = DOMAIN rec.stored /\ next.last_reboot = last
        /\ next.next_allowed = wall + Cooldown /\ next.action_times = list
    BY <2>3
  <2>5. last \in Nat /\ wall + Cooldown \in Nat
    BY <1>1, <1>3 DEF last, StoredTimed
  <2> QED
    BY <1>1, <2>4, <2>5 DEF StoredTimed
<1>7. /\ Timed(Down) /\ Down.stored = rec.stored
      /\ Down.startup_until = rec.startup_until
      /\ Down.clock_generation = rec.clock_generation
  <2>1. Down = [rec EXCEPT !.successes = 0, !.failures = f]
    BY <1>1 DEF Down, Timed
  <2>2. Down = [rec EXCEPT !.failures = f, !.successes = 0]
    BY <1>1, <2>1 DEF Timed
  <2> HIDE DEF f
  <2> QED
    BY <1>1, <2>2, CountersTimes
<1>8. /\ Timed(after) /\ after.stored = rec.stored
      /\ after.startup_until = rec.startup_until
      /\ after.clock_generation = rec.clock_generation
  BY <1>7 DEF Timed
<1> HIDE DEF next, after
<1>9. /\ errors' \in Nat /\ Timed(rec)'
      /\ \/ /\ errors' = errors /\ disk' = next /\ rec'.stored = next
            /\ rec'.startup_until = rec.startup_until
            /\ rec'.clock_generation = rec.clock_generation
         \/ /\ errors' # errors /\ disk' = disk /\ rec'.stored = rec.stored /\ ~rec'.storage_ok
            /\ rec'.startup_until = rec.startup_until
            /\ rec'.clock_generation = rec.clock_generation
  BY <1>1, <1>5, <1>6, <1>7, <1>8, StoreTimes
<1>10. CASE errors' = errors
  <2>1. /\ disk' = next /\ rec'.stored = next
        /\ rec'.clock_generation = rec.clock_generation
    BY <1>9, <1>10
  <2>2. wpc' = "planned" /\ plan'.reboot = WantsReboot /\ plan'.name = PlanName
    BY <1>10 DEF MakePlan
  <2>3. ~StepPending'
    BY <1>2, <1>4, <2>1 DEF StepPending
  <2>4. TimeTypes'
    BY <1>1, <1>2, <1>9, <2>1, <2>2 DEF TimeTypes, WorkerStates
  <2>5. RoundKnowsClock'
    BY <1>2, <2>1, <2>3 DEF TimeInv, RoundKnowsClock
  <2>6. QuietKept'
    <3>1. rec'.stored.next_allowed = wall + Cooldown
      BY <1>6, <2>1
    <3> QED
      BY <1>1, <1>2, <1>3, <3>1 DEF QuietKept
  <2>7. RebootStored' /\ RebootPlanned'
    <3>1. rec'.stored.last_reboot = last
      BY <1>6, <2>1
    <3>2. CASE WantsReboot
      <4>1. last = wall
        BY <3>2
      <4> HIDE DEF last
      <4> QED
        BY <1>1, <1>2, <1>4, <2>2, <3>1, <3>2, <4>1 DEF RebootStored, RebootPlanned
    <3>3. CASE ~WantsReboot
      <4>1. last = rec.stored.last_reboot
        BY <3>3
      <4>2. ~plan'.reboot
        BY <2>2, <3>3
      <4> HIDE DEF last
      <4> QED
        BY <1>2, <1>4, <3>1, <4>1, <4>2 DEF TimeInv, RebootStored, RebootPlanned
    <3> QED
      BY <3>2, <3>3
  <2>8. BudgetStored'
    <3> DEFINE times == rec.stored.action_times
    <3>1. rec'.stored.action_times = list
      BY <1>6, <2>1
    <3>2. ListOK(list) /\ PlanName \in DOMAIN list /\ list[PlanName] = wall
      BY PlannedList DEF MakePlan
    <3>3. ASSUME ~stepLost, NEW n \in DOMAIN recent
          PROVE  n \in DOMAIN list /\ list[n] + recent[n] >= wall
      BY <1>4, <3>3, PlannedKeeps DEF MakePlan
    <3> HIDE DEF list
    <3>4. ListOK(rec.stored.action_times)'
      BY <3>1, <3>2 DEF ListOK
    <3>5. \A n \in DOMAIN recent : recent[n] \in Nat /\ recent[n] < Hour
      BY DEF TimeInv, BudgetStored
    <3> QED
      BY <1>1, <1>2, <2>2, <3>1, <3>2, <3>3, <3>4, <3>5 DEF BudgetStored
  <2> QED
    BY <2>4, <2>5, <2>6, <2>7, <2>8 DEF TimeInv
<1>11. CASE errors' # errors
  <2>1. wpc' = "sleeping"
    BY <1>11 DEF MakePlan, EndRound
  <2>2. Idles
    BY <1>1, <1>2, <1>9, <1>11, <2>1 DEF Idles, WorkerStates
  <2> QED
    BY <2>2, IdlesTimeInv
<1> QED
  BY <1>10, <1>11

LEMMA BeginPlanTimeInv ==
    ASSUME TimeInv, BeginPlan
    PROVE  TimeInv'
<1>1. /\ UNCHANGED <<wall, clock, rec, disk, errors, quiet, stepLost>>
      /\ wpc = "planned" /\ wpc' \in {"rebooting", "disconnecting"}
      /\ rebootAge' = IF plan.reboot THEN 0 ELSE rebootAge
      /\ recent' = With(recent, plan.name, 0)
  BY DEF BeginPlan, recovery
<1>2. StepPending' = StepPending
  BY <1>1 DEF StepPending
<1>3. wall \in Nat /\ rebootAge' \in Nat /\ rec.stored.last_reboot \in Nat
  BY <1>1 DEF TimeInv, TimeTypes, Timed, StoredTimed
<1>4. TimeTypes'
  BY <1>1, <1>3 DEF TimeInv, TimeTypes, Timed, StoredTimed, WorkerStates
<1>5. RoundKnowsClock' /\ QuietKept'
  BY <1>1, <1>2 DEF TimeInv, RoundKnowsClock, QuietKept
<1>6. RebootPlanned'
  BY <1>1 DEF RebootPlanned
<1>7. RebootStored'
  <2>1. CASE plan.reboot
    BY <1>1, <1>3, <2>1 DEF TimeInv, RebootPlanned, RebootStored
  <2>2. CASE ~plan.reboot
    BY <1>1, <1>2, <2>2 DEF TimeInv, RebootStored
  <2> QED
    BY <2>1, <2>2
<1>8. BudgetStored'
  <2> DEFINE name == plan.name
             times == rec.stored.action_times
  <2>1. /\ DOMAIN recent' = DOMAIN recent \cup {name}
        /\ \A n \in DOMAIN recent' : recent'[n] = IF n = name THEN 0 ELSE recent[n]
    BY <1>1 DEF With
  <2>2. /\ name \in DOMAIN times /\ times[name] >= wall /\ times[name] \in Nat
        /\ ListOK(times)
    BY <1>1 DEF TimeInv, BudgetStored, ListOK
  <2>3. Hour \in Nat /\ Hour > 0
    BY NetworkRecoveryAssumption
  <2>4. \A n \in DOMAIN recent' : recent'[n] \in Nat /\ recent'[n] < Hour
    BY <2>1, <2>3 DEF TimeInv, BudgetStored
  <2>5. ASSUME ~stepLost, NEW n \in DOMAIN recent'
        PROVE  n \in DOMAIN times /\ (~StepPending => times[n] + recent'[n] >= wall)
    <3>1. CASE n = name
      BY <2>1, <2>2, <3>1
    <3>2. CASE n # name
      BY <2>1, <2>5, <3>2 DEF TimeInv, BudgetStored
    <3> QED
      BY <3>1, <3>2
  <2>6. ListOK(times)'
    BY <1>1, <2>2 DEF ListOK
  <2> QED
    BY <1>1, <1>2, <2>4, <2>5, <2>6 DEF BudgetStored
<1> QED
  BY <1>4, <1>5, <1>6, <1>7, <1>8 DEF TimeInv

\* A count that stops at its bound.
LEMMA LeastNext ==
    ASSUME NEW a \in Nat, NEW b \in Nat
    PROVE  Least(a + 1, b) \in Nat /\ (Least(a + 1, b) < b => Least(a + 1, b) = a + 1)
BY DEF Least

LEMMA EnvironmentTimeInv ==
    ASSUME TimeInv,
           Tick \/ (\E now \in 1..MaxWall : CorrectClock(now)) \/ Restart
    PROVE  TimeInv'
<1>1. /\ errors \in Nat /\ Timed(rec) /\ StoredTimed(rec.stored) /\ disk = rec.stored
      /\ wall \in Nat /\ clock \in Nat /\ quiet \in Nat /\ rebootAge \in Nat
      /\ wpc \in WorkerStates
      /\ rec.stored.last_reboot \in Nat /\ rec.stored.next_allowed \in Nat
      /\ rec.startup_until \in Nat /\ rec.clock_generation \in Nat
  BY DEF TimeInv, TimeTypes, Timed, StoredTimed
<1>2. Grace \in Nat /\ RebootGap \in Nat /\ MaxWall \in Nat
  BY NetworkRecoveryAssumption
<1>3. CASE Tick
  <2>1. /\ UNCHANGED <<clock, rec, disk, errors, stepLost>>
        /\ wpc' = wpc /\ wpc \in {"sleeping", "probing"}
        /\ wall' = wall + 1
        /\ rebootAge' = Least(rebootAge + 1, RebootGap)
        /\ quiet' = Least(quiet + 1, Grace)
        /\ recent' = Older(recent)
    BY <1>3 DEF Tick, recovery, worker
  <2>2. StepPending' = StepPending
    BY <2>1 DEF StepPending
  <2>3. /\ rebootAge' \in Nat /\ quiet' \in Nat /\ wall' \in Nat
        /\ rebootAge' < RebootGap => rebootAge' = rebootAge + 1
        /\ quiet' < Grace => quiet' = quiet + 1
    <3>1. rebootAge' \in Nat /\ (rebootAge' < RebootGap => rebootAge' = rebootAge + 1)
      BY <1>1, <1>2, <2>1, LeastNext
    <3>2. quiet' \in Nat /\ (quiet' < Grace => quiet' = quiet + 1)
      BY <1>1, <1>2, <2>1, LeastNext
    <3>3. wall' \in Nat
      BY <1>1, <2>1
    <3> QED
      BY <3>1, <3>2, <3>3
  <2>4. TimeTypes'
    BY <1>1, <2>1, <2>3 DEF TimeTypes, Timed, StoredTimed
  <2>5. RoundKnowsClock'
    BY <1>1, <2>1, <2>2 DEF TimeInv, RoundKnowsClock
  <2>6. QuietKept'
    BY <1>1, <1>2, <2>1, <2>2, <2>3 DEF TimeInv, QuietKept
  <2>7. RebootStored'
    BY <1>1, <1>2, <2>1, <2>2, <2>3 DEF TimeInv, RebootStored
  <2>8. RebootPlanned'
    BY <2>1 DEF RebootPlanned
  <2>9. BudgetStored'
    <3> DEFINE times == rec.stored.action_times
    <3>1. /\ DOMAIN recent' \subseteq DOMAIN recent
          /\ \A n \in DOMAIN recent' : recent'[n] = recent[n] + 1 /\ recent'[n] < Hour
      BY <2>1 DEF Older, Retained
    <3>2. /\ ListOK(times)
          /\ \A n \in DOMAIN recent : recent[n] \in Nat
      BY DEF TimeInv, BudgetStored
    <3>3. \A n \in DOMAIN recent' : recent'[n] \in Nat /\ recent'[n] < Hour
      BY <3>1, <3>2
    <3>4. ASSUME ~stepLost, NEW n \in DOMAIN recent'
          PROVE  n \in DOMAIN times /\ (~StepPending => times[n] + recent'[n] >= wall')
      <4>1. /\ n \in DOMAIN times /\ (~StepPending => times[n] + recent[n] >= wall)
        BY <3>1, <3>4 DEF TimeInv, BudgetStored
      <4>2. times[n] \in Nat /\ recent[n] \in Nat /\ recent'[n] = recent[n] + 1
        BY <3>1, <3>2, <4>1 DEF ListOK
      <4> QED
        BY <1>1, <2>1, <4>1, <4>2
    <3>5. ListOK(times)'
      BY <2>1, <3>2 DEF ListOK
    <3> QED
      BY <2>1, <2>2, <3>3, <3>4, <3>5 DEF BudgetStored
  <2> QED
    BY <2>4, <2>5, <2>6, <2>7, <2>8, <2>9 DEF TimeInv
<1>4. ASSUME NEW now \in 1..MaxWall, CorrectClock(now)
      PROVE  TimeInv'
  <2>1. /\ UNCHANGED <<rec, disk, errors, stepLost, recent, quiet, rebootAge>>
        /\ wpc' = "sleeping" /\ wall' = now /\ clock' = clock + 1
    BY <1>4 DEF CorrectClock, recovery, worker, history, kept
  <2>2. rec.clock_generation <= clock
    BY DEF TimeInv, RoundKnowsClock
  <2>3. StepPending' /\ now \in Nat /\ now >= 1
    BY <1>1, <1>2, <2>1, <2>2 DEF StepPending
  <2>4. TimeTypes'
    BY <1>1, <2>1, <2>3 DEF TimeTypes, Timed, StoredTimed, WorkerStates
  <2>5. RoundKnowsClock'
    BY <1>1, <2>1, <2>2, <2>3 DEF RoundKnowsClock
  <2>6. QuietKept' /\ RebootPlanned'
    BY <2>1, <2>3 DEF QuietKept, RebootPlanned
  <2>7. RebootStored'
    BY <2>1, <2>3 DEF TimeInv, RebootStored
  <2>8. BudgetStored'
    BY <2>1, <2>3 DEF TimeInv, BudgetStored, ListOK
  <2> QED
    BY <2>4, <2>5, <2>6, <2>7, <2>8 DEF TimeInv
<1>5. CASE Restart
  <2>1. /\ UNCHANGED <<wall, disk, errors, recent, rebootAge>>
        /\ clock' = 0 /\ quiet' = 0 /\ wpc' = "sleeping"
        /\ stepLost' = (stepLost \/ StepPending)
        /\ rec' = Load(disk, wall)
    BY <1>5 DEF Restart, EndRound, StepPending
  <2>2. /\ rec'.stored = rec.stored /\ rec'.clock_generation = 0
        /\ rec'.startup_until = wall + Grace
        /\ Timed(rec')
    BY <1>1, <1>2, <2>1 DEF Load, Timed
  <2>3. ~StepPending'
    BY <2>1, <2>2 DEF StepPending
  <2>4. Timed(rec)'
    BY <2>2 DEF Timed, StoredTimed
  <2>5. TimeTypes'
    BY <1>1, <2>1, <2>2, <2>4 DEF TimeTypes, WorkerStates
  <2>6. RoundKnowsClock'
    BY <2>1, <2>2, <2>3 DEF RoundKnowsClock
  <2>7. QuietKept'
    BY <1>1, <1>2, <2>1, <2>2 DEF QuietKept
  <2>8. RebootStored' /\ RebootPlanned'
    BY <2>1, <2>2 DEF TimeInv, RebootStored, RebootPlanned
  <2>9. BudgetStored'
    BY <2>1, <2>2 DEF TimeInv, BudgetStored, ListOK
  <2> QED
    BY <2>5, <2>6, <2>7, <2>8, <2>9 DEF TimeInv
<1> QED
  BY <1>3, <1>4, <1>5

LEMMA InitTimeInv == Init => TimeInv
<1> SUFFICES ASSUME Init PROVE TimeInv
  OBVIOUS
<1>1. /\ Grace \in Nat /\ StartWall \in Nat /\ RebootGap \in Nat
  BY NetworkRecoveryAssumption
<1>2. StoredTimed(disk) /\ disk.action_times = << >>
  <2>1. PICK enabled \in BOOLEAN, reboot_after \in BOOLEAN :
            disk = [DefaultStored EXCEPT !.enabled = enabled, !.reboot_after = reboot_after]
    BY DEF Init
  <2>2. disk = [enabled |-> enabled, reboot_after |-> reboot_after, paused |-> FALSE,
                redials |-> 0, next_allowed |-> 0, last_reboot |-> 0, action_times |-> << >>]
    BY <2>1 DEF DefaultStored
  <2> QED
    BY <2>2 DEF StoredTimed
<1>3. /\ Timed(rec) /\ rec.stored = disk /\ rec.clock_generation = 0
      /\ rec.startup_until = StartWall + Grace
  BY <1>1, <1>2 DEF Init, Load, Timed
<1>4. ~StepPending
  BY <1>3 DEF Init, StepPending
<1>5. TimeTypes
  BY <1>1, <1>3 DEF Init, TimeTypes, WorkerStates
<1>6. RoundKnowsClock /\ QuietKept /\ RebootStored /\ RebootPlanned
  BY <1>1, <1>3, <1>4 DEF Init, RoundKnowsClock, QuietKept, RebootStored, RebootPlanned
<1>7. BudgetStored
  <2>1. DOMAIN << >> = {}
    OBVIOUS
  <2>2. IsFiniteSet({}) /\ Cardinality({}) = 0
    BY FS_EmptySet
  <2>3. HourlyLimit \in Nat
    BY NetworkRecoveryAssumption
  <2>4. DOMAIN rec.stored.action_times = {} /\ DOMAIN recent = {}
    BY <1>2, <1>3, <2>1 DEF Init
  <2>5. wpc # "planned"
    BY DEF Init
  <2>6. ListOK(rec.stored.action_times)
    BY <2>2, <2>3, <2>4 DEF ListOK
  <2> QED
    BY <2>4, <2>5, <2>6 DEF BudgetStored
<1> QED
  BY <1>5, <1>6, <1>7 DEF TimeInv

LEMMA StepTimeInv == TimeInv /\ [Next]_vars => TimeInv'
<1> SUFFICES ASSUME TimeInv, [Next]_vars PROVE TimeInv'
  OBVIOUS
<1>1. CASE UNCHANGED vars
  BY <1>1 DEF TimeInv, TimeTypes, Timed, StoredTimed, RoundKnowsClock, QuietKept, RebootStored,
              RebootPlanned, BudgetStored, ListOK, StepPending, vars, recovery, worker, history, kept
<1>2. CASE Next
  BY <1>2, UserTimeInv, ObserveTimeInv, CallTimeInv, StartTimeInv, MakePlanTimeInv,
     BeginPlanTimeInv, EnvironmentTimeInv DEF Next
<1> QED
  BY <1>1, <1>2

\* In every state the stored times and the real ones agree as TimeInv says.
THEOREM TimesAgree == Spec => []TimeInv
BY InitTimeInv, StepTimeInv, PTL DEF Spec

\* Recovery makes no plan within Grace of real time of a start, a settings
\* change or a user's control (Recovery::observe behind may_probe), whatever
\* the clock, the disk and restarts do.
THEOREM QuietBeforePlanHolds == Spec => QuietBeforePlan
<1>1. TimeInv /\ [Next]_vars =>
          [wpc = "probing" /\ wpc' = "planned" => quiet >= Grace]_vars
  <2> SUFFICES ASSUME TimeInv, Next, wpc = "probing", wpc' = "planned"
               PROVE  quiet >= Grace
    OBVIOUS
  <2>1. MakePlan
    BY DEF Next, Update, Resume, Execute, ExecuteDone, StartRound, Hold, Discard,
           ObserveOnline, ObserveOffline, BeginPlan, SkipPlan, BeginConnect, SkipConnect,
           EndCall, Tick, CorrectClock, Restart, EndRound, worker
  <2> QED
    BY <2>1, PlanIsDue DEF MakePlan
<1> QED
  BY <1>1, TimesAgree, PTL DEF Spec, QuietBeforePlan

\* Two automatic reboots are at least RebootGap of real time apart, unless
\* datad restarted after a clock step that no round had seen.
THEOREM RebootSpacingHolds == Spec => RebootSpacing
<1>1. TimeInv /\ [Next]_vars =>
          [wpc = "planned" /\ wpc' = "rebooting" => rebootAge >= RebootGap \/ stepLost]_vars
  <2> SUFFICES ASSUME TimeInv, Next, wpc = "planned", wpc' = "rebooting"
               PROVE  rebootAge >= RebootGap \/ stepLost
    OBVIOUS
  <2>1. BeginPlan /\ plan.reboot
    BY DEF Next, Update, Resume, Execute, ExecuteDone, StartRound, Hold, Discard, CanObserve,
           ObserveOnline, ObserveOffline, MakePlan, BeginPlan, SkipPlan, BeginConnect,
           SkipConnect, EndCall, Tick, CorrectClock, Restart, EndRound, worker
  <2> QED
    BY <2>1 DEF TimeInv, RebootPlanned
<1> QED
  BY <1>1, TimesAgree, PTL DEF Spec, RebootSpacing

\* In any Hour of real time recovery acts at most HourlyLimit times, with the
\* same exception: the budget is written before the plan exists, and a step of
\* the clock rebases it (Recovery::observe, Recovery::may_probe).
THEOREM HourlyBudgetHolds == Spec => []HourlyBudget
<1>1. TimeInv => HourlyBudget
  <2> SUFFICES ASSUME TimeInv, ~stepLost
               PROVE  Cardinality(DOMAIN recent) <= HourlyLimit
    BY DEF HourlyBudget
  <2> DEFINE names == DOMAIN rec.stored.action_times
  <2>1. DOMAIN recent \subseteq names /\ IsFiniteSet(names) /\ Cardinality(names) <= HourlyLimit
    BY DEF TimeInv, BudgetStored, ListOK
  <2>2. /\ Cardinality(DOMAIN recent) <= Cardinality(names)
        /\ Cardinality(DOMAIN recent) \in Nat /\ Cardinality(names) \in Nat
    BY <2>1, FS_Subset, FS_CardinalityType
  <2> QED
    BY <2>1, <2>2, NetworkRecoveryAssumption
<1> QED
  BY <1>1, TimesAgree, PTL

\* Recovery keeps its limits in real time (Recovery::observe).
THEOREM LimitsKeptHolds == Spec => LimitsKept
BY HourlyBudgetHolds, QuietBeforePlanHolds, RebootSpacingHolds, PTL DEF LimitsKept


-----------------------------------------------------------------------------
(* Types, with the limits of the loader, and that the history never uses a  *)
(* name twice, so that it counts every action.                              *)

StoredOK == {s \in Stored : s.redials <= MaxRedials /\ ListOK(s.action_times)}

Recoveries ==
    [stored : StoredOK, generation : Nat, failures : 0..Threshold,
     successes : 0..2, storage_ok : BOOLEAN, startup_until : Nat,
     clock_generation : Nat]

TypeInv ==
    /\ wall \in Nat /\ clock \in Nat /\ errors \in Nat
    /\ disk \in StoredOK /\ rec \in Recoveries
    /\ gate \in {"free", "user", "worker"}
    /\ wpc \in WorkerStates
    /\ round \in Nat
    /\ plan \in [generation : Nat, reboot : BOOLEAN, name : Nat]
    /\ quiet \in 0..Grace
    /\ rebootAge \in 0..RebootGap
    /\ userOff \in BOOLEAN /\ stepLost \in BOOLEAN /\ overruled \in BOOLEAN
    /\ IsFiniteSet(DOMAIN recent)
    /\ wpc = "planned" => plan.name \notin DOMAIN recent

\* A list is a function from names to times.
LEMMA ListMember ==
    ASSUME NEW names \in SUBSET Nat, NEW f \in [names -> Nat]
    PROVE  f \in Lists
BY DEF Lists

\* There is always a new name.
LEMMA NameIsNew ==
    ASSUME NEW taken, IsFiniteSet(taken)
    PROVE  NewName(taken) \in Nat /\ NewName(taken) \notin taken
<1> DEFINE c == Cardinality(taken)
           few == 1..(c + 1)
<1>1. c \in Nat
  BY FS_CardinalityType
<1> HIDE DEF c
<1>2. IsFiniteSet(few) /\ Cardinality(few) = c + 1
  BY <1>1, FS_Interval
<1>3. \E n \in few : n \notin taken
  <2> SUFFICES ASSUME few \subseteq taken PROVE FALSE
    OBVIOUS
  <2>1. Cardinality(few) <= c
    BY FS_Subset DEF c
  <2> QED
    BY <1>1, <1>2, <2>1
<1>4. NewName(taken) = CHOOSE n \in few : n \notin taken
  BY DEF NewName, c
<1>5. NewName(taken) \in few /\ NewName(taken) \notin taken
  BY <1>3, <1>4
<1> QED
  BY <1>1, <1>5

\* A field of a Recovery value is replaced by one of its type.
LEMMA SetRecovery ==
    ASSUME NEW r \in Recoveries
    PROVE  /\ \A x \in StoredOK : [r EXCEPT !.stored = x] \in Recoveries
           /\ \A x \in Nat : [r EXCEPT !.generation = x] \in Recoveries
           /\ \A x \in 0..Threshold : [r EXCEPT !.failures = x] \in Recoveries
           /\ \A x \in 0..2 : [r EXCEPT !.successes = x] \in Recoveries
           /\ \A x \in BOOLEAN : [r EXCEPT !.storage_ok = x] \in Recoveries
           /\ \A x \in Nat : [r EXCEPT !.startup_until = x] \in Recoveries
           /\ \A x \in Nat : [r EXCEPT !.clock_generation = x] \in Recoveries
<1> DEFINE fails == 0..Threshold
           wins == 0..2
           Rs == [stored : StoredOK, generation : Nat, failures : fails,
                  successes : wins, storage_ok : BOOLEAN, startup_until : Nat,
                  clock_generation : Nat]
<1>1. Recoveries = Rs
  BY DEF Recoveries
<1> HIDE DEF fails, wins
<1>2. \A x \in StoredOK : [r EXCEPT !.stored = x] \in Rs
  BY <1>1
<1>3. \A x \in Nat : [r EXCEPT !.generation = x] \in Rs
  BY <1>1
<1>4. \A x \in fails : [r EXCEPT !.failures = x] \in Rs
  BY <1>1
<1>5. \A x \in wins : [r EXCEPT !.successes = x] \in Rs
  BY <1>1
<1>6. \A x \in BOOLEAN : [r EXCEPT !.storage_ok = x] \in Rs
  BY <1>1
<1>7. \A x \in Nat : [r EXCEPT !.startup_until = x] \in Rs
  BY <1>1
<1>8. \A x \in Nat : [r EXCEPT !.clock_generation = x] \in Rs
  BY <1>1
<1> QED
  BY <1>1, <1>2, <1>3, <1>4, <1>5, <1>6, <1>7, <1>8 DEF fails, wins

\* A write keeps the types.
LEMMA StoreTypes ==
    ASSUME NEW next \in StoredOK, NEW after \in Recoveries, NEW otherwise \in Recoveries,
           disk \in StoredOK, errors \in Nat, Store(next, after, otherwise)
    PROVE  disk' \in StoredOK /\ rec' \in Recoveries /\ errors' \in Nat
<1>1. CASE /\ disk' = next
           /\ rec' = [after EXCEPT !.stored = next, !.storage_ok = TRUE]
           /\ UNCHANGED errors
  <2> DEFINE half == [after EXCEPT !.stored = next]
  <2>1. half \in Recoveries
    BY SetRecovery
  <2>2. rec' = [half EXCEPT !.storage_ok = TRUE]
    BY <1>1
  <2> HIDE DEF half
  <2>3. rec' \in Recoveries
    BY <2>1, <2>2, SetRecovery
  <2> QED
    BY <1>1, <2>3
<1>2. CASE /\ MayUpset
           /\ errors' = errors + 1
           /\ rec' = [otherwise EXCEPT !.storage_ok = FALSE]
           /\ UNCHANGED disk
  <2>1. rec' \in Recoveries
    BY <1>2, SetRecovery
  <2> QED
    BY <1>2, <2>1
<1> QED
  BY <1>1, <1>2 DEF Store

LEMMA ChangedTypes ==
    ASSUME rec \in Recoveries
    PROVE  Changed(rec) \in Recoveries /\ [rec EXCEPT !.generation = @ + 1] \in Recoveries
<1> DEFINE g == rec.generation + 1
           bumped == [rec EXCEPT !.generation = g]
<1>1. g \in Nat /\ 0 \in 0..Threshold
  BY NetworkRecoveryAssumption DEF Recoveries
<1>2. /\ bumped = [rec EXCEPT !.generation = @ + 1]
      /\ Changed(rec) = [bumped EXCEPT !.failures = 0]
  BY DEF Changed, Recoveries
<1> HIDE DEF g
<1>3. bumped \in Recoveries
  BY <1>1, SetRecovery
<1> HIDE DEF bumped
<1>4. Changed(rec) \in Recoveries
  BY <1>1, <1>2, <1>3, SetRecovery
<1> QED
  BY <1>2, <1>3, <1>4

\* The ends of a round.
LEMMA EndRoundTypes ==
    ASSUME TypeInv, EndRound
    PROVE  /\ wpc' \in WorkerStates /\ wpc' # "planned" /\ round' \in Nat
           /\ plan' \in [generation : Nat, reboot : BOOLEAN, name : Nat]
           /\ overruled' \in BOOLEAN
BY DEF EndRound, NoPlan, WorkerStates

LEMMA UserTypes ==
    ASSUME TypeInv,
           \/ \E enabled, reboot_after \in BOOLEAN : Update(enabled, reboot_after)
           \/ Resume
           \/ \E action \in Actions : Execute(action)
           \/ ExecuteDone
    PROVE  TypeInv'
<1>1. /\ wall \in Nat /\ errors \in Nat /\ disk \in StoredOK /\ rec \in Recoveries
      /\ rec.stored \in StoredOK /\ rec.stored.next_allowed \in Nat
  BY DEF TypeInv, Recoveries, StoredOK, Stored
<1> DEFINE soon == NotBefore(rec.stored)
<1>2. soon \in Nat
  BY <1>1, NetworkRecoveryAssumption DEF NotBefore, Most
<1>3. Changed(rec) \in Recoveries /\ [rec EXCEPT !.generation = @ + 1] \in Recoveries
  BY <1>1, ChangedTypes
<1> HIDE DEF soon
<1>4. 0 \in 0..Grace
  BY NetworkRecoveryAssumption
<1>5. ASSUME NEW enabled \in BOOLEAN, NEW reboot_after \in BOOLEAN,
             Update(enabled, reboot_after)
      PROVE  TypeInv'
  <2> DEFINE next == [rec.stored EXCEPT !.enabled = enabled, !.reboot_after = reboot_after,
                                        !.next_allowed = soon]
  <2>1. next \in StoredOK
    BY <1>1, <1>2 DEF StoredOK, Stored
  <2>2. Store(next, Changed(rec), rec)
    BY <1>5 DEF Update, soon
  <2> HIDE DEF next
  <2>3. disk' \in StoredOK /\ rec' \in Recoveries /\ errors' \in Nat
    BY <1>1, <1>3, <2>1, <2>2, StoreTypes
  <2>4. /\ UNCHANGED <<wall, clock, gate, wpc, round, plan, recent, rebootAge, userOff,
                       stepLost, overruled>>
        /\ quiet' \in {0, quiet}
    BY <1>5 DEF Update, worker
  <2> QED
    BY <1>4, <2>3, <2>4 DEF TypeInv
<1>6. CASE Resume
  <2> DEFINE next == [rec.stored EXCEPT !.paused = FALSE, !.redials = 0,
                                        !.next_allowed = soon]
  <2>1. next \in StoredOK
    <3>1. rec.stored \in Stored /\ ListOK(rec.stored.action_times) /\ MaxRedials \in Nat
      BY <1>1, NetworkRecoveryAssumption DEF StoredOK
    <3>2. /\ next \in Stored /\ next.redials = 0
          /\ next.action_times = rec.stored.action_times
      BY <1>2, <3>1 DEF Stored
    <3> HIDE DEF next
    <3>3. next.redials <= MaxRedials
      BY <3>1, <3>2
    <3> QED
      BY <3>1, <3>2, <3>3 DEF StoredOK
  <2>2. Store(next, Changed(rec), rec)
    BY <1>6 DEF Resume, soon
  <2> HIDE DEF next
  <2>3. disk' \in StoredOK /\ rec' \in Recoveries /\ errors' \in Nat
    BY <1>1, <1>3, <2>1, <2>2, StoreTypes
  <2>4. /\ UNCHANGED <<wall, clock, gate, wpc, round, plan, recent, rebootAge,
                       stepLost, overruled>>
        /\ quiet' \in {0, quiet}
    BY <1>6 DEF Resume, worker
  <2>5. userOff' \in BOOLEAN
    BY <1>6, Zenon DEF Resume
  <2> QED
    BY <1>4, <2>3, <2>4, <2>5 DEF TypeInv
<1>7. ASSUME NEW action \in Actions, Execute(action)
      PROVE  TypeInv'
  <2>1. disk' \in StoredOK /\ rec' \in Recoveries /\ errors' \in Nat
    <3>1. CASE PausedBy(action) # rec.stored.paused \/ rec.stored.enabled
      <4> DEFINE next == IntentStored(action)
                 bumped == [rec EXCEPT !.generation = @ + 1]
      <4>1. PausedBy(action) \in BOOLEAN
        BY <1>1 DEF PausedBy, Actions, StoredOK, Stored
      <4>2. next \in StoredOK
        BY <1>1, <1>2, <4>1 DEF IntentStored, StoredOK, Stored, soon
      <4>3. Store(next, Changed(rec), bumped)
        BY <1>7, <3>1 DEF Execute, ManualIntent
      <4> HIDE DEF next
      <4> QED
        BY <1>1, <1>3, <4>2, <4>3, StoreTypes
    <3>2. CASE ~(PausedBy(action) # rec.stored.paused \/ rec.stored.enabled)
      <4>1. rec' = Changed(rec) /\ UNCHANGED <<disk, errors>>
        BY <1>7, <3>2 DEF Execute, ManualIntent
      <4> QED
        BY <1>1, <1>3, <4>1
    <3> QED
      BY <3>1, <3>2
  <2>2. /\ UNCHANGED <<wall, clock, wpc, round, plan, recent, rebootAge, stepLost>>
        /\ quiet' = 0 /\ gate' = "user"
    BY <1>7 DEF Execute, worker
  <2>3. overruled' \in BOOLEAN
    BY <1>7 DEF Execute
  <2>4. userOff' \in BOOLEAN
    <3>1. userOff \in BOOLEAN
      BY DEF TypeInv
    <3>2. CASE action \in {"disconnect", "poweroff"}
      <4>1. userOff' = (userOff \/ errors' = errors)
        BY <1>7, <3>2 DEF Execute
      <4> QED
        BY <4>1, Zenon
    <3>3. CASE action = "connect"
      <4>1. userOff' = FALSE
        BY <1>7, <3>3 DEF Execute
      <4> QED
        BY <4>1
    <3>4. CASE action = "other"
      <4>1. userOff' = userOff
        BY <1>7, <3>4 DEF Execute
      <4> QED
        BY <3>1, <4>1
    <3> QED
      BY <3>2, <3>3, <3>4 DEF Actions
  <2> QED
    BY <1>4, <2>1, <2>2, <2>3, <2>4 DEF TypeInv
<1>8. CASE ExecuteDone
  BY <1>8 DEF ExecuteDone, TypeInv, recovery, worker, history, kept
<1> QED
  BY <1>5, <1>6, <1>7, <1>8

LEMMA DownTypes ==
    ASSUME rec \in Recoveries
    PROVE  /\ Down \in Recoveries /\ [Down EXCEPT !.failures = 0] \in Recoveries
<1>1. rec.failures \in 0..Threshold /\ Threshold \in Nat
  BY NetworkRecoveryAssumption DEF Recoveries
<1>2. Least(rec.failures + 1, Threshold) \in 0..Threshold
  BY <1>1 DEF Least
<1> DEFINE f == Least(rec.failures + 1, Threshold)
           half == [rec EXCEPT !.successes = 0]
<1>0. 0 \in 0..2
  OBVIOUS
<1>3. half \in Recoveries
  BY <1>0, SetRecovery
<1>4. Down = [half EXCEPT !.failures = f]
  BY DEF Down, Recoveries
<1> HIDE DEF half, f
<1>5. Down \in Recoveries
  BY <1>2, <1>3, <1>4, SetRecovery DEF f
<1>6. 0 \in 0..Threshold
  BY <1>1
<1>7. [Down EXCEPT !.failures = 0] \in Recoveries
  BY <1>5, <1>6, SetRecovery
<1> QED
  BY <1>5, <1>7

LEMMA PlanTypes ==
    ASSUME TypeInv, TimeInv, MakePlan
    PROVE  TypeInv'
<1>1. /\ wall \in Nat /\ errors \in Nat /\ disk \in StoredOK /\ rec \in Recoveries
      /\ rec.stored \in StoredOK /\ rec.stored \in Stored
      /\ rec.stored.redials \in Nat /\ rec.stored.redials <= MaxRedials
      /\ rec.stored.last_reboot \in Nat /\ rec.generation \in Nat
      /\ wpc = "probing"
  BY DEF TypeInv, Recoveries, StoredOK, Stored, MakePlan, CanObserve
<1>2. MaxRedials \in Nat /\ Cooldown \in Nat
  BY NetworkRecoveryAssumption
<1> DEFINE list == With(StillSpent, PlanName, wall)
           last == IF WantsReboot THEN wall ELSE rec.stored.last_reboot
           again == IF WantsReboot THEN rec.stored.redials ELSE rec.stored.redials + 1
           next == [rec.stored EXCEPT !.action_times = list, !.next_allowed = wall + Cooldown,
                                      !.last_reboot = last, !.redials = again]
<1>3. PlanName \in Nat /\ PlanName \notin DOMAIN recent
  <2> DEFINE taken == DOMAIN rec.stored.action_times \cup DOMAIN recent
  <2>1. IsFiniteSet(DOMAIN rec.stored.action_times) /\ IsFiniteSet(DOMAIN recent)
    BY DEF TimeInv, BudgetStored, ListOK, TypeInv
  <2>2. IsFiniteSet(taken)
    BY <2>1, FS_Union
  <2> HIDE DEF taken
  <2>3. NewName(taken) \in Nat /\ NewName(taken) \notin taken
    BY <2>2, NameIsNew
  <2> QED
    BY <2>3 DEF PlanName, taken
<1>4. ListOK(list)
  BY PlannedList DEF MakePlan
<1>5. list \in Lists
  <2>1. rec.stored.action_times \in Lists
    BY <1>1 DEF Stored
  <2>2. DOMAIN rec.stored.action_times \subseteq Nat
    BY <2>1 DEF Lists
  <2>3. DOMAIN StillSpent \subseteq Nat
    BY <2>2 DEF StillSpent, Retained
  <2>4. DOMAIN list \subseteq Nat /\ list = [n \in DOMAIN list |-> list[n]]
    BY <1>3, <2>3 DEF With
  <2>5. \A n \in DOMAIN list : list[n] \in Nat
    BY <1>4 DEF ListOK
  <2> HIDE DEF list
  <2>6. list \in [DOMAIN list -> Nat]
    BY <2>4, <2>5
  <2> QED
    BY <2>4, <2>6, ListMember
<1>6. last \in Nat /\ wall + Cooldown \in Nat
  BY <1>1, <1>2
<1>7. again \in Nat /\ again <= MaxRedials
  BY <1>1, <1>2 DEF WantsReboot
<1>8. Store(next, [Down EXCEPT !.failures = 0], Down)
  <2>1. next = [rec.stored EXCEPT
                   !.action_times = With(StillSpent, PlanName, wall),
                   !.next_allowed = wall + Cooldown,
                   !.last_reboot = IF WantsReboot THEN wall ELSE @,
                   !.redials = IF WantsReboot THEN @ ELSE @ + 1]
    BY <1>1 DEF Stored
  <2> QED
    BY <2>1 DEF MakePlan
<1> HIDE DEF list, last, again
<1>9. next \in StoredOK
  <2>1. next \in Stored /\ next.redials = again /\ next.action_times = list
    BY <1>1, <1>5, <1>6, <1>7 DEF Stored
  <2> QED
    BY <1>4, <1>7, <2>1 DEF StoredOK
<1> HIDE DEF next
<1>10. disk' \in StoredOK /\ rec' \in Recoveries /\ errors' \in Nat
  BY <1>1, <1>8, <1>9, DownTypes, StoreTypes
<1>11. UNCHANGED <<wall, clock, gate, recent, rebootAge, quiet, userOff, stepLost>>
  BY DEF MakePlan, kept
<1>12. CASE errors' = errors
  <2>1. /\ wpc' = "planned" /\ UNCHANGED <<round, overruled>>
        /\ plan' = [generation |-> rec.generation, reboot |-> WantsReboot,
                    name |-> PlanName]
    BY <1>12 DEF MakePlan
  <2>2. plan' \in [generation : Nat, reboot : BOOLEAN, name : Nat] /\ plan'.name = PlanName
    BY <1>1, <1>3, <2>1 DEF WantsReboot
  <2> QED
    BY <1>3, <1>10, <1>11, <2>1, <2>2 DEF TypeInv, WorkerStates
<1>13. CASE errors' # errors
  <2>1. EndRound
    BY <1>13 DEF MakePlan
  <2> QED
    BY <1>10, <1>11, <2>1, EndRoundTypes DEF TypeInv
<1> QED
  BY <1>12, <1>13


LEMMA RoundTypes ==
    ASSUME TypeInv, StartRound \/ Hold \/ Discard \/ ObserveOnline \/ ObserveOffline
    PROVE  TypeInv'
<1>1. /\ wall \in Nat /\ clock \in Nat /\ errors \in Nat /\ disk \in StoredOK
      /\ rec \in Recoveries /\ rec.stored \in StoredOK /\ rec.stored \in Stored
  BY DEF TypeInv, Recoveries, StoredOK
<1>2. Grace \in Nat /\ Cooldown \in Nat /\ Threshold \in Nat /\ MaxRedials \in Nat
  BY NetworkRecoveryAssumption
<1>3. CASE StartRound
  <2>1. disk' \in StoredOK /\ rec' \in Recoveries /\ errors' \in Nat
    <3>1. CASE rec.clock_generation = clock
      BY <1>1, <1>3, <3>1 DEF StartRound, recovery
    <3>2. CASE rec.clock_generation # clock
      <4> DEFINE times == rec.stored.action_times
                 filled == [n \in DOMAIN times |-> wall]
                 last == IF rec.stored.last_reboot # 0 THEN wall ELSE 0
                 next == [rec.stored EXCEPT !.action_times = filled, !.last_reboot = last,
                                            !.next_allowed = wall + Cooldown]
                 base == Changed(rec)
                 after == [base EXCEPT !.clock_generation = clock,
                                       !.startup_until = wall + Grace, !.successes = 0]
      <4>1. next = Rebased(rec.stored)
        BY <1>1 DEF Rebased, Stored
      <4>2. Store(next, after, rec)
        BY <1>3, <3>2, <4>1 DEF StartRound
      <4>3. base \in Recoveries
        BY <1>1, ChangedTypes
      <4> HIDE DEF base
      <4>4. after \in Recoveries
        <5> DEFINE until == wall + Grace
                   one == [base EXCEPT !.clock_generation = clock]
                   two == [one EXCEPT !.startup_until = until]
        <5>1. until \in Nat
          BY <1>1, <1>2
        <5>2. after = [two EXCEPT !.successes = 0]
          OBVIOUS
        <5> HIDE DEF until, after
        <5>3. one \in Recoveries
          BY <1>1, <4>3, SetRecovery
        <5> HIDE DEF one
        <5>4. two \in Recoveries
          BY <5>1, <5>3, SetRecovery
        <5> HIDE DEF two
        <5>5. 0 \in 0..2
          OBVIOUS
        <5> QED
          BY <5>2, <5>4, <5>5, SetRecovery
      <4>5. times \in Lists /\ ListOK(times)
        BY <1>1 DEF StoredOK, Stored
      <4>6. DOMAIN times \subseteq Nat
        BY <4>5 DEF Lists
      <4> HIDE DEF times
      <4>7. filled \in [DOMAIN times -> Nat] /\ DOMAIN filled = DOMAIN times
        BY <1>1
      <4> HIDE DEF filled
      <4>8. filled \in Lists /\ ListOK(filled)
        BY <4>5, <4>6, <4>7, ListMember DEF ListOK
      <4>9. last \in Nat /\ wall + Cooldown \in Nat
        BY <1>1, <1>2
      <4> HIDE DEF last
      <4>10. /\ next \in Stored /\ next.redials = rec.stored.redials
             /\ next.action_times = filled
        BY <1>1, <4>8, <4>9 DEF Stored
      <4>11. next \in StoredOK
        BY <1>1, <4>8, <4>10 DEF StoredOK
      <4> HIDE DEF next, after
      <4> QED
        BY <1>1, <4>2, <4>4, <4>11, StoreTypes
    <3> QED
      BY <3>1, <3>2
  <2>2. /\ UNCHANGED <<wall, clock, gate, plan, recent, rebootAge, quiet, userOff, stepLost,
                       overruled>>
        /\ \/ wpc' = "probing" /\ round' = rec'.generation
           \/ wpc' = wpc /\ round' = round /\ wpc = "sleeping"
    BY <1>3 DEF StartRound, history, kept
  <2>3. rec'.generation \in Nat
    BY <2>1 DEF Recoveries
  <2> QED
    BY <2>1, <2>2, <2>3 DEF TypeInv, WorkerStates
<1>4. CASE Hold \/ Discard \/ ObserveOnline \/ ObserveOffline
  <2>1. EndRound /\ UNCHANGED <<wall, clock, gate, recent, rebootAge, quiet, userOff, stepLost>>
    BY <1>4 DEF Hold, Discard, ObserveOnline, ObserveOffline, kept
  <2>2. disk' \in StoredOK /\ rec' \in Recoveries /\ errors' \in Nat
    <3>1. CASE Hold
      <4>1. rec' = [rec EXCEPT !.failures = 0, !.successes = 0] /\ UNCHANGED <<disk, errors>>
        BY <3>1 DEF Hold
      <4>2. 0 \in 0..Threshold /\ 0 \in 0..2
        BY <1>2
      <4> DEFINE half == [rec EXCEPT !.failures = 0]
      <4>3. half \in Recoveries /\ rec' = [half EXCEPT !.successes = 0]
        BY <1>1, <4>1, <4>2, SetRecovery
      <4> HIDE DEF half
      <4> QED
        BY <1>1, <4>1, <4>2, <4>3, SetRecovery
    <3>2. CASE Discard
      BY <1>1, <3>2 DEF Discard, recovery
    <3>3. CASE ObserveOffline
      BY <1>1, <3>3, DownTypes DEF ObserveOffline
    <3>4. CASE ObserveOnline
      <4> DEFINE s == Least(rec.successes + 1, 2)
                 up == [rec EXCEPT !.failures = 0, !.successes = s]
                 next == [rec.stored EXCEPT !.redials = 0]
      <4>1. \/ Store(next, up, up)
            \/ rec' = up /\ UNCHANGED <<disk, errors>>
        BY <1>1, <3>4 DEF ObserveOnline, Recoveries
      <4>2. s \in 0..2
        BY <1>1 DEF Least, Recoveries
      <4> HIDE DEF s
      <4>3. up \in Recoveries
        <5> DEFINE half == [rec EXCEPT !.failures = 0]
        <5>1. 0 \in 0..Threshold
          BY <1>2
        <5>2. half \in Recoveries /\ up = [half EXCEPT !.successes = s]
          BY <1>1, <5>1, SetRecovery
        <5> HIDE DEF half, up
        <5> QED
          BY <4>2, <5>2, SetRecovery
      <4>4. next \in StoredOK
        BY <1>1, <1>2 DEF StoredOK, Stored
      <4> HIDE DEF up, next
      <4> QED
        BY <1>1, <4>1, <4>3, <4>4, StoreTypes
    <3> QED
      BY <1>4, <3>1, <3>2, <3>3, <3>4
  <2> QED
    BY <2>1, <2>2, EndRoundTypes DEF TypeInv
<1> QED
  BY <1>3, <1>4

LEMMA CallTypes ==
    ASSUME TypeInv, BeginPlan \/ SkipPlan \/ BeginConnect \/ SkipConnect \/ EndCall
    PROVE  TypeInv'
<1>1. UNCHANGED <<wall, clock, disk, rec, errors, quiet, userOff, stepLost>>
  BY DEF BeginPlan, SkipPlan, BeginConnect, SkipConnect, EndCall, recovery, history, kept
<1>2. CASE BeginPlan
  <2>1. /\ UNCHANGED <<round, plan, overruled>>
        /\ gate' = "worker" /\ wpc' \in {"rebooting", "disconnecting"}
        /\ rebootAge' \in {0, rebootAge}
        /\ recent' = With(recent, plan.name, 0)
    BY <1>2 DEF BeginPlan
  <2>2. DOMAIN recent' = DOMAIN recent \cup {plan.name}
    BY <2>1 DEF With
  <2>3. IsFiniteSet(DOMAIN recent')
    BY <2>2, FS_AddElement DEF TypeInv
  <2>4. 0 \in 0..RebootGap
    BY NetworkRecoveryAssumption
  <2> QED
    BY <1>1, <2>1, <2>3, <2>4 DEF TypeInv, WorkerStates
<1>3. CASE SkipPlan \/ BeginConnect \/ SkipConnect \/ EndCall
  <2>1. /\ UNCHANGED <<recent, rebootAge>>
        /\ gate' \in {gate, "worker", "free"}
        /\ EndRound \/ /\ UNCHANGED <<round, plan, overruled>>
                       /\ wpc' \in {"redialing", "connecting"}
    BY <1>3 DEF SkipPlan, BeginConnect, SkipConnect, EndCall, history, kept
  <2> QED
    BY <1>1, <2>1, EndRoundTypes DEF TypeInv, WorkerStates
<1> QED
  BY <1>2, <1>3

LEMMA EnvironmentTypes ==
    ASSUME TypeInv,
           Tick \/ (\E now \in 1..MaxWall : CorrectClock(now)) \/ Restart
    PROVE  TypeInv'
<1>1. Grace \in Nat /\ RebootGap \in Nat /\ MaxWall \in Nat /\ Threshold \in Nat
  BY NetworkRecoveryAssumption
<1>2. CASE Tick
  <2>1. /\ UNCHANGED <<clock, disk, rec, errors, gate, wpc, round, plan, userOff, stepLost,
                       overruled>>
        /\ wpc \in {"sleeping", "probing"} /\ wall' = wall + 1 /\ recent' = Older(recent)
        /\ rebootAge' = Least(rebootAge + 1, RebootGap)
        /\ quiet' = Least(quiet + 1, Grace)
    BY <1>2 DEF Tick, recovery, worker
  <2>2. rebootAge' \in 0..RebootGap /\ quiet' \in 0..Grace /\ wall' \in Nat
    BY <1>1, <2>1 DEF TypeInv, Least
  <2>3. DOMAIN recent' \subseteq DOMAIN recent
    BY <2>1 DEF Older, Retained
  <2>4. IsFiniteSet(DOMAIN recent')
    BY <2>3, FS_Subset DEF TypeInv
  <2> QED
    BY <2>1, <2>2, <2>4 DEF TypeInv
<1>3. ASSUME NEW now \in 1..MaxWall, CorrectClock(now)
      PROVE  TypeInv'
  <2>1. /\ UNCHANGED <<disk, rec, errors, gate, wpc, round, plan, recent, rebootAge, quiet,
                       userOff, stepLost, overruled>>
        /\ wall' = now /\ clock' = clock + 1
    BY <1>3 DEF CorrectClock, recovery, worker, history, kept
  <2>2. now \in Nat
    BY <1>1
  <2> QED
    BY <2>1, <2>2 DEF TypeInv
<1>4. CASE Restart
  <2>1. /\ UNCHANGED <<wall, disk, errors, recent, rebootAge, userOff>> /\ EndRound
        /\ rec' = Load(disk, wall) /\ clock' = 0 /\ gate' = "free" /\ quiet' = 0
    BY <1>4 DEF Restart
  <2>2. rec' \in Recoveries
    BY <1>1, <2>1 DEF TypeInv, Load, Recoveries
  <2>3. stepLost' \in BOOLEAN
    BY <1>4, Zenon DEF Restart
  <2> QED
    BY <1>1, <2>1, <2>2, <2>3, EndRoundTypes DEF TypeInv
<1> QED
  BY <1>2, <1>3, <1>4

LEMMA InitTypes == Init => TypeInv
<1> SUFFICES ASSUME Init PROVE TypeInv
  OBVIOUS
<1>1. /\ Grace \in Nat /\ StartWall \in Nat /\ RebootGap \in Nat /\ HourlyLimit \in Nat
      /\ Threshold \in Nat /\ MaxRedials \in Nat
  BY NetworkRecoveryAssumption
<1>2. DOMAIN << >> = {}
  OBVIOUS
<1>3. IsFiniteSet({}) /\ Cardinality({}) = 0
  BY FS_EmptySet
<1>4. << >> \in Lists /\ ListOK(<< >>)
  <2>1. << >> \in [{} -> Nat]
    BY <1>2
  <2>2. << >> \in Lists
    BY <2>1, ListMember
  <2> QED
    BY <1>1, <1>2, <1>3, <2>2 DEF ListOK
<1>5. disk \in StoredOK
  <2>1. PICK enabled \in BOOLEAN, reboot_after \in BOOLEAN :
            disk = [DefaultStored EXCEPT !.enabled = enabled, !.reboot_after = reboot_after]
    BY DEF Init
  <2> DEFINE none == << >>
  <2>2. disk = [enabled |-> enabled, reboot_after |-> reboot_after, paused |-> FALSE,
                redials |-> 0, next_allowed |-> 0, last_reboot |-> 0, action_times |-> none]
    BY <2>1 DEF DefaultStored
  <2>3. none \in Lists /\ ListOK(none)
    BY <1>4
  <2> HIDE DEF none
  <2> QED
    BY <1>1, <2>2, <2>3 DEF StoredOK, Stored
<1>6. rec \in Recoveries
  BY <1>1, <1>5 DEF Init, Load, Recoveries
<1>7. DOMAIN recent = {}
  BY <1>2 DEF Init
<1>8. plan \in [generation : Nat, reboot : BOOLEAN, name : Nat]
  BY DEF Init, NoPlan
<1>9. quiet \in 0..Grace /\ rebootAge \in 0..RebootGap
  BY <1>1 DEF Init
<1>10. /\ wall \in Nat /\ clock \in Nat /\ errors \in Nat /\ round \in Nat
       /\ gate = "free" /\ wpc = "sleeping"
       /\ userOff = FALSE /\ stepLost = FALSE /\ overruled = FALSE
  BY <1>1 DEF Init
<1> QED
  BY <1>3, <1>5, <1>6, <1>7, <1>8, <1>9, <1>10 DEF TypeInv, WorkerStates

\* Every variable keeps its type, and what is written never exceeds the limits
\* that Recovery::load checks, so that a restart does not reject its own file.
THEOREM TypesHold == Spec => []TypeOK
<1>1. TypeInv /\ TimeInv /\ [Next]_vars => TypeInv'
  <2> SUFFICES ASSUME TypeInv, TimeInv, [Next]_vars PROVE TypeInv'
    OBVIOUS
  <2>1. CASE UNCHANGED vars
    BY <2>1 DEF TypeInv, vars, recovery, worker, history, kept
  <2>2. CASE Next
    BY <2>2, UserTypes, RoundTypes, PlanTypes, CallTypes, EnvironmentTypes DEF Next
  <2> QED
    BY <2>1, <2>2
<1>2. TypeInv => TypeOK
  <2> SUFFICES ASSUME TypeInv PROVE TypeOK
    OBVIOUS
  <2>1. /\ disk \in Stored /\ disk.redials <= MaxRedials
        /\ Cardinality(DOMAIN disk.action_times) <= HourlyLimit
    BY DEF TypeInv, StoredOK, ListOK
  <2>2. /\ rec.stored \in Stored /\ rec.generation \in Nat /\ rec.failures \in 0..Threshold
        /\ rec.successes \in 0..2 /\ rec.storage_ok \in BOOLEAN
        /\ rec.startup_until \in Nat /\ rec.clock_generation \in Nat
    BY DEF TypeInv, Recoveries, StoredOK
  <2> QED
    BY <2>1, <2>2 DEF TypeInv, TypeOK
<1> QED
  BY <1>1, <1>2, InitTypes, TimesAgree, PTL DEF Spec

-----------------------------------------------------------------------------
(***************************************************************************)
(* TimeOwnership: what datad changed is given back.  The journal on disk   *)
(* names everything of datad's and puts nothing of its own back (Named);   *)
(* what belongs to somebody else is as its owner wants it, and so is what  *)
(* the journal would put back for the rest (Owned).  An operation works    *)
(* with a copy that says at least as much (Copies), looks for other owners *)
(* before it writes (Looks), and puts back what they want (Wanted), file   *)
(* by file (Progress).                                                     *)
(***************************************************************************)

LEMMA ZoneBool == ASSUME NEW b \in BOOLEAN PROVE (b <=> b = TRUE) /\ (~b <=> b = FALSE)
OBVIOUS

LEMMA ZoneNothing ==
    /\ Time!NoJournal \in Time!JournalType /\ Time!NoJournal.there = FALSE /\ Time!NoJournal.uciOwned = FALSE /\ Time!NoJournal.serviceOwned = FALSE
    /\ \A i \in Time!Files : Time!NoJournal.before[i] = "found" /\ Time!NoJournal.applied[i] = "found"
    /\ \A k \in Time!Keys : Time!NoJournal.uci[k] = "found"
    /\ Time!NoJournal.service = {}
<1>1. FALSE \in BOOLEAN /\ {} \in SUBSET Time!Service OBVIOUS
<1>2. [i \in Time!Files |-> "found"] \in [Time!Files -> Time!Value] /\ [k \in Time!Keys |-> "found"] \in [Time!Keys -> Time!Value] BY DEF Time!Value
<1>3. Time!NoJournal \in Time!JournalType BY <1>1, <1>2 DEF Time!NoJournal, Time!JournalType
<1> QED BY <1>3 DEF Time!NoJournal

\* The fields of a journal.
LEMMA ZoneFields ==
    ASSUME NEW j \in Time!JournalType
    PROVE  /\ j.there \in BOOLEAN /\ j.complete \in BOOLEAN /\ j.uciOwned \in BOOLEAN /\ j.serviceOwned \in BOOLEAN
           /\ j.before \in [Time!Files -> Time!Value] /\ j.applied \in [Time!Files -> Time!Value] /\ j.uci \in [Time!Keys -> Time!Value]
           /\ j.service \in SUBSET Time!Service
BY DEF Time!JournalType

LEMMA ZoneIdle == Time!Idle \in Time!Operations /\ Time!Idle.step = "idle" /\ [Time!Idle EXCEPT !.step = "boot"] \in Time!Operations
                  /\ [Time!Idle EXCEPT !.step = "boot"].step = "boot"
<1>1. 0 \in 0..NFiles + 2 BY OwnershipAssumption
<1>2. FALSE \in BOOLEAN OBVIOUS
<1>3. Time!Idle \in Time!Operations /\ Time!Idle.step = "idle" BY <1>1, <1>2 DEF Time!Idle, Time!Operations
<1>4. [Time!Idle EXCEPT !.step = "boot"] \in Time!Operations BY <1>3 DEF Time!Operations
<1> QED BY <1>3, <1>4 DEF Time!Operations

\* Nothing of the system, the journal and the owners' wishes changes.
LEMMA ZoneStill ==
    ASSUME Time!OwnershipInv, UNCHANGED <<tFile, tUci, tSvc, tJournal, tBase, tReused, tOutside>>
    PROVE  /\ Time!Named' /\ (~tReused => Time!Owned') /\ (~tOutside => Time!Alone')
           /\ Time!InOtherHands(tJournal)' = Time!InOtherHands(tJournal) /\ Time!Exact /\ Time!LeavesForeign
<1>1. Time!Named' BY DEF Time!OwnershipInv, Time!Named, Time!NoJournal
<1>2. ~tReused => Time!Owned' BY DEF Time!OwnershipInv, Time!Owned
<1>3. ~tOutside => Time!Alone' BY DEF Time!OwnershipInv, Time!Alone
<1>4. Time!InOtherHands(tJournal)' = Time!InOtherHands(tJournal) BY DEF Time!InOtherHands, Time!ServiceConflict
<1>5. Time!Exact /\ Time!LeavesForeign BY DEF Time!Exact, Time!LeavesForeign
<1> QED BY <1>1, <1>2, <1>3, <1>4, <1>5

\* An operation ends.
LEMMA ZoneOver ==
    ASSUME tOp' \in {Time!Idle, [Time!Idle EXCEPT !.step = "boot"]}, tOwn' = Time!NoJournal, tForeign' = {},
           tFile' \in [Time!Files -> Time!Value], tUci' \in [Time!Keys -> Time!Value], tSvc' \in Time!Service, tJournal' \in Time!JournalType, tBase' \in Time!Bases,
           Time!Named', ~tReused' => Time!Owned', ~tOutside' => Time!Alone'
    PROVE  Time!OwnershipInv'
<1>1. tOp' \in Time!Operations /\ tOp'.step \in {"idle", "boot"} BY ZoneIdle
<1>2. Time!NoJournal \in Time!JournalType BY ZoneNothing
<1>3. Time!Shapes' BY <1>1, <1>2 DEF Time!Shapes, Time!Early, Time!Applying, Time!PuttingBack, Time!Late
<1>4. Time!Copies' BY <1>1 DEF Time!Copies, Time!Applying, Time!PuttingBack, Time!Late
<1>5. Time!Progress' BY <1>1 DEF Time!Progress, Time!Late
<1>6. Time!Wanted' BY <1>1 DEF Time!Wanted, Time!Applying, Time!PuttingBack, Time!Late
<1>7. Time!Looks' BY <1>1 DEF Time!Looks
<1> QED BY <1>3, <1>4, <1>5, <1>6, <1>7 DEF Time!OwnershipInv

\* How j, which the operation has now, may be ahead of what is on disk.
LEMMA ZoneRollsBack ==
    ASSUME Time!OwnershipInv, tOp.step \in Time!Applying, NEW j \in Time!JournalType, tOwn' = j, UNCHANGED tForeign, j.service = tOwn.service,
           tBase' = tBase, tReused' = tReused, j.serviceOwned = TRUE => j.service # {},
           tOp' = [tOp EXCEPT !.step = "preflight", !.at = 0, !.goal = "rollback"],
           tFile' \in [Time!Files -> Time!Value], tUci' \in [Time!Keys -> Time!Value], tSvc' \in Time!Service, tJournal' \in Time!JournalType, tBase' \in Time!Bases,
           Time!Named', ~tReused' => Time!Owned', ~tOutside' => Time!Alone',
           tJournal'.there = TRUE, j.there = TRUE, j.before = tJournal'.before, j.uci = tJournal'.uci, j.service = tJournal'.service,
           \A i \in Time!Files : j.applied[i] \in {j.before[i], Time!Ours} /\ (tJournal'.applied[i] = Time!Ours => j.applied[i] = Time!Ours),
           tJournal'.uciOwned = TRUE => j.uciOwned = TRUE, tJournal'.serviceOwned = TRUE => j.serviceOwned = TRUE
    PROVE  Time!OwnershipInv'
<1>1. tOp \in Time!Operations /\ 0 \in 0..NFiles + 2 BY OwnershipAssumption DEF Time!OwnershipInv, Time!Shapes
<1>2. tOp' \in Time!Operations BY <1>1 DEF Time!Operations
<1>3. tOp'.step = "preflight" /\ tOp'.goal = "rollback" BY <1>1 DEF Time!Operations
<1>4. tForeign' = {} BY DEF Time!OwnershipInv, Time!Looks, Time!Applying
<1>5. Time!Shapes' BY <1>2, <1>3 DEF Time!Shapes, Time!Early, Time!Applying, Time!PuttingBack, Time!Late
<1>6. Time!Copies' BY <1>3 DEF Time!Copies, Time!Applying, Time!PuttingBack, Time!Late
<1>7. Time!Progress' BY <1>3 DEF Time!Progress, Time!Late
<1>8. ~tReused' => Time!Wanted' BY <1>3 DEF Time!OwnershipInv, Time!Wanted, Time!Applying, Time!PuttingBack, Time!Late
<1>9. Time!Looks' BY <1>4 DEF Time!Looks
<1> QED BY <1>5, <1>6, <1>7, <1>8, <1>9 DEF Time!OwnershipInv

\* An error: a rollback after a step of applying, the end otherwise.
LEMMA ZoneFails ==
    ASSUME Time!OwnershipInv, Time!Busy, NEW r, NEW j \in Time!JournalType, Time!Fails(r, j),
           tFile' \in [Time!Files -> Time!Value], tUci' \in [Time!Keys -> Time!Value], tSvc' \in Time!Service, tJournal' \in Time!JournalType, tBase' \in Time!Bases,
           Time!Named', ~tReused' => Time!Owned', ~tOutside' => Time!Alone',
           tOp.step \in Time!Applying =>
             /\ tJournal'.there = TRUE /\ j.there = TRUE /\ j.before = tJournal'.before /\ j.uci = tJournal'.uci /\ j.service = tJournal'.service
             /\ \A i \in Time!Files : j.applied[i] \in {j.before[i], Time!Ours} /\ (tJournal'.applied[i] = Time!Ours => j.applied[i] = Time!Ours)
             /\ tJournal'.uciOwned = TRUE => j.uciOwned = TRUE
             /\ tJournal'.serviceOwned = TRUE => j.serviceOwned = TRUE
             /\ j.serviceOwned = TRUE => j.service # {}
             /\ j.service = tOwn.service /\ tBase' = tBase /\ tReused' = tReused
    PROVE  Time!OwnershipInv'
<1>1. tOp.step \in {"preflight"} \cup Time!Early \cup Time!Applying \cup Time!PuttingBack BY DEF Time!Busy, Time!OwnershipInv, Time!Shapes, Time!Operations
<1>2. CASE tOp.step \in Time!Applying
  <2>1. tOp.goal = "sync" /\ tOp.step \notin {"sample", "prepare", "snapshot"} BY <1>2 DEF Time!OwnershipInv, Time!Shapes, Time!Applying
  <2>2. tOp' = [tOp EXCEPT !.step = "preflight", !.at = 0, !.goal = "rollback"] /\ tOwn' = j /\ UNCHANGED tForeign BY <2>1 DEF Time!Fails
  <2> QED BY <1>2, <2>2, ZoneRollsBack
<1>3. CASE tOp.step \notin Time!Applying
  <2>1. tOp.goal # "sync" \/ tOp.step \in {"sample", "prepare", "snapshot"} BY <1>1, <1>3 DEF Time!OwnershipInv, Time!Shapes, Time!Early
  <2>2. tOp' = Time!Idle /\ tOwn' = Time!NoJournal /\ tForeign' = {} BY <2>1 DEF Time!Fails, Time!End
  <2> QED BY <2>2, ZoneOver
<1> QED BY <1>2, <1>3

\* The operation's copy against the journal, for the error paths.
LEMMA ZoneOwn ==
    ASSUME Time!OwnershipInv, tOp.step \in Time!Applying \cup Time!PuttingBack \cup {"preflight"}
    PROVE  /\ tOwn \in Time!JournalType /\ tJournal \in Time!JournalType
           /\ tJournal.there = TRUE /\ tOwn.there = TRUE /\ tOwn.before = tJournal.before /\ tOwn.uci = tJournal.uci /\ tOwn.service = tJournal.service
           /\ \A i \in Time!Files : tOwn.applied[i] \in {tOwn.before[i], Time!Ours} /\ (tJournal.applied[i] = Time!Ours => tOwn.applied[i] = Time!Ours)
           /\ tJournal.uciOwned = TRUE => tOwn.uciOwned = TRUE
           /\ tJournal.serviceOwned = TRUE => tOwn.serviceOwned = TRUE
           /\ tOwn.serviceOwned = TRUE => tOwn.service # {}
BY DEF Time!OwnershipInv, Time!Shapes, Time!Copies

\* An error that leaves everything as it is.
LEMMA ZoneFailsStill ==
    ASSUME Time!OwnershipInv, Time!Busy, NEW r, Time!Fails(r, tOwn), UNCHANGED <<tFile, tUci, tSvc, tJournal, tBase, tReused, tOutside>>
    PROVE  Time!OwnershipInv' /\ Time!Exact /\ Time!LeavesForeign
<1>1. /\ Time!Named' /\ (~tReused => Time!Owned') /\ (~tOutside => Time!Alone') /\ Time!Exact /\ Time!LeavesForeign BY ZoneStill
<1>2. /\ tOwn \in Time!JournalType /\ tFile' \in [Time!Files -> Time!Value] /\ tUci' \in [Time!Keys -> Time!Value] /\ tSvc' \in Time!Service
      /\ tJournal' \in Time!JournalType /\ tBase' \in Time!Bases
    BY DEF Time!OwnershipInv, Time!Shapes
<1>3. Time!OwnershipInv' BY <1>1, <1>2, ZoneOwn, ZoneFails
<1> QED BY <1>1, <1>3

\* A step that leaves everything as it is, and goes on.
LEMMA ZoneGoesOnStill ==
    ASSUME Time!OwnershipInv, UNCHANGED <<tFile, tUci, tSvc, tJournal, tOwn, tBase, tReused, tOutside, tForeign>>, tOp' \in Time!Operations,
           tOp'.step \in {"claim", "put", "put_back", "note_back"} => tOp'.at \in Time!Files,
           tOp'.step \in {"uci_set", "uci_back"} => tOp'.at \in Time!Keys,
           tOp'.step \in Time!Early \cup Time!Applying => tOp'.goal = "sync",
           tOp'.step \in Time!PuttingBack \cup {"preflight"} => tOp'.goal \in {"rollback", "restore", "again"},
           Time!Copies', Time!Progress', ~tReused => Time!Wanted',
           tOp'.step \notin {"sample", "prepare", "preflight"} \/ tOp'.goal = "rollback" \/ tJournal.there = FALSE => tForeign = {}
    PROVE  Time!OwnershipInv' /\ Time!Exact /\ Time!LeavesForeign
<1>1. /\ Time!Named' /\ (~tReused => Time!Owned') /\ (~tOutside => Time!Alone')
      /\ Time!InOtherHands(tJournal)' = Time!InOtherHands(tJournal) /\ Time!Exact /\ Time!LeavesForeign
    BY ZoneStill
<1>2. Time!Shapes' BY DEF Time!OwnershipInv, Time!Shapes
<1>3. Time!Looks' BY <1>1 DEF Time!OwnershipInv, Time!Looks
<1> QED BY <1>1, <1>2, <1>3 DEF Time!OwnershipInv

LEMMA ZoneStep ==
    ASSUME tOp \in Time!Operations, NEW st \in {"idle", "boot", "preflight"} \cup Time!Early \cup Time!Applying \cup Time!PuttingBack, NEW i \in 0..NFiles + 2, Time!Step(st, i)
    PROVE  /\ tOp' \in Time!Operations /\ tOp'.step = st /\ tOp'.at = i /\ tOp'.goal = tOp.goal /\ tOp'.calibrate = tOp.calibrate
           /\ tForeign' = tForeign
<1>1. tOp' = [tOp EXCEPT !.step = st, !.at = i] /\ tForeign' = tForeign BY DEF Time!Step
<1>2. [tOp EXCEPT !.step = st, !.at = i] \in Time!Operations BY DEF Time!Operations
<1> QED BY <1>1, <1>2 DEF Time!Operations

LEMMA ZoneAts == 0 \in 0..NFiles + 2 /\ Time!Files \subseteq 0..NFiles + 2 /\ Time!Keys \subseteq 0..NFiles + 2 /\ NFiles \in Time!Files /\ 1 \in Time!Files
BY OwnershipAssumption DEF Time!Files, Time!Keys

LEMMA ZoneSample == ASSUME Time!OwnershipInv, Time!Sample PROVE Time!OwnershipInv' /\ Time!Exact /\ Time!LeavesForeign
<1>1. tOp.step = "sample" /\ UNCHANGED <<tFile, tUci, tSvc, tJournal, tBase, tReused, tOutside>> BY DEF Time!Sample, Time!system
<1>2. tOp \in Time!Operations /\ tOp.goal = "sync" BY <1>1 DEF Time!OwnershipInv, Time!Shapes, Time!Early
<1>3. CASE Time!Step("prepare", 0) /\ UNCHANGED tOwn
  <2>1. tOp' \in Time!Operations /\ tOp'.step = "prepare" /\ tOp'.goal = "sync" /\ tForeign' = tForeign
    BY <1>2, <1>3, ZoneStep, ZoneAts DEF Time!Early
  <2>2. Time!Copies' /\ Time!Progress' /\ Time!Wanted' BY <2>1 DEF Time!Copies, Time!Progress, Time!Wanted, Time!Applying, Time!PuttingBack, Time!Late
  <2>3. tJournal.there = FALSE => tForeign = {} BY DEF Time!OwnershipInv, Time!Looks
  <2> QED BY <1>1, <1>2, <1>3, <2>1, <2>2, <2>3, ZoneGoesOnStill DEF Time!Applying, Time!PuttingBack, Time!Late
<1>4. CASE Time!Fails("failed", tOwn) BY <1>1, <1>4, ZoneFailsStill DEF Time!Busy
<1> QED BY <1>3, <1>4 DEF Time!Sample

LEMMA ZoneStepFails == ASSUME Time!OwnershipInv, Time!StepFails PROVE Time!OwnershipInv' /\ Time!Exact /\ Time!LeavesForeign
BY ZoneFailsStill DEF Time!StepFails, Time!Busy, Time!system

\* The journal is written: what it has to say.
LEMMA ZoneWrites ==
    ASSUME Time!OwnershipInv, NEW j \in Time!JournalType, j.there = TRUE, tJournal' = j, UNCHANGED <<tFile, tUci, tSvc, tBase, tOutside>>,
           \A i \in Time!Files : tFile[i] = Time!Ours => j.applied[i] = Time!Ours,
           \A k \in Time!Keys : tUci[k] = Time!Ours => j.uciOwned = TRUE,
           \A i \in Time!Files : j.before[i] # Time!Ours /\ j.applied[i] \in {j.before[i], Time!Ours},
           \A k \in Time!Keys : j.uci[k] # Time!Ours, \A s, t \in j.service : s = t, j.serviceOwned = TRUE => j.service # {},
           ~tReused' => /\ \A i \in Time!Files : IF tFile[i] = Time!Ours THEN j.before[i] \in tBase.file[i] ELSE tFile[i] \in tBase.file[i]
                        /\ \A k \in Time!Keys : IF tUci[k] = Time!Ours THEN j.uci[k] \in tBase.uci[k] ELSE tUci[k] \in tBase.uci[k]
                        /\ tSvc \notin tBase.svc => j.serviceOwned = TRUE
                        /\ j.serviceOwned = TRUE /\ (tSvc \notin tBase.svc \/ Time!Off \in tBase.svc) => j.service \subseteq tBase.svc,
           ~tOutside => (\A i \in Time!Files : j.before[i] = "found") /\ (\A k \in Time!Keys : j.uci[k] = "found")
    PROVE  Time!Named' /\ (~tReused' => Time!Owned') /\ (~tOutside' => Time!Alone') /\ Time!Exact /\ Time!LeavesForeign
<1>1. Time!Named' BY DEF Time!Named
<1>2. ~tReused' => Time!Owned' BY DEF Time!Owned, Time!Off
<1>3. ~tOutside' => Time!Alone' BY DEF Time!OwnershipInv, Time!Alone
<1>4. Time!Exact BY DEF Time!Exact
<1>5. Time!LeavesForeign BY DEF Time!LeavesForeign
<1> QED BY <1>1, <1>2, <1>3, <1>4, <1>5

\* Save from a step of applying: j says more than own, which is the journal.
LEMMA ZoneSaves ==
    ASSUME Time!OwnershipInv, tOp.step \in Time!Applying, NEW j \in Time!JournalType, NEW st \in Time!Applying, NEW n \in 0..NFiles + 2, Time!Save(j, st, n),
           UNCHANGED <<tFile, tUci, tSvc, tBase, tOutside, tReused>>,
           j.there = TRUE, j.before = tOwn.before, j.uci = tOwn.uci, j.service = tOwn.service,
           \A i \in Time!Files : j.applied[i] \in {tOwn.applied[i], Time!Ours},
           tOwn.uciOwned = TRUE => j.uciOwned = TRUE, tOwn.serviceOwned = TRUE => j.serviceOwned = TRUE,
           st \in {"claim", "put"} => n \in Time!Files, st = "uci_set" => n \in Time!Keys, st = "put" => j.applied[n] = Time!Ours,
           st \in {"uci_set", "commit", "verify", "seal"} => j.uciOwned = TRUE,
           st \in {"disable", "stop", "service_read"} => j.serviceOwned = TRUE,
           j.serviceOwned = TRUE \/ st = "take_over" => j.service # {}
    PROVE  Time!OwnershipInv' /\ Time!Exact /\ Time!LeavesForeign
<1>1. tOwn = tJournal /\ tOwn \in Time!JournalType BY DEF Time!OwnershipInv, Time!Copies, Time!Shapes
<1>2. Time!Named BY DEF Time!OwnershipInv
<1>3. ~tReused => Time!Owned /\ Time!Wanted BY DEF Time!OwnershipInv
<1>4. tOwn.there = TRUE BY ZoneOwn
<1>5. ~tReused => /\ \A i \in Time!Files : IF tFile[i] = Time!Ours THEN j.before[i] \in tBase.file[i] ELSE tFile[i] \in tBase.file[i]
                  /\ \A k \in Time!Keys : IF tUci[k] = Time!Ours THEN j.uci[k] \in tBase.uci[k] ELSE tUci[k] \in tBase.uci[k]
                  /\ tSvc \notin tBase.svc => j.serviceOwned = TRUE
                  /\ j.service \subseteq tBase.svc
    BY <1>1, <1>3 DEF Time!Owned, Time!Wanted
<1>6. /\ \A i \in Time!Files : tFile[i] = Time!Ours => j.applied[i] = Time!Ours
      /\ \A k \in Time!Keys : tUci[k] = Time!Ours => j.uciOwned = TRUE
      /\ \A i \in Time!Files : j.before[i] # Time!Ours /\ j.applied[i] \in {j.before[i], Time!Ours}
      /\ \A k \in Time!Keys : j.uci[k] # Time!Ours
      /\ \A s, t \in j.service : s = t
    BY <1>1, <1>2 DEF Time!Named
<1>7. ~tOutside => (\A i \in Time!Files : j.before[i] = "found") /\ (\A k \in Time!Keys : j.uci[k] = "found") BY <1>1 DEF Time!OwnershipInv, Time!Alone
<1>8. /\ tFile' \in [Time!Files -> Time!Value] /\ tUci' \in [Time!Keys -> Time!Value] /\ tSvc' \in Time!Service /\ tBase' \in Time!Bases /\ tOp \in Time!Operations
      /\ tOp.goal = "sync" /\ tForeign = {}
    BY DEF Time!OwnershipInv, Time!Shapes, Time!Looks, Time!Applying
<1>9. CASE tJournal' = j
  <2>1. Time!Named' /\ (~tReused' => Time!Owned') /\ (~tOutside' => Time!Alone') /\ Time!Exact /\ Time!LeavesForeign
    BY <1>5, <1>6, <1>7, <1>9, ZoneWrites
  <2>2. CASE tOwn' = j /\ Time!Step(st, n)
    <3>1. tOp' \in Time!Operations /\ tOp'.step = st /\ tOp'.at = n /\ tOp'.goal = "sync" /\ tForeign' = tForeign BY <1>8, <2>2, ZoneStep
    <3>2. Time!Shapes' BY <1>8, <1>9, <2>2, <3>1 DEF Time!Shapes, Time!Applying, Time!PuttingBack, Time!Late
    <3>3. Time!Copies' BY <1>6, <1>9, <2>2, <3>1 DEF Time!Copies, Time!Applying, Time!PuttingBack, Time!Late
    <3>4. Time!Progress' BY <3>1 DEF Time!Progress, Time!Applying, Time!Late
    <3>5. ~tReused => Time!Wanted' BY <1>1, <1>3, <2>2, <3>1 DEF Time!Wanted, Time!Applying, Time!PuttingBack, Time!Late
    <3>6. Time!Looks' BY <1>8, <3>1 DEF Time!Looks
    <3> QED BY <2>1, <3>2, <3>3, <3>4, <3>5, <3>6 DEF Time!OwnershipInv
  <2>3. CASE Time!Fails("failed", j)
    <3>1. Time!OwnershipInv' BY <1>6, <1>8, <1>9, <2>1, <2>3, ZoneFails DEF Time!Busy, Time!Applying
    <3> QED BY <2>1, <3>1
  <2> QED BY <2>2, <2>3 DEF Time!Save
<1>10. CASE tJournal' = tJournal /\ Time!Fails("failed", j)
  <2>1. /\ Time!Named' /\ (~tReused => Time!Owned') /\ (~tOutside => Time!Alone') /\ Time!Exact /\ Time!LeavesForeign BY <1>10, ZoneStill
  <2>2. \A i \in Time!Files : tJournal.applied[i] = Time!Ours => j.applied[i] = Time!Ours BY <1>1
  <2>3. Time!OwnershipInv' BY <1>1, <1>4, <1>6, <1>8, <1>10, <2>1, <2>2, ZoneFails DEF Time!Busy, Time!Applying
  <2> QED BY <2>1, <2>3
<1> QED BY <1>9, <1>10 DEF Time!Save

\* The journal is written by prepare: the operation begins to apply, or ends.
LEMMA ZoneSavesFirst ==
    ASSUME Time!OwnershipInv, tOp.step \in Time!Early, NEW j \in Time!JournalType, Time!Save(j, "apply", 0), UNCHANGED <<tFile, tUci, tSvc, tBase, tOutside>>,
           ~tReused' => ~tReused, tForeign = {},
           j.there = TRUE,
           \A i \in Time!Files : tFile[i] = Time!Ours => j.applied[i] = Time!Ours,
           \A k \in Time!Keys : tUci[k] = Time!Ours => j.uciOwned = TRUE,
           \A i \in Time!Files : j.before[i] # Time!Ours /\ j.applied[i] \in {j.before[i], Time!Ours},
           \A k \in Time!Keys : j.uci[k] # Time!Ours, \A s, t \in j.service : s = t, j.serviceOwned = TRUE => j.service # {},
           ~tReused' =>        /\ \A i \in Time!Files : tFile[i] # Time!Ours => tFile[i] \in tBase.file[i]
                               /\ \A k \in Time!Keys : tUci[k] # Time!Ours => tUci[k] \in tBase.uci[k]
                               /\ tSvc \notin tBase.svc => j.serviceOwned = TRUE
                               /\ \A i \in Time!Files : j.before[i] \in tBase.file[i]
                               /\ \A k \in Time!Keys : j.uci[k] \in tBase.uci[k]
                               /\ j.service \subseteq tBase.svc,
           ~tOutside => (\A i \in Time!Files : j.before[i] = "found") /\ (\A k \in Time!Keys : j.uci[k] = "found")
    PROVE  Time!OwnershipInv' /\ Time!Exact /\ Time!LeavesForeign
<1>1. tOp \in Time!Operations /\ tOp.goal = "sync" /\ tJournal \in Time!JournalType /\ tBase \in Time!Bases /\ tFile \in [Time!Files -> Time!Value]
      /\ tUci \in [Time!Keys -> Time!Value] /\ tSvc \in Time!Service
    BY DEF Time!OwnershipInv, Time!Shapes
<1>2. tOp.step \notin Time!Applying /\ Time!Busy BY DEF Time!Early, Time!Applying, Time!Busy
<1>3. CASE tJournal' = j
  <2>1. ~tReused' => /\ \A i \in Time!Files : IF tFile[i] = Time!Ours THEN j.before[i] \in tBase.file[i] ELSE tFile[i] \in tBase.file[i]
                     /\ \A k \in Time!Keys : IF tUci[k] = Time!Ours THEN j.uci[k] \in tBase.uci[k] ELSE tUci[k] \in tBase.uci[k]
                     /\ tSvc \notin tBase.svc => j.serviceOwned = TRUE
                     /\ j.service \subseteq tBase.svc
    OBVIOUS
  <2>2. Time!Named' /\ (~tReused' => Time!Owned') /\ (~tOutside' => Time!Alone') /\ Time!Exact /\ Time!LeavesForeign BY <1>3, <2>1, ZoneWrites
  <2>3. CASE tOwn' = j /\ Time!Step("apply", 0)
    <3>1. tOp' \in Time!Operations /\ tOp'.step = "apply" /\ tOp'.at = 0 /\ tOp'.goal = "sync" /\ tForeign' = tForeign
      BY <1>1, <2>3, ZoneStep, ZoneAts DEF Time!Applying
    <3>2. Time!Shapes' BY <1>1, <1>3, <2>3, <3>1 DEF Time!Shapes, Time!Applying, Time!PuttingBack, Time!Late
    <3>3. Time!Copies' BY <1>3, <2>3, <3>1 DEF Time!Copies, Time!Applying, Time!PuttingBack, Time!Late
    <3>4. Time!Progress' BY <3>1 DEF Time!Progress, Time!Late
    <3>5. ~tReused' => Time!Wanted' BY <2>3, <3>1 DEF Time!Wanted, Time!Applying, Time!PuttingBack, Time!Late
    <3>6. Time!Looks' BY <3>1 DEF Time!Looks
    <3> QED BY <2>2, <3>2, <3>3, <3>4, <3>5, <3>6 DEF Time!OwnershipInv
  <2>4. CASE Time!Fails("failed", j)
    <3>1. Time!OwnershipInv' BY <1>1, <1>2, <1>3, <2>2, <2>4, ZoneFails
    <3> QED BY <2>2, <3>1
  <2> QED BY <2>3, <2>4 DEF Time!Save
<1>4. CASE tJournal' = tJournal /\ Time!Fails("failed", j)
  <2>1. Time!Named' BY <1>4 DEF Time!OwnershipInv, Time!Named, Time!NoJournal
  <2>2. ~tReused' => Time!Owned' BY <1>4 DEF Time!OwnershipInv, Time!Owned
  <2>3. ~tOutside' => Time!Alone' BY <1>4 DEF Time!OwnershipInv, Time!Alone
  <2>4. Time!Exact /\ Time!LeavesForeign BY <1>4 DEF Time!Exact, Time!LeavesForeign
  <2>5. Time!OwnershipInv' BY <1>1, <1>2, <1>4, <2>1, <2>2, <2>3, ZoneFails
  <2> QED BY <2>4, <2>5
<1> QED BY <1>3, <1>4 DEF Time!Save

LEMMA ZoneSnapshot == ASSUME Time!OwnershipInv, Time!Snapshot PROVE Time!OwnershipInv' /\ Time!Exact /\ Time!LeavesForeign
<1> DEFINE S == IF tOp.calibrate THEN {tSvc} ELSE {}
           j == Time!Journal(TRUE, FALSE, S)
<1>1. tOp.step = "snapshot" /\ Time!Save(j, "apply", 0) /\ UNCHANGED <<tFile, tUci, tSvc, tBase, tOutside, tReused>> BY DEF Time!Snapshot, Time!system
<1>2. tJournal.there = FALSE /\ tForeign = {} BY <1>1 DEF Time!OwnershipInv, Time!Copies, Time!Looks
<1>3. tFile \in [Time!Files -> Time!Value] /\ tUci \in [Time!Keys -> Time!Value] /\ tSvc \in Time!Service BY DEF Time!OwnershipInv, Time!Shapes
<1>4. S \in SUBSET Time!Service /\ S \subseteq {tSvc} BY <1>3
<1>5. TRUE \in BOOLEAN /\ FALSE \in BOOLEAN OBVIOUS
<1>6. j \in Time!JournalType BY <1>3, <1>4, <1>5 DEF Time!Journal, Time!JournalType
<1>7. j.there = TRUE /\ j.before = tFile /\ j.applied = tFile /\ j.uci = tUci /\ j.service = S /\ j.serviceOwned = FALSE BY DEF Time!Journal
<1>8. (\A i \in Time!Files : tFile[i] # Time!Ours) /\ (\A k \in Time!Keys : tUci[k] # Time!Ours) BY <1>2 DEF Time!OwnershipInv, Time!Named
<1>9. ~tReused => /\ \A i \in Time!Files : tFile[i] \in tBase.file[i]
                  /\ \A k \in Time!Keys : tUci[k] \in tBase.uci[k]
                  /\ tSvc \in tBase.svc
  <2>1. tJournal = Time!NoJournal BY <1>2 DEF Time!OwnershipInv, Time!Named
  <2>2. tJournal.serviceOwned = FALSE BY <2>1, ZoneNothing
  <2> QED BY <1>8, <2>2 DEF Time!OwnershipInv, Time!Owned
<1>10. ~tOutside => (\A i \in Time!Files : tFile[i] = "found") /\ (\A k \in Time!Keys : tUci[k] = "found") BY <1>8 DEF Time!OwnershipInv, Time!Alone
<1>11. \A s, t \in S : s = t BY <1>4
<1> HIDE DEF j, S
<1>12. tOp.step \in Time!Early BY <1>1 DEF Time!Early
<1> QED
  <2>1. \A i \in Time!Files : j.before[i] # Time!Ours /\ j.applied[i] \in {j.before[i], Time!Ours} BY <1>7, <1>8
  <2>2. ~tReused => /\ \A i \in Time!Files : j.before[i] \in tBase.file[i]
                    /\ \A k \in Time!Keys : j.uci[k] \in tBase.uci[k]
                    /\ j.service \subseteq tBase.svc
                    /\ tSvc \in tBase.svc
    BY <1>4, <1>7, <1>9
  <2> QED BY <1>1, <1>2, <1>6, <1>7, <1>8, <1>9, <1>10, <1>11, <1>12, <2>1, <2>2, ZoneSavesFirst

\* What is verified is in nobody else's hands.
LEMMA ZoneVerified ==
    ASSUME Time!OwnershipInv, Time!VerifyOwned(tJournal)
    PROVE  Time!InOtherHands(tJournal) = {}
<1>1. tJournal.serviceOwned => ~Time!ServiceConflict(tJournal) BY DEF Time!VerifyOwned, Time!ServiceConflict
<1> QED BY <1>1 DEF Time!VerifyOwned, Time!InOtherHands

LEMMA ZoneAgain ==
    ASSUME Time!OwnershipInv, tOp.step = "prepare", tJournal.there = TRUE, UNCHANGED <<tFile, tUci, tSvc, tJournal, tBase, tOutside, tForeign>>,
           ~tReused' => ~tReused, tOwn' = tJournal, tOp' = [tOp EXCEPT !.step = "preflight", !.goal = "again"]
    PROVE  Time!OwnershipInv' /\ Time!Exact /\ Time!LeavesForeign
<1>1. tOp \in Time!Operations BY DEF Time!OwnershipInv, Time!Shapes
<1>2. tOp' \in Time!Operations /\ tOp'.step = "preflight" /\ tOp'.goal = "again" BY <1>1 DEF Time!Operations
<1>3. Time!Shapes' BY <1>2 DEF Time!OwnershipInv, Time!Shapes, Time!Early, Time!Applying, Time!PuttingBack, Time!Late
<1>4. Time!Named' BY DEF Time!OwnershipInv, Time!Named
<1>5. ~tReused' => Time!Owned' BY DEF Time!OwnershipInv, Time!Owned
<1>6. ~tOutside' => Time!Alone' BY DEF Time!OwnershipInv, Time!Alone
<1>7. Time!Copies' BY <1>2 DEF Time!OwnershipInv, Time!Copies, Time!Named, Time!Applying, Time!PuttingBack, Time!Late
<1>8. Time!Progress' BY <1>2 DEF Time!Progress, Time!Late
<1>9. Time!Wanted' BY <1>2 DEF Time!Wanted, Time!Applying, Time!PuttingBack, Time!Late
<1>10. Time!InOtherHands(tJournal)' = Time!InOtherHands(tJournal) BY DEF Time!InOtherHands, Time!ServiceConflict
<1>11. Time!Looks' BY <1>2, <1>10 DEF Time!OwnershipInv, Time!Looks
<1>12. Time!Exact /\ Time!LeavesForeign BY DEF Time!Exact, Time!LeavesForeign
<1> QED BY <1>3, <1>4, <1>5, <1>6, <1>7, <1>8, <1>9, <1>11, <1>12 DEF Time!OwnershipInv

\* A complete journal is opened again.
LEMMA ZoneReopens ==
    ASSUME Time!OwnershipInv, tOp.step = "prepare", Time!VerifyOwned(tJournal), tJournal.there, UNCHANGED <<tFile, tUci, tSvc, tBase, tOutside>>,
           ~tReused' => ~tReused /\ ~Time!PartlyReleased(tJournal), NEW j,
           j = [tJournal EXCEPT !.complete = FALSE, !.service = IF tOp.calibrate /\ @ = {} THEN {tSvc} ELSE @],
           Time!Save(j, "apply", 0)
    PROVE  Time!OwnershipInv' /\ Time!Exact /\ Time!LeavesForeign
<1>1. tJournal \in Time!JournalType /\ tFile \in [Time!Files -> Time!Value] /\ tUci \in [Time!Keys -> Time!Value] /\ tSvc \in Time!Service BY DEF Time!OwnershipInv, Time!Shapes
<1>2. /\ tJournal.there \in BOOLEAN /\ tJournal.uciOwned \in BOOLEAN /\ tJournal.serviceOwned \in BOOLEAN
      /\ tJournal.service \in SUBSET Time!Service
    BY <1>1, ZoneFields
<1>3. (tJournal.uciOwned <=> tJournal.uciOwned = TRUE) /\ (tJournal.serviceOwned <=> tJournal.serviceOwned = TRUE) /\ (tJournal.there <=> tJournal.there = TRUE)
    BY <1>2, ZoneBool
<1> DEFINE S == IF tOp.calibrate /\ tJournal.service = {} THEN {tSvc} ELSE tJournal.service
<1>4. S \in SUBSET Time!Service /\ FALSE \in BOOLEAN BY <1>1, <1>2
<1>5. j = [tJournal EXCEPT !.complete = FALSE, !.service = S] BY <1>1 DEF Time!JournalType
<1>6. S = tJournal.service \/ (tJournal.service = {} /\ S = {tSvc}) OBVIOUS
<1> HIDE DEF S
<1>7. j \in Time!JournalType BY <1>1, <1>4, <1>5 DEF Time!JournalType
<1>8. /\ j.there = TRUE /\ j.before = tJournal.before /\ j.applied = tJournal.applied /\ j.uci = tJournal.uci /\ j.service = S
      /\ j.serviceOwned = tJournal.serviceOwned /\ j.uciOwned = tJournal.uciOwned
    BY <1>1, <1>3, <1>5 DEF Time!JournalType
<1>9. tForeign = {} BY ZoneVerified DEF Time!OwnershipInv, Time!Looks
<1>10. /\ \A i \in Time!Files : tFile[i] = Time!Ours => j.applied[i] = Time!Ours
       /\ \A k \in Time!Keys : tUci[k] = Time!Ours => j.uciOwned = TRUE
       /\ \A i \in Time!Files : j.before[i] # Time!Ours /\ j.applied[i] \in {j.before[i], Time!Ours}
       /\ \A k \in Time!Keys : j.uci[k] # Time!Ours
       /\ \A s, t \in j.service : s = t
       /\ j.serviceOwned = TRUE => j.service # {}
    BY <1>6, <1>8 DEF Time!OwnershipInv, Time!Named
<1>11. ~tOutside => (\A i \in Time!Files : j.before[i] = "found") /\ (\A k \in Time!Keys : j.uci[k] = "found") BY <1>8 DEF Time!OwnershipInv, Time!Alone
<1>12. ASSUME ~tReused'
       PROVE  /\ \A i \in Time!Files : tFile[i] # Time!Ours => tFile[i] \in tBase.file[i]
              /\ \A k \in Time!Keys : tUci[k] # Time!Ours => tUci[k] \in tBase.uci[k]
              /\ tSvc \notin tBase.svc => j.serviceOwned = TRUE
              /\ \A i \in Time!Files : j.before[i] \in tBase.file[i]
              /\ \A k \in Time!Keys : j.uci[k] \in tBase.uci[k]
              /\ j.service \subseteq tBase.svc
  <2>1. Time!Owned /\ Time!Named BY <1>12 DEF Time!OwnershipInv
  <2>2. tJournal.uciOwned = TRUE /\ (tJournal.service = {} \/ tJournal.serviceOwned = TRUE) BY <1>3, <1>12 DEF Time!PartlyReleased
  <2>3. tFile = tJournal.applied /\ (\A k \in Time!Keys : tUci[k] = Time!Ours) /\ (tJournal.serviceOwned = TRUE => tSvc = Time!Off)
    BY <1>3, <2>2 DEF Time!VerifyOwned
  <2>4. \A i \in Time!Files : tFile[i] # Time!Ours => tFile[i] = tJournal.before[i] BY <2>1, <2>3 DEF Time!Named
  <2>5. \A i \in Time!Files : j.before[i] \in tBase.file[i] BY <1>8, <2>1, <2>4 DEF Time!Owned
  <2>6. \A k \in Time!Keys : j.uci[k] \in tBase.uci[k] BY <1>8, <2>1, <2>3 DEF Time!Owned
  <2>7. j.service \subseteq tBase.svc
    <3>1. CASE tJournal.serviceOwned = TRUE
      <4>1. tJournal.service # {} BY <2>1, <3>1 DEF Time!Named
      <4>2. tJournal.service \subseteq tBase.svc BY <2>1, <2>3, <3>1 DEF Time!Owned
      <4> QED BY <1>6, <1>8, <4>1, <4>2
    <3>2. CASE tJournal.serviceOwned # TRUE
      <4>1. tSvc \in tBase.svc /\ tJournal.service = {} BY <2>1, <2>2, <3>2 DEF Time!Owned
      <4> QED BY <1>6, <1>8, <4>1
    <3> QED BY <3>1, <3>2
  <2> QED BY <1>8, <2>1, <2>5, <2>6, <2>7 DEF Time!Owned
<1>13. tOp.step \in Time!Early BY DEF Time!Early
<1> QED BY <1>7, <1>8, <1>9, <1>10, <1>11, <1>12, <1>13, ZoneSavesFirst

LEMMA ZonePrepare == ASSUME Time!OwnershipInv, Time!Prepare PROVE Time!OwnershipInv' /\ Time!Exact /\ Time!LeavesForeign
<1>1. tOp.step = "prepare" /\ UNCHANGED <<tFile, tUci, tSvc, tBase, tOutside>> /\ (~tReused' => ~tReused) BY DEF Time!Prepare, Time!system
<1>2. tOp \in Time!Operations /\ tOp.goal = "sync" /\ tOwn \in Time!JournalType /\ tJournal \in Time!JournalType /\ tBase \in Time!Bases
      /\ tFile \in [Time!Files -> Time!Value] /\ tUci \in [Time!Keys -> Time!Value] /\ tSvc \in Time!Service
    BY <1>1 DEF Time!OwnershipInv, Time!Shapes, Time!Early
<1>3. tJournal.there \in BOOLEAN BY <1>2, ZoneFields
<1>4. CASE Time!Fails("conflict", tOwn) /\ UNCHANGED tJournal
  <2>1. Time!Named' BY <1>1, <1>4 DEF Time!OwnershipInv, Time!Named, Time!NoJournal
  <2>2. ~tReused' => Time!Owned' BY <1>1, <1>4 DEF Time!OwnershipInv, Time!Owned
  <2>3. ~tOutside' => Time!Alone' BY <1>1, <1>4 DEF Time!OwnershipInv, Time!Alone
  <2>4. Time!Exact /\ Time!LeavesForeign BY <1>1, <1>4 DEF Time!Exact, Time!LeavesForeign
  <2>5. Time!Busy /\ tOp.step \notin Time!Applying BY <1>1 DEF Time!Busy, Time!Applying
  <2>6. Time!OwnershipInv' BY <1>1, <1>2, <1>4, <2>1, <2>2, <2>3, <2>5, ZoneFails
  <2> QED BY <2>4, <2>6
<1>5. CASE ~tJournal.there /\ Time!Step("snapshot", 0) /\ UNCHANGED <<tJournal, tOwn>>
  <2>1. tOp' \in Time!Operations /\ tOp'.step = "snapshot" /\ tOp'.goal = "sync" /\ tForeign' = tForeign
    BY <1>2, <1>5, ZoneStep, ZoneAts DEF Time!Early
  <2>2. tJournal.there = FALSE BY <1>3, <1>5, ZoneBool
  <2>3. Time!Shapes' BY <1>1, <1>2, <1>5, <2>1 DEF Time!OwnershipInv, Time!Shapes, Time!Early, Time!Applying, Time!PuttingBack, Time!Late
  <2>4. Time!Named' BY <1>1, <1>5 DEF Time!OwnershipInv, Time!Named, Time!NoJournal
  <2>5. ~tReused' => Time!Owned' BY <1>1, <1>5 DEF Time!OwnershipInv, Time!Owned
  <2>6. ~tOutside' => Time!Alone' BY <1>1, <1>5 DEF Time!OwnershipInv, Time!Alone
  <2>7. Time!Copies' BY <1>5, <2>1, <2>2 DEF Time!Copies, Time!Applying, Time!PuttingBack, Time!Late
  <2>8. Time!Progress' BY <2>1 DEF Time!Progress, Time!Late
  <2>9. Time!Wanted' BY <2>1 DEF Time!Wanted, Time!Applying, Time!PuttingBack, Time!Late
  <2>10. Time!Looks' BY <2>1, <2>2 DEF Time!OwnershipInv, Time!Looks
  <2>11. Time!Exact /\ Time!LeavesForeign BY <1>1, <1>5 DEF Time!Exact, Time!LeavesForeign
  <2> QED BY <2>3, <2>4, <2>5, <2>6, <2>7, <2>8, <2>9, <2>10, <2>11 DEF Time!OwnershipInv
<1>6. CASE tJournal.there /\ tOp' = [tOp EXCEPT !.step = "preflight", !.goal = "again"] /\ tOwn' = tJournal /\ UNCHANGED <<tJournal, tForeign>>
  <2>1. tJournal.there = TRUE BY <1>3, <1>6, ZoneBool
  <2> QED BY <1>1, <1>6, <2>1, ZoneAgain
<1>7. CASE /\ ~tPending /\ tJournal.there /\ tJournal.complete /\ Time!VerifyOwned(tJournal)
           /\ Time!Save([tJournal EXCEPT !.complete = FALSE, !.service = IF tOp.calibrate /\ @ = {} THEN {tSvc} ELSE @], "apply", 0)
  <2>1. ~tReused' => ~tReused /\ ~Time!PartlyReleased(tJournal) BY <1>7 DEF Time!Prepare
  <2> DEFINE j == [tJournal EXCEPT !.complete = FALSE, !.service = IF tOp.calibrate /\ @ = {} THEN {tSvc} ELSE @]
  <2>2. Time!Save(j, "apply", 0) BY <1>7
  <2> HIDE DEF j
  <2> QED BY <1>1, <1>7, <2>1, <2>2, ZoneReopens DEF j
<1> QED BY <1>4, <1>5, <1>6, <1>7 DEF Time!Prepare

\* A step of applying that leaves everything as it is, and goes on.
LEMMA ZoneApplyGoesOn ==
    ASSUME Time!OwnershipInv, tOp.step \in Time!Applying, NEW st \in Time!Applying, NEW n \in 0..NFiles + 2, Time!Step(st, n),
           UNCHANGED <<tFile, tUci, tSvc, tJournal, tOwn, tBase, tReused, tOutside>>,
           st \in {"claim", "put"} => n \in Time!Files, st = "uci_set" => n \in Time!Keys, st = "put" => tOwn.applied[n] = Time!Ours,
           st \in {"uci_set", "commit", "verify", "seal"} => tOwn.uciOwned = TRUE,
           st \in {"disable", "stop", "service_read"} => tOwn.serviceOwned = TRUE,
           st = "take_over" => tOwn.service # {}
    PROVE  Time!OwnershipInv' /\ Time!Exact /\ Time!LeavesForeign
<1>1. tOp \in Time!Operations /\ tOp.goal = "sync" /\ tForeign = {} BY DEF Time!OwnershipInv, Time!Shapes, Time!Looks, Time!Applying
<1>2. tOp' \in Time!Operations /\ tOp'.step = st /\ tOp'.at = n /\ tOp'.goal = "sync" /\ tForeign' = tForeign BY <1>1, ZoneStep
<1>3. Time!Copies' BY <1>2 DEF Time!OwnershipInv, Time!Copies, Time!Applying, Time!PuttingBack, Time!Late
<1>4. Time!Progress' BY <1>2 DEF Time!Progress, Time!Applying, Time!Late
<1>5. ~tReused => Time!Wanted' BY <1>2 DEF Time!OwnershipInv, Time!Wanted, Time!Applying, Time!PuttingBack, Time!Late
<1> QED BY <1>1, <1>2, <1>3, <1>4, <1>5, ZoneGoesOnStill DEF Time!Applying, Time!PuttingBack, Time!Late

\* A step of applying that has changed the system, and goes on or fails.
LEMMA ZoneApplyThen ==
    ASSUME Time!OwnershipInv, tOp.step \in Time!Applying, NEW st \in Time!Applying, NEW n \in 0..NFiles + 2, Time!Then(st, n),
           UNCHANGED <<tJournal, tBase, tReused, tOutside>>,
           tFile' \in [Time!Files -> Time!Value], tUci' \in [Time!Keys -> Time!Value], tSvc' \in Time!Service,
           Time!Named', ~tReused => Time!Owned', ~tOutside => Time!Alone',
           st \in {"claim", "put"} => n \in Time!Files, st = "uci_set" => n \in Time!Keys, st # "put", st # "take_over",
           st \in {"uci_set", "commit", "verify", "seal"} => tOwn.uciOwned = TRUE,
           st \in {"disable", "stop", "service_read"} => tOwn.serviceOwned = TRUE
    PROVE  Time!OwnershipInv' /\ Time!Exact /\ Time!LeavesForeign
<1>1. tOp \in Time!Operations /\ tOp.goal = "sync" /\ tForeign = {} /\ tJournal \in Time!JournalType /\ tOwn \in Time!JournalType /\ tBase \in Time!Bases
    BY DEF Time!OwnershipInv, Time!Shapes, Time!Looks, Time!Applying
<1>2. Time!Exact /\ Time!LeavesForeign BY <1>1 DEF Time!Exact, Time!LeavesForeign
<1>3. CASE Time!Step(st, n) /\ UNCHANGED tOwn
  <2>1. tOp' \in Time!Operations /\ tOp'.step = st /\ tOp'.at = n /\ tOp'.goal = "sync" /\ tForeign' = tForeign BY <1>1, <1>3, ZoneStep
  <2>2. Time!Shapes' BY <1>1, <1>3, <2>1 DEF Time!Shapes, Time!Applying, Time!PuttingBack, Time!Late
  <2>3. Time!Copies' BY <1>3, <2>1 DEF Time!OwnershipInv, Time!Copies, Time!Applying, Time!PuttingBack, Time!Late
  <2>4. Time!Progress' BY <2>1 DEF Time!Progress, Time!Applying, Time!Late
  <2>5. ~tReused => Time!Wanted' BY <1>3, <2>1 DEF Time!OwnershipInv, Time!Wanted, Time!Applying, Time!PuttingBack, Time!Late
  <2>6. Time!Looks' BY <1>1, <2>1 DEF Time!Looks
  <2> QED BY <1>2, <2>2, <2>3, <2>4, <2>5, <2>6 DEF Time!OwnershipInv
<1>4. CASE Time!Fails("failed", tOwn)
  <2>1. Time!Busy BY DEF Time!Busy, Time!Applying
  <2>2. Time!OwnershipInv' BY <1>1, <1>4, <2>1, ZoneOwn, ZoneFails
  <2> QED BY <1>2, <2>2
<1> QED BY <1>3, <1>4 DEF Time!Then

LEMMA ZoneApplyStep == ASSUME Time!OwnershipInv, Time!Apply PROVE Time!OwnershipInv' /\ Time!Exact /\ Time!LeavesForeign
<1>1. tOp.step = "apply" /\ UNCHANGED <<tFile, tUci, tSvc, tJournal, tBase, tReused, tOutside>> BY DEF Time!Apply, Time!system
<1>2. tOp.step \in Time!Applying /\ "take_over" \in Time!Applying /\ "claim" \in Time!Applying /\ Time!Busy BY <1>1 DEF Time!Applying, Time!Busy
<1>3. CASE Time!Fails("failed", tOwn) BY <1>1, <1>2, <1>3, ZoneFailsStill
<1>4. CASE tOwn.service # {} /\ Time!Step("take_over", 0) /\ UNCHANGED tOwn BY <1>1, <1>2, <1>4, ZoneApplyGoesOn, ZoneAts
<1>5. CASE Time!Step("claim", 1) /\ UNCHANGED tOwn
  <2>1. 1 \in Time!Files /\ 1 \in 0..NFiles + 2 BY ZoneAts
  <2> QED BY <1>1, <1>2, <1>5, <2>1, ZoneApplyGoesOn
<1> QED BY <1>3, <1>4, <1>5 DEF Time!Apply

LEMMA ZoneTakeOver == ASSUME Time!OwnershipInv, Time!TakeOver PROVE Time!OwnershipInv' /\ Time!Exact /\ Time!LeavesForeign
<1> DEFINE j == [tOwn EXCEPT !.serviceOwned = TRUE]
<1>1. tOp.step = "take_over" /\ Time!Save(j, "disable", 0) /\ UNCHANGED <<tFile, tUci, tSvc, tBase, tOutside, tReused>> BY DEF Time!TakeOver, Time!system
<1>2. tOp.step \in Time!Applying /\ "disable" \in Time!Applying BY <1>1 DEF Time!Applying
<1>3. tOwn \in Time!JournalType /\ tOwn.service # {} BY <1>1 DEF Time!OwnershipInv, Time!Shapes, Time!Copies
<1>4. TRUE \in BOOLEAN OBVIOUS
<1>5. j \in Time!JournalType BY <1>3, <1>4 DEF Time!JournalType
<1>6. /\ j.there = tOwn.there /\ j.before = tOwn.before /\ j.uci = tOwn.uci /\ j.service = tOwn.service /\ j.applied = tOwn.applied
      /\ j.uciOwned = tOwn.uciOwned /\ j.serviceOwned = TRUE
    BY <1>3 DEF Time!JournalType
<1>7. tOwn.there = TRUE BY <1>2, ZoneOwn
<1> HIDE DEF j
<1>8. \A i \in Time!Files : j.applied[i] \in {tOwn.applied[i], Time!Ours} BY <1>6
<1> QED BY <1>1, <1>2, <1>3, <1>5, <1>6, <1>7, <1>8, ZoneSaves, ZoneAts

LEMMA ZoneOwnUci == ASSUME Time!OwnershipInv, Time!OwnUci PROVE Time!OwnershipInv' /\ Time!Exact /\ Time!LeavesForeign
<1> DEFINE j == [tOwn EXCEPT !.uciOwned = TRUE]
<1>1. tOp.step = "own_uci" /\ Time!Save(j, "uci_set", 1) /\ UNCHANGED <<tFile, tUci, tSvc, tBase, tOutside, tReused>> BY DEF Time!OwnUci, Time!system
<1>2. tOp.step \in Time!Applying /\ "uci_set" \in Time!Applying BY <1>1 DEF Time!Applying
<1>3. tOwn \in Time!JournalType BY <1>1 DEF Time!OwnershipInv, Time!Shapes
<1>4. TRUE \in BOOLEAN OBVIOUS
<1>5. j \in Time!JournalType BY <1>3, <1>4 DEF Time!JournalType
<1>6. /\ j.there = tOwn.there /\ j.before = tOwn.before /\ j.uci = tOwn.uci /\ j.service = tOwn.service /\ j.applied = tOwn.applied
      /\ j.uciOwned = TRUE /\ j.serviceOwned = tOwn.serviceOwned
    BY <1>3 DEF Time!JournalType
<1>7. tOwn.there = TRUE /\ (tOwn.serviceOwned = TRUE => tOwn.service # {}) BY <1>2, ZoneOwn
<1> HIDE DEF j
<1>8. \A i \in Time!Files : j.applied[i] \in {tOwn.applied[i], Time!Ours} BY <1>6
<1>9. 1 \in Time!Keys /\ 1 \in 0..NFiles + 2 BY ZoneAts DEF Time!Keys
<1> QED BY <1>1, <1>2, <1>3, <1>5, <1>6, <1>7, <1>8, <1>9, ZoneSaves

LEMMA ZoneClaim == ASSUME Time!OwnershipInv, Time!Claim PROVE Time!OwnershipInv' /\ Time!Exact /\ Time!LeavesForeign
<1>1. tOp.step = "claim" /\ UNCHANGED <<tFile, tUci, tSvc, tBase, tOutside, tReused>> BY DEF Time!Claim, Time!system
<1>2. tOp.step \in Time!Applying /\ "put" \in Time!Applying /\ tOp.at \in Time!Files /\ tOp.at \in 0..NFiles + 2 /\ Time!Busy
    BY <1>1, ZoneAts DEF Time!OwnershipInv, Time!Shapes, Time!Applying, Time!Busy
<1>3. CASE Time!Fails("conflict", tOwn) /\ UNCHANGED tJournal BY <1>1, <1>2, <1>3, ZoneFailsStill
<1>4. CASE Time!Save([tOwn EXCEPT !.applied[tOp.at] = Time!Ours], "put", tOp.at)
  <2> DEFINE j == [tOwn EXCEPT !.applied[tOp.at] = Time!Ours]
  <2>1. Time!Save(j, "put", tOp.at) BY <1>4
  <2>2. tOwn \in Time!JournalType BY <1>1 DEF Time!OwnershipInv, Time!Shapes
  <2>3. tOwn.applied \in [Time!Files -> Time!Value] /\ Time!Ours \in Time!Value BY <2>2, ZoneFields DEF Time!Value
  <2>4. [tOwn.applied EXCEPT ![tOp.at] = Time!Ours] \in [Time!Files -> Time!Value] BY <2>3
  <2>5. j = [tOwn EXCEPT !.applied = [tOwn.applied EXCEPT ![tOp.at] = Time!Ours]] BY <2>2 DEF Time!JournalType
  <2>6. j \in Time!JournalType BY <2>2, <2>4, <2>5 DEF Time!JournalType
  <2>7. /\ j.there = tOwn.there /\ j.before = tOwn.before /\ j.uci = tOwn.uci /\ j.service = tOwn.service
        /\ j.applied = [tOwn.applied EXCEPT ![tOp.at] = Time!Ours]
        /\ j.uciOwned = tOwn.uciOwned /\ j.serviceOwned = tOwn.serviceOwned
    BY <2>2, <2>5 DEF Time!JournalType
  <2>8. tOwn.there = TRUE /\ (tOwn.serviceOwned = TRUE => tOwn.service # {}) BY <1>2, ZoneOwn
  <2> HIDE DEF j
  <2>9. (\A i \in Time!Files : j.applied[i] \in {tOwn.applied[i], Time!Ours}) /\ j.applied[tOp.at] = Time!Ours BY <1>2, <2>3, <2>7
  <2> QED BY <1>1, <1>2, <2>1, <2>6, <2>7, <2>8, <2>9, ZoneSaves
<1> QED BY <1>3, <1>4 DEF Time!Claim

\* datad's hand on the service.
LEMMA ZoneServiceSet ==
    ASSUME Time!OwnershipInv, tOp.step \in Time!Applying \cup Time!PuttingBack, tJournal.serviceOwned = TRUE, ~tReused => tJournal.service \subseteq tBase.svc,
           tSvc' \in Time!Service, UNCHANGED <<tFile, tUci, tJournal, tBase, tReused, tOutside>>
    PROVE  Time!Named' /\ (~tReused => Time!Owned') /\ (~tOutside => Time!Alone')
<1>1. Time!Named' BY DEF Time!OwnershipInv, Time!Named, Time!NoJournal
<1>2. ~tReused => Time!Owned' BY DEF Time!OwnershipInv, Time!Owned
<1>3. ~tOutside => Time!Alone' BY DEF Time!OwnershipInv, Time!Alone
<1> QED BY <1>1, <1>2, <1>3

LEMMA ZoneDisableService == ASSUME Time!OwnershipInv, Time!DisableService PROVE Time!OwnershipInv' /\ Time!Exact /\ Time!LeavesForeign
<1>1. /\ tOp.step = "disable" /\ tSvc' = [tSvc EXCEPT !.enabled = FALSE] /\ Time!Then("stop", 0)
      /\ UNCHANGED <<tFile, tUci, tJournal, tBase, tOutside, tReused>>
    BY DEF Time!DisableService
<1>2. tOp.step \in Time!Applying /\ "stop" \in Time!Applying BY <1>1 DEF Time!Applying
<1>3. tOwn = tJournal /\ tOwn.serviceOwned = TRUE /\ (~tReused => tOwn.service \subseteq tBase.svc) /\ tSvc \in Time!Service
      /\ tFile \in [Time!Files -> Time!Value] /\ tUci \in [Time!Keys -> Time!Value]
    BY <1>1, <1>2 DEF Time!OwnershipInv, Time!Copies, Time!Wanted, Time!Shapes
<1>4. FALSE \in BOOLEAN OBVIOUS
<1>5. tSvc' \in Time!Service BY <1>1, <1>3, <1>4 DEF Time!Service
<1>6. Time!Named' /\ (~tReused => Time!Owned') /\ (~tOutside => Time!Alone') BY <1>1, <1>2, <1>3, <1>5, ZoneServiceSet
<1> QED BY <1>1, <1>2, <1>3, <1>5, <1>6, ZoneApplyThen, ZoneAts

LEMMA ZoneStopService == ASSUME Time!OwnershipInv, Time!StopService PROVE Time!OwnershipInv' /\ Time!Exact /\ Time!LeavesForeign
<1>1. /\ tOp.step = "stop" /\ tSvc' = [tSvc EXCEPT !.running = FALSE] /\ Time!Then("service_read", 0)
      /\ UNCHANGED <<tFile, tUci, tJournal, tBase, tOutside, tReused>>
    BY DEF Time!StopService
<1>2. tOp.step \in Time!Applying /\ "service_read" \in Time!Applying BY <1>1 DEF Time!Applying
<1>3. tOwn = tJournal /\ tOwn.serviceOwned = TRUE /\ (~tReused => tOwn.service \subseteq tBase.svc) /\ tSvc \in Time!Service
      /\ tFile \in [Time!Files -> Time!Value] /\ tUci \in [Time!Keys -> Time!Value]
    BY <1>1, <1>2 DEF Time!OwnershipInv, Time!Copies, Time!Wanted, Time!Shapes
<1>4. FALSE \in BOOLEAN OBVIOUS
<1>5. tSvc' \in Time!Service BY <1>1, <1>3, <1>4 DEF Time!Service
<1>6. Time!Named' /\ (~tReused => Time!Owned') /\ (~tOutside => Time!Alone') BY <1>1, <1>2, <1>3, <1>5, ZoneServiceSet
<1> QED BY <1>1, <1>2, <1>3, <1>5, <1>6, ZoneApplyThen, ZoneAts

LEMMA ZoneServiceRead == ASSUME Time!OwnershipInv, Time!ServiceRead PROVE Time!OwnershipInv' /\ Time!Exact /\ Time!LeavesForeign
<1>1. tOp.step = "service_read" /\ UNCHANGED <<tFile, tUci, tSvc, tJournal, tBase, tReused, tOutside>> BY DEF Time!ServiceRead, Time!system
<1>2. tOp.step \in Time!Applying /\ "claim" \in Time!Applying /\ Time!Busy BY <1>1 DEF Time!Applying, Time!Busy
<1>3. CASE Time!Fails("failed", tOwn) BY <1>1, <1>2, <1>3, ZoneFailsStill
<1>4. CASE Time!Step("claim", 1) /\ UNCHANGED tOwn
  <2>1. 1 \in Time!Files /\ 1 \in 0..NFiles + 2 BY ZoneAts
  <2> QED BY <1>1, <1>2, <1>4, <2>1, ZoneApplyGoesOn
<1> QED BY <1>3, <1>4 DEF Time!ServiceRead

LEMMA ZonePut == ASSUME Time!OwnershipInv, Time!Put PROVE Time!OwnershipInv' /\ Time!Exact /\ Time!LeavesForeign
<1>1. /\ tOp.step = "put" /\ tFile' = [tFile EXCEPT ![tOp.at] = Time!Ours]
      /\ (Time!Then("claim", tOp.at + 1) /\ tOp.at < NFiles) \/ Time!Then("own_uci", 0)
      /\ UNCHANGED <<tUci, tSvc, tJournal, tBase, tOutside, tReused>>
    BY DEF Time!Put
<1>2. tOp.step \in Time!Applying /\ "claim" \in Time!Applying /\ "own_uci" \in Time!Applying /\ tOp.at \in Time!Files BY <1>1 DEF Time!OwnershipInv, Time!Shapes, Time!Applying
<1>3. tOwn = tJournal /\ tOwn.applied[tOp.at] = Time!Ours /\ tOwn.there = TRUE /\ tSvc \in Time!Service
      /\ tFile \in [Time!Files -> Time!Value] /\ tUci \in [Time!Keys -> Time!Value] /\ Time!Ours \in Time!Value
    BY <1>1, <1>2 DEF Time!OwnershipInv, Time!Copies, Time!Shapes, Time!Value
<1>4. tFile' \in [Time!Files -> Time!Value] /\ tSvc' \in Time!Service /\ tUci' \in [Time!Keys -> Time!Value] BY <1>1, <1>3
<1>5. \A i \in Time!Files : tFile'[i] = IF i = tOp.at THEN Time!Ours ELSE tFile[i] BY <1>1, <1>3
<1>6. Time!Named' BY <1>1, <1>3, <1>5 DEF Time!OwnershipInv, Time!Named, Time!NoJournal
<1>7. ~tReused => Time!Owned' BY <1>1, <1>2, <1>3, <1>5 DEF Time!OwnershipInv, Time!Owned, Time!Wanted
<1>8. ~tOutside => Time!Alone' BY <1>1, <1>5 DEF Time!OwnershipInv, Time!Alone
<1>9. CASE Time!Then("claim", tOp.at + 1) /\ tOp.at < NFiles
  <2>1. tOp.at + 1 \in Time!Files /\ tOp.at + 1 \in 0..NFiles + 2 BY <1>2, <1>9, OwnershipAssumption DEF Time!Files
  <2> QED BY <1>1, <1>2, <1>4, <1>6, <1>7, <1>8, <1>9, <2>1, ZoneApplyThen
<1>10. CASE Time!Then("own_uci", 0) BY <1>1, <1>2, <1>4, <1>6, <1>7, <1>8, <1>10, ZoneApplyThen, ZoneAts
<1> QED BY <1>1, <1>9, <1>10

LEMMA ZoneUciSet == ASSUME Time!OwnershipInv, Time!UciSet PROVE Time!OwnershipInv' /\ Time!Exact /\ Time!LeavesForeign
<1>1. /\ tOp.step = "uci_set" /\ tUci' = [tUci EXCEPT ![tOp.at] = Time!Ours]
      /\ Time!Then("uci_set", 2) \/ Time!Then("commit", 0)
      /\ UNCHANGED <<tFile, tSvc, tJournal, tBase, tOutside, tReused>>
    BY DEF Time!UciSet
<1>2. tOp.step \in Time!Applying /\ "uci_set" \in Time!Applying /\ "commit" \in Time!Applying /\ tOp.at \in Time!Keys BY <1>1 DEF Time!OwnershipInv, Time!Shapes, Time!Applying
<1>3. tOwn = tJournal /\ tOwn.uciOwned = TRUE /\ tOwn.there = TRUE /\ tSvc \in Time!Service
      /\ tFile \in [Time!Files -> Time!Value] /\ tUci \in [Time!Keys -> Time!Value] /\ Time!Ours \in Time!Value
    BY <1>1, <1>2 DEF Time!OwnershipInv, Time!Copies, Time!Shapes, Time!Value
<1>4. tUci' \in [Time!Keys -> Time!Value] /\ tSvc' \in Time!Service /\ tFile' \in [Time!Files -> Time!Value] BY <1>1, <1>3
<1>5. \A k \in Time!Keys : tUci'[k] = IF k = tOp.at THEN Time!Ours ELSE tUci[k] BY <1>1, <1>3
<1>6. Time!Named' BY <1>1, <1>3, <1>5 DEF Time!OwnershipInv, Time!Named, Time!NoJournal
<1>7. ~tReused => Time!Owned' BY <1>1, <1>2, <1>3, <1>5 DEF Time!OwnershipInv, Time!Owned, Time!Wanted
<1>8. ~tOutside => Time!Alone' BY <1>1, <1>5 DEF Time!OwnershipInv, Time!Alone
<1>9. 2 \in Time!Keys /\ 2 \in 0..NFiles + 2 BY ZoneAts DEF Time!Keys
<1>10. CASE Time!Then("uci_set", 2) BY <1>1, <1>2, <1>3, <1>4, <1>6, <1>7, <1>8, <1>9, <1>10, ZoneApplyThen
<1>11. CASE Time!Then("commit", 0) BY <1>1, <1>2, <1>3, <1>4, <1>6, <1>7, <1>8, <1>11, ZoneApplyThen, ZoneAts
<1> QED BY <1>1, <1>10, <1>11

LEMMA ZoneCommit == ASSUME Time!OwnershipInv, Time!Commit PROVE Time!OwnershipInv' /\ Time!Exact /\ Time!LeavesForeign
<1>1. tOp.step = "commit" /\ Time!Then("verify", 0) /\ UNCHANGED <<tFile, tUci, tSvc, tJournal, tBase, tReused, tOutside>> BY DEF Time!Commit
<1>2. tOp.step \in Time!Applying /\ "verify" \in Time!Applying /\ tOwn.uciOwned = TRUE BY <1>1 DEF Time!OwnershipInv, Time!Copies, Time!Applying
<1>3. tFile' \in [Time!Files -> Time!Value] /\ tSvc' \in Time!Service /\ tUci' \in [Time!Keys -> Time!Value] BY <1>1 DEF Time!OwnershipInv, Time!Shapes
<1>4. Time!Named' /\ (~tReused => Time!Owned') /\ (~tOutside => Time!Alone') BY <1>1, ZoneStill
<1> QED BY <1>1, <1>2, <1>3, <1>4, ZoneApplyThen, ZoneAts

LEMMA ZoneVerify == ASSUME Time!OwnershipInv, Time!Verify PROVE Time!OwnershipInv' /\ Time!Exact /\ Time!LeavesForeign
<1>1. tOp.step = "verify" /\ UNCHANGED <<tFile, tUci, tSvc, tJournal, tBase, tReused, tOutside>> BY DEF Time!Verify, Time!system
<1>2. tOp.step \in Time!Applying /\ "seal" \in Time!Applying /\ Time!Busy /\ tOwn.uciOwned = TRUE BY <1>1 DEF Time!OwnershipInv, Time!Copies, Time!Applying, Time!Busy
<1>3. CASE Time!Fails("failed", tOwn) BY <1>1, <1>2, <1>3, ZoneFailsStill
<1>4. CASE Time!Fails("conflict", tOwn) BY <1>1, <1>2, <1>4, ZoneFailsStill
<1>5. CASE Time!Step("seal", 0) /\ UNCHANGED tOwn BY <1>1, <1>2, <1>5, ZoneApplyGoesOn, ZoneAts
<1> QED BY <1>3, <1>4, <1>5 DEF Time!Verify

LEMMA ZoneSeal == ASSUME Time!OwnershipInv, Time!Seal PROVE Time!OwnershipInv' /\ Time!Exact /\ Time!LeavesForeign
<1> DEFINE j == [tOwn EXCEPT !.complete = TRUE]
<1>1. tOp.step = "seal" /\ UNCHANGED <<tFile, tUci, tSvc, tBase, tOutside, tReused>> BY DEF Time!Seal, Time!system
<1>2. tOp.step \in Time!Applying /\ Time!Busy BY <1>1 DEF Time!Applying, Time!Busy
<1>3. tOwn \in Time!JournalType /\ tOwn = tJournal /\ tForeign = {} BY <1>1, <1>2 DEF Time!OwnershipInv, Time!Shapes, Time!Copies, Time!Looks
<1>4. TRUE \in BOOLEAN OBVIOUS
<1>5. j \in Time!JournalType BY <1>3, <1>4 DEF Time!JournalType
<1>6. /\ j.there = tOwn.there /\ j.before = tOwn.before /\ j.uci = tOwn.uci /\ j.service = tOwn.service /\ j.applied = tOwn.applied
      /\ j.uciOwned = tOwn.uciOwned /\ j.serviceOwned = tOwn.serviceOwned
    BY <1>3 DEF Time!JournalType
<1>7. /\ tFile' \in [Time!Files -> Time!Value] /\ tUci' \in [Time!Keys -> Time!Value] /\ tSvc' \in Time!Service /\ tBase' \in Time!Bases /\ tJournal \in Time!JournalType
    BY <1>1 DEF Time!OwnershipInv, Time!Shapes
<1>8. (tJournal' = j /\ Time!End("none", tOp.calibrate)) \/ (tJournal' \in {tJournal, j} /\ Time!Fails("failed", j)) BY DEF Time!Seal
<1> HIDE DEF j
<1>9. /\ tOwn.there = TRUE /\ (tOwn.serviceOwned = TRUE => tOwn.service # {})
      /\ \A i \in Time!Files : tOwn.applied[i] \in {tOwn.before[i], Time!Ours}
    BY <1>2, ZoneOwn
<1>10. /\ \A i \in Time!Files : tFile[i] = Time!Ours => j.applied[i] = Time!Ours
       /\ \A k \in Time!Keys : tUci[k] = Time!Ours => j.uciOwned = TRUE
       /\ \A i \in Time!Files : j.before[i] # Time!Ours /\ j.applied[i] \in {j.before[i], Time!Ours}
       /\ \A k \in Time!Keys : j.uci[k] # Time!Ours
       /\ \A s, t \in j.service : s = t
    BY <1>3, <1>6 DEF Time!OwnershipInv, Time!Named
<1>11. ~tOutside => (\A i \in Time!Files : j.before[i] = "found") /\ (\A k \in Time!Keys : j.uci[k] = "found") BY <1>3, <1>6 DEF Time!OwnershipInv, Time!Alone
<1>12. ~tReused => /\ \A i \in Time!Files : IF tFile[i] = Time!Ours THEN j.before[i] \in tBase.file[i] ELSE tFile[i] \in tBase.file[i]
                   /\ \A k \in Time!Keys : IF tUci[k] = Time!Ours THEN j.uci[k] \in tBase.uci[k] ELSE tUci[k] \in tBase.uci[k]
                   /\ tSvc \notin tBase.svc => j.serviceOwned = TRUE
                   /\ j.service \subseteq tBase.svc
    BY <1>2, <1>3, <1>6 DEF Time!OwnershipInv, Time!Owned, Time!Wanted
<1>13. CASE tJournal' = j
  <2>1. Time!Named' /\ (~tReused' => Time!Owned') /\ (~tOutside' => Time!Alone') /\ Time!Exact /\ Time!LeavesForeign
    BY <1>1, <1>5, <1>6, <1>9, <1>10, <1>11, <1>12, <1>13, ZoneWrites
  <2>2. CASE Time!End("none", tOp.calibrate)
    <3>1. Time!OwnershipInv' BY <1>5, <1>7, <1>13, <2>1, <2>2, ZoneOver DEF Time!End
    <3> QED BY <2>1, <3>1
  <2>3. CASE Time!Fails("failed", j)
    <3>1. Time!OwnershipInv' BY <1>1, <1>2, <1>5, <1>6, <1>7, <1>9, <1>13, <2>1, <2>3, ZoneFails
    <3> QED BY <2>1, <3>1
  <2> QED BY <1>8, <2>2, <2>3
<1>14. CASE tJournal' = tJournal /\ Time!Fails("failed", j)
  <2>1. Time!Named' /\ (~tReused' => Time!Owned') /\ (~tOutside' => Time!Alone') /\ Time!Exact /\ Time!LeavesForeign BY <1>1, <1>14, ZoneStill
  <2>2. Time!OwnershipInv' BY <1>1, <1>2, <1>3, <1>5, <1>6, <1>7, <1>9, <1>14, <2>1, ZoneFails
  <2> QED BY <2>1, <2>2
<1> QED BY <1>8, <1>13, <1>14

\* The first look of a restore: what it lets through is the owners'.
LEMMA ZoneLooked ==
    ASSUME Time!OwnershipInv, tOp.step = "preflight", Time!PreflightOk(tOwn), ~tReused
    PROVE  /\ \A i \in Time!Files : tOwn.before[i] \in tBase.file[i]
           /\ tOwn.uciOwned = TRUE => \A k \in Time!Keys : tOwn.uci[k] \in tBase.uci[k]
           /\ tOwn.serviceOwned = TRUE => tOwn.service \subseteq tBase.svc
<1>1. Time!Owned /\ Time!Wanted /\ Time!Named BY DEF Time!OwnershipInv
<1>2. /\ tOwn \in Time!JournalType /\ tOwn.before = tJournal.before /\ tOwn.uci = tJournal.uci /\ tOwn.service = tJournal.service
      /\ \A i \in Time!Files : tOwn.applied[i] \in {tOwn.before[i], Time!Ours}
      /\ tOp.goal \in {"restore", "again"} => tOwn = tJournal
      /\ tOp.goal \in {"rollback", "restore", "again"}
    BY DEF Time!OwnershipInv, Time!Copies, Time!Shapes
<1>3. tOwn.uciOwned \in BOOLEAN /\ tOwn.serviceOwned \in BOOLEAN BY <1>2, ZoneFields
<1>4. \A i \in Time!Files : tFile[i] \in {tOwn.before[i], tOwn.applied[i]} BY DEF Time!PreflightOk, Time!InOtherHands
<1>5. \A i \in Time!Files : tOwn.before[i] \in tBase.file[i] BY <1>1, <1>2, <1>4 DEF Time!Owned
<1>6. ASSUME tOwn.uciOwned = TRUE PROVE \A k \in Time!Keys : tOwn.uci[k] \in tBase.uci[k]
  <2>1. \A k \in Time!Keys : tUci[k] \in {tOwn.uci[k], Time!Ours} BY <1>6 DEF Time!PreflightOk, Time!InOtherHands
  <2> QED BY <1>1, <1>2, <2>1 DEF Time!Owned
<1>7. ASSUME tOwn.serviceOwned = TRUE PROVE tOwn.service \subseteq tBase.svc
  <2>1. ~Time!ServiceConflict(tOwn)
    <3>1. tOwn.serviceOwned BY <1>7
    <3>2. \A n \in {0} : ~(tOwn.serviceOwned /\ Time!ServiceConflict(tOwn)) BY DEF Time!PreflightOk, Time!InOtherHands
    <3> QED BY <3>1, <3>2
  <2>2. tSvc = Time!Off \/ tSvc \in tOwn.service BY <2>1 DEF Time!ServiceConflict
  <2>3. CASE tOp.goal = "rollback" BY <1>1, <2>3 DEF Time!Wanted
  <2>4. CASE tOwn = tJournal
    <3>1. CASE tSvc \in tOwn.service BY <1>1, <1>7, <2>4, <3>1 DEF Time!Owned, Time!Named
    <3>2. CASE tSvc = Time!Off BY <1>1, <1>7, <2>4, <3>2 DEF Time!Owned
    <3> QED BY <2>2, <3>1, <3>2
  <2> QED BY <1>2, <2>3, <2>4
<1> QED BY <1>5, <1>6, <1>7

LEMMA ZonePreflight == ASSUME Time!OwnershipInv, Time!Preflight PROVE Time!OwnershipInv' /\ Time!Exact /\ Time!LeavesForeign
<1>1. tOp.step = "preflight" /\ UNCHANGED <<tFile, tUci, tSvc, tJournal, tBase, tReused, tOutside>> BY DEF Time!Preflight, Time!system
<1>2. CASE Time!Fails("conflict", tOwn) BY <1>1, <1>2, ZoneFailsStill DEF Time!Busy
<1>3. CASE Time!PreflightOk(tOwn) /\ Time!Step("put_back", NFiles) /\ UNCHANGED tOwn
  <2>1. tOp \in Time!Operations /\ tOp.goal \in {"rollback", "restore", "again"} BY <1>1 DEF Time!OwnershipInv, Time!Shapes
  <2>2. NFiles \in 0..NFiles + 2 /\ NFiles \in Time!Files /\ "put_back" \in Time!PuttingBack BY ZoneAts DEF Time!PuttingBack
  <2>3. tOp' \in Time!Operations /\ tOp'.step = "put_back" /\ tOp'.at = NFiles /\ tOp'.goal = tOp.goal /\ tForeign' = tForeign
    BY <1>3, <2>1, <2>2, ZoneStep
  <2>4. tForeign = {}
    <3>1. CASE tOp.goal = "rollback" BY <3>1 DEF Time!OwnershipInv, Time!Looks
    <3>2. CASE tOp.goal # "rollback"
      <4>1. tOwn = tJournal BY <1>1, <2>1, <3>2 DEF Time!OwnershipInv, Time!Copies
      <4>2. Time!InOtherHands(tJournal) = {} BY <1>3, <4>1 DEF Time!PreflightOk
      <4> QED BY <4>2 DEF Time!OwnershipInv, Time!Looks
    <3> QED BY <3>1, <3>2
  <2>5. Time!Copies' BY <1>1, <1>3, <2>3 DEF Time!OwnershipInv, Time!Copies, Time!Applying, Time!PuttingBack, Time!Late
  <2>6. Time!Progress' BY <1>1, <2>3, OwnershipAssumption DEF Time!Progress, Time!Late, Time!Files
  <2>7. ~tReused => Time!Wanted' BY <1>1, <1>3, <2>3, ZoneLooked DEF Time!Wanted, Time!Applying, Time!PuttingBack, Time!Late
  <2> QED BY <1>1, <1>3, <2>1, <2>2, <2>3, <2>4, <2>5, <2>6, <2>7, ZoneGoesOnStill DEF Time!Early, Time!Applying, Time!PuttingBack, Time!Late
<1> QED BY <1>2, <1>3 DEF Time!Preflight

\* A step of a restore that has changed the system, and goes on or ends it.
LEMMA ZoneBackThen ==
    ASSUME Time!OwnershipInv, tOp.step \in Time!PuttingBack, NEW st \in Time!PuttingBack, NEW n \in 0..NFiles + 2, Time!Then(st, n),
           UNCHANGED <<tJournal, tBase, tReused, tOutside>>,
           tFile' \in [Time!Files -> Time!Value], tUci' \in [Time!Keys -> Time!Value], tSvc' \in Time!Service,
           Time!Named', ~tReused => Time!Owned', ~tOutside => Time!Alone',
           st \in {"put_back", "note_back"} => n \in Time!Files, st = "uci_back" => n \in Time!Keys,
           st \in Time!Late => tOp.step \in Time!Late,
           st \in {"uci_back", "commit_back", "note_uci"} => tOwn.uciOwned = TRUE,
           st \in {"service_back", "start", "service_check"} => tOwn.serviceOwned = TRUE,
           st \in {"service_back", "start", "service_check", "remove"} => tOwn.uciOwned = FALSE,
           st = "remove" => tOwn.serviceOwned = FALSE,
           \A i \in Time!Files : (st = "put_back" /\ i > n) \/ (st = "note_back" /\ i >= n) \/ st \in Time!Late => tFile'[i] # Time!Ours
    PROVE  Time!OwnershipInv' /\ Time!Exact /\ Time!LeavesForeign
<1>1. tOp \in Time!Operations /\ tOp.goal \in {"rollback", "restore", "again"} /\ tForeign = {} /\ tJournal \in Time!JournalType /\ tOwn \in Time!JournalType
      /\ tBase \in Time!Bases
    BY DEF Time!OwnershipInv, Time!Shapes, Time!Looks, Time!PuttingBack, Time!Late
<1>2. Time!Exact /\ Time!LeavesForeign BY <1>1 DEF Time!Exact, Time!LeavesForeign
<1>3. CASE Time!Step(st, n) /\ UNCHANGED tOwn
  <2>1. tOp' \in Time!Operations /\ tOp'.step = st /\ tOp'.at = n /\ tOp'.goal = tOp.goal /\ tForeign' = tForeign BY <1>1, <1>3, ZoneStep
  <2>2. Time!Shapes' BY <1>1, <1>3, <2>1 DEF Time!Shapes, Time!Early, Time!Applying, Time!PuttingBack, Time!Late
  <2>3. Time!Copies' BY <1>3, <2>1 DEF Time!OwnershipInv, Time!Copies, Time!Applying, Time!PuttingBack, Time!Late
  <2>4. Time!Progress' BY <2>1 DEF Time!Progress
  <2>5. ~tReused => Time!Wanted' BY <1>3, <2>1 DEF Time!OwnershipInv, Time!Wanted, Time!Applying, Time!PuttingBack, Time!Late
  <2>6. Time!Looks' BY <1>1, <2>1 DEF Time!Looks
  <2> QED BY <1>2, <2>2, <2>3, <2>4, <2>5, <2>6 DEF Time!OwnershipInv
<1>4. CASE Time!Fails("failed", tOwn)
  <2>1. Time!Busy /\ tOp.step \notin Time!Applying BY DEF Time!Busy, Time!Applying, Time!PuttingBack, Time!Late
  <2>2. Time!OwnershipInv' BY <1>1, <1>4, <2>1, ZoneFails
  <2> QED BY <1>2, <2>2
<1> QED BY <1>3, <1>4 DEF Time!Then

\* Save in a restore: j says less than own.
LEMMA ZoneSavesBack ==
    ASSUME Time!OwnershipInv, tOp.step \in Time!PuttingBack, NEW j \in Time!JournalType, NEW st \in Time!PuttingBack, NEW n \in 0..NFiles + 2, Time!Save(j, st, n),
           UNCHANGED <<tFile, tUci, tSvc, tBase, tOutside, tReused>>,
           j.there = TRUE, j.before = tOwn.before, j.uci = tOwn.uci, j.service = tOwn.service,
           \A i \in Time!Files : j.applied[i] \in {tOwn.before[i], tOwn.applied[i]} /\ (tFile[i] = Time!Ours => j.applied[i] = tOwn.applied[i]),
           \A k \in Time!Keys : tUci[k] = Time!Ours => j.uciOwned = tOwn.uciOwned,
           j.uciOwned = TRUE => tOwn.uciOwned = TRUE,
           j.serviceOwned = tOwn.serviceOwned \/ (j.serviceOwned = FALSE /\ tSvc \in tOwn.service /\ tOwn.serviceOwned = TRUE),
           st \in {"put_back", "note_back"} => n \in Time!Files, st = "uci_back" => n \in Time!Keys,
           st \in {"uci_back", "commit_back", "note_uci"} => j.uciOwned = TRUE,
           st \in {"service_back", "start", "service_check"} => j.serviceOwned = TRUE,
           st \in {"service_back", "start", "service_check", "remove"} => j.uciOwned = FALSE,
           st = "remove" => j.serviceOwned = FALSE,
           \A i \in Time!Files : (st = "put_back" /\ i > n) \/ (st = "note_back" /\ i >= n) \/ st \in Time!Late => tFile[i] # Time!Ours
    PROVE  Time!OwnershipInv' /\ Time!Exact /\ Time!LeavesForeign
<1>1. tOp \in Time!Operations /\ tOp.goal \in {"rollback", "restore", "again"} /\ tForeign = {} /\ tJournal \in Time!JournalType /\ tOwn \in Time!JournalType
      /\ tBase \in Time!Bases /\ tFile \in [Time!Files -> Time!Value] /\ tUci \in [Time!Keys -> Time!Value] /\ tSvc \in Time!Service
    BY DEF Time!OwnershipInv, Time!Shapes, Time!Looks, Time!PuttingBack, Time!Late
<1>2. Time!Busy /\ tOp.step \notin Time!Applying BY DEF Time!Busy, Time!Applying, Time!PuttingBack, Time!Late
<1>3. /\ tOwn.before = tJournal.before /\ tOwn.uci = tJournal.uci /\ tOwn.service = tJournal.service
      /\ \A i \in Time!Files : tOwn.applied[i] \in {tOwn.before[i], Time!Ours} /\ (tJournal.applied[i] = Time!Ours => tOwn.applied[i] = Time!Ours)
      /\ tJournal.uciOwned = TRUE => tOwn.uciOwned = TRUE
      /\ tJournal.serviceOwned = TRUE => tOwn.serviceOwned = TRUE
      /\ tOwn.serviceOwned = TRUE => tOwn.service # {}
    BY ZoneOwn
<1>4. ~tReused => Time!Owned /\ Time!Wanted BY DEF Time!OwnershipInv
<1>5. CASE tJournal' = j
  <2>1. /\ \A i \in Time!Files : tFile[i] = Time!Ours => j.applied[i] = Time!Ours
        /\ \A k \in Time!Keys : tUci[k] = Time!Ours => j.uciOwned = TRUE
        /\ \A i \in Time!Files : j.before[i] # Time!Ours /\ j.applied[i] \in {j.before[i], Time!Ours}
        /\ \A k \in Time!Keys : j.uci[k] # Time!Ours
        /\ \A s, t \in j.service : s = t
        /\ j.serviceOwned = TRUE => j.service # {}
    BY <1>3 DEF Time!OwnershipInv, Time!Named
  <2>2. ~tOutside => (\A i \in Time!Files : j.before[i] = "found") /\ (\A k \in Time!Keys : j.uci[k] = "found") BY <1>3 DEF Time!OwnershipInv, Time!Alone
  <2>3. ~tReused => /\ \A i \in Time!Files : IF tFile[i] = Time!Ours THEN j.before[i] \in tBase.file[i] ELSE tFile[i] \in tBase.file[i]
                    /\ \A k \in Time!Keys : IF tUci[k] = Time!Ours THEN j.uci[k] \in tBase.uci[k] ELSE tUci[k] \in tBase.uci[k]
                    /\ tSvc \notin tBase.svc => j.serviceOwned = TRUE
                    /\ j.serviceOwned = TRUE => j.service \subseteq tBase.svc
    BY <1>3, <1>4 DEF Time!Owned, Time!Wanted
  <2>4. Time!Named' /\ (~tReused' => Time!Owned') /\ (~tOutside' => Time!Alone') /\ Time!Exact /\ Time!LeavesForeign BY <1>5, <2>1, <2>2, <2>3, ZoneWrites
  <2>5. CASE tOwn' = j /\ Time!Step(st, n)
    <3>1. tOp' \in Time!Operations /\ tOp'.step = st /\ tOp'.at = n /\ tOp'.goal = tOp.goal /\ tForeign' = tForeign BY <1>1, <2>5, ZoneStep
    <3>2. Time!Shapes' BY <1>1, <1>5, <2>5, <3>1 DEF Time!Shapes, Time!Early, Time!Applying, Time!PuttingBack, Time!Late
    <3>3. Time!Copies' BY <1>5, <2>1, <2>5, <3>1 DEF Time!Copies, Time!Applying, Time!PuttingBack, Time!Late
    <3>4. Time!Progress' BY <3>1 DEF Time!Progress
    <3>5. ~tReused => Time!Wanted' BY <1>4, <2>3, <2>5, <3>1 DEF Time!Wanted, Time!Applying, Time!PuttingBack, Time!Late
    <3>6. Time!Looks' BY <1>1, <3>1 DEF Time!Looks
    <3> QED BY <2>4, <3>2, <3>3, <3>4, <3>5, <3>6 DEF Time!OwnershipInv
  <2>6. CASE Time!Fails("failed", j)
    <3>1. Time!OwnershipInv' BY <1>1, <1>2, <1>5, <2>4, <2>6, ZoneFails
    <3> QED BY <2>4, <3>1
  <2> QED BY <2>5, <2>6 DEF Time!Save
<1>6. CASE tJournal' = tJournal /\ Time!Fails("failed", j)
  <2>1. Time!Named' /\ (~tReused' => Time!Owned') /\ (~tOutside' => Time!Alone') /\ Time!Exact /\ Time!LeavesForeign BY <1>6, ZoneStill
  <2>2. Time!OwnershipInv' BY <1>1, <1>2, <1>6, <2>1, ZoneFails
  <2> QED BY <2>1, <2>2
<1> QED BY <1>5, <1>6 DEF Time!Save

LEMMA ZonePutBack == ASSUME Time!OwnershipInv, Time!PutBack PROVE Time!OwnershipInv' /\ Time!Exact /\ Time!LeavesForeign
<1>1. /\ tOp.step = "put_back" /\ tFile' = [tFile EXCEPT ![tOp.at] = tOwn.before[tOp.at]] /\ Time!Then("note_back", tOp.at)
      /\ UNCHANGED <<tUci, tSvc, tJournal, tBase, tOutside, tReused>>
    BY DEF Time!PutBack
<1>2. tOp.step \in Time!PuttingBack /\ "note_back" \in Time!PuttingBack /\ tOp.at \in Time!Files /\ tOp.at \in 0..NFiles + 2
    BY <1>1, ZoneAts DEF Time!OwnershipInv, Time!Shapes, Time!PuttingBack
<1>3. tOwn \in Time!JournalType /\ tOwn.before = tJournal.before /\ tSvc \in Time!Service
      /\ tFile \in [Time!Files -> Time!Value] /\ tUci \in [Time!Keys -> Time!Value]
    BY <1>1, <1>2, ZoneOwn DEF Time!OwnershipInv, Time!Shapes
<1>4. tOwn.before \in [Time!Files -> Time!Value] BY <1>3, ZoneFields
<1>5. tFile' \in [Time!Files -> Time!Value] /\ tSvc' \in Time!Service /\ tUci' \in [Time!Keys -> Time!Value] BY <1>1, <1>2, <1>3, <1>4
<1>6. \A i \in Time!Files : tFile'[i] = IF i = tOp.at THEN tOwn.before[i] ELSE tFile[i] BY <1>1, <1>3
<1>7. \A i \in Time!Files : tOwn.before[i] # Time!Ours BY <1>3 DEF Time!OwnershipInv, Time!Named
<1>8. Time!Named' BY <1>1, <1>6, <1>7 DEF Time!OwnershipInv, Time!Named, Time!NoJournal
<1>9. ~tReused => Time!Owned' BY <1>1, <1>2, <1>6, <1>7 DEF Time!OwnershipInv, Time!Owned, Time!Wanted
<1>10. ~tOutside => Time!Alone' BY <1>1, <1>3, <1>6 DEF Time!OwnershipInv, Time!Alone
<1>11. \A i \in Time!Files : i >= tOp.at => tFile'[i] # Time!Ours
  <2>1. \A i \in Time!Files : i > tOp.at => tFile[i] # Time!Ours BY <1>1 DEF Time!OwnershipInv, Time!Progress
  <2>2. \A i \in Time!Files : i >= tOp.at => i = tOp.at \/ i > tOp.at BY <1>2 DEF Time!Files
  <2> QED BY <1>6, <1>7, <2>1, <2>2
<1> QED BY <1>1, <1>2, <1>5, <1>8, <1>9, <1>10, <1>11, ZoneBackThen DEF Time!Late

LEMMA ZoneNoteBack == ASSUME Time!OwnershipInv, Time!NoteBack PROVE Time!OwnershipInv' /\ Time!Exact /\ Time!LeavesForeign
<1> DEFINE j == [tOwn EXCEPT !.applied[tOp.at] = tOwn.before[tOp.at]]
<1>1. tOp.step = "note_back" /\ UNCHANGED <<tFile, tUci, tSvc, tBase, tOutside, tReused>> BY DEF Time!NoteBack, Time!system
<1>2. tOp.step \in Time!PuttingBack /\ tOp.at \in Time!Files /\ tOp.at \in 0..NFiles + 2
    BY <1>1, ZoneAts DEF Time!OwnershipInv, Time!Shapes, Time!PuttingBack
<1>3. tOwn \in Time!JournalType /\ tOwn.there = TRUE BY <1>2, ZoneOwn
<1>4. tOwn.before \in [Time!Files -> Time!Value] /\ tOwn.applied \in [Time!Files -> Time!Value] /\ tOwn.uciOwned \in BOOLEAN /\ tOwn.serviceOwned \in BOOLEAN
    BY <1>3, ZoneFields
<1>5. [tOwn.applied EXCEPT ![tOp.at] = tOwn.before[tOp.at]] \in [Time!Files -> Time!Value] BY <1>2, <1>4
<1>6. j = [tOwn EXCEPT !.applied = [tOwn.applied EXCEPT ![tOp.at] = tOwn.before[tOp.at]]] BY <1>3 DEF Time!JournalType
<1>7. j \in Time!JournalType BY <1>3, <1>5, <1>6 DEF Time!JournalType
<1>8. /\ j.there = tOwn.there /\ j.before = tOwn.before /\ j.uci = tOwn.uci /\ j.service = tOwn.service
      /\ j.applied = [tOwn.applied EXCEPT ![tOp.at] = tOwn.before[tOp.at]]
      /\ j.uciOwned = tOwn.uciOwned /\ j.serviceOwned = tOwn.serviceOwned
    BY <1>3, <1>6 DEF Time!JournalType
<1>9. \/ tOp.at > 1 /\ Time!Save(j, "put_back", tOp.at - 1)
      \/ tOp.at = 1 /\ tOwn.uciOwned /\ Time!Save(j, "uci_back", 1)
      \/ tOp.at = 1 /\ ~tOwn.uciOwned /\ Time!Save(j, Time!AfterUci(tOwn), 0)
    BY DEF Time!NoteBack
<1> HIDE DEF j
<1>10. \A i \in Time!Files : i >= tOp.at => tFile[i] # Time!Ours BY <1>1 DEF Time!OwnershipInv, Time!Progress
<1>11. tFile[tOp.at] # Time!Ours BY <1>2, <1>10 DEF Time!Files
<1>12. \A i \in Time!Files : j.applied[i] \in {tOwn.before[i], tOwn.applied[i]} /\ (tFile[i] = Time!Ours => j.applied[i] = tOwn.applied[i])
    BY <1>4, <1>8, <1>11
<1>13. CASE tOp.at > 1 /\ Time!Save(j, "put_back", tOp.at - 1)
  <2>1. tOp.at - 1 \in Time!Files /\ tOp.at - 1 \in 0..NFiles + 2 /\ (\A i \in Time!Files : i > tOp.at - 1 => i >= tOp.at)
    BY <1>2, <1>13, OwnershipAssumption DEF Time!Files
  <2>2. \A i \in Time!Files : i > tOp.at - 1 => tFile[i] # Time!Ours BY <1>10, <2>1
  <2>3. "put_back" \in Time!PuttingBack /\ "put_back" \notin Time!Late BY DEF Time!PuttingBack, Time!Late
  <2> QED BY <1>1, <1>2, <1>3, <1>7, <1>8, <1>12, <1>13, <2>1, <2>2, <2>3, ZoneSavesBack
<1>14. ASSUME tOp.at = 1 PROVE \A i \in Time!Files : tFile[i] # Time!Ours BY <1>10, <1>14 DEF Time!Files
<1>15. CASE tOp.at = 1 /\ tOwn.uciOwned /\ Time!Save(j, "uci_back", 1)
  <2>1. 1 \in Time!Keys /\ 1 \in 0..NFiles + 2 BY ZoneAts DEF Time!Keys
  <2>2. "uci_back" \in Time!PuttingBack BY DEF Time!PuttingBack, Time!Late
  <2>3. tOwn.uciOwned = TRUE BY <1>4, <1>15, ZoneBool
  <2> QED BY <1>1, <1>2, <1>3, <1>7, <1>8, <1>12, <1>14, <1>15, <2>1, <2>2, <2>3, ZoneSavesBack
<1>16. CASE tOp.at = 1 /\ ~tOwn.uciOwned /\ Time!Save(j, Time!AfterUci(tOwn), 0)
  <2>1. tOwn.uciOwned = FALSE BY <1>4, <1>16, ZoneBool
  <2>2. CASE tOwn.serviceOwned
    <3>1. Time!AfterUci(tOwn) = "service_back" /\ tOwn.serviceOwned = TRUE BY <1>4, <2>2, ZoneBool DEF Time!AfterUci
    <3>2. "service_back" \in Time!PuttingBack BY DEF Time!PuttingBack, Time!Late
    <3> QED BY <1>1, <1>2, <1>3, <1>7, <1>8, <1>12, <1>14, <1>16, <2>1, <3>1, <3>2, ZoneSavesBack, ZoneAts
  <2>3. CASE ~tOwn.serviceOwned
    <3>1. Time!AfterUci(tOwn) = "remove" /\ tOwn.serviceOwned = FALSE BY <1>4, <2>3, ZoneBool DEF Time!AfterUci
    <3>2. "remove" \in Time!PuttingBack BY DEF Time!PuttingBack, Time!Late
    <3> QED BY <1>1, <1>2, <1>3, <1>7, <1>8, <1>12, <1>14, <1>16, <2>1, <3>1, <3>2, ZoneSavesBack, ZoneAts
  <2> QED BY <2>2, <2>3
<1> QED BY <1>9, <1>13, <1>15, <1>16

\* No file of datad's is left once the options' turn has come.
LEMMA ZoneLate ==
    ASSUME Time!OwnershipInv, tOp.step \in Time!Late
    PROVE  /\ tOp.step \in Time!PuttingBack /\ tOwn = tJournal /\ tOwn \in Time!JournalType /\ tOwn.there = TRUE /\ (\A i \in Time!Files : tFile[i] # Time!Ours)
           /\ tFile \in [Time!Files -> Time!Value] /\ tUci \in [Time!Keys -> Time!Value] /\ tSvc \in Time!Service
           /\ tOwn.uciOwned \in BOOLEAN /\ tOwn.serviceOwned \in BOOLEAN /\ tOwn.uci \in [Time!Keys -> Time!Value] /\ tOwn.service \in SUBSET Time!Service
<1>1. tOp.step \in Time!PuttingBack BY DEF Time!PuttingBack
<1>2. tOwn = tJournal /\ tOwn \in Time!JournalType /\ tOwn.there = TRUE BY <1>1 DEF Time!OwnershipInv, Time!Copies, Time!Shapes
<1>3. \A i \in Time!Files : tFile[i] # Time!Ours BY DEF Time!OwnershipInv, Time!Progress
<1> QED BY <1>1, <1>2, <1>3, ZoneFields DEF Time!OwnershipInv, Time!Shapes

LEMMA ZoneUciBack == ASSUME Time!OwnershipInv, Time!UciBack PROVE Time!OwnershipInv' /\ Time!Exact /\ Time!LeavesForeign
<1>1. /\ tOp.step = "uci_back" /\ tUci' = [tUci EXCEPT ![tOp.at] = tOwn.uci[tOp.at]]
      /\ Time!Then("uci_back", 2) \/ Time!Then("commit_back", 0)
      /\ UNCHANGED <<tFile, tSvc, tJournal, tBase, tOutside, tReused>>
    BY DEF Time!UciBack
<1>2. tOp.step \in Time!Late /\ tOp.at \in Time!Keys BY <1>1 DEF Time!OwnershipInv, Time!Shapes, Time!Late
<1>3. /\ tOp.step \in Time!PuttingBack /\ tOwn = tJournal /\ tOwn \in Time!JournalType /\ (\A i \in Time!Files : tFile[i] # Time!Ours)
      /\ tFile \in [Time!Files -> Time!Value] /\ tUci \in [Time!Keys -> Time!Value] /\ tSvc \in Time!Service /\ tOwn.uci \in [Time!Keys -> Time!Value]
    BY <1>2, ZoneLate
<1>4. tUci' \in [Time!Keys -> Time!Value] /\ tSvc' \in Time!Service /\ tFile' \in [Time!Files -> Time!Value] BY <1>1, <1>2, <1>3
<1>5. \A k \in Time!Keys : tUci'[k] = IF k = tOp.at THEN tOwn.uci[k] ELSE tUci[k] BY <1>1, <1>3
<1>6. \A k \in Time!Keys : tOwn.uci[k] # Time!Ours BY <1>3 DEF Time!OwnershipInv, Time!Named
<1>7. Time!Named' BY <1>1, <1>5, <1>6 DEF Time!OwnershipInv, Time!Named, Time!NoJournal
<1>8. tOwn.uciOwned = TRUE BY <1>1 DEF Time!OwnershipInv, Time!Copies
<1>13. ~tReused => Time!Owned' BY <1>1, <1>2, <1>3, <1>5, <1>6, <1>8 DEF Time!OwnershipInv, Time!Owned, Time!Wanted
<1>9. ~tOutside => Time!Alone' BY <1>1, <1>3, <1>5 DEF Time!OwnershipInv, Time!Alone
<1>10. 2 \in Time!Keys /\ 2 \in 0..NFiles + 2 /\ "uci_back" \in Time!PuttingBack /\ "commit_back" \in Time!PuttingBack
    BY ZoneAts DEF Time!Keys, Time!PuttingBack, Time!Late
<1>11. CASE Time!Then("uci_back", 2) BY <1>1, <1>2, <1>3, <1>4, <1>7, <1>8, <1>9, <1>10, <1>11, <1>13, ZoneBackThen
<1>12. CASE Time!Then("commit_back", 0) BY <1>1, <1>2, <1>3, <1>4, <1>7, <1>8, <1>9, <1>10, <1>12, <1>13, ZoneBackThen, ZoneAts
<1> QED BY <1>1, <1>11, <1>12

LEMMA ZoneCommitBack == ASSUME Time!OwnershipInv, Time!CommitBack PROVE Time!OwnershipInv' /\ Time!Exact /\ Time!LeavesForeign
<1>1. tOp.step = "commit_back" /\ Time!Then("note_uci", 0) /\ UNCHANGED <<tFile, tUci, tSvc, tJournal, tBase, tReused, tOutside>> BY DEF Time!CommitBack
<1>2. tOp.step \in Time!Late /\ "note_uci" \in Time!PuttingBack /\ tOwn.uciOwned = TRUE BY <1>1 DEF Time!OwnershipInv, Time!Copies, Time!Late, Time!PuttingBack
<1>3. /\ tOp.step \in Time!PuttingBack /\ (\A i \in Time!Files : tFile[i] # Time!Ours)
      /\ tFile \in [Time!Files -> Time!Value] /\ tUci \in [Time!Keys -> Time!Value] /\ tSvc \in Time!Service
    BY <1>2, ZoneLate
<1>4. Time!Named' /\ (~tReused => Time!Owned') /\ (~tOutside => Time!Alone') BY <1>1, ZoneStill
<1> QED BY <1>1, <1>2, <1>3, <1>4, ZoneBackThen, ZoneAts

LEMMA ZoneNoteUci == ASSUME Time!OwnershipInv, Time!NoteUci PROVE Time!OwnershipInv' /\ Time!Exact /\ Time!LeavesForeign
<1>1. tOp.step = "note_uci" /\ UNCHANGED <<tFile, tUci, tSvc, tBase, tOutside, tReused>> BY DEF Time!NoteUci, Time!system
<1>2. tOp.step \in Time!Late /\ Time!Busy BY <1>1 DEF Time!Late, Time!Busy
<1>3. /\ tOp.step \in Time!PuttingBack /\ tOwn = tJournal /\ tOwn \in Time!JournalType /\ tOwn.there = TRUE /\ (\A i \in Time!Files : tFile[i] # Time!Ours)
      /\ tOwn.serviceOwned \in BOOLEAN
    BY <1>2, ZoneLate
<1>4. CASE Time!Fails("failed", tOwn) /\ UNCHANGED tJournal BY <1>1, <1>2, <1>4, ZoneFailsStill
<1>5. CASE tUci = tOwn.uci /\ Time!Save([tOwn EXCEPT !.uciOwned = FALSE], Time!AfterUci(tOwn), 0)
  <2> DEFINE j == [tOwn EXCEPT !.uciOwned = FALSE]
  <2>1. Time!Save(j, Time!AfterUci(tOwn), 0) BY <1>5
  <2>2. FALSE \in BOOLEAN OBVIOUS
  <2>3. j \in Time!JournalType BY <1>3, <2>2 DEF Time!JournalType
  <2>4. /\ j.there = tOwn.there /\ j.before = tOwn.before /\ j.uci = tOwn.uci /\ j.service = tOwn.service /\ j.applied = tOwn.applied
        /\ j.uciOwned = FALSE /\ j.serviceOwned = tOwn.serviceOwned
    BY <1>3 DEF Time!JournalType
  <2> HIDE DEF j
  <2>5. \A k \in Time!Keys : tUci[k] # Time!Ours BY <1>3, <1>5 DEF Time!OwnershipInv, Time!Named
  <2>6. \A i \in Time!Files : j.applied[i] \in {tOwn.before[i], tOwn.applied[i]} /\ (tFile[i] = Time!Ours => j.applied[i] = tOwn.applied[i])
    BY <2>4
  <2>9. /\ j.uciOwned = TRUE => tOwn.uciOwned = TRUE
        /\ \A k \in Time!Keys : tUci[k] = Time!Ours => j.uciOwned = tOwn.uciOwned
        /\ 0 \in 0..NFiles + 2
    BY <2>4, <2>5, ZoneAts
  <2>7. CASE tOwn.serviceOwned
    <3>1. Time!AfterUci(tOwn) = "service_back" /\ tOwn.serviceOwned = TRUE BY <1>3, <2>7, ZoneBool DEF Time!AfterUci
    <3>2. "service_back" \in Time!PuttingBack BY DEF Time!PuttingBack, Time!Late
    <3>3. Time!Save(j, "service_back", 0) BY <2>1, <3>1
    <3> QED BY <1>1, <1>3, <2>1, <2>3, <2>4, <2>5, <2>6, <2>9, <3>1, <3>2, <3>3, ZoneSavesBack
  <2>8. CASE ~tOwn.serviceOwned
    <3>1. Time!AfterUci(tOwn) = "remove" /\ tOwn.serviceOwned = FALSE BY <1>3, <2>8, ZoneBool DEF Time!AfterUci
    <3>2. "remove" \in Time!PuttingBack BY DEF Time!PuttingBack, Time!Late
    <3>3. Time!Save(j, "remove", 0) BY <2>1, <3>1
    <3> QED BY <1>1, <1>3, <2>1, <2>3, <2>4, <2>5, <2>6, <2>9, <3>1, <3>2, <3>3, ZoneSavesBack
  <2> QED BY <2>7, <2>8
<1> QED BY <1>4, <1>5 DEF Time!NoteUci

\* The service's turn: it is datad's, and what is put back is its owner's.
LEMMA ZoneServing ==
    ASSUME Time!OwnershipInv, tOp.step \in {"service_back", "start", "service_check"}
    PROVE  /\ tOp.step \in Time!Late /\ tOwn = tJournal /\ tOwn.serviceOwned = TRUE /\ tOwn.uciOwned = FALSE
           /\ ~tReused => tOwn.service \subseteq tBase.svc
<1>1. tOp.step \in Time!Late /\ tOp.step \in Time!PuttingBack BY DEF Time!Late, Time!PuttingBack
<1>2. tOwn = tJournal /\ tOwn.serviceOwned = TRUE /\ tOwn.uciOwned = FALSE BY <1>1 DEF Time!OwnershipInv, Time!Copies
<1> QED BY <1>1, <1>2 DEF Time!OwnershipInv, Time!Wanted

LEMMA ZoneServiceBack == ASSUME Time!OwnershipInv, Time!ServiceBack PROVE Time!OwnershipInv' /\ Time!Exact /\ Time!LeavesForeign
<1>1. tOp.step = "service_back" /\ UNCHANGED <<tFile, tUci, tJournal, tBase, tOutside, tReused>> BY DEF Time!ServiceBack
<1>2. tOp.step \in Time!Late /\ tOwn = tJournal /\ tOwn.serviceOwned = TRUE /\ tOwn.uciOwned = FALSE /\ (~tReused => tOwn.service \subseteq tBase.svc)
    BY <1>1, ZoneServing
<1>3. /\ tOp.step \in Time!PuttingBack /\ (\A i \in Time!Files : tFile[i] # Time!Ours) /\ tOwn.service \in SUBSET Time!Service
      /\ tFile \in [Time!Files -> Time!Value] /\ tUci \in [Time!Keys -> Time!Value] /\ tSvc \in Time!Service
    BY <1>2, ZoneLate
<1>4. CASE Time!Fails("conflict", tOwn) /\ UNCHANGED tSvc BY <1>1, <1>4, ZoneFailsStill DEF Time!Busy
<1>5. ASSUME NEW before \in tOwn.service, tSvc' = [tSvc EXCEPT !.enabled = before.enabled], Time!Then("start", 0)
      PROVE  Time!OwnershipInv' /\ Time!Exact /\ Time!LeavesForeign
  <2>1. before \in Time!Service BY <1>3
  <2>2. before.enabled \in BOOLEAN BY <2>1 DEF Time!Service
  <2>3. tSvc' \in Time!Service BY <1>3, <1>5, <2>2 DEF Time!Service
  <2>4. Time!Named' /\ (~tReused => Time!Owned') /\ (~tOutside => Time!Alone') BY <1>1, <1>2, <1>3, <2>3, ZoneServiceSet
  <2>5. "start" \in Time!PuttingBack BY DEF Time!PuttingBack, Time!Late
  <2> QED BY <1>1, <1>2, <1>3, <1>5, <2>3, <2>4, <2>5, ZoneBackThen, ZoneAts
<1> QED BY <1>4, <1>5 DEF Time!ServiceBack

LEMMA ZoneStartService == ASSUME Time!OwnershipInv, Time!StartService PROVE Time!OwnershipInv' /\ Time!Exact /\ Time!LeavesForeign
<1>1. tOp.step = "start" /\ UNCHANGED <<tFile, tUci, tJournal, tBase, tOutside, tReused>> /\ Time!Then("service_check", 0) BY DEF Time!StartService
<1>2. tOp.step \in Time!Late /\ tOwn = tJournal /\ tOwn.serviceOwned = TRUE /\ tOwn.uciOwned = FALSE /\ (~tReused => tOwn.service \subseteq tBase.svc)
    BY <1>1, ZoneServing
<1>3. /\ tOp.step \in Time!PuttingBack /\ (\A i \in Time!Files : tFile[i] # Time!Ours) /\ tOwn.service \in SUBSET Time!Service
      /\ tFile \in [Time!Files -> Time!Value] /\ tUci \in [Time!Keys -> Time!Value] /\ tSvc \in Time!Service
    BY <1>2, ZoneLate
<1>4. PICK before \in tOwn.service : tSvc' = [tSvc EXCEPT !.running = before.running] BY DEF Time!StartService
<1>5. before \in Time!Service BY <1>3, <1>4
<1>6. before.running \in BOOLEAN BY <1>5 DEF Time!Service
<1>7. tSvc' \in Time!Service BY <1>3, <1>4, <1>6 DEF Time!Service
<1>8. Time!Named' /\ (~tReused => Time!Owned') /\ (~tOutside => Time!Alone') BY <1>1, <1>2, <1>3, <1>7, ZoneServiceSet
<1>9. "service_check" \in Time!PuttingBack BY DEF Time!PuttingBack, Time!Late
<1> QED BY <1>1, <1>2, <1>3, <1>7, <1>8, <1>9, ZoneBackThen, ZoneAts

LEMMA ZoneServiceCheck == ASSUME Time!OwnershipInv, Time!ServiceCheck PROVE Time!OwnershipInv' /\ Time!Exact /\ Time!LeavesForeign
<1>1. tOp.step = "service_check" /\ UNCHANGED <<tFile, tUci, tSvc, tBase, tOutside, tReused>> BY DEF Time!ServiceCheck, Time!system
<1>2. tOp.step \in Time!Late /\ tOwn = tJournal /\ tOwn.serviceOwned = TRUE /\ tOwn.uciOwned = FALSE BY <1>1, ZoneServing
<1>3. tOp.step \in Time!PuttingBack /\ tOwn \in Time!JournalType /\ tOwn.there = TRUE /\ (\A i \in Time!Files : tFile[i] # Time!Ours) BY <1>2, ZoneLate
<1>4. CASE Time!Fails("failed", tOwn) /\ UNCHANGED tJournal BY <1>1, <1>4, ZoneFailsStill DEF Time!Busy
<1>5. CASE tSvc \in tOwn.service /\ Time!Save([tOwn EXCEPT !.serviceOwned = FALSE], "remove", 0)
  <2> DEFINE j == [tOwn EXCEPT !.serviceOwned = FALSE]
  <2>1. Time!Save(j, "remove", 0) BY <1>5
  <2>2. FALSE \in BOOLEAN OBVIOUS
  <2>3. j \in Time!JournalType BY <1>3, <2>2 DEF Time!JournalType
  <2>4. /\ j.there = tOwn.there /\ j.before = tOwn.before /\ j.uci = tOwn.uci /\ j.service = tOwn.service /\ j.applied = tOwn.applied
        /\ j.uciOwned = tOwn.uciOwned /\ j.serviceOwned = FALSE
    BY <1>3 DEF Time!JournalType
  <2> HIDE DEF j
  <2>5. \A i \in Time!Files : j.applied[i] \in {tOwn.before[i], tOwn.applied[i]} /\ (tFile[i] = Time!Ours => j.applied[i] = tOwn.applied[i])
    BY <2>4
  <2>6. "remove" \in Time!PuttingBack BY DEF Time!PuttingBack, Time!Late
  <2> QED BY <1>1, <1>2, <1>3, <1>5, <2>1, <2>3, <2>4, <2>5, <2>6, ZoneSavesBack, ZoneAts
<1> QED BY <1>4, <1>5 DEF Time!ServiceCheck

\* The journal goes: nothing of datad's is left, and every owner has what it wants.
LEMMA ZoneRemove == ASSUME Time!OwnershipInv, Time!Remove PROVE Time!OwnershipInv' /\ Time!Exact /\ Time!LeavesForeign
<1>1. tOp.step = "remove" /\ tJournal' = Time!NoJournal /\ UNCHANGED <<tFile, tUci, tSvc, tBase, tOutside, tReused>> BY DEF Time!Remove, Time!system
<1>2. tOp.step \in Time!Late BY <1>1 DEF Time!Late
<1>3. /\ tOwn = tJournal /\ (\A i \in Time!Files : tFile[i] # Time!Ours) /\ tFile \in [Time!Files -> Time!Value] /\ tUci \in [Time!Keys -> Time!Value] /\ tSvc \in Time!Service
    BY <1>2, ZoneLate
<1>4. tOwn.uciOwned = FALSE /\ tOwn.serviceOwned = FALSE BY <1>1 DEF Time!OwnershipInv, Time!Copies
<1>5. \A k \in Time!Keys : tUci[k] # Time!Ours BY <1>3, <1>4 DEF Time!OwnershipInv, Time!Named
<1>6. ~tReused => Time!AllReturned BY <1>3, <1>4, <1>5 DEF Time!OwnershipInv, Time!Owned, Time!AllReturned
<1>7. Time!Exact BY <1>6 DEF Time!Exact
<1>8. Time!LeavesForeign BY <1>1 DEF Time!LeavesForeign
<1>9. Time!Named' BY <1>1, <1>3, <1>5, ZoneNothing DEF Time!Named, Time!Ours
<1>10. ~tReused' => Time!Owned' BY <1>1, <1>3, <1>5, <1>6, ZoneNothing DEF Time!Owned, Time!AllReturned
<1>11. ~tOutside' => Time!Alone' BY <1>1, ZoneNothing DEF Time!OwnershipInv, Time!Alone
<1>12. tOp \in Time!Operations /\ tBase \in Time!Bases /\ tForeign = {} BY <1>1 DEF Time!OwnershipInv, Time!Shapes, Time!Looks
<1>13. CASE tOp' = [tOp EXCEPT !.step = "snapshot", !.goal = "sync"] /\ tOwn' = Time!NoJournal /\ UNCHANGED tForeign
  <2>1. tOp' \in Time!Operations BY <1>12, <1>13 DEF Time!Operations, Time!Early
  <2>2. tOp'.step = "snapshot" /\ tOp'.goal = "sync" BY <1>12, <1>13 DEF Time!Operations
  <2>3. Time!Shapes' BY <1>1, <1>3, <1>12, <1>13, <2>1, <2>2, ZoneNothing DEF Time!Shapes, Time!Early, Time!Applying, Time!PuttingBack, Time!Late
  <2>4. Time!Copies' BY <1>1, <2>2, ZoneNothing DEF Time!Copies, Time!Applying, Time!PuttingBack, Time!Late
  <2>5. Time!Progress' BY <2>2 DEF Time!Progress, Time!Late
  <2>6. Time!Wanted' BY <2>2 DEF Time!Wanted, Time!Applying, Time!PuttingBack, Time!Late
  <2>7. Time!Looks' BY <1>12, <1>13 DEF Time!Looks
  <2> QED BY <1>7, <1>8, <1>9, <1>10, <1>11, <2>3, <2>4, <2>5, <2>6, <2>7 DEF Time!OwnershipInv
<1>14. CASE tOp' = Time!Idle /\ tOwn' = Time!NoJournal /\ tForeign' = {}
  <2>1. Time!OwnershipInv' BY <1>1, <1>3, <1>9, <1>10, <1>11, <1>12, <1>14, ZoneNothing, ZoneOver
  <2> QED BY <1>7, <1>8, <2>1
<1> QED BY <1>13, <1>14 DEF Time!Remove, Time!End

\* An operation begins.
LEMMA ZoneBegin ==
    ASSUME Time!OwnershipInv, NEW goal \in {"sync", "restore"}, NEW calibrate \in BOOLEAN, Time!Begin(goal, calibrate), goal = "restore" => tJournal.there,
           UNCHANGED <<tFile, tUci, tSvc, tJournal, tBase, tReused, tOutside>>
    PROVE  Time!OwnershipInv' /\ Time!Exact /\ Time!LeavesForeign
<1> DEFINE st == IF goal = "sync" THEN "sample" ELSE "preflight"
<1>1. /\ tOp' = [step |-> st, at |-> 0, goal |-> goal, calibrate |-> calibrate, cancelled |-> FALSE]
      /\ tOwn' = IF goal = "sync" THEN Time!NoJournal ELSE tJournal
      /\ tForeign' = IF tJournal.there THEN Time!InOtherHands(tJournal) ELSE {}
    BY DEF Time!Begin
<1>2. st \in {"sample", "preflight"} /\ (st = "sample" <=> goal = "sync") OBVIOUS
<1> HIDE DEF st
<1>3. 0 \in 0..NFiles + 2 /\ FALSE \in BOOLEAN BY ZoneAts
<1>4. tOp' \in Time!Operations BY <1>1, <1>2, <1>3 DEF Time!Operations, Time!Early
<1>5. tOp'.step = st /\ tOp'.goal = goal BY <1>1
<1>6. tJournal \in Time!JournalType /\ tOwn' \in Time!JournalType BY <1>1, ZoneNothing DEF Time!OwnershipInv, Time!Shapes
<1>7. tJournal.there \in BOOLEAN BY <1>6, ZoneFields
<1>8. Time!Named' /\ (~tReused => Time!Owned') /\ (~tOutside => Time!Alone') /\ Time!InOtherHands(tJournal)' = Time!InOtherHands(tJournal) /\ Time!Exact /\ Time!LeavesForeign
    BY ZoneStill
<1>9. Time!Shapes' BY <1>2, <1>4, <1>5, <1>6 DEF Time!OwnershipInv, Time!Shapes, Time!Early, Time!Applying, Time!PuttingBack, Time!Late
<1>10. Time!Copies'
  <2>1. CASE goal = "sync" BY <1>2, <1>5, <2>1 DEF Time!Copies, Time!Applying, Time!PuttingBack, Time!Late
  <2>2. CASE goal = "restore"
    <3>1. tOwn' = tJournal' /\ tJournal.there = TRUE BY <1>1, <1>7, <2>2, ZoneBool
    <3> QED BY <1>2, <1>5, <1>8, <2>2, <3>1 DEF Time!Copies, Time!Named, Time!Applying, Time!PuttingBack, Time!Late
  <2> QED BY <2>1, <2>2
<1>11. Time!Progress' BY <1>2, <1>5 DEF Time!Progress, Time!Late
<1>12. Time!Wanted' BY <1>2, <1>5 DEF Time!Wanted, Time!Applying, Time!PuttingBack, Time!Late
<1>13. Time!Looks'
  <2>1. tForeign' \subseteq Time!InOtherHands(tJournal)' BY <1>1, <1>8
  <2>2. tJournal'.there = FALSE => tForeign' = {} BY <1>1
  <2> QED BY <1>2, <1>5, <2>1, <2>2 DEF Time!Looks
<1> QED BY <1>8, <1>9, <1>10, <1>11, <1>12, <1>13 DEF Time!OwnershipInv

LEMMA ZoneSync == ASSUME Time!OwnershipInv, NEW calibrate \in BOOLEAN, Time!Sync(calibrate) PROVE Time!OwnershipInv' /\ Time!Exact /\ Time!LeavesForeign
BY ZoneBegin DEF Time!Sync, Time!system

LEMMA ZoneDisable == ASSUME Time!OwnershipInv, Time!Disable PROVE Time!OwnershipInv' /\ Time!Exact /\ Time!LeavesForeign
<1>1. /\ tOp' = [tOp EXCEPT !.cancelled = Time!Busy] /\ UNCHANGED <<tFile, tUci, tSvc, tJournal, tOwn, tBase, tReused, tOutside, tForeign>>
    BY DEF Time!Disable, Time!system
<1>2. tOp \in Time!Operations /\ Time!Busy \in BOOLEAN BY DEF Time!OwnershipInv, Time!Shapes, Time!Busy
<1>3. tOp' \in Time!Operations BY <1>1, <1>2 DEF Time!Operations
<1>4. tOp'.step = tOp.step /\ tOp'.goal = tOp.goal /\ tOp'.at = tOp.at BY <1>1, <1>2 DEF Time!Operations
<1>5. Time!Copies' BY <1>1, <1>4 DEF Time!OwnershipInv, Time!Copies
<1>6. Time!Progress' BY <1>1, <1>4 DEF Time!OwnershipInv, Time!Progress
<1>7. ~tReused => Time!Wanted' BY <1>1, <1>4 DEF Time!OwnershipInv, Time!Wanted
<1> QED BY <1>1, <1>3, <1>4, <1>5, <1>6, <1>7, ZoneGoesOnStill DEF Time!OwnershipInv, Time!Shapes, Time!Looks

\* Nothing that the invariant speaks of changes.
LEMMA ZoneSame == ASSUME Time!OwnershipInv, UNCHANGED <<tFile, tUci, tSvc, tJournal, tOp, tOwn, tBase, tReused, tOutside, tForeign>> PROVE Time!OwnershipInv' /\ Time!Exact /\ Time!LeavesForeign
<1>1. Time!Copies' BY DEF Time!OwnershipInv, Time!Copies
<1>2. Time!Progress' BY DEF Time!OwnershipInv, Time!Progress
<1>3. ~tReused => Time!Wanted' BY DEF Time!OwnershipInv, Time!Wanted
<1> QED BY <1>1, <1>2, <1>3, ZoneGoesOnStill DEF Time!OwnershipInv, Time!Shapes, Time!Looks

LEMMA ZoneRunDisable == ASSUME Time!OwnershipInv, Time!RunDisable PROVE Time!OwnershipInv' /\ Time!Exact /\ Time!LeavesForeign
<1>1. UNCHANGED <<tFile, tUci, tSvc, tJournal, tBase, tReused, tOutside>> BY DEF Time!RunDisable, Time!system
<1>2. CASE tJournal.there /\ Time!Begin("restore", FALSE) BY <1>1, <1>2, ZoneBegin
<1>3. CASE UNCHANGED <<tOp, tOwn, tForeign>> BY <1>1, <1>3, ZoneSame
<1> QED BY <1>2, <1>3 DEF Time!RunDisable

LEMMA ZoneCrash == ASSUME Time!OwnershipInv, Time!Crash PROVE Time!OwnershipInv' /\ Time!Exact /\ Time!LeavesForeign
<1>1. /\ tOp' = [Time!Idle EXCEPT !.step = "boot"] /\ tOwn' = Time!NoJournal /\ tForeign' = {}
      /\ UNCHANGED <<tFile, tUci, tSvc, tJournal, tBase, tReused, tOutside>>
    BY DEF Time!Crash, Time!system
<1>2. Time!Named' /\ (~tReused => Time!Owned') /\ (~tOutside => Time!Alone') /\ Time!Exact /\ Time!LeavesForeign BY <1>1, ZoneStill
<1>3. /\ tFile' \in [Time!Files -> Time!Value] /\ tUci' \in [Time!Keys -> Time!Value] /\ tSvc' \in Time!Service /\ tBase' \in Time!Bases /\ tJournal' \in Time!JournalType
    BY <1>1 DEF Time!OwnershipInv, Time!Shapes
<1>4. Time!OwnershipInv' BY <1>1, <1>2, <1>3, ZoneOver
<1> QED BY <1>2, <1>4

LEMMA ZoneBoot == ASSUME Time!OwnershipInv, Time!Boot PROVE Time!OwnershipInv' /\ Time!Exact /\ Time!LeavesForeign
<1>1. tOp.step = "boot" /\ UNCHANGED <<tFile, tUci, tSvc, tJournal, tBase, tReused, tOutside>> BY DEF Time!Boot, Time!system
<1>2. CASE Time!Begin("sync", TRUE) BY <1>1, <1>2, ZoneBegin
<1>3. CASE tJournal.there /\ Time!Begin("restore", FALSE) BY <1>1, <1>3, ZoneBegin
<1>4. CASE tOp' = Time!Idle /\ UNCHANGED <<tOwn, tForeign>>
  <2>1. tOp' \in Time!Operations /\ tOp'.step = "idle" BY <1>4, ZoneIdle
  <2>2. Time!Copies' /\ Time!Progress' /\ Time!Wanted' BY <2>1 DEF Time!Copies, Time!Progress, Time!Wanted, Time!Applying, Time!PuttingBack, Time!Late
  <2>3. tForeign = {} BY <1>1 DEF Time!OwnershipInv, Time!Looks
  <2> QED BY <1>1, <1>4, <2>1, <2>2, <2>3, ZoneGoesOnStill DEF Time!Early, Time!Applying, Time!PuttingBack, Time!Late
<1> QED BY <1>2, <1>3, <1>4 DEF Time!Boot

LEMMA ZoneGuard == ASSUME Time!OwnershipInv, Time!Guard PROVE Time!OwnershipInv' /\ Time!Exact /\ Time!LeavesForeign
BY ZoneSame DEF Time!Guard, Time!system

LEMMA ZoneInit == Time!Init => Time!OwnershipInv
<1> SUFFICES ASSUME Time!Init PROVE Time!OwnershipInv OBVIOUS
<1>1. /\ tFile = [i \in Time!Files |-> "found"] /\ tUci = [k \in Time!Keys |-> "found"] /\ tSvc \in Time!Service /\ tJournal = Time!NoJournal /\ tOwn = Time!NoJournal
      /\ tOp = Time!Idle /\ tForeign = {}
      /\ tBase = [file |-> [i \in Time!Files |-> {"found"}], uci |-> [k \in Time!Keys |-> {"found"}], svc |-> {tSvc}]
    BY DEF Time!Init
<1>2. tFile \in [Time!Files -> Time!Value] /\ tUci \in [Time!Keys -> Time!Value] BY <1>1 DEF Time!Value
<1>3. [i \in Time!Files |-> {"found"}] \in [Time!Files -> SUBSET Time!Value] /\ [k \in Time!Keys |-> {"found"}] \in [Time!Keys -> SUBSET Time!Value] /\ {tSvc} \in SUBSET Time!Service
    BY <1>1 DEF Time!Value
<1>4. tBase \in Time!Bases BY <1>1, <1>3 DEF Time!Bases
<1>5. tBase.file = [i \in Time!Files |-> {"found"}] /\ tBase.uci = [k \in Time!Keys |-> {"found"}] /\ tBase.svc = {tSvc} BY <1>1
<1>6. tOp \in Time!Operations /\ tOp.step = "idle" BY <1>1, ZoneIdle
<1>7. Time!Shapes BY <1>1, <1>2, <1>4, <1>6, ZoneNothing DEF Time!Shapes, Time!Early, Time!Applying, Time!PuttingBack, Time!Late
<1>8. Time!Named BY <1>1, ZoneNothing DEF Time!Named, Time!Ours
<1>9. Time!Owned BY <1>1, <1>5, ZoneNothing DEF Time!Owned, Time!Ours
<1>10. Time!Alone BY <1>1, ZoneNothing DEF Time!Alone
<1>11. Time!Copies /\ Time!Progress /\ Time!Wanted BY <1>6 DEF Time!Copies, Time!Progress, Time!Wanted, Time!Applying, Time!PuttingBack, Time!Late
<1>12. Time!Looks BY <1>1 DEF Time!Looks
<1> QED BY <1>7, <1>8, <1>9, <1>10, <1>11, <1>12 DEF Time!OwnershipInv

\* Somebody else's hand on a resource: the operation's own state is as before.
LEMMA ZoneOthers ==
    ASSUME Time!OwnershipInv, UNCHANGED <<tJournal, tOp, tOwn, tReused>>, tOutside' = TRUE,
           tFile' \in [Time!Files -> Time!Value], tUci' \in [Time!Keys -> Time!Value], tSvc' \in Time!Service, tBase' \in Time!Bases,
           \A i \in Time!Files : tFile'[i] = tFile[i] \/ tFile'[i] # Time!Ours,
           \A k \in Time!Keys : tUci'[k] = tUci[k] \/ tUci'[k] # Time!Ours,
           \A i \in Time!Files : tBase'.file[i] = tBase.file[i] \/ (Time!Busy /\ tBase'.file[i] = Time!Value) \/ (~Time!Busy /\ tBase'.file[i] = {tFile'[i]}),
           \A k \in Time!Keys : tBase'.uci[k] = tBase.uci[k] \/ (Time!Busy /\ tBase'.uci[k] = Time!Value) \/ (~Time!Busy /\ tBase'.uci[k] = {tUci'[k]}),
           \A i \in Time!Files : tFile'[i] = tFile[i] \/ tFile'[i] \in tBase'.file[i],
           \A k \in Time!Keys : tUci'[k] = tUci[k] \/ tUci'[k] \in tBase'.uci[k],
           \A i \in Time!Files : tBase'.file[i] = tBase.file[i] \/ tFile'[i] # Time!Ours,
           \A k \in Time!Keys : tBase'.uci[k] = tBase.uci[k] \/ tUci'[k] # Time!Ours,
           (tSvc' = tSvc /\ tBase'.svc = tBase.svc) \/ (Time!Busy /\ tBase'.svc = Time!Service)
             \/ (~Time!Busy /\ tBase'.svc = {tSvc'} /\ (tSvc' = Time!Off => tJournal.serviceOwned # TRUE)),
           tForeign' \subseteq tForeign, tForeign' \subseteq Time!InOtherHands(tJournal)', Time!LeavesForeign
    PROVE  Time!OwnershipInv' /\ Time!Exact /\ Time!LeavesForeign
<1>1. Time!Exact BY DEF Time!Exact
<1>2. Time!Shapes' BY DEF Time!OwnershipInv, Time!Shapes
<1>3. Time!Named' BY DEF Time!OwnershipInv, Time!Named, Time!NoJournal
<1>4. Time!Copies' BY DEF Time!OwnershipInv, Time!Copies
<1>5. Time!Progress' BY DEF Time!OwnershipInv, Time!Progress
<1>6. Time!Looks' BY DEF Time!OwnershipInv, Time!Looks
<1>7. tJournal \in Time!JournalType /\ tOwn \in Time!JournalType BY DEF Time!OwnershipInv, Time!Shapes
<1>8. /\ tJournal.before \in [Time!Files -> Time!Value] /\ tJournal.uci \in [Time!Keys -> Time!Value] /\ tJournal.service \in SUBSET Time!Service
      /\ tOwn.before \in [Time!Files -> Time!Value] /\ tOwn.uci \in [Time!Keys -> Time!Value] /\ tOwn.service \in SUBSET Time!Service
    BY <1>7, ZoneFields
<1>9. ASSUME ~tReused PROVE Time!Owned'
  <2>1. Time!Owned BY <1>9 DEF Time!OwnershipInv
  <2>2. \A i \in Time!Files : IF tFile'[i] = Time!Ours THEN tJournal.before[i] \in tBase'.file[i] ELSE tFile'[i] \in tBase'.file[i]
    BY <1>8, <2>1 DEF Time!Owned
  <2>3. \A k \in Time!Keys : IF tUci'[k] = Time!Ours THEN tJournal.uci[k] \in tBase'.uci[k] ELSE tUci'[k] \in tBase'.uci[k]
    BY <1>8, <2>1 DEF Time!Owned
  <2>4. tSvc' \notin tBase'.svc => tJournal.serviceOwned = TRUE BY <2>1 DEF Time!Owned
  <2>5. tJournal.serviceOwned = TRUE /\ (tSvc' \notin tBase'.svc \/ Time!Off \in tBase'.svc) => tJournal.service \subseteq tBase'.svc
    BY <1>8, <2>1 DEF Time!Owned
  <2> QED BY <2>2, <2>3, <2>4, <2>5 DEF Time!Owned, Time!Off
<1>10. ASSUME ~tReused PROVE Time!Wanted'
  <2>1. CASE Time!Busy BY <1>8, <1>10, <2>1 DEF Time!OwnershipInv, Time!Wanted
  <2>2. CASE ~Time!Busy BY <2>2 DEF Time!Wanted, Time!Busy, Time!Applying, Time!PuttingBack, Time!Late
  <2> QED BY <2>1, <2>2
<1> QED BY <1>1, <1>2, <1>3, <1>4, <1>5, <1>6, <1>9, <1>10 DEF Time!OwnershipInv

LEMMA ZoneOtherFile == ASSUME Time!OwnershipInv, NEW i \in Time!Files, NEW v \in Time!Value, Time!OtherFile(i, v) PROVE Time!OwnershipInv' /\ Time!Exact /\ Time!LeavesForeign
<1> DEFINE B == IF Time!Busy THEN Time!Value ELSE {v}
<1>1. /\ UNCHANGED <<tJournal, tOp, tOwn, tReused, tUci, tSvc>> /\ tOutside' = TRUE /\ v # Time!Ours /\ tFile' = [tFile EXCEPT ![i] = v]
      /\ tBase' = [tBase EXCEPT !.file[i] = B] /\ tForeign' = tForeign \ {<<"file", i>>}
    BY DEF Time!OtherFile, Time!Other, Time!Ours
<1>2. tFile \in [Time!Files -> Time!Value] /\ tUci \in [Time!Keys -> Time!Value] /\ tSvc \in Time!Service /\ tBase \in Time!Bases BY DEF Time!OwnershipInv, Time!Shapes
<1>3. B \in SUBSET Time!Value /\ v \in B /\ (Time!Busy => B = Time!Value) /\ (~Time!Busy => B = {v}) OBVIOUS
<1> HIDE DEF B
<1>4. tFile' \in [Time!Files -> Time!Value] /\ (\A m \in Time!Files : tFile'[m] = IF m = i THEN v ELSE tFile[m]) BY <1>1, <1>2
<1>5. tBase.file \in [Time!Files -> SUBSET Time!Value] BY <1>2 DEF Time!Bases
<1>6. [tBase.file EXCEPT ![i] = B] \in [Time!Files -> SUBSET Time!Value] BY <1>3, <1>5
<1>7. tBase' = [tBase EXCEPT !.file = [tBase.file EXCEPT ![i] = B]] BY <1>1, <1>2 DEF Time!Bases
<1>8. tBase' \in Time!Bases /\ tBase'.file = [tBase.file EXCEPT ![i] = B] /\ tBase'.uci = tBase.uci /\ tBase'.svc = tBase.svc
    BY <1>2, <1>6, <1>7 DEF Time!Bases
<1>9. \A m \in Time!Files : tBase'.file[m] = IF m = i THEN B ELSE tBase.file[m] BY <1>5, <1>8
<1>10. tForeign' \subseteq Time!InOtherHands(tJournal)'
  <2>1. tForeign \subseteq Time!InOtherHands(tJournal) BY DEF Time!OwnershipInv, Time!Looks
  <2>2. \A m \in Time!Files : m # i => (<<"file", m>> \in Time!InOtherHands(tJournal) => <<"file", m>> \in Time!InOtherHands(tJournal)')
    BY <1>1, <1>4 DEF Time!InOtherHands, Time!ServiceConflict
  <2>3. ASSUME NEW x \in tForeign' PROVE x \in Time!InOtherHands(tJournal)'
    <3>1. x \in Time!InOtherHands(tJournal) /\ x # <<"file", i>> BY <1>1, <2>1
    <3> QED BY <1>1, <1>4, <3>1 DEF Time!InOtherHands, Time!ServiceConflict
  <2> QED BY <2>3
<1>11. Time!LeavesForeign BY <1>1, <1>4 DEF Time!LeavesForeign
<1> QED BY <1>1, <1>2, <1>3, <1>4, <1>8, <1>9, <1>10, <1>11, ZoneOthers

LEMMA ZoneOtherUci == ASSUME Time!OwnershipInv, NEW k \in Time!Keys, NEW v \in Time!Value, Time!OtherUci(k, v) PROVE Time!OwnershipInv' /\ Time!Exact /\ Time!LeavesForeign
<1> DEFINE B == IF Time!Busy THEN Time!Value ELSE {v}
<1>1. /\ UNCHANGED <<tJournal, tOp, tOwn, tReused, tFile, tSvc>> /\ tOutside' = TRUE /\ v # Time!Ours /\ tUci' = [tUci EXCEPT ![k] = v]
      /\ tBase' = [tBase EXCEPT !.uci[k] = B] /\ tForeign' = tForeign \ {<<"uci", k>>}
    BY DEF Time!OtherUci, Time!Other, Time!Ours
<1>2. tFile \in [Time!Files -> Time!Value] /\ tUci \in [Time!Keys -> Time!Value] /\ tSvc \in Time!Service /\ tBase \in Time!Bases BY DEF Time!OwnershipInv, Time!Shapes
<1>3. B \in SUBSET Time!Value /\ v \in B /\ (Time!Busy => B = Time!Value) /\ (~Time!Busy => B = {v}) OBVIOUS
<1> HIDE DEF B
<1>4. tUci' \in [Time!Keys -> Time!Value] /\ (\A m \in Time!Keys : tUci'[m] = IF m = k THEN v ELSE tUci[m]) BY <1>1, <1>2
<1>5. tBase.uci \in [Time!Keys -> SUBSET Time!Value] BY <1>2 DEF Time!Bases
<1>6. [tBase.uci EXCEPT ![k] = B] \in [Time!Keys -> SUBSET Time!Value] BY <1>3, <1>5
<1>7. tBase' = [tBase EXCEPT !.uci = [tBase.uci EXCEPT ![k] = B]] BY <1>1, <1>2 DEF Time!Bases
<1>8. tBase' \in Time!Bases /\ tBase'.uci = [tBase.uci EXCEPT ![k] = B] /\ tBase'.file = tBase.file /\ tBase'.svc = tBase.svc
    BY <1>2, <1>6, <1>7 DEF Time!Bases
<1>9. \A m \in Time!Keys : tBase'.uci[m] = IF m = k THEN B ELSE tBase.uci[m] BY <1>5, <1>8
<1>10. tForeign' \subseteq Time!InOtherHands(tJournal)'
  <2>1. tForeign \subseteq Time!InOtherHands(tJournal) BY DEF Time!OwnershipInv, Time!Looks
  <2>2. ASSUME NEW x \in tForeign' PROVE x \in Time!InOtherHands(tJournal)'
    <3>1. x \in Time!InOtherHands(tJournal) /\ x # <<"uci", k>> BY <1>1, <2>1
    <3> QED BY <1>1, <1>4, <3>1 DEF Time!InOtherHands, Time!ServiceConflict
  <2> QED BY <2>2
<1>11. Time!LeavesForeign BY <1>1, <1>4 DEF Time!LeavesForeign
<1> QED BY <1>1, <1>2, <1>3, <1>4, <1>8, <1>9, <1>10, <1>11, ZoneOthers

LEMMA ZoneOtherService == ASSUME Time!OwnershipInv, NEW s \in Time!Service, Time!OtherService(s) PROVE Time!OwnershipInv' /\ Time!Exact /\ Time!LeavesForeign
<1> DEFINE B == IF Time!Busy THEN Time!Service ELSE {s}
<1>1. /\ UNCHANGED <<tJournal, tOp, tOwn, tReused, tFile, tUci>> /\ tOutside' = TRUE /\ tSvc' = s
      /\ s = Time!Off => ~tJournal.serviceOwned
      /\ tBase' = [tBase EXCEPT !.svc = B] /\ tForeign' = tForeign \ {<<"svc", 0>>}
    BY DEF Time!OtherService, Time!Other
<1>2. tFile \in [Time!Files -> Time!Value] /\ tUci \in [Time!Keys -> Time!Value] /\ tSvc \in Time!Service /\ tBase \in Time!Bases BY DEF Time!OwnershipInv, Time!Shapes
<1>3. B \in SUBSET Time!Service /\ (Time!Busy => B = Time!Service) /\ (~Time!Busy => B = {s}) OBVIOUS
<1> HIDE DEF B
<1>4. tBase' \in Time!Bases /\ tBase'.svc = B /\ tBase'.file = tBase.file /\ tBase'.uci = tBase.uci BY <1>1, <1>2, <1>3 DEF Time!Bases
<1>5. s = Time!Off => tJournal.serviceOwned # TRUE BY <1>1
<1>6. tForeign' \subseteq Time!InOtherHands(tJournal)'
  <2>1. tForeign \subseteq Time!InOtherHands(tJournal) BY DEF Time!OwnershipInv, Time!Looks
  <2>2. ASSUME NEW x \in tForeign' PROVE x \in Time!InOtherHands(tJournal)'
    <3>1. x \in Time!InOtherHands(tJournal) /\ x # <<"svc", 0>> BY <1>1, <2>1
    <3> QED BY <1>1, <3>1 DEF Time!InOtherHands
  <2> QED BY <2>2
<1>7. Time!LeavesForeign BY <1>1 DEF Time!LeavesForeign
<1>8. tSvc' = Time!Off => tJournal.serviceOwned # TRUE BY <1>1, <1>5
<1> QED BY <1>1, <1>2, <1>3, <1>4, <1>6, <1>7, <1>8, ZoneOthers

LEMMA ZoneKept == ASSUME Time!OwnershipInv, [Time!Next]_(Time!vars) PROVE Time!OwnershipInv' /\ Time!Exact /\ Time!LeavesForeign
<1>1. CASE Time!ApplyStep
    BY <1>1, ZoneSample, ZonePrepare, ZoneSnapshot, ZoneApplyStep, ZoneTakeOver, ZoneDisableService, ZoneStopService, ZoneServiceRead,
       ZoneClaim, ZonePut, ZoneOwnUci, ZoneUciSet, ZoneCommit, ZoneVerify, ZoneSeal DEF Time!ApplyStep
<1>2. CASE Time!RestoreStep
    BY <1>2, ZonePreflight, ZonePutBack, ZoneNoteBack, ZoneUciBack, ZoneCommitBack, ZoneNoteUci, ZoneServiceBack, ZoneStartService,
       ZoneServiceCheck, ZoneRemove DEF Time!RestoreStep
<1>3. CASE Time!StepFails BY <1>3, ZoneStepFails
<1>4. CASE \E calibrate \in BOOLEAN : Time!Sync(calibrate) BY <1>4, ZoneSync
<1>5. CASE Time!Disable \/ Time!RunDisable \/ Time!Crash \/ Time!Boot \/ Time!Guard BY <1>5, ZoneDisable, ZoneRunDisable, ZoneCrash, ZoneBoot, ZoneGuard
<1>6. CASE \E i \in Time!Files, v \in Time!Value : Time!OtherFile(i, v) BY <1>6, ZoneOtherFile
<1>7. CASE \E k \in Time!Keys, v \in Time!Value : Time!OtherUci(k, v) BY <1>7, ZoneOtherUci
<1>8. CASE \E s \in Time!Service : Time!OtherService(s) BY <1>8, ZoneOtherService
<1>9. CASE UNCHANGED Time!vars BY <1>9, ZoneSame DEF Time!vars, Time!system
<1> QED BY <1>1, <1>2, <1>3, <1>4, <1>5, <1>6, <1>7, <1>8, <1>9 DEF Time!Next

LEMMA ZoneSafe == Time!OwnershipInv => Time!JournalCovers /\ Time!ConflictIsCurable
<1> SUFFICES ASSUME Time!OwnershipInv PROVE Time!JournalCovers /\ Time!ConflictIsCurable OBVIOUS
<1>1. tJournal \in Time!JournalType BY DEF Time!OwnershipInv, Time!Shapes
<1>2. tJournal.uciOwned \in BOOLEAN /\ tJournal.serviceOwned \in BOOLEAN /\ tJournal.there \in BOOLEAN BY <1>1, ZoneFields
<1>3. Time!JournalCovers
  <2> SUFFICES ASSUME ~tReused PROVE /\ \A i \in Time!Files : tFile[i] = Time!Ours => tJournal.there /\ tJournal.before[i] \in tBase.file[i]
                                     /\ \A k \in Time!Keys : tUci[k] = Time!Ours => tJournal.there /\ tJournal.uciOwned /\ tJournal.uci[k] \in tBase.uci[k]
                                     /\ tSvc \notin tBase.svc => tJournal.there /\ tJournal.serviceOwned /\ tJournal.service \subseteq tBase.svc
    BY DEF Time!JournalCovers
  <2>1. Time!Owned /\ Time!Named BY DEF Time!OwnershipInv
  <2>2. \A i \in Time!Files : tFile[i] = Time!Ours => tJournal.there = TRUE /\ tJournal.before[i] \in tBase.file[i] BY <2>1 DEF Time!Owned, Time!Named
  <2>3. \A k \in Time!Keys : tUci[k] = Time!Ours => tJournal.there = TRUE /\ tJournal.uciOwned = TRUE /\ tJournal.uci[k] \in tBase.uci[k]
    BY <2>1 DEF Time!Owned, Time!Named
  <2>4. tSvc \notin tBase.svc => tJournal.serviceOwned = TRUE /\ tJournal.service \subseteq tBase.svc BY <2>1 DEF Time!Owned
  <2>5. tJournal.serviceOwned = TRUE => tJournal.there = TRUE
    <3>1. tJournal.there = FALSE => tJournal.serviceOwned = FALSE BY <2>1, ZoneNothing DEF Time!Named
    <3> QED BY <1>2, <3>1
  <2> QED BY <2>2, <2>3, <2>4, <2>5
<1>4. Time!ConflictIsCurable
  <2> SUFFICES ASSUME ~tOutside, ~(tJournal.serviceOwned /\ Time!ServiceConflict(tJournal)) PROVE Time!PreflightOk(tJournal)
    BY DEF Time!ConflictIsCurable
  <2>1. Time!Alone /\ Time!Named BY DEF Time!OwnershipInv
  <2>2. \A i \in Time!Files : tFile[i] \in {tJournal.before[i], tJournal.applied[i]} BY <2>1 DEF Time!Alone, Time!Named
  <2>3. \A k \in Time!Keys : tUci[k] \in {tJournal.uci[k], Time!Ours} BY <2>1 DEF Time!Alone
  <2> QED BY <2>2, <2>3 DEF Time!PreflightOk, Time!InOtherHands
<1> QED BY <1>3, <1>4

LEMMA ZoneAtWork == ASSUME [RecoveryStep \/ TimeStep]_both PROVE [Time!Next]_(Time!vars)
BY DEF RecoveryStep, TimeStep, both, timeVars, Time!vars, Time!system, Time!request

\* For any number of time zone files, any requests, kills, failed steps and
\* changes by others: the journal names what to put back for everything datad
\* has changed, a conflict that nobody else caused can be cured, the journal is
\* given up only when every owner has its value again, and no operation writes
\* over a resource that was in other hands when it began (Platform::prepare,
\* take_over, timezone, seal, restore); the journal and the exactness with the
\* exception of a partly released journal that is used again.
THEOREM GivenBackHolds == BothSpec => GivenBack
<1>1. BothInit => Time!OwnershipInv
  BY ZoneInit DEF BothInit
<1>2. Time!OwnershipInv /\ [RecoveryStep \/ TimeStep]_both => Time!OwnershipInv'
  BY ZoneAtWork, ZoneKept
<1>3. Time!OwnershipInv => Time!JournalCovers /\ Time!ConflictIsCurable
  BY ZoneSafe
<1>4. Time!OwnershipInv /\ [RecoveryStep \/ TimeStep]_both => [Time!Exact]_(Time!vars) /\ [Time!LeavesForeign]_(Time!vars)
  BY ZoneAtWork, ZoneKept
<1> QED
  BY <1>1, <1>2, <1>3, <1>4, PTL DEF BothSpec, GivenBack, Time!GivenBack, Time!RestoreIsExact, Time!ForeignKept
=============================================================================
