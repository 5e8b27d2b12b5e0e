----------------------------- MODULE UciControl -----------------------------
(***************************************************************************)
(* Controls that change a UCI package: Wi-Fi, MAC filter, power policies,  *)
(* country and channel, the extra SSIDs and mwan3.  Each one stages its    *)
(* fields with the uci command, commits, reloads a service, and reads the  *)
(* fields back or puts the old ones back, as its plan says.  The HTTP      *)
(* server, the cloud panel and the task schedule run them side by side on  *)
(* one staging area; a panel drops its control when its time is up.        *)
(***************************************************************************)
EXTENDS Naturals, Sequences, FiniteSets

CONSTANTS
    Callers,   \* tasks that run controls
    Patient,   \* the callers that never drop a control
    Fields,    \* options of the package
    Vals,      \* their values
    Late,      \* options that wait for the others to be applied (the channel)
    Auto,      \* the value they have meanwhile
    None,      \* nothing staged
    Plans,     \* the plans callers choose from
    MaxJobs,   \* bound: controls started
    MaxFaults  \* bound: uci and ubus calls that fail

VARIABLES
    flash,   \* the committed package
    staged,  \* the changes uci keeps until commit or revert
    job,     \* the control each caller runs
    begun, faults,
    dirty    \* history: a control was dropped, gave up its changes or could not revert

vars == <<flash, staged, job, begun, faults, dirty>>

Nothing == [f \in Fields |-> None]

\* What uci get returns: staged changes count.
uci_read(f) == IF staged[f] = None THEN flash[f] ELSE staged[f]

(***************************************************************************)
(* The plans.  skips: an option that has its value is not written, and     *)
(* nothing else happens if all have.  stage, commit, apply, verify: what   *)
(* may follow when that step fails.                                           *)
(***************************************************************************)

WifiConfigure == [skips |-> TRUE, stage |-> {"revert"}, commit |-> "revert", apply |-> "keep", verify |-> "keep", rounds |-> 1, many |-> TRUE]

WifiAclSet == [WifiConfigure EXCEPT !.skips = TRUE]

\* No readback.
ClientAccess == [WifiConfigure EXCEPT !.skips = FALSE, !.verify = "none"]

WifiPower == [WifiConfigure EXCEPT !.apply = "restore", !.verify = "none"]

\* wifi_psm; wifi_dbm does not verify.
WifiPolicy == [skips |-> FALSE, stage |-> {"leave"}, commit |-> "restore", apply |-> "restore", verify |-> "restore", rounds |-> 1, many |-> FALSE]

WifiDbm == [WifiPolicy EXCEPT !.verify = "none"]

\* First the country, with an automatic channel, then the channel.
WirelessConfig == [skips |-> TRUE, stage |-> {"restore"}, commit |-> "restore", apply |-> "restore", verify |-> "none", rounds |-> 2, many |-> TRUE]

ExtraWifi == [skips |-> FALSE, stage |-> {"revert"}, commit |-> "revert", apply |-> "restore", verify |-> "none", rounds |-> 1, many |-> TRUE]

MultiwanInterface == [skips |-> FALSE, stage |-> {"revert"}, commit |-> "revert", apply |-> "keep", verify |-> "none", rounds |-> 1, many |-> TRUE]

MultiwanRule == MultiwanInterface

\* A bad use_member after a good last_resort is refused and nothing reverted.
MultiwanPolicy == [MultiwanInterface EXCEPT !.stage = {"revert", "leave"}]

Idle == [phase |-> "idle"]

Working(c) == job[c].phase \notin {"idle", "done"}

\* The values a control wants when it is through.
Wanted(j) == [f \in Fields |-> IF f \in DOMAIN j.want THEN j.want[f] ELSE j.before[f]]

\* wireless.config: a new country first, with an automatic channel.
FirstRound(p, fs, writes) ==
    IF p.rounds = 2 /\ writes \ Late # {} THEN [n |-> 1, todo |-> writes \cup (fs \cap Late)]
    ELSE [n |-> p.rounds, todo |-> writes]

\* A control starts: its parameters are good and the old values are read.
Begin(c) ==
    /\ ~Working(c) /\ begun < MaxJobs
    /\ \E p \in Plans, fs \in (SUBSET Fields) \ {{}} : \E w \in [fs -> Vals] :
         LET writes == IF p.skips THEN {f \in fs : uci_read(f) # w[f]} ELSE fs
             first == FirstRound(p, fs, writes)
             alone == (\A d \in Callers : ~Working(d)) /\ staged = Nothing
         IN  /\ p.many \/ Cardinality(fs) = 1
             /\ job' = [d \in Callers |->
                IF d = c
                THEN IF writes = {} THEN [phase |-> "done", outcome |-> "same", alone |-> alone]
                     ELSE [phase |-> "stage", plan |-> p, want |-> w, todo |-> first.todo, round |-> first.n,
                           old |-> [f \in fs |-> uci_read(f)], before |-> flash, alone |-> alone]
                ELSE IF Working(d) THEN [job[d] EXCEPT !.alone = FALSE] ELSE job[d]]
    /\ begun' = begun + 1
    /\ UNCHANGED <<flash, staged, faults, dirty>>

End(c, outcome) == job' = [job EXCEPT ![c] = [phase |-> "done", outcome |-> outcome, alone |-> @.alone]]

Goto(c, phase) == job' = [job EXCEPT ![c].phase = phase]

\* How a control goes on when a step of it failed.
Failed(c, how) ==
    \/ how = "revert" /\ Goto(c, "revert") /\ UNCHANGED dirty
    \/ /\ how = "restore" /\ UNCHANGED dirty
       /\ job' = [job EXCEPT ![c].phase = "restore", ![c].todo = DOMAIN job[c].old]
    \/ how = "leave" /\ End(c, "failed") /\ dirty' = IF job[c].todo = DOMAIN job[c].want THEN dirty ELSE TRUE
    \/ how = "keep" /\ End(c, "kept") /\ UNCHANGED dirty

Fault == faults < MaxFaults /\ faults' = faults + 1

\* What this round writes to an option.
Now(j, f) == IF j.round < j.plan.rounds /\ f \in Late THEN Auto ELSE j.want[f]

\* uci set of the next option.
Stage(c) ==
    /\ job[c].phase = "stage"
    /\ \E f \in job[c].todo :
         /\ staged' = [staged EXCEPT ![f] = Now(job[c], f)]
         /\ job' = [job EXCEPT ![c].todo = @ \ {f}, ![c].phase = IF job[c].todo = {f} THEN "commit" ELSE "stage"]
    /\ UNCHANGED <<flash, begun, faults, dirty>>

\* The write fails, or a later option of the request is not acceptable.
StageFails(c) ==
    /\ job[c].phase = "stage" /\ Fault
    /\ \E how \in job[c].plan.stage : Failed(c, how)
    /\ UNCHANGED <<flash, staged, begun>>

Committed == [f \in Fields |-> uci_read(f)]

\* uci commit writes every staged change of the package, whoever staged it.
Commit(c) ==
    /\ job[c].phase = "commit"
    /\ flash' = Committed /\ staged' = Nothing
    /\ Goto(c, "apply")
    /\ UNCHANGED <<begun, faults, dirty>>

CommitFails(c) ==
    /\ job[c].phase = "commit" /\ Fault
    /\ Failed(c, job[c].plan.commit)
    /\ UNCHANGED <<flash, staged, begun>>

\* The service reloads; the next round of wireless.config stages its channel.
Apply(c) ==
    /\ job[c].phase = "apply"
    /\ IF job[c].round < job[c].plan.rounds /\ Late \cap DOMAIN job[c].want # {}
       THEN job' = [job EXCEPT ![c].round = @ + 1, ![c].todo = Late \cap DOMAIN job[c].want, ![c].phase = "stage"]
       ELSE IF job[c].plan.verify = "none" THEN End(c, "ok") ELSE Goto(c, "verify")
    /\ UNCHANGED <<flash, staged, begun, faults, dirty>>

ApplyFails(c) ==
    /\ job[c].phase = "apply" /\ Fault
    /\ Failed(c, job[c].plan.apply)
    /\ UNCHANGED <<flash, staged, begun>>

\* The options are read back.
Verify(c) ==
    /\ job[c].phase = "verify"
    /\ IF \A f \in DOMAIN job[c].want : uci_read(f) = job[c].want[f]
       THEN End(c, "ok") /\ UNCHANGED dirty
       ELSE Failed(c, job[c].plan.verify)
    /\ UNCHANGED <<flash, staged, begun, faults>>

\* uci revert drops every staged change of the package; its result is ignored.
Revert(c) ==
    /\ job[c].phase = "revert"
    /\ End(c, "failed")
    /\ \/ staged' = Nothing /\ UNCHANGED <<faults, dirty>>
       \/ Fault /\ dirty' = TRUE /\ UNCHANGED staged
    /\ UNCHANGED <<flash, begun>>

MutOld(c, f) == job[c].want[f]

Old(c, f) == job[c].old[f]

\* The old values are written, committed and reloaded; the outcome says
\* whether that worked.
Restore(c) ==
    /\ job[c].phase = "restore"
    /\ \/ \E f \in job[c].todo :
            /\ staged' = [staged EXCEPT ![f] = Old(c, f)]
            /\ job' = [job EXCEPT ![c].todo = @ \ {f}]
            /\ UNCHANGED <<flash, faults, dirty>>
       \/ /\ job[c].todo = {}
          /\ flash' = Committed /\ staged' = Nothing
          /\ End(c, "restored")
          /\ UNCHANGED <<faults, dirty>>
       \/ /\ Fault /\ dirty' = TRUE
          /\ End(c, "unrestored")
          /\ UNCHANGED <<flash, staged>>
    /\ UNCHANGED begun

\* The caller's time is up, or its client has gone: the future is dropped
\* where it stands and nothing is put back.
Dropped(c) ==
    /\ c \notin Patient /\ Working(c)
    /\ End(c, "dropped")
    /\ dirty' = TRUE
    /\ UNCHANGED <<flash, staged, begun, faults>>

Init ==
    /\ flash = [f \in Fields |-> CHOOSE v \in Vals : TRUE] /\ staged = Nothing
    /\ job = [c \in Callers |-> Idle]
    /\ begun = 0 /\ faults = 0 /\ dirty = FALSE

Step(c) ==
    \/ Begin(c) \/ Stage(c) \/ StageFails(c) \/ Commit(c) \/ CommitFails(c) \/ Apply(c) \/ ApplyFails(c)
    \/ Verify(c) \/ Revert(c) \/ Restore(c) \/ Dropped(c)

Next == \E c \in Callers : Step(c)

Spec == Init /\ [][Next]_vars

(***************************************************************************)
(* Properties.                                                             *)
(***************************************************************************)

\* When no control is at work, nothing is left for the next commit to publish,
\* however controls overlapped and whichever of their calls failed, unless one
\* was dropped half way, could not undo its writes, or is multiwan_policy
\* (every write is followed by its author's commit or revert).
NothingLeft ==
    (\A c \in Callers : ~Working(c)) /\ ~dirty => staged = Nothing

DoneWhole ==
    \A c \in Callers :
      Working(c) /\ job'[c].phase = "done" /\ job'[c].alone =>
        /\ job'[c].outcome = "ok" => flash' = Wanted(job[c]) /\ staged' = Nothing
        /\ job'[c].outcome \in {"restored", "failed"} => flash' = job[c].before

\* A control that ran alone did all or nothing, whichever call of it failed
\* and in whatever round: told ok it has stored every option, told failed or
\* restored the package is as it was.
AllOrNothing == [][DoneWhole]_vars

(***************************************************************************)
(* The inductive invariant behind them.                                    *)
(***************************************************************************)
Values == Vals \cup {Auto}
Requests == UNION {[fs -> Values] : fs \in SUBSET Fields}
PlanShapes ==
    [skips: BOOLEAN, stage: SUBSET {"revert", "restore", "leave"}, commit: {"revert", "restore"},
     apply: {"keep", "restore"}, verify: {"none", "keep", "restore"}, rounds: {1, 2}, many: BOOLEAN]

\* Writes are left only where nothing is skipped, and reverted only in one round.
Sound(p) ==
    /\ p \in PlanShapes
    /\ "leave" \in p.stage => p.skips = FALSE /\ p.rounds = 1
    /\ "revert" \in p.stage \/ p.commit = "revert" => p.rounds = 1

Phases == {"stage", "commit", "apply", "verify", "revert", "restore"}
Jobs ==
    [phase: Phases, plan: Plans, want: Requests, todo: SUBSET Fields, round: {1, 2}, old: Requests,
     before: [Fields -> Values], alone: BOOLEAN]
Ends == [phase: {"done"}, outcome: {"same", "ok", "kept", "failed", "restored", "unrestored", "dropped"}, alone: BOOLEAN]

Shapes ==
    /\ flash \in [Fields -> Values] /\ staged \in [Fields -> Values \cup {None}] /\ dirty \in BOOLEAN
    /\ job \in [Callers -> {Idle} \cup Ends \cup Jobs]
    /\ \A c \in Callers : Working(c) =>
         DOMAIN job[c].old = DOMAIN job[c].want /\ job[c].todo \subseteq DOMAIN job[c].want

\* Whoever has staged a write has yet to commit it or to take it back.
Owes(c) ==
    \/ job[c].phase \in {"commit", "revert", "restore"}
    \/ job[c].phase = "stage" /\ ("leave" \in job[c].plan.stage => job[c].todo # DOMAIN job[c].want)
Owed == staged = Nothing \/ dirty = TRUE \/ \E c \in Callers : Owes(c)

\* What this round makes of an option; the last round, or the only one.
Aim(j, f) == IF f \in DOMAIN j.want THEN Now(j, f) ELSE j.before[f]
Last(j) == j.round >= j.plan.rounds \/ Late \cap DOMAIN j.want = {}

\* A control that runs alone: what is stored and staged at each step of it.
Tracks(c) ==
    LET j == job[c] IN
    /\ \A d \in Callers : d # c => ~Working(d)
    /\ \A f \in DOMAIN j.old : j.old[f] = j.before[f]
    /\ j.phase \in {"stage", "commit"} => \A f \in Fields : f \in j.todo \/ uci_read(f) = Aim(j, f)
    /\ j.phase = "commit" => j.todo = {}
    /\ j.phase \in {"stage", "commit", "revert"} /\ j.plan.rounds = 1 => flash = j.before
    /\ j.phase = "revert" => j.plan.rounds = 1
    /\ j.phase \in {"apply", "verify"} => staged = Nothing /\ \A f \in Fields : flash[f] = Aim(j, f)
    /\ j.phase = "verify" => Last(j)
    /\ j.phase = "restore" => \A f \in Fields : f \in j.todo \/ uci_read(f) = j.before[f]

Alone == \A c \in Callers : Working(c) /\ job[c].alone = TRUE => Tracks(c)

UciInv == Shapes /\ Owed /\ Alone
=============================================================================
