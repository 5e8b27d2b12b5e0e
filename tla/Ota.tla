--------------------------------- MODULE Ota ---------------------------------
(***************************************************************************)
(* Self-update: rust/src/ota.rs, the handlers that drive it (server.rs and *)
(* cloud_update.rs), the wrapper script it starts and the installer        *)
(* (scripts/install.sh.in), which restarts datad while it runs.            *)
(*                                                                         *)
(* One mutex guards the manager.  A handler that answers 202 sets busy,    *)
(* drops the mutex and leaves a task that takes it again (pending); a      *)
(* check or a download holds it across its network waits (holder).  The    *)
(* only word from the installer is its result marker.                      *)
(*                                                                         *)
(* Timers count down in units of CLOCK_BOOTTIME; what they restart from    *)
(* after a reboot is what the code arms.  Manifests are told apart by      *)
(* version; the safety conditions and every network result are choices.    *)
(***************************************************************************)
EXTENDS Integers, FiniteSets, Sequences

CONSTANTS
    MaxVersion,      \* versions are 1..MaxVersion; datad starts as version 1
    Auto,            \* not ZWRT_DATAD_OTA_DISABLE_AUTO
    RetryDelay,      \* retry_delay(1..3): 1 h, 6 h, 24 h in the code
    InstallWait,     \* how long a result is waited for (1800 s)
    AutoEvery,       \* AUTO_CHECK_EVERY (6 h)
    Timely,          \* an installer ends before InstallWait has passed
    ByHand,          \* versions that may be installed without datad (adb)
    Slots,           \* bound: installers that may run at once
    MaxRequests,     \* bound: requests of the App, the panel and the NMS
    MaxReboots,      \* bound: reboots of the device
    MaxStoreErrors   \* bound: failed writes of ota-state.json

Versions == 1..MaxVersion
NoVersion == 0   \* no candidate
NoTimer == -1    \* no deadline; 0 is one that has passed

VARIABLES
    version,      \* DATAD_VERSION of the running process
    enabled,      \* Config.enabled
    ota,          \* the manager: status, candidate, busy and deadlines
    disk,         \* ota-state.json
    marker,       \* ota-install-result
    pending,      \* the spawned task that waits for the mutex
    holder,       \* the operation that holds the mutex across an await
    nms,          \* cloud-update.json
    installers,   \* the wrapper scripts
    requests,     \* bound
    reboots,      \* bound
    storeErrors,  \* bound
    \* history
    confirmed,    \* versions an installer has reported as installed
    cool          \* time that must pass after the last fail()

manager == <<version, enabled, ota, disk, marker, pending, holder, nms>>
history == <<confirmed, cool>>
vars == <<manager, installers, requests, reboots, storeErrors, history>>

Stored(o) == [state |-> o.state, latest |-> o.latest, failures |-> o.failures,
              verified |-> o.verified, retry |-> o.retry, wait |-> o.wait]

NoJob == [kind |-> "none", pc |-> "free", cand |-> NoVersion, stale |-> FALSE]
Job(kind, pc, cand) == [kind |-> kind, pc |-> pc, cand |-> cand, stale |-> FALSE]
NoInstaller == [pc |-> "none", target |-> NoVersion, old |-> NoVersion, nms |-> FALSE]

Fresh == [state |-> "idle", latest |-> NoVersion, failures |-> 0, verified |-> FALSE,
          cand |-> NoVersion, busy |-> FALSE, retry |-> NoTimer, wait |-> NoTimer,
          next |-> 0]

Init ==
    /\ version = 1 /\ enabled = TRUE
    /\ ota = Fresh /\ disk = Stored(Fresh) /\ marker = "none"
    /\ pending = NoJob /\ holder = NoJob
    /\ nms = [status |-> "none", target |-> NoVersion]
    /\ installers = [s \in Slots |-> NoInstaller]
    /\ requests = 0 /\ reboots = 0 /\ storeErrors = 0
    /\ confirmed = {} /\ cool = 0

Unlocked == holder.pc = "free"

\* save_status: a failed write is ignored.
Save(o) ==
    /\ ota' = o
    /\ \/ disk' = Stored(o) /\ UNCHANGED storeErrors
       \/ /\ storeErrors < MaxStoreErrors
          /\ storeErrors' = storeErrors + 1
          /\ UNCHANGED disk

\* finish_update and the early returns publish, but write nothing.
Keep(o) == ota' = o /\ UNCHANGED <<disk, storeErrors>>

(***************************************************************************)
(* The manager's operations on its own state.                              *)
(***************************************************************************)

\* From the fourth failure on there is no delay: 4 stands for 4..255.
OneMore(failures) == IF failures = 4 THEN 4 ELSE failures + 1
Delay(failures) == IF failures \in 1..3 THEN RetryDelay[failures] ELSE 0

\* fail(): one more failure, and a cooldown or "blocked".
Fail(o, latest) ==
    LET f == OneMore(o.failures)
    IN [o EXCEPT !.state = IF Delay(f) = 0 THEN "blocked" ELSE "error",
                 !.failures = f,
                 !.retry = IF Delay(f) = 0 THEN NoTimer ELSE Delay(f),
                 !.latest = latest]

TimedOut(o, mark) == mark = "none" /\ o.state = "installing" /\ o.wait = 0

MutSettle(o, mark, v) ==
    IF mark = "none"
    THEN IF TimedOut(o, mark) THEN Fail(o, o.latest) ELSE o
    ELSE IF mark = "success"
         THEN [o EXCEPT !.state = "succeeded", !.wait = NoTimer,
                        !.failures = 0, !.retry = NoTimer]
         ELSE [o EXCEPT !.state = "error", !.failures = OneMore(@)]

\* reconcile_install_result: the marker decides, in whatever state; without
\* one, an installation whose time is up has failed.
Settle(o, mark, v) ==
    IF mark = "none"
    THEN IF TimedOut(o, mark) THEN Fail(o, o.latest) ELSE o
    ELSE IF mark = "success" /\ o.latest = v
         THEN [o EXCEPT !.state = "succeeded", !.wait = NoTimer,
                        !.failures = 0, !.retry = NoTimer]
         ELSE [o EXCEPT !.state = "error", !.failures = OneMore(@)]

\* begin_update: whether it may begin, and what it sets.
MayBegin(o) == ~o.busy /\ o.state # "installing"
Begun(o) == [o EXCEPT !.busy = TRUE, !.state = "checking"]
Finished(o) == [o EXCEPT !.busy = FALSE]

RetryReady(o) == o.retry \in {NoTimer, 0}

ShouldAutoCheck(o) ==
    /\ enabled /\ MayBegin(o) /\ RetryReady(o)
    /\ o.cand = NoVersion \/ o.next = 0

AutoCandidate(o) ==
    /\ enabled /\ MayBegin(o) /\ RetryReady(o)
    /\ o.cand > version
    /\ ~(o.state = "blocked" /\ o.cand = o.latest)

\* What reading the result does to the cooldown that is owed.
CoolAfter(o, mark, v) ==
    IF TimedOut(o, mark) THEN Delay(OneMore(o.failures))
    ELSE IF mark = "success" /\ o.latest = v THEN 0 ELSE cool

\* reconcile_install_result as a step: the marker is consumed; without one
\* and without a timeout nothing is written.
Reconcile(o) ==
    IF o = ota /\ marker = "none"
    THEN UNCHANGED <<ota, disk, storeErrors, marker>>
    ELSE Save(o) /\ marker' = "none"

(***************************************************************************)
(* Starting work.                                                          *)
(***************************************************************************)

MutRound ==
    /\ Unlocked /\ Auto
    /\ LET o == Settle(ota, marker, version)
       IN \/ /\ ~ShouldAutoCheck(o) /\ ~AutoCandidate(o)
             /\ Reconcile(o) /\ UNCHANGED holder
          \/ /\ ShouldAutoCheck(o)
             /\ Reconcile([Begun(o) EXCEPT !.next = AutoEvery])
             /\ holder' = Job("auto", "ready", NoVersion)
          \/ /\ AutoCandidate(o)
             /\ Reconcile(Begun(o))
             /\ holder' = Job("auto", "install", o.cand)
    /\ cool' = CoolAfter(ota, marker, version)
    /\ UNCHANGED <<version, enabled, pending, nms, installers, requests, reboots, confirmed>>

\* tick: settle; then, when automatic updates are on, a check or an install.
\* A clock change in progress keeps it from starting either.
Round ==
    /\ Unlocked
    /\ LET o == Settle(ota, marker, version)
       IN \/ /\ Reconcile(o) /\ UNCHANGED holder
          \/ /\ Auto /\ ShouldAutoCheck(o)
             /\ Reconcile([Begun(o) EXCEPT !.next = AutoEvery])
             /\ holder' = Job("auto", "ready", NoVersion)
          \/ /\ Auto /\ AutoCandidate(o)
             /\ Reconcile(Begun(o))
             /\ holder' = Job("auto", "install", o.cand)
    /\ cool' = CoolAfter(ota, marker, version)
    /\ UNCHANGED <<version, enabled, pending, nms, installers, requests, reboots, confirmed>>

Request == requests < MaxRequests /\ requests' = requests + 1

\* ota_app_status: settle when the mutex is free.
AppStatus ==
    /\ Unlocked
    /\ Reconcile(Settle(ota, marker, version))
    /\ cool' = CoolAfter(ota, marker, version)
    /\ UNCHANGED <<version, enabled, pending, holder, nms, installers, requests, reboots, confirmed>>

\* ota_app_check and the NMS commands settle first (begin_requested_update);
\* the NMS command keeps the mutex, the App's check is a task of its own.
RequestCheck(kind, target) ==
    /\ Request
    /\ Unlocked
    /\ kind # "app_check" => nms.status # "installing"
    /\ LET o == Settle(ota, marker, version)
       IN /\ Reconcile(IF MayBegin(o) THEN Begun(o) ELSE o)
          /\ IF ~MayBegin(o) THEN UNCHANGED <<pending, holder>>
             ELSE IF kind = "app_check"
             THEN pending' = Job(kind, "ready", NoVersion) /\ UNCHANGED holder
             ELSE holder' = Job(kind, "ready", target) /\ UNCHANGED pending
    /\ cool' = CoolAfter(ota, marker, version)
    /\ UNCHANGED <<version, enabled, nms, installers, reboots, confirmed>>

\* approved_candidate.
Approved == ota.cand > version /\ ota.verified

MutAppInstall ==
    /\ Request
    /\ Unlocked /\ Approved
    /\ ~ota.busy
    /\ Save(Begun(ota))
    /\ pending' = Job("app_install", "install", ota.cand)
    /\ UNCHANGED <<version, enabled, marker, holder, nms, installers, reboots, history>>

\* ota_app_install: the approved candidate, unless an update is in progress.
AppInstall ==
    /\ Request
    /\ Unlocked /\ Approved /\ MayBegin(ota)
    /\ Save(Begun(ota))
    /\ pending' = Job("app_install", "install", ota.cand)
    /\ UNCHANGED <<version, enabled, marker, holder, nms, installers, reboots, history>>

\* ota_update: check and install in one task.
Update ==
    /\ Request
    /\ Unlocked /\ MayBegin(ota)
    /\ Save(Begun(ota))
    /\ pending' = Job("update", "ready", NoVersion)
    /\ UNCHANGED <<version, enabled, marker, holder, nms, installers, reboots, history>>

\* ota_check: no begin_update, the handler itself holds the mutex.
PlainCheck ==
    /\ Request
    /\ Unlocked
    /\ ota.state # "installing"
    /\ holder' = Job("plain", "ready", NoVersion)
    /\ UNCHANGED <<version, enabled, ota, disk, marker, pending, nms, installers, reboots, storeErrors, history>>

\* The spawned task gets the mutex.
TakeLock ==
    /\ Unlocked /\ pending.pc # "free"
    /\ holder' = pending /\ pending' = NoJob
    /\ UNCHANGED <<version, enabled, ota, disk, marker, nms, installers, requests, reboots, storeErrors, history>>

\* update_config, also behind set_auto_update: the candidate is void.
UpdateConfig(on) ==
    /\ Request
    /\ Unlocked /\ MayBegin(ota)
    /\ enabled' = on
    /\ Save([ota EXCEPT !.cand = NoVersion, !.verified = FALSE, !.latest = NoVersion, !.state = "idle"])
    /\ pending' = [pending EXCEPT !.stale = (pending.pc # "free")]
    /\ UNCHANGED <<version, marker, holder, nms, installers, reboots, history>>

(***************************************************************************)
(* Work under the mutex.                                                   *)
(***************************************************************************)

\* The operation is over: fail() where its caller says so, finish_update,
\* and the mutex is free.
EndOk(o) ==
    /\ IF o = ota THEN Keep(Finished(o)) ELSE Save(Finished(o))
    /\ holder' = NoJob
    /\ UNCHANGED cool

EndFailed(o, latest) ==
    /\ Save(Finished(Fail(o, latest)))
    /\ holder' = NoJob
    /\ cool' = Delay(OneMore(o.failures))

ToInstall(o, cand) ==
    /\ Save(o)
    /\ holder' = [holder EXCEPT !.pc = "install", !.cand = cand]
    /\ UNCHANGED cool

NmsEnds(status) == nms' = IF holder.kind \in {"nms_check", "nms_install"}
                          THEN [nms EXCEPT !.status = status] ELSE nms

\* What each caller of check() does with its outcome; found = NoVersion is an error.
AfterCheck(o, found) ==
    \/ /\ holder.kind = "plain"
       /\ IF o = ota THEN Keep(o) ELSE Save(o)
       /\ holder' = NoJob /\ UNCHANGED <<cool, nms, marker>>
    \/ /\ holder.kind = "app_check"
       /\ EndOk(o) /\ UNCHANGED <<nms, marker>>
    \/ /\ holder.kind = "auto"
       /\ LET f == Finished(o)
          IN \/ AutoCandidate(f) /\ ToInstall(Begun(f), f.cand)
             \/ EndOk(o)
       /\ UNCHANGED <<nms, marker>>
    \/ /\ holder.kind = "update"
       /\ IF found = NoVersion THEN EndFailed(o, o.latest)
          ELSE IF found <= version THEN EndFailed(o, found)
          ELSE ToInstall(o, found)
       /\ UNCHANGED <<nms, marker>>
    \/ /\ holder.kind = "nms_check"
       /\ IF found = NoVersion THEN EndFailed(o, o.latest) /\ NmsEnds("failed")
                          ELSE EndOk(o) /\ NmsEnds("checked")
       /\ UNCHANGED marker
    \/ /\ holder.kind = "nms_install"
       /\ IF found = holder.cand /\ found > version
          THEN /\ ToInstall(o, found)
               /\ nms' = [status |-> "installing", target |-> found]
               /\ marker' = "none"
          ELSE EndFailed(o, o.latest) /\ NmsEnds("failed") /\ UNCHANGED marker

\* check: refused while the clock changes; otherwise the old candidate goes.
CheckStarts ==
    /\ holder.pc = "ready"
    /\ \/ AfterCheck(ota, NoVersion)
       \/ /\ Save([ota EXCEPT !.state = "checking", !.cand = NoVersion,
                              !.verified = FALSE, !.latest = NoVersion])
          /\ holder' = [holder EXCEPT !.pc = "check"]
          /\ UNCHANGED <<cool, nms, marker>>
    /\ UNCHANGED <<version, enabled, pending, installers, requests, reboots, confirmed>>

\* The sources answered: a newer version, no newer one, or nothing usable.
CheckEnds(found) ==
    /\ holder.pc = "check"
    /\ \/ found = NoVersion /\ AfterCheck([ota EXCEPT !.state = "error"], found)
       \/ /\ found # NoVersion /\ found > version
          /\ AfterCheck([ota EXCEPT !.cand = found, !.verified = TRUE, !.state = "available", !.latest = found], found)
       \/ /\ found # NoVersion /\ found <= version
          /\ AfterCheck([ota EXCEPT !.cand = found, !.verified = TRUE, !.state = "idle", !.latest = version], found)
    /\ UNCHANGED <<version, enabled, pending, installers, requests, reboots, confirmed>>

\* The client of ota_check goes away and the handler is dropped.
PlainDropped ==
    /\ holder.kind = "plain"
    /\ holder' = NoJob
    /\ UNCHANGED <<version, enabled, ota, disk, marker, pending, nms, installers, requests, reboots, storeErrors, history>>

\* install: the safety conditions do not hold.  Only tick does not count it.
SafetyWaits ==
    /\ holder.pc = "install"
    /\ LET o == [ota EXCEPT !.state = "waiting_idle"]
       IN \/ holder.kind = "auto" /\ EndOk(o)
          \/ holder.kind = "nms_install" /\ EndFailed(o, o.latest)
          \/ holder.kind \notin {"auto", "nms_install"} /\ EndFailed(o, holder.cand)
    /\ NmsEnds("failed")
    /\ UNCHANGED <<version, enabled, marker, pending, installers, requests, reboots, confirmed>>

Downloads ==
    /\ holder.pc = "install"
    /\ Save([ota EXCEPT !.state = "downloading"])
    /\ holder' = [holder EXCEPT !.pc = "download"]
    /\ UNCHANGED <<version, enabled, marker, pending, nms, installers, requests, reboots, history>>

\* No artifact, no download, a wrong digest, no room for it, or no process.
InstallFails ==
    /\ holder.pc \in {"install", "download", "spawn"}
    /\ EndFailed(ota, IF holder.kind = "nms_install" THEN ota.latest ELSE holder.cand)
    /\ NmsEnds("failed")
    /\ UNCHANGED <<version, enabled, marker, pending, installers, requests, reboots, confirmed>>

\* The old marker goes, then "installing" and its deadline are saved.
Installing ==
    /\ holder.pc = "download"
    /\ marker' = "none"
    /\ Save([ota EXCEPT !.latest = holder.cand, !.state = "installing", !.wait = InstallWait])
    /\ holder' = [holder EXCEPT !.pc = "spawn"]
    /\ UNCHANGED <<version, enabled, pending, nms, installers, requests, reboots, history>>

\* The wrapper script runs from here on; datad expects to be restarted.
Spawn(s) ==
    /\ holder.pc = "spawn"
    /\ installers[s].pc = "none"
    /\ installers' = [installers EXCEPT ![s] =
                        [pc |-> "sleep", target |-> holder.cand, old |-> version,
                         nms |-> holder.kind = "nms_install"]]
    /\ EndOk(ota) /\ NmsEnds("installing")
    /\ UNCHANGED <<version, enabled, marker, pending, requests, reboots, confirmed>>

\* cloud_update_result on every report: the record of an NMS installation.
CloudResult ==
    /\ nms.status = "installing"
    /\ \/ /\ nms.target = version
          /\ nms' = [nms EXCEPT !.status = "succeeded"]
       \/ /\ nms.target # version
          /\ marker # "none" \/ (Unlocked /\ ota.state # "installing")
          /\ nms' = [nms EXCEPT !.status = "failed"]
    /\ UNCHANGED <<version, enabled, ota, disk, marker, pending, holder, installers, requests, reboots, storeErrors, history>>

(***************************************************************************)
(* Restarts, the installer and time.                                       *)
(***************************************************************************)

\* Ota::load: interrupted work is an error, a candidate that is not newer any
\* more is dropped, and deadlines of another boot are armed again in full.
Load(v, sameBoot) ==
    LET cut == disk.state \in {"checking", "downloading"}
        superseded == /\ disk.state \in {"available", "waiting_idle"}
                      /\ disk.latest \in 1..v
    IN [Fresh EXCEPT
         !.state = IF cut THEN "error" ELSE IF superseded THEN "idle" ELSE disk.state,
         !.latest = IF cut THEN NoVersion ELSE IF superseded THEN v ELSE disk.latest,
         !.verified = disk.verified /\ ~cut /\ ~superseded,
         !.failures = disk.failures,
         !.retry = IF Delay(disk.failures) = 0 \/ disk.state = "succeeded" THEN NoTimer
                   ELSE IF sameBoot /\ disk.retry # NoTimer THEN disk.retry
                   ELSE Delay(disk.failures),
         !.wait = IF disk.state # "installing" THEN NoTimer
                  ELSE IF sameBoot /\ disk.wait # NoTimer THEN disk.wait
                  ELSE InstallWait]

\* The process starts again as version v: load, save the deadlines, settle.
\* Whatever it was doing is gone.
Start(v, sameBoot) ==
    LET o == Load(v, sameBoot)
    IN /\ version' = v
       /\ pending' = NoJob /\ holder' = NoJob
       /\ marker' = "none"
       /\ ota' = Settle(o, marker, v)
       /\ cool' = CoolAfter(o, marker, v)
       /\ \/ /\ disk' = IF o.retry = NoTimer /\ o.wait = NoTimer /\ ota' = o
                        THEN disk ELSE Stored(ota')
             /\ UNCHANGED storeErrors
          \/ /\ storeErrors < MaxStoreErrors
             /\ storeErrors' = storeErrors + 1
             /\ UNCHANGED disk

\* datad crashes and its service starts it, or another version is installed
\* by hand (over adb).
Restart(v) ==
    /\ Start(v, TRUE)
    /\ UNCHANGED <<enabled, nms, installers, requests, reboots, confirmed>>

\* The device reboots: installers are gone, wherever they were.
Reboot ==
    /\ reboots < MaxReboots
    /\ reboots' = reboots + 1
    /\ Start(version, FALSE)
    /\ installers' = [s \in Slots |-> NoInstaller]
    /\ UNCHANGED <<enabled, nms, requests, confirmed>>

InstallerAt(s, pc) == installers' = [installers EXCEPT ![s].pc = pc]

Working == {s \in Slots : installers[s].pc \in {"run", "verify"}}

\* The wrapper removes the marker and runs the installer, which refuses to run
\* beside another one (flock).
InstallerStarts(s) ==
    /\ installers[s].pc = "sleep"
    /\ marker' = "none"
    /\ InstallerAt(s, IF Working = {} THEN "run" ELSE "failed")
    /\ UNCHANGED <<version, enabled, ota, disk, pending, holder, nms, requests, reboots, storeErrors, history>>

\* The download or the trial run fails: the old datad goes on, restarted if
\* it was stopped for the trial.
InstallerFails(s) ==
    /\ installers[s].pc = "run"
    /\ InstallerAt(s, "failed")
    /\ \/ UNCHANGED <<version, ota, disk, marker, pending, holder, storeErrors, cool>>
       \/ Start(version, TRUE)
    /\ UNCHANGED <<enabled, nms, requests, reboots, confirmed>>

\* The new files are in place and datad is started from them.
InstallerSwaps(s) ==
    /\ installers[s].pc = "run"
    /\ InstallerAt(s, "verify")
    /\ Start(installers[s].target, TRUE)
    /\ UNCHANGED <<enabled, nms, requests, reboots, confirmed>>

InstallerRollsBack(s) ==
    /\ installers[s].pc = "verify"
    /\ InstallerAt(s, "failed")
    /\ Start(installers[s].old, TRUE)
    /\ UNCHANGED <<enabled, nms, requests, reboots, confirmed>>

InstallerSucceeds(s) ==
    /\ installers[s].pc = "verify"
    /\ version = installers[s].target
    /\ InstallerAt(s, "ok")
    /\ confirmed' = confirmed \cup {version}
    /\ UNCHANGED <<manager, requests, reboots, storeErrors, cool>>

\* The wrapper writes the result and ends.
InstallerMarks(s) ==
    /\ installers[s].pc \in {"ok", "failed"}
    /\ marker' = IF installers[s].pc = "ok" THEN "success" ELSE "failed"
    /\ installers' = [installers EXCEPT ![s] = NoInstaller]
    /\ UNCHANGED <<version, enabled, ota, disk, pending, holder, nms, requests, reboots, storeErrors, history>>

Installer(s) ==
    \/ InstallerStarts(s) \/ InstallerFails(s) \/ InstallerSwaps(s)
    \/ InstallerRollsBack(s) \/ InstallerSucceeds(s) \/ InstallerMarks(s)

Running == {s \in Slots : installers[s].pc # "none"}

Less(timer) == IF timer > 0 THEN timer - 1 ELSE timer

\* Time passes, and not so much that a timely installer is still at work.
Tick ==
    /\ Timely /\ (Running # {} \/ holder.pc = "spawn") => ota.wait # 1
    /\ ota' = [ota EXCEPT !.retry = Less(@), !.wait = Less(@), !.next = Less(@)]
    /\ disk' = [disk EXCEPT !.retry = Less(@), !.wait = Less(@)]
    /\ cool' = Less(cool)
    /\ UNCHANGED <<version, enabled, marker, pending, holder, nms, installers, requests, reboots, storeErrors, confirmed>>

Requests ==
    \/ AppStatus \/ AppInstall \/ Update \/ PlainCheck \/ PlainDropped
    \/ RequestCheck("app_check", NoVersion) \/ RequestCheck("nms_check", NoVersion)
    \/ \E v \in Versions : RequestCheck("nms_install", v)
    \/ \E on \in BOOLEAN : UpdateConfig(on)

Work ==
    \/ CheckStarts \/ \E found \in Versions \cup {NoVersion} : CheckEnds(found)
    \/ SafetyWaits \/ Downloads \/ InstallFails \/ Installing
    \/ \E s \in Slots : Spawn(s)

Next ==
    \/ Round \/ Requests \/ TakeLock \/ Work \/ CloudResult \/ Tick
    \/ \E s \in Slots : Installer(s)
    \/ \E v \in ByHand \cup {version} : Restart(v)
    \/ Reboot

Spec == Init /\ [][Next]_vars

\* The background loop comes round, a task that waits for the mutex gets it
\* (tokio's mutex is fair), a periodic report does not find it taken every
\* time, network waits are bounded by timeouts and time passes.  Installers
\* owe nothing: they may hang or be killed.
FairSpec ==
    /\ Spec
    /\ SF_vars(Round) /\ SF_vars(TakeLock) /\ SF_vars(CloudResult)
    /\ WF_vars(Work) /\ WF_vars(Tick)

-----------------------------------------------------------------------------
States == {"idle", "checking", "available", "waiting_idle", "downloading",
           "installing", "succeeded", "error", "blocked"}

TypeOK ==
    /\ version \in Versions
    /\ ota.state \in States /\ disk.state \in States
    /\ {ota.latest, ota.cand, disk.latest} \subseteq Versions \cup {NoVersion}
    /\ {ota.failures, disk.failures} \subseteq 0..4
    /\ {ota.wait, disk.wait} \subseteq NoTimer..InstallWait
    /\ marker \in {"none", "success", "failed"}
    /\ pending.pc \in {"free", "ready", "install"}
    /\ nms.status \in {"none", "installing", "succeeded", "failed", "checked"}

\* Two installers never run at once: "installing" outlives the restarts that
\* the installer causes, and nothing else starts one before its result is in.
OneInstaller == Cardinality(Running) <= 1

Confirmed ==
    ota.state # "succeeded" /\ ota'.state = "succeeded" =>
        version' = ota'.latest /\ version' \in confirmed'

Cooled ==
    holder.kind # "auto" /\ holder'.kind = "auto" => cool' = 0 \/ ota'.failures = 4

\* A datad that becomes "succeeded" runs the version that was to be installed
\* and an installer has reported it as installed; and the first three failures
\* that fail() counts are followed by their cooldown before datad does anything
\* by itself, across restarts and reboots.
TrueResults == [][Confirmed /\ Cooled]_vars

\* Nothing is installed from a candidate of an earlier configuration: changing
\* the sources voids it, also for a task that has yet to take the mutex.
NothingStale == holder.pc \in {"install", "download", "spawn"} => ~holder.stale

\* An NMS installation that is reported as failed is over: no installer that
\* the NMS asked for is at work any more.
FailedIsOver ==
    nms.status = "failed" =>
        \A s \in Running : ~installers[s].nms

\* One installer at a time, from a current candidate, and none at work for an
\* installation that is reported as failed.
InstallSafe == OneInstaller /\ NothingStale /\ FailedIsOver

\* An installation is settled in the end, also when its installer never
\* reports, datad is restarted or automatic updates are off.
InstallSettles == ota.state = "installing" ~> ota.state # "installing"

\* A request that was accepted comes to an end, so that the next one is.
BusyEnds == ota.busy ~> ~ota.busy

\* The NMS record of an installation reaches a verdict.
NmsSettles == nms.status = "installing" ~> nms.status # "installing"

\* Nothing that updates wait for lasts for ever: installations settle, busy is
\* given back, and the NMS hears of the end.
UpdatesSettle == InstallSettles /\ BusyEnds /\ NmsSettles

(***************************************************************************)
(* The inductive invariant behind InstallSafe and TrueResults.             *)
(***************************************************************************)
Timers == Nat \cup {NoTimer}
Managers ==
    [state: States, latest: Int, failures: 0..4, verified: BOOLEAN, cand: Int, busy: BOOLEAN, retry: Timers,
     wait: Timers, next: Timers]
Files == [state: States, latest: Int, failures: 0..4, verified: BOOLEAN, retry: Timers, wait: Timers]
Tasks ==
    [kind: {"none", "auto", "plain", "update", "app_check", "app_install", "nms_check", "nms_install"},
     pc: {"free", "ready", "check", "install", "download", "spawn"}, cand: Int, stale: {FALSE}]
Scripts == [pc: {"none", "sleep", "run", "verify", "ok", "failed"}, target: Int, old: Int, nms: BOOLEAN]
NmsRecords == [status: {"none", "installing", "succeeded", "failed", "checked"}, target: Int]

Shapes ==
    /\ version \in Int /\ ota \in Managers /\ disk \in Files /\ marker \in {"none", "success", "failed"}
    /\ pending \in Tasks /\ holder \in Tasks /\ nms \in NmsRecords
    /\ installers \in [Slots -> Scripts] /\ storeErrors \in Nat

\* What a restart would find is what the manager knows of an installation and
\* of the failures; a success has none.
Mirrors(o, d) ==
    /\ d.state = "installing" <=> o.state = "installing"
    /\ o.state = "installing" => d.latest = o.latest /\ d.wait = o.wait
    /\ d.failures = o.failures
    /\ d.state = "succeeded" <=> o.state = "succeeded"
    /\ o.state = "succeeded" => o.failures = 0

\* The cooldown that is owed is armed, in memory and for the next start.
Owes(o, d, c) ==
    /\ c \in Nat
    /\ o.failures = 0 => c = 0
    /\ o.failures \in 1..3 => c <= Delay(o.failures) /\ (c = 0 \/ o.retry >= c) /\ (d.retry = NoTimer \/ d.retry >= c)

\* The mutex and busy: who waits for it, and who has it, is alone; only the
\* operation that is about to spawn has it while something is installing.
Locks ==
    /\ pending.pc \in {"free", "ready", "install"} /\ pending.kind \notin {"auto", "plain"}
    /\ pending.pc # "free" =>
         ota.busy = TRUE /\ ota.state # "installing" /\ (holder.pc = "free" \/ holder.kind = "plain")
    /\ holder.kind = "plain" => holder.pc \in {"ready", "check"}
    /\ holder.pc # "free" => (ota.state = "installing" <=> holder.pc = "spawn")
    /\ holder.pc = "spawn" => ota.latest = holder.cand /\ ota.wait > 0

\* An installer is at work, or its result is there, only while datad waits for
\* it; it is the one datad started, and its time is not up.
Awaited ==
    /\ \A s \in Slots : installers[s].pc # "none" =>
         /\ ota.state = "installing" /\ ota.wait > 0 /\ marker = "none" /\ holder.pc = "free"
         /\ installers[s].target = ota.latest
    /\ \A s, t \in Slots : installers[s].pc # "none" /\ installers[t].pc # "none" => s = t
    /\ \A s \in Slots : installers[s].pc = "ok" => installers[s].target \in confirmed
    /\ marker # "none" =>
         ota.state = "installing" /\ holder.pc = "free" /\ \A s \in Slots : installers[s].pc = "none"
    /\ marker = "success" => ota.latest \in confirmed
    /\ nms.status = "failed" => \A s \in Slots : installers[s].pc # "none" => installers[s].nms = FALSE

OtaInv == Shapes /\ Mirrors(ota, disk) /\ Owes(ota, disk, cool) /\ Locks /\ Awaited
=============================================================================
