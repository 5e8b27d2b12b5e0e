----------------------------- MODULE ExtraWifi -----------------------------
(***************************************************************************)
(* One of the two extra SSIDs (extra_wifi.rs, and extra_wifi in            *)
(* control.rs): a hostapd of datad's own, on an interface it adds beside   *)
(* the band's primary AP.  The sampling rounds reconcile it with its       *)
(* settings; the controls create, change and delete it.  Both work on the  *)
(* same files, interface and process, and hold no lock between two steps.  *)
(*                                                                         *)
(* `data` is what hostapd is given (band, SSID, encryption, key, ...), a   *)
(* filter the MAC list of the primary AP, which the extra one copies.      *)
(***************************************************************************)
EXTENDS Naturals

CONSTANTS Datas, Filters,
          Ticks,      \* the rounds that may reconcile at a time
          Control,    \* the control
          MaxTries,   \* 3 in the code
          MaxEvents,  \* bound: changes around the AP
          MaxFaults,  \* bound: steps that fail
          MaxOps,     \* bound: controls
          None

VARIABLES conf,     \* datad_wifi: the slot's settings
          filter, radio, base,   \* the filter, the radio's switch, a primary AP that is ready
          ap,       \* the running hostapd: its data and filter, and whether it is ready
          file,     \* the slot's conf file
          iface,    \* the slot's interface: absent, with its marker, or without
          rec,      \* RECONCILE: a signature and the attempts made for it
          job,      \* what the rounds and the control are doing
          ops, events, faults,
          drift     \* history: "settings" were written beside a round, or left half
                    \* applied; a round was at work beside a control or another, or
                    \* read two filters ("filter")

vars == <<conf, filter, radio, base, ap, file, iface, rec, job, ops, events, faults, drift>>
device == <<filter, radio, base>>
slot == <<ap, file, iface>>
bounds == <<ops, events, faults>>

Actors == Ticks \cup {Control}
Settings == [data: Datas, on: BOOLEAN]
Idle == [at |-> "idle", c |-> None, old |-> None, then |-> None, filter |-> None, result |-> None]
NoRecord == [sig |-> None, attempts |-> 0]
Busy(a) == job[a] # Idle

TypeOK ==
    /\ conf \in Settings \cup {None} /\ filter \in Filters /\ radio \in BOOLEAN /\ base \in BOOLEAN
    /\ ap = None \/ ap \in [data: Datas, filter: Filters, ready: BOOLEAN]
    /\ file = None \/ file \in [data: Datas, filter: Filters]
    /\ iface \in {"absent", "ours", "bare"}
    /\ rec.attempts \in Nat /\ DOMAIN job = Actors /\ drift \subseteq {"settings", "filter"}

Init ==
    /\ conf = None /\ filter \in Filters /\ radio = TRUE /\ base = TRUE
    /\ ap = None /\ file = None /\ iface = "absent" /\ rec = NoRecord
    /\ job = [a \in Actors |-> Idle] /\ ops = 0 /\ events = 0 /\ faults = 0 /\ drift = {}

Faulty == faults < MaxFaults /\ faults' = faults + 1 /\ UNCHANGED <<ops, events>>
Fine == UNCHANGED bounds
Sets(a, j) == job' = [job EXCEPT ![a] = j]
Drifts(cause, what) == drift' = IF cause THEN drift \cup {what} ELSE drift
Goes(a, at) == job' = [job EXCEPT ![a].at = at]
\* apply returns to its caller: TRUE ("up"), FALSE ("waits") or an error.
Returns(a, r) == job' = [job EXCEPT ![a].at = job[a].then, ![a].result = r]

-----------------------------------------------------------------------------
\* acl_applied: the conf file names this filter.
MutAclApplied(f) == file # None
AclApplied(f) == file # None /\ file.filter = f
\* process_owned, marker_matches, ready and acl_applied: nothing to do.
UpToDate == ap # None /\ iface = "ours" /\ ap.ready /\ AclApplied(filter)

\* apply: the slot's switch, the radio, a primary AP to stand beside, its
\* filter; what an AP that runs was given is not looked at.
Decide(a) ==
    /\ job[a].at = "apply"
    /\ IF ~job[a].c.on \/ ~radio THEN Goes(a, "stop")
       ELSE IF ~base THEN Returns(a, "waits")
       ELSE IF UpToDate THEN Returns(a, "up")
       ELSE job' = [job EXCEPT ![a].at = IF ap # None \/ iface = "ours" THEN "restart" ELSE "add",
                               ![a].filter = filter]
    /\ Drifts(rec.sig # None /\ rec.sig.filter # filter, "filter")
    /\ UNCHANGED <<conf, device, slot, rec, bounds>>

\* stop: the process is told to end and must be gone within a second, then the
\* interface goes if the marker says it is datad's, then the files.
Stopped ==
    /\ ap' = None /\ file' = None
    /\ iface' = (IF iface = "ours" THEN "absent" ELSE iface)
StopFails ==
    \/ ap # None /\ UNCHANGED slot
    \/ iface = "ours" /\ ap' = None /\ UNCHANGED <<file, iface>>
Stop(a) ==
    /\ job[a].at \in {"stop", "restart"}
    /\ \/ /\ Stopped /\ Fine
          /\ IF job[a].at = "stop" THEN Returns(a, "waits") ELSE Goes(a, "add")
       \/ StopFails /\ Faulty /\ Returns(a, "error")
    /\ UNCHANGED <<conf, device, rec, drift>>

\* start: the configuration is written and the interface added, unless there is
\* one already...
Add(a) ==
    /\ job[a].at = "add"
    /\ IF iface # "absent" THEN Returns(a, "error") /\ Fine /\ UNCHANGED <<file, iface>>
       ELSE /\ file' = [data |-> job[a].c.data, filter |-> job[a].filter]
            /\ \/ iface' = "bare" /\ Goes(a, "mark") /\ Fine
               \/ Faulty /\ Returns(a, "error") /\ UNCHANGED iface
    /\ UNCHANGED <<conf, device, ap, rec, drift>>
\* ...its number is noted, if it is still there...
Mark(a) ==
    /\ job[a].at = "mark"
    /\ IF iface = "absent" THEN Returns(a, "error") /\ UNCHANGED iface
       ELSE iface' = "ours" /\ Goes(a, "run")
    /\ UNCHANGED <<conf, device, ap, file, rec, bounds, drift>>
\* ...and hostapd started with the file as it is now; if it fails the interface
\* is removed.
Runs == file # None /\ iface # "absent" /\ ap = None
Run(a) ==
    /\ job[a].at = "run"
    /\ \/ /\ Runs /\ Fine /\ Returns(a, "up") /\ UNCHANGED iface
          /\ ap' = [data |-> file.data, filter |-> file.filter, ready |-> TRUE]
       \/ /\ IF Runs THEN Faulty ELSE Fine
          /\ iface' = "absent" /\ Returns(a, "error")
          /\ ap' = IF ap = None THEN None ELSE [ap EXCEPT !.ready = FALSE]
    /\ UNCHANGED <<conf, device, file, rec, drift>>

Apply(a) == Decide(a) \/ Stop(a) \/ Add(a) \/ Mark(a) \/ Run(a)

-----------------------------------------------------------------------------
\* tick: the settings and the filter are read; a new pair is tried anew, and
\* one that was tried often enough is left as it is...
Signature == [c |-> conf, filter |-> filter]
Current == IF rec.sig = Signature THEN rec ELSE [sig |-> Signature, attempts |-> 0]
Tick(t) ==
    /\ ~Busy(t) /\ conf # None /\ Current.attempts < MaxTries
    /\ rec' = Current
    /\ Sets(t, [Idle EXCEPT !.at = "apply", !.c = conf, !.then = "counted"])
    /\ Drifts(\E a \in Actors: Busy(a), "filter")
    /\ UNCHANGED <<conf, device, slot, bounds>>
\* ...an attempt counts when it failed, and also when it found the AP up...
Counted(t) ==
    /\ job[t].at = "counted" /\ Sets(t, Idle)
    /\ rec' = IF job[t].result = "waits" THEN rec ELSE [rec EXCEPT !.attempts = @ + 1]
    /\ UNCHANGED <<conf, device, slot, bounds, drift>>
\* ...and without settings whatever runs is stopped.
Remove(t) ==
    /\ ~Busy(t) /\ conf = None /\ <<slot, rec>> # <<None, None, "absent", NoRecord>>
    /\ rec' = NoRecord
    /\ \/ Stopped /\ Fine
       \/ StopFails /\ Faulty
    /\ UNCHANGED <<conf, device, job, drift>>

-----------------------------------------------------------------------------
\* The AP that runs is the one that c asks for.
Serves(c) == c # None /\ c.on /\ ap.data = c.data

\* A round that has read the settings may yet start an AP with them when they
\* are no more...
Overlaps == \E t \in Ticks: Busy(t)
\* ...and has perhaps done so between the control's stop and its write.
Commits(new) ==
    /\ conf' = new
    /\ Drifts(Overlaps \/ (ap # None /\ ~Serves(new)), "settings")

\* create and configure: the settings are written, or stay as they were (no step)...
Configure(new) ==
    /\ ~Busy(Control) /\ ops < MaxOps /\ ops' = ops + 1
    /\ conf' = new /\ Drifts(Overlaps, "settings")
    /\ Sets(Control, [Idle EXCEPT !.at = "halt", !.c = new, !.old = conf, !.then = "switch"])
    /\ UNCHANGED <<device, slot, rec, events, faults>>
\* ...delete begins with the AP.
Delete ==
    /\ ~Busy(Control) /\ ops < MaxOps /\ ops' = ops + 1 /\ conf # None
    /\ Sets(Control, [Idle EXCEPT !.at = "halt", !.old = conf, !.then = "forget"])
    /\ UNCHANGED <<conf, device, slot, rec, events, faults, drift>>

\* The AP that runs is stopped first; if it does not end, delete gives up and
\* configure puts the old settings back.
Halt ==
    /\ job[Control].at = "halt"
    /\ \/ Stopped /\ Fine /\ Goes(Control, job[Control].then)
       \/ /\ StopFails /\ Faulty
          /\ IF job[Control].then = "switch" THEN Goes(Control, "undo") ELSE Sets(Control, Idle)
    /\ UNCHANGED <<conf, device, rec, drift>>

\* reset_attempts, then apply of the new settings, which decides.
Switch ==
    /\ job[Control].at = "switch" /\ rec' = NoRecord
    /\ job' = [job EXCEPT ![Control].at = "apply", ![Control].then = "judge"]
    /\ UNCHANGED <<conf, device, slot, bounds, drift>>
Judge ==
    /\ job[Control].at = "judge"
    /\ IF job[Control].result = "error" THEN Goes(Control, "undo") ELSE Sets(Control, Idle)
    /\ UNCHANGED <<conf, device, slot, rec, bounds, drift>>

\* The rollback: what runs is stopped...
Undo ==
    /\ job[Control].at = "undo" /\ Goes(Control, "restore")
    /\ (Stopped /\ Fine) \/ (StopFails /\ Faulty)
    /\ UNCHANGED <<conf, device, rec, drift>>
\* ...the old settings are written, which may fail, and applied, if there were
\* any; the result of either is ignored.
Reapplies(a) ==
    IF job[a].old = None THEN Sets(a, Idle)
    ELSE job' = [job EXCEPT ![a].at = "apply", ![a].c = job[a].old, ![a].then = "done"]
Restore ==
    /\ job[Control].at = "restore" /\ Reapplies(Control)
    /\ \/ Commits(job[Control].old) /\ Fine
       \/ Faulty /\ Drifts(TRUE, "settings") /\ UNCHANGED conf
    /\ UNCHANGED <<device, slot, rec>>
\* delete: the settings go, or stay and are applied again.
Forget ==
    /\ job[Control].at = "forget"
    /\ \/ Commits(None) /\ Sets(Control, Idle) /\ Fine
       \/ Faulty /\ Reapplies(Control) /\ UNCHANGED <<conf, drift>>
    /\ UNCHANGED <<device, slot, rec>>
Done ==
    /\ job[Control].at = "done" /\ Sets(Control, Idle)
    /\ UNCHANGED <<conf, device, slot, rec, bounds, drift>>

-----------------------------------------------------------------------------
Event == events < MaxEvents /\ events' = events + 1 /\ UNCHANGED <<ops, faults>>

\* A stock page, another control or the weather.
DeviceChanges ==
    /\ Event
    /\ \/ filter' \in Filters \ {filter} /\ UNCHANGED <<radio, base>>
       \/ radio' = ~radio /\ UNCHANGED <<filter, base>>
       \/ base' = ~base /\ UNCHANGED <<filter, radio>>
    /\ UNCHANGED <<conf, slot, rec, job, drift>>

\* hostapd ends or loses its state, or the driver takes the interface away.
ApSuffers ==
    /\ Event /\ ap # None
    /\ \/ ap' = None /\ UNCHANGED iface
       \/ ap' = [ap EXCEPT !.ready = FALSE] /\ iface' \in {iface, "absent"}
    /\ UNCHANGED <<conf, device, file, rec, job, drift>>

\* A panel drops its control, or datad ends; hostapd goes on.
HalfWay == job[Control].at \in {"undo", "restore"}
           \/ (job[Control].at = "halt" /\ job[Control].then = "switch")
Drop ==
    /\ Event /\ Busy(Control) /\ Sets(Control, Idle) /\ Drifts(HalfWay, "settings")
    /\ UNCHANGED <<conf, device, slot, rec>>
Kill ==
    /\ Event /\ rec' = NoRecord /\ job' = [a \in Actors |-> Idle] /\ Drifts(HalfWay, "settings")
    /\ UNCHANGED <<conf, device, slot>>
Reboot ==
    /\ Event /\ rec' = NoRecord /\ job' = [a \in Actors |-> Idle]
    /\ ap' = None /\ iface' = "absent"
    /\ UNCHANGED <<conf, device, file, drift>>

Next ==
    \/ \E a \in Actors: Apply(a)
    \/ \E t \in Ticks: Tick(t) \/ Counted(t) \/ Remove(t)
    \/ \E new \in Settings: Configure(new)
    \/ Delete \/ Halt \/ Switch \/ Judge \/ Undo \/ Restore \/ Forget \/ Done
    \/ DeviceChanges \/ ApSuffers \/ Drop \/ Kill \/ Reboot

Spec == Init /\ [][Next]_vars

-----------------------------------------------------------------------------
\* Between controls, an AP that runs has the data it is to have and is to run:
\* a key or an SSID that was changed is served no longer, a slot that was
\* switched off or deleted not at all, whatever failed on the way.  Not so when
\* settings are written while a round works with the old ones, when a control
\* is ended before it stopped the AP, or when its rollback cannot stop the AP or
\* write the settings (drift): apply takes any AP that runs for the right one.
ServesSettings ==
    ap # None /\ ~Busy(Control) /\ "settings" \notin drift => Serves(conf)

\* The rounds do not give up on an AP with a filter of yesterday: when they
\* have spent their attempts on the present settings and filter, and fewer
\* steps failed than they had attempts, an AP that runs has this filter.  Not so
\* when a round spends its attempts beside a start that takes several rounds'
\* time, or when the filter is another for its last attempt than for its
\* signature, and then changes back.
FilterFollows ==
    (/\ conf # None /\ rec.sig = Signature /\ rec.attempts >= MaxTries
     /\ \A a \in Actors: ~Busy(a)
     /\ faults < MaxTries /\ "filter" \notin drift)
    => ap = None \/ ap.filter = filter

ExtraSafe == ServesSettings /\ FilterFollows
-----------------------------------------------------------------------------
\* The inductive invariant behind ExtraSafe.

\* Places in apply; those past its decision to start the AP; those of a start.
Applying == {"apply", "stop", "restart", "add", "mark", "run"}
Starting == {"restart", "add", "mark", "run"}
Jobs == [at: Applying \cup {"idle", "counted", "halt", "switch", "judge", "undo", "restore", "forget", "done"},
         c: Settings \cup {None}, old: Settings \cup {None},
         then: {None, "counted", "switch", "forget", "judge", "done"},
         filter: Filters \cup {None}, result: {None, "up", "waits", "error"}]

Shapes ==
    /\ conf \in Settings \cup {None} /\ filter \in Filters
    /\ ap = None \/ ap \in [data: Datas, filter: Filters, ready: BOOLEAN]
    /\ file = None \/ file \in [data: Datas, filter: Filters]
    /\ iface \in {"absent", "ours", "bare"}
    /\ rec \in [sig: [c: Settings, filter: Filters] \cup {None}, attempts: Nat]
    /\ faults \in Nat /\ job \in [Actors -> Jobs] /\ drift \subseteq {"settings", "filter"}

\* What the job of a round and that of the control may be.
Rounds ==
    \A t \in Ticks :
      \/ job[t] = Idle
      \/ job[t].at \in Applying \cup {"counted"} /\ job[t].then = "counted"
Controls ==
    \/ job[Control] = Idle
    \/ job[Control].at \in Applying /\ job[Control].then \in {"judge", "done"}
    \/ job[Control].at = "halt" /\ job[Control].then \in {"switch", "forget"}
    \/ job[Control].at \in {"switch", "judge", "undo", "restore", "forget", "done"}
InHand ==
    \A a \in Actors :
      /\ job[a].at \in Applying \cup {"switch"} => job[a].c # None
      /\ job[a].at = "halt" /\ job[a].then = "switch" => job[a].c # None
      /\ job[a].at \in Starting => job[a].filter # None

\* A hostapd that is ready has the file it was started with.
FromFile == ap # None /\ ap.ready = TRUE => iface # "absent" /\ (file = None \/ ap.filter = file.filter)

\* Without drift whoever applies settings applies the present ones...
Present ==
    "settings" \notin drift =>
      /\ HalfWay \/ ap = None \/ Serves(conf)
      /\ \A a \in Actors :
           /\ job[a].at \in Applying => job[a].c = conf
           /\ job[a].at \in Starting => conf.on = TRUE
           /\ job[a].at \in {"mark", "run"} => file = None \/ file.data = conf.data
      /\ job[Control].at = "switch" \/ (job[Control].at = "halt" /\ job[Control].then = "switch")
           => job[Control].c = conf
      /\ job[Control].at = "forget" \/ (job[Control].at = "halt" /\ job[Control].then = "forget")
           => job[Control].old = conf

\* ...and as long as the AP has another filter than the attempts are for, no
\* attempt was spent without a failure.
Wrong == ap # None /\ rec.sig # None /\ ap.filter # rec.sig.filter
Ended(t) == job[t].at = "counted" /\ job[t].result # "waits"
Earned ==
    "filter" \notin drift =>
      /\ \A t, u \in Ticks : Busy(t) /\ Busy(u) => t = u
      /\ rec.sig # None =>
           \A a \in Actors :
             /\ job[a].at \in Starting => job[a].filter = rec.sig.filter
             /\ job[a].at \in {"mark", "run"} => file = None \/ file.filter = rec.sig.filter
      /\ Wrong =>
           /\ \A a \in Actors : job[a].at \notin {"add", "mark", "run"}
           /\ rec.attempts <= faults
           /\ \A t \in Ticks : Ended(t) => rec.attempts + 1 <= faults

ExtraInv == Shapes /\ Rounds /\ Controls /\ InHand /\ FromFile /\ Present /\ Earned
=============================================================================
