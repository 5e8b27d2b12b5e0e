----------------------------- MODULE SmsForward -----------------------------
(***************************************************************************)
(* SMS forwarding: struct Forwarder of rust/src/sms_forward.rs, the        *)
(* forwarding loop, the panel requests and the scheduled sends of          *)
(* rust/src/server.rs that share it, and SMTP delivery                     *)
(* (rust/src/smtp_forward.rs).                                             *)
(*                                                                         *)
(* The manager is a Mutex that its users keep locked while they deliver;   *)
(* `job` and `edit` are the operation that holds it.  All of them hold a   *)
(* clock lease, so the device clock is stepped only between them.  An SMS  *)
(* is identified by sender, receipt instant and text; the webhook,         *)
(* DingTalk and SMTP destinations are one network method.  Battery notices *)
(* are module PowerNotice: here they are messages that appear.             *)
(***************************************************************************)
EXTENDS Integers, Sequences, FiniteSets

CONSTANTS
    Msgs,      \* SMS identities
    Undated,   \* those whose receipt stamp cannot be read
    Blocked,   \* those a blacklist entry matches
    FromTarget,\* those sent by the phone TargetPhone
    Methods,   \* methods the user may choose of "net" and "sms"
    Requests,  \* deliveries asked for, of "test", "device" and "task"
    Phones,    \* numbers the user may forward to
    MaxSeen,   \* MAX_SEEN (1024)
    MaxInbox,  \* bound: length of the SMS list (512)
    MaxDaily,  \* MAX_SMS_DAILY_SENDS (60)
    Batch,     \* deliveries per tick (4)
    Skew,      \* receipt stamps this far ahead of the clock wait (300 s)
    DayLen,    \* length of a day
    MaxTime,   \* bound: true time
    None, Corrupt, \* no operation; a file that cannot be read
    Unusable,      \* a stale, truncated or failed SMS list
    Lags       \* how far the device clock may be behind

TargetPhone == CHOOSE p \in Phones : TRUE

VARIABLES
    config,     \* Forwarder.config
    file,       \* sms-forward.json: a config or "corrupt"
    lastResult, \* Forwarder.last_result: "marked" is any code of a delivery
    job,        \* the delivery that holds the manager, or None
    edit,       \* the update that holds the manager, or None
    loop,       \* where the forwarding loop is
    snap,       \* the SMS list the loop works through
    left,       \* deliveries left in this tick
    inbox,      \* the vendor's SMS list, oldest first
    at,         \* when each SMS was received (0: not yet)
    now, lag,   \* true time, and how far the device clock is behind
    recorded,   \* history: the last MaxSeen fingerprints ever recorded
    day, sent,  \* history: latest day with a reservation, SIM sends since
    held        \* history: a corrupt file was loaded and not replaced

vars == <<config, file, lastResult, job, edit, loop, snap, left, inbox, at,
          now, lag, recorded, day, sent, held>>

manager == <<config, file, lastResult>>
world   == <<inbox, at, now, lag>>
history == <<recorded, day, sent, held>>

NoDate  == -1

Clock == now - lag
Today == Clock \div DayLen
Free  == job = None /\ edit = None

Elems(s) == {s[i] : i \in 1..Len(s)}
Suffix(s, n) == SubSeq(s, IF Len(s) > n THEN Len(s) - n + 1 ELSE 1, Len(s))

\* Config::default.
Default == [enabled |-> FALSE, method |-> "net", url |-> FALSE, phones |-> {},
            qdate |-> NoDate, used |-> 0, seen |-> << >>, since |-> 0, version |-> 0]

\* valid_config: an enabled method has its destination, lists and quota are in bounds.
ValidConfig(c) ==
    /\ Len(c.seen) <= MaxSeen
    /\ c.used <= MaxDaily
    /\ c.qdate = NoDate => c.used = 0
    /\ c.enabled => IF c.method = "sms" THEN c.phones # {} ELSE c.url

\* Forwarder::load: what a file gives, and last_result.
Loaded(f)  == IF f = Corrupt \/ ~ValidConfig(f) THEN Default ELSE f
LoadResult(f) == IF f = Corrupt \/ ~ValidConfig(f) THEN "invalid_config" ELSE "idle"

\* The first start after an update from a version that knew no fingerprints.
Init ==
    /\ file = [Default EXCEPT !.enabled = TRUE, !.url = TRUE]
    /\ config = Loaded(file)
    /\ lastResult = LoadResult(file)
    /\ job = None /\ edit = None
    /\ loop = "power" /\ snap = << >> /\ left = 0
    /\ inbox = << >>
    /\ at = [m \in Msgs |-> 0]
    /\ now = 2 /\ lag = 0
    /\ recorded = << >> /\ day = NoDate /\ sent = 0 /\ held = FALSE

\* Forwarder::save and the assignment that follows it: the config in memory
\* changes only when the file was replaced.
Save(c, ok) ==
    /\ config' = IF ok THEN c ELSE config
    /\ file'   = IF ok THEN c ELSE file

(***************************************************************************)
(* Settings.                                                               *)
(***************************************************************************)

Inputs == [enabled : BOOLEAN, method : Methods, url : {TRUE},
           phones : {Phones}]

\* requires_baseline.
NeedsBaseline(in) ==
    in.enabled /\ (\/ ~config.enabled
                   \/ in.method # config.method
                   \/ config.version # 3
                   \/ lastResult = "invalid_config")

\* panel_sms_forward_update takes the manager and, where a baseline is
\* needed, reads a fresh SMS list (fresh_baseline).
BeginEdit(in) ==
    /\ Free
    /\ \E list \in IF NeedsBaseline(in) THEN {inbox, Unusable} ELSE {<< >>} :
          edit' = [in |-> in, list |-> list]
    /\ UNCHANGED <<manager, job, loop, snap, left, world, history>>

\* The elements of s at the positions I, in order.
Picked(s, I) == [k \in 1..Cardinality(I) |-> s[CHOOSE i \in I : Cardinality({j \in I : j < i}) = k - 1]]

\* First occurrences in s of what is not in old.
Firsts(s, old) == {i \in 1..Len(s) : s[i] \notin Elems(old) /\ \A j \in 1..(i - 1) : s[j] # s[i]}
Unseen(s, old) == Picked(s, Firsts(s, old))

\* What update saves: the settings and, when needed, the baseline.
Edited(e) ==
    LET c    == [config EXCEPT !.enabled = e.in.enabled, !.method = e.in.method,
                               !.url = e.in.url, !.phones = e.in.phones]
        kept == IF c.version = 3 THEN c.seen ELSE << >>
    IN  IF NeedsBaseline(e.in)
        THEN [c EXCEPT !.seen = Suffix(kept \o Unseen(e.list, kept), MaxSeen),
                       !.since = Clock, !.version = 3]
        ELSE c

\* Forwarder::update.  It fails on an invalid configuration, an unusable list,
\* a clock out of range or a failed write, and changes nothing then.
ApplyEdit ==
    /\ edit # None
    /\ edit' = None
    /\ \/ UNCHANGED <<manager, history>>
       \/ /\ edit.list # Unusable
          /\ ValidConfig(Edited(edit))
          /\ Save(Edited(edit), TRUE)
          /\ lastResult' = "idle"
          /\ recorded' = IF NeedsBaseline(edit.in)
                         THEN Suffix(recorded \o Unseen(edit.list, recorded), MaxSeen)
                         ELSE recorded
          /\ held' = FALSE
          /\ UNCHANGED <<day, sent>>
    /\ UNCHANGED <<job, loop, snap, left, world>>

(***************************************************************************)
(* The forwarding loop.                                                    *)
(***************************************************************************)

\* A delivery that holds the manager: its destination is read when it starts.
NewJob(by, m) == [by |-> by, msg |-> m, method |-> config.method,
                  to |-> config.phones, stage |-> "reserve"]

\* observe_power at the start of a tick may return a notice.
PowerPass ==
    /\ loop = "power"
    /\ Free
    /\ \/ job' = None
       \/ config.enabled /\ job' = NewJob("power", None)
    /\ loop' = "list"
    /\ UNCHANGED <<manager, edit, snap, left, world, history>>

\* The status and the SMS list of this tick; the manager is not held.
ReadList ==
    /\ loop = "list"
    /\ Free
    /\ \/ /\ ~config.enabled
          /\ loop' = "power"
          /\ UNCHANGED <<snap, left, lastResult>>
       \/ /\ config.enabled
          /\ snap' \in {inbox, Unusable}
          /\ loop' = "pass"
          /\ left' = Batch
          /\ UNCHANGED lastResult
       \/ /\ config.enabled
          /\ lastResult' = "marked"
          /\ loop' = "power"
          /\ UNCHANGED <<snap, left>>
    /\ UNCHANGED <<config, file, job, edit, world, history>>

\* A receipt stamp ahead of the device clock: the SMS waits, unrecorded.
Early(m) == m \notin Undated /\ at[m] > Clock + Skew

\* Received since forwarding was switched on; unknown stamps are history.
Recent(m) == m \notin Undated /\ at[m] >= config.since

\* next_at: what one pass over the list records, and the SMS it delivers.
Pass ==
    LET todo == Picked(snap, {i \in Firsts(snap, config.seen) : ~Early(snap[i])})
        hits == {i \in 1..Len(todo) : Recent(todo[i]) /\ todo[i] \notin Blocked}
        stop == IF hits = {} THEN Len(todo) ELSE CHOOSE i \in hits : \A j \in hits : i <= j
    IN  [new |-> SubSeq(todo, 1, stop), msg |-> IF hits = {} THEN None ELSE todo[stop]]

Deliver(m, record) ==
    /\ job' = IF m = None THEN None ELSE NewJob("sms", m)
    /\ loop' = IF m = None THEN "power" ELSE "pass"
    /\ snap' = IF m = None THEN << >> ELSE snap
    /\ recorded' = Suffix(recorded \o record, MaxSeen)
    /\ UNCHANGED <<lastResult, edit, left, world, day, sent, held>>

MutNextMessage ==
    /\ loop = "pass" /\ Free /\ config.enabled /\ snap # Unusable /\ config.version = 3
    /\ config' = [config EXCEPT !.seen = Suffix(@ \o Pass.new, MaxSeen)]
    /\ file' = file
    /\ Deliver(Pass.msg, Pass.new)

\* Forwarder::next: fingerprints are on disk before anything is delivered; a
\* state of an older version only takes the list as its baseline.
NextMessage ==
    /\ loop = "pass"
    /\ Free
    /\ config.enabled
    /\ snap # Unusable
    /\ IF config.version # 3
       THEN /\ Save([config EXCEPT !.seen = Unseen(snap, << >>), !.version = 3,
                                   !.since = Clock], TRUE)
            /\ Deliver(None, Unseen(snap, << >>))
       ELSE /\ Save([config EXCEPT !.seen = Suffix(@ \o Pass.new, MaxSeen)], TRUE)
            /\ Deliver(Pass.msg, Pass.new)

\* The pass ends: nothing to do, an unusable list, no clock or a failed write.
EndPass ==
    /\ loop = "pass"
    /\ Free
    /\ loop' = "power"
    /\ snap' = << >>
    /\ lastResult' \in IF config.enabled
                       THEN {lastResult, "marked"}
                       ELSE {lastResult}
    /\ UNCHANGED <<config, file, job, edit, left, world, history>>

(***************************************************************************)
(* Deliveries.                                                             *)
(***************************************************************************)

\* Device information needs forwarding switched on.
MayRequest(by) == by = "device" => config.enabled

\* panel_sms_forward_test, scheduled_device_info_forward and the scheduled
\* SMS take the manager.
Request(by) ==
    /\ Free
    /\ MayRequest(by)
    /\ job' = NewJob(by, None)
    /\ UNCHANGED <<manager, edit, loop, snap, left, world, history>>

\* phone_matches: the sender's own number is skipped.  A scheduled SMS has
\* one number of its own.
Targets(j) ==
    IF j.by = "task" THEN {TargetPhone}
    ELSE {p \in j.to : j.msg \in FromTarget => p # TargetPhone}

\* quota_day: the latest date seen keeps its use when the clock goes back.
QuotaDay == IF config.qdate = NoDate \/ Today > config.qdate
            THEN [date |-> Today, used |-> 0]
            ELSE [date |-> config.qdate, used |-> config.used]

UsesSim(j) == j.by = "task" \/ j.method = "sms"

\* reserve_sms and reserve_scheduled_sms: quota for every number is on disk
\* before the first one is sent to.
Reserve ==
    /\ job # None
    /\ job.stage = "reserve"
    /\ UsesSim(job) => Targets(job) # {}
    /\ job.by = "task" => lastResult # "invalid_config"
    /\ job' = [job EXCEPT !.stage = "send", !.to = Targets(job)]
    /\ IF UsesSim(job)
       THEN LET used == QuotaDay.used + Cardinality(Targets(job)) IN
            /\ used <= MaxDaily
            /\ Save([config EXCEPT !.qdate = QuotaDay.date, !.used = used], TRUE)
            /\ day'  = IF Today > day THEN Today ELSE day
            /\ sent' = IF Today > day THEN 0 ELSE sent
       ELSE UNCHANGED <<config, file, day, sent>>
    /\ UNCHANGED <<lastResult, edit, loop, snap, left, world, recorded, held>>

\* The end of a delivery: mark_delivery (a power notice has a result of its
\* own, a scheduled SMS none), and the loop's next pass or break.
Finish(goOn) ==
    /\ job' = None
    /\ lastResult' = IF job.by \in {"sms", "test", "device"} THEN "marked" ELSE lastResult
    /\ IF job.by = "sms"
       THEN /\ left' = left - 1
            /\ loop' = IF goOn /\ left > 1 THEN "pass" ELSE "power"
            /\ snap' = IF goOn /\ left > 1 THEN snap ELSE << >>
       ELSE UNCHANGED <<left, loop, snap>>
    /\ UNCHANGED <<config, file, edit, world, recorded, day, held>>

\* The reservation fails: no number is left, the quota is used up, no clock,
\* or a failed write.
RefuseJob ==
    /\ job # None
    /\ job.stage = "reserve"
    /\ UsesSim(job)
    /\ Finish(FALSE)
    /\ UNCHANGED sent

\* deliver over the network: webhook, DingTalk or SMTP, once.
Post ==
    /\ job # None
    /\ job.stage = "send"
    /\ ~UsesSim(job)
    /\ Finish(TRUE)
    /\ UNCHANGED sent

\* deliver_sms: a text that is empty or too long, or no clock: nothing is sent.
Unsendable ==
    /\ job # None
    /\ job.stage = "send"
    /\ UsesSim(job)
    /\ Finish(TRUE)
    /\ UNCHANGED sent

\* deliver_sms: one number after the other, until one fails.
SendSim(p) ==
    /\ job # None
    /\ job.stage = "send"
    /\ UsesSim(job)
    /\ p \in job.to
    /\ sent' = sent + 1
    /\ \/ Finish(TRUE)
       \/ /\ job.to # {p}
          /\ job' = [job EXCEPT !.to = @ \ {p}]
          /\ UNCHANGED <<manager, edit, loop, snap, left, world, recorded, day, held>>

\* The caller's timeout (40 s, 50 s) or a closed request drops the operation.
Abandon ==
    /\ \/ job # None /\ job.by \in {"test", "device", "task"}
       \/ edit # None
    /\ job' = None
    /\ edit' = None
    /\ UNCHANGED <<manager, loop, snap, left, world, history>>

(***************************************************************************)
(* The process, the modem and the clock.                                   *)
(***************************************************************************)

\* The process ends and is started again; the file may not be readable then.
Restart ==
    /\ file' \in {file, Corrupt}
    /\ config' = Loaded(file')
    /\ lastResult' = LoadResult(file')
    /\ job' = None /\ edit' = None
    /\ loop' = "power" /\ snap' = << >> /\ left' = 0
    /\ IF file' = Corrupt
       THEN recorded' = << >> /\ day' = NoDate /\ sent' = 0 /\ held' = TRUE
       ELSE UNCHANGED history
    /\ UNCHANGED world

\* An SMS is received, or one that was is listed again (SIM and NV copies).
Arrive(m) ==
    /\ Len(inbox) < MaxInbox
    /\ inbox' = Append(inbox, m)
    /\ at' = [at EXCEPT ![m] = IF @ = 0 /\ m \notin Undated THEN now ELSE @]
    /\ UNCHANGED <<manager, job, edit, loop, snap, left, now, lag, history>>

\* The SMS at position i is deleted.
Delete(i) ==
    /\ inbox' = SubSeq(inbox, 1, i - 1) \o SubSeq(inbox, i + 1, Len(inbox))
    /\ UNCHANGED <<manager, job, edit, loop, snap, left, at, now, lag, history>>

TimePasses ==
    /\ now < MaxTime
    /\ now' = now + 1
    /\ UNCHANGED <<manager, job, edit, loop, snap, left, inbox, at, lag, history>>

\* The clock is set: only while no lease is held.
StepClock ==
    /\ Free
    /\ lag' \in Lags
    /\ UNCHANGED <<manager, job, edit, loop, snap, left, inbox, at, now, history>>

Manage == (\E in \in Inputs : BeginEdit(in)) \/ ApplyEdit
Loop   == PowerPass \/ ReadList \/ NextMessage \/ EndPass
Send   == \/ \E by \in Requests : Request(by)
          \/ Reserve \/ RefuseJob \/ Post \/ Unsendable \/ Abandon
          \/ \E p \in Phones : SendSim(p)
World  == \/ \E m \in Msgs : Arrive(m)
          \/ \E i \in 1..Len(inbox) : Delete(i)
          \/ TimePasses \/ StepClock \/ Restart

Next == Manage \/ Loop \/ Send \/ World

Spec == Init /\ [][Next]_vars

(***************************************************************************)
(* Properties.                                                             *)
(***************************************************************************)

\* An SMS whose fingerprint is among the last MaxSeen recorded, by a delivery
\* or as part of a baseline, is not delivered (again): not after a crash
\* between the write and the delivery, a failed or abandoned delivery, a
\* change of settings, a second listing or a step of the clock.
NoReplay ==
    [][job = None /\ job' # None /\ job'.by = "sms"
          => job'.msg \notin Elems(recorded)]_vars

\* However the clock is stepped and the process restarted, forwarded SMS, test
\* messages, notices and scheduled SMS together use the SIM at most MaxDaily
\* times between two advances of the calendar date.
SimQuota == sent <= MaxDaily

(***************************************************************************)
(* The inductive invariant behind NoReplay and SimQuota.                   *)
(***************************************************************************)
Configs ==
    [enabled : BOOLEAN, method : Methods \cup {"net"}, url : BOOLEAN, phones : SUBSET Phones,
     qdate : Int, used : Nat, seen : Seq(Msgs), since : Int, version : Nat]
Jobs ==
    [by : Requests \cup {"power", "sms"}, msg : Msgs \cup {None}, method : Methods \cup {"net"},
     to : SUBSET Phones, stage : {"reserve", "send"}]

Listed(s) == s = Unusable \/ (s \in Seq(Msgs) /\ Len(s) <= MaxInbox)

\* The file gives the config that is in memory back, or nothing at all.
Stored ==
    /\ config \in Configs /\ ValidConfig(config)
    /\ file = config \/ (file = Corrupt /\ config = Default)

Around ==
    /\ inbox \in Seq(Msgs) /\ Len(inbox) <= MaxInbox /\ Listed(snap)
    /\ edit = None \/ (edit.in \in Inputs /\ Listed(edit.list))
    /\ job = None \/ job \in Jobs
    /\ now \in Nat /\ now >= 2 /\ lag \in Lags

\* What was recorded is what the config remembers.
Remembered == recorded = IF config.version = 3 THEN config.seen ELSE << >>

\* What was sent, and what may still be, is booked on the day it counts for.
Reserved == IF job # None /\ job.stage = "send" /\ UsesSim(job) THEN Cardinality(job.to) ELSE 0
Booked == day = config.qdate /\ sent \in Nat /\ sent + Reserved <= config.used

ForwardInv == Stored /\ Around /\ Remembered /\ Booked
=============================================================================
