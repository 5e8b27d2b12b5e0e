---------------------------- MODULE TimeOwnership ----------------------------
(***************************************************************************)
(* The resources datad takes over to keep the time, and how it gives them  *)
(* back: the ownership journal of rust/src/time_control/platform.rs        *)
(* (prepare, take_over, timezone, seal, verify_owned, restore) and the     *)
(* operations of Manager::run and start (rust/src/time_control.rs) around  *)
(* it.                                                                     *)
(*                                                                         *)
(* Three time zone files, two UCI options and the vendor's NTP service     *)
(* belong to somebody else, who may change them at any moment.  datad      *)
(* writes the journal, changes one resource, writes the journal again, and *)
(* may be killed between any two of these, or see any of them fail with or *)
(* without effect.  Operations are serialized by Inner.work; the clock     *)
(* lease around them is module ClockDomain.                                *)
(***************************************************************************)
EXTENDS Integers

CONSTANTS
    NFiles,      \* number of time zone files (PATHS has 3)
    MaxUpsets,   \* bound: crashes, failed steps and changes by others
    MaxRequests  \* bound: requests of the user

Files == 1..NFiles
Keys == 1..2

Ours == "ours"                        \* what datad writes
Value == {"found", "foreign", Ours}

Service == [enabled : BOOLEAN, running : BOOLEAN]
Off == [enabled |-> FALSE, running |-> FALSE]

VARIABLES
    file,         \* the time zone files
    uci,          \* the two options, as uci get reports them
    pending,      \* uci set without uci commit
    svc,          \* zte_topsw_ntp
    journal,      \* time-ownership.json
    calibration,  \* config.json: calibration_enabled
    op,           \* the operation that holds Inner.work
    own,          \* its copy of the journal
    error,        \* outcome of the last operation
    anchor,       \* State.anchor is set: the guard is armed
    queued,       \* a disable waits for Inner.work
    upsets, requests,  \* bounds
    base,         \* history: values last set by others (a set: any of these)
    foreign,      \* history: resources in other hands when op began
    outside,      \* history: somebody else changed a resource
    reused        \* history: a journal that was partly given up is used again

system == <<file, uci, pending, svc>>
request == <<calibration, queued, requests>>
vars == <<system, journal, op, own, error, anchor, request, upsets, base,
          foreign, outside, reused>>

Journal(there, complete, service) ==
    [there |-> there, complete |-> complete, before |-> file, applied |-> file,
     service |-> service, serviceOwned |-> FALSE, uci |-> uci, uciOwned |-> FALSE]

NoJournal ==
    [there |-> FALSE, complete |-> FALSE,
     before |-> [i \in Files |-> "found"], applied |-> [i \in Files |-> "found"],
     service |-> {}, serviceOwned |-> FALSE,
     uci |-> [k \in Keys |-> "found"], uciOwned |-> FALSE]

Idle == [step |-> "idle", at |-> 0, goal |-> "none", calibrate |-> FALSE, cancelled |-> FALSE]

Init ==
    /\ file = [i \in Files |-> "found"]
    /\ uci = [k \in Keys |-> "found"]
    /\ pending = FALSE
    /\ svc \in Service
    /\ journal = NoJournal /\ own = NoJournal
    /\ calibration = FALSE
    /\ op = Idle
    /\ error = "none" /\ anchor = FALSE /\ queued = FALSE
    /\ upsets = 0 /\ requests = 0
    /\ base = [file |-> [i \in Files |-> {"found"}],
               uci |-> [k \in Keys |-> {"found"}], svc |-> {svc}]
    /\ foreign = {}
    /\ outside = FALSE /\ reused = FALSE

Upset == upsets < MaxUpsets /\ upsets' = upsets + 1

Busy == op.step \notin {"idle", "boot"}

(***************************************************************************)
(* What the checks see.                                                    *)
(***************************************************************************)

\* The service was switched on by somebody else.
ServiceConflict(j) == svc # Off /\ svc \notin j.service

\* Resources that hold neither datad's value nor the one it would put back.
InOtherHands(j) ==
    {<<"file", i>> : i \in {i \in Files : file[i] \notin {j.before[i], j.applied[i]}}}
    \cup {<<"uci", k>> : k \in {k \in Keys : j.uciOwned /\ uci[k] \notin {j.uci[k], Ours}}}
    \cup {<<"svc", n>> : n \in {n \in {0} : j.serviceOwned /\ ServiceConflict(j)}}

MutPreflightOk(j) == \A i \in Files : <<"file", i>> \notin InOtherHands(j)

\* The first part of restore: nothing is put back when a resource has an
\* external owner.
PreflightOk(j) == InOtherHands(j) = {}

\* verify_owned.
VerifyOwned(j) ==
    /\ file = j.applied
    /\ j.uciOwned => \A k \in Keys : uci[k] = Ours
    /\ j.serviceOwned => svc = Off

\* A restore that was cut short has given up the options or the service, and
\* the journal is still marked complete.
PartlyReleased(j) == ~j.uciOwned \/ (j.service # {} /\ ~j.serviceOwned)

(***************************************************************************)
(* How a step goes on.                                                     *)
(***************************************************************************)

Step(step, i) ==
    /\ op' = [op EXCEPT !.step = step, !.at = i]
    /\ UNCHANGED <<error, anchor, foreign>>

End(result, armed) ==
    /\ op' = Idle
    /\ own' = NoJournal
    /\ error' = result
    /\ anchor' = armed
    /\ foreign' = {}

\* Manager::run: an error while applying is followed by a restore; an error
\* of prepare or of restore ends the operation.
Fails(result, j) ==
    IF op.goal = "sync" /\ op.step \notin {"sample", "prepare", "snapshot"}
    THEN /\ op' = [op EXCEPT !.step = "preflight", !.at = 0, !.goal = "rollback"]
         /\ own' = j
         /\ error' = result
         /\ anchor' = FALSE
         /\ UNCHANGED foreign
    ELSE End(result, anchor /\ op.goal # "rollback")

\* A step that worked, or whose success was not seen (a timeout, an exit code).
Then(step, i) ==
    \/ Step(step, i) /\ UNCHANGED <<own, upsets>>
    \/ Upset /\ Fails("failed", own)

\* Platform::save: an atomic replacement whose failure may come after it.
Save(j, step, i) ==
    \/ /\ own' = j /\ journal' = j
       /\ Step(step, i)
       /\ UNCHANGED upsets
    \/ /\ Upset
       /\ journal' \in {journal, j}
       /\ Fails("failed", j)

\* A step that fails before it has any effect.
StepFails ==
    /\ op.step \notin {"idle", "boot", "sample", "apply"}
    /\ Upset
    /\ Fails("failed", own)
    /\ UNCHANGED <<system, journal, request, base, outside, reused>>

(***************************************************************************)
(* Platform::prepare.                                                      *)
(***************************************************************************)

\* The sample comes first; without one, or cancelled, nothing is touched.
Sample ==
    /\ op.step = "sample"
    /\ \/ ~op.cancelled /\ Step("prepare", 0) /\ UNCHANGED own
       \/ Fails("failed", own)
    /\ UNCHANGED <<system, journal, request, upsets, base, outside, reused>>

Prepare ==
    /\ op.step = "prepare"
    /\ \/ /\ pending \/ (journal.there /\ journal.complete /\ ~VerifyOwned(journal))
          /\ Fails("conflict", own) /\ UNCHANGED <<journal, upsets>>
       \/ /\ ~pending /\ ~journal.there
          /\ Step("snapshot", 0) /\ UNCHANGED <<journal, own, upsets>>
       \/ /\ ~pending /\ journal.there /\ ~journal.complete
          /\ op' = [op EXCEPT !.step = "preflight", !.goal = "again"]
          /\ own' = journal
          /\ UNCHANGED <<journal, error, anchor, foreign, upsets>>
       \/ /\ ~pending /\ journal.there /\ journal.complete /\ VerifyOwned(journal)
          /\ Save([journal EXCEPT
                     !.complete = FALSE,
                     !.service = IF op.calibrate /\ @ = {} THEN {svc} ELSE @],
                  "apply", 0)
    /\ reused' = (reused \/ (~pending /\ journal.complete /\ PartlyReleased(journal)))
    /\ UNCHANGED <<system, request, base, outside>>

Snapshot ==
    /\ op.step = "snapshot"
    /\ Save(Journal(TRUE, FALSE, IF op.calibrate THEN {svc} ELSE {}), "apply", 0)
    /\ UNCHANGED <<system, request, base, outside, reused>>

(***************************************************************************)
(* The apply block of Manager::run: take_over, timezone, the clock, seal.  *)
(***************************************************************************)

Apply ==
    /\ op.step = "apply"
    /\ IF op.cancelled
       THEN Fails("failed", own)
       ELSE /\ IF op.calibrate /\ own.service # {} /\ ~own.serviceOwned
               THEN Step("take_over", 0)
               ELSE Step("claim", 1)
            /\ UNCHANGED own
    /\ UNCHANGED <<system, journal, request, upsets, base, outside, reused>>

TakeOver ==
    /\ op.step = "take_over"
    /\ Save([own EXCEPT !.serviceOwned = TRUE], "disable", 0)
    /\ UNCHANGED <<system, request, base, outside, reused>>

DisableService ==
    /\ op.step = "disable"
    /\ svc' = [svc EXCEPT !.enabled = FALSE]
    /\ Then("stop", 0)
    /\ UNCHANGED <<file, uci, pending, journal, request, base, outside, reused>>

StopService ==
    /\ op.step = "stop"
    /\ svc' = [svc EXCEPT !.running = FALSE]
    /\ Then("service_read", 0)
    /\ UNCHANGED <<file, uci, pending, journal, request, base, outside, reused>>

ServiceRead ==
    /\ op.step = "service_read"
    /\ IF svc = Off THEN Step("claim", 1) /\ UNCHANGED own ELSE Fails("failed", own)
    /\ UNCHANGED <<system, journal, request, upsets, base, outside, reused>>

\* timezone: the intention is journaled first.
Claim ==
    /\ op.step = "claim"
    /\ IF file[op.at] # own.applied[op.at]
       THEN Fails("conflict", own) /\ UNCHANGED <<journal, upsets>>
       ELSE Save([own EXCEPT !.applied[op.at] = Ours], "put", op.at)
    /\ UNCHANGED <<system, request, base, outside, reused>>

Put ==
    /\ op.step = "put"
    /\ file' = [file EXCEPT ![op.at] = Ours]
    /\ IF op.at < NFiles THEN Then("claim", op.at + 1) ELSE Then("own_uci", 0)
    /\ UNCHANGED <<uci, pending, svc, journal, request, base, outside, reused>>

OwnUci ==
    /\ op.step = "own_uci"
    /\ Save([own EXCEPT !.uciOwned = TRUE], "uci_set", 1)
    /\ UNCHANGED <<system, request, base, outside, reused>>

UciSet ==
    /\ op.step = "uci_set"
    /\ uci' = [uci EXCEPT ![op.at] = Ours]
    /\ pending' = TRUE
    /\ IF op.at = 1 THEN Then("uci_set", 2) ELSE Then("commit", 0)
    /\ UNCHANGED <<file, svc, journal, request, base, outside, reused>>

Commit ==
    /\ op.step = "commit"
    /\ pending' = FALSE
    /\ Then("verify", 0)
    /\ UNCHANGED <<file, uci, svc, journal, request, base, outside, reused>>

\* uci_set reads back, timezone verifies, and the sequence number is checked.
Verify ==
    /\ op.step = "verify"
    /\ \/ (\E k \in Keys : uci[k] # Ours) /\ Fails("failed", own)
       \/ (\A k \in Keys : uci[k] = Ours) /\ ~VerifyOwned(own) /\ Fails("conflict", own)
       \/ (\A k \in Keys : uci[k] = Ours) /\ VerifyOwned(own) /\ op.cancelled /\ Fails("failed", own)
       \/ (\A k \in Keys : uci[k] = Ours) /\ VerifyOwned(own) /\ ~op.cancelled /\ Step("seal", 0) /\ UNCHANGED own
    /\ UNCHANGED <<system, journal, request, upsets, base, outside, reused>>

\* The clock is set (StepFails: it is not), the journal is complete.
Seal ==
    /\ op.step = "seal"
    /\ LET j == [own EXCEPT !.complete = TRUE]
       IN \/ journal' = j /\ End("none", op.calibrate) /\ UNCHANGED upsets
          \/ Upset /\ journal' \in {journal, j} /\ Fails("failed", j)
    /\ UNCHANGED <<system, request, base, outside, reused>>

(***************************************************************************)
(* Platform::restore.                                                      *)
(***************************************************************************)

Preflight ==
    /\ op.step = "preflight"
    /\ IF PreflightOk(own)
       THEN Step("put_back", NFiles) /\ UNCHANGED own
       ELSE Fails("conflict", own)
    /\ UNCHANGED <<system, journal, request, upsets, base, outside, reused>>

PutBack ==
    /\ op.step = "put_back"
    /\ file' = [file EXCEPT ![op.at] = own.before[op.at]]
    /\ Then("note_back", op.at)
    /\ UNCHANGED <<uci, pending, svc, journal, request, base, outside, reused>>

AfterUci(j) == IF j.serviceOwned THEN "service_back" ELSE "remove"

NoteBack ==
    /\ op.step = "note_back"
    /\ LET j == [own EXCEPT !.applied[op.at] = own.before[op.at]]
       IN \/ op.at > 1 /\ Save(j, "put_back", op.at - 1)
          \/ op.at = 1 /\ own.uciOwned /\ Save(j, "uci_back", 1)
          \/ op.at = 1 /\ ~own.uciOwned /\ Save(j, AfterUci(own), 0)
    /\ UNCHANGED <<system, request, base, outside, reused>>

UciBack ==
    /\ op.step = "uci_back"
    /\ uci' = [uci EXCEPT ![op.at] = own.uci[op.at]]
    /\ pending' = TRUE
    /\ IF op.at = 1 THEN Then("uci_back", 2) ELSE Then("commit_back", 0)
    /\ UNCHANGED <<file, svc, journal, request, base, outside, reused>>

CommitBack ==
    /\ op.step = "commit_back"
    /\ pending' = FALSE
    /\ Then("note_uci", 0)
    /\ UNCHANGED <<file, uci, svc, journal, request, base, outside, reused>>

NoteUci ==
    /\ op.step = "note_uci"
    /\ IF uci = own.uci
       THEN Save([own EXCEPT !.uciOwned = FALSE], AfterUci(own), 0)
       ELSE Fails("failed", own) /\ UNCHANGED <<journal, upsets>>
    /\ UNCHANGED <<system, request, base, outside, reused>>

\* The service is looked at once more, and enabled or disabled as before.
ServiceBack ==
    /\ op.step = "service_back"
    /\ IF ServiceConflict(own)
       THEN Fails("conflict", own) /\ UNCHANGED <<svc, upsets>>
       ELSE \E before \in own.service :
               /\ svc' = [svc EXCEPT !.enabled = before.enabled]
               /\ Then("start", 0)
    /\ UNCHANGED <<file, uci, pending, journal, request, base, outside, reused>>

StartService ==
    /\ op.step = "start"
    /\ \E before \in own.service : svc' = [svc EXCEPT !.running = before.running]
    /\ Then("service_check", 0)
    /\ UNCHANGED <<file, uci, pending, journal, request, base, outside, reused>>

ServiceCheck ==
    /\ op.step = "service_check"
    /\ IF svc \in own.service
       THEN Save([own EXCEPT !.serviceOwned = FALSE], "remove", 0)
       ELSE Fails("failed", own) /\ UNCHANGED <<journal, upsets>>
    /\ UNCHANGED <<system, request, base, outside, reused>>

\* The journal goes last; prepare then starts from nothing, a rollback keeps
\* the error that caused it.
Remove ==
    /\ op.step = "remove"
    /\ journal' = NoJournal
    /\ IF op.goal = "again"
       THEN /\ op' = [op EXCEPT !.step = "snapshot", !.goal = "sync"]
            /\ own' = NoJournal
            /\ UNCHANGED <<error, anchor, foreign>>
       ELSE End(IF op.goal = "rollback" THEN error ELSE "none",
                anchor /\ op.goal # "rollback")
    /\ UNCHANGED <<system, request, upsets, base, outside, reused>>

(***************************************************************************)
(* Operations.                                                             *)
(***************************************************************************)

Begin(goal, calibrate) ==
    /\ op' = [step |-> IF goal = "sync" THEN "sample" ELSE "preflight", at |-> 0,
              goal |-> goal, calibrate |-> calibrate, cancelled |-> FALSE]
    /\ own' = IF goal = "sync" THEN NoJournal ELSE journal
    /\ error' = "none"
    /\ foreign' = IF journal.there THEN InOtherHands(journal) ELSE {}

\* time.sync, or time.config.set that switches calibration on; refused while
\* an operation is queued or running.
Sync(calibrate) ==
    /\ op.step = "idle" /\ ~queued
    /\ requests < MaxRequests /\ requests' = requests + 1
    /\ calibrate \in {calibration, TRUE}
    /\ calibration' = calibrate
    /\ Begin("sync", calibrate)
    /\ UNCHANGED <<system, journal, anchor, queued, upsets, base, outside, reused>>

\* time.config.set that switches calibration off; it cancels what runs.
Disable ==
    /\ requests < MaxRequests /\ requests' = requests + 1
    /\ calibration' = FALSE
    /\ anchor' = FALSE
    /\ queued' = TRUE
    /\ op' = [op EXCEPT !.cancelled = Busy]
    /\ error' = IF Busy THEN error ELSE "none"
    /\ UNCHANGED <<system, journal, own, upsets, base, foreign, outside, reused>>

\* The queued disable gets Inner.work.
RunDisable ==
    /\ op.step = "idle" /\ queued
    /\ queued' = FALSE
    /\ IF journal.there
       THEN Begin("restore", FALSE)
       ELSE error' = "none" /\ UNCHANGED <<op, own, foreign>>
    /\ UNCHANGED <<system, journal, anchor, calibration, requests, upsets, base, outside, reused>>

\* datad is killed and starts again.
Crash ==
    /\ Upset
    /\ op' = [Idle EXCEPT !.step = "boot"]
    /\ own' = NoJournal
    /\ error' = "none" /\ anchor' = FALSE /\ queued' = FALSE
    /\ foreign' = {}
    /\ UNCHANGED <<system, journal, calibration, requests, base, outside, reused>>

\* Manager::start: restore what is left over, synchronize, or nothing
\* (boot_sync_enabled is off).
Boot ==
    /\ op.step = "boot"
    /\ \/ calibration /\ Begin("sync", TRUE)
       \/ ~calibration /\ journal.there /\ Begin("restore", FALSE)
       \/ (calibration \/ ~journal.there) /\ op' = Idle /\ UNCHANGED <<own, error, foreign>>
    /\ UNCHANGED <<system, journal, anchor, request, upsets, base, outside, reused>>

\* ownership_valid, as the guard, a drift check and a change of server use it.
Guard ==
    /\ op.step = "idle" /\ ~queued
    /\ calibration /\ anchor /\ error # "conflict"
    /\ journal.there /\ ~VerifyOwned(journal)
    /\ error' = "conflict"
    /\ UNCHANGED <<system, journal, op, own, anchor, request, upsets, base, foreign, outside, reused>>

(***************************************************************************)
(* Other owners (external).  A change that races an operation leaves open  *)
(* which of the two the resource belongs to: base allows any value.        *)
(***************************************************************************)

Other == Upset /\ outside' = TRUE
         /\ UNCHANGED <<journal, op, own, error, anchor, request, reused>>

OtherFile(i, v) ==
    /\ Other
    /\ v \in {"found", "foreign"} \ {file[i]}
    /\ file' = [file EXCEPT ![i] = v]
    /\ base' = [base EXCEPT !.file[i] = IF Busy THEN Value ELSE {v}]
    /\ foreign' = foreign \ {<<"file", i>>}
    /\ UNCHANGED <<uci, pending, svc>>

OtherUci(k, v) ==
    /\ Other
    /\ v \in {"found", "foreign"} \ {uci[k]}
    /\ uci' = [uci EXCEPT ![k] = v]
    /\ pending' = FALSE
    /\ base' = [base EXCEPT !.uci[k] = IF Busy THEN Value ELSE {v}]
    /\ foreign' = foreign \ {<<"uci", k>>}
    /\ UNCHANGED <<file, svc>>

\* Once datad has it off, another owner switches it on.
OtherService(s) ==
    /\ Other
    /\ s # svc /\ (s = Off => ~journal.serviceOwned /\ ~own.serviceOwned)
    /\ svc' = s
    /\ base' = [base EXCEPT !.svc = IF Busy THEN Service ELSE {s}]
    /\ foreign' = foreign \ {<<"svc", 0>>}
    /\ UNCHANGED <<file, uci, pending>>

ApplyStep ==
    \/ Sample \/ Prepare \/ Snapshot \/ Apply \/ TakeOver \/ DisableService
    \/ StopService \/ ServiceRead \/ Claim \/ Put \/ OwnUci \/ UciSet \/ Commit
    \/ Verify \/ Seal

RestoreStep ==
    \/ Preflight \/ PutBack \/ NoteBack \/ UciBack \/ CommitBack \/ NoteUci
    \/ ServiceBack \/ StartService \/ ServiceCheck \/ Remove

Next ==
    \/ ApplyStep \/ RestoreStep \/ StepFails
    \/ \E calibrate \in BOOLEAN : Sync(calibrate)
    \/ Disable \/ RunDisable \/ Crash \/ Boot \/ Guard
    \/ \E i \in Files, v \in Value : OtherFile(i, v)
    \/ \E k \in Keys, v \in Value : OtherUci(k, v)
    \/ \E s \in Service : OtherService(s)

Spec == Init /\ [][Next]_vars

-----------------------------------------------------------------------------
JournalType ==
    [there : BOOLEAN, complete : BOOLEAN,
     before : [Files -> Value], applied : [Files -> Value],
     service : SUBSET Service, serviceOwned : BOOLEAN,
     uci : [Keys -> Value], uciOwned : BOOLEAN]

TypeOK ==
    /\ file \in [Files -> Value] /\ uci \in [Keys -> Value]
    /\ pending \in BOOLEAN /\ svc \in Service
    /\ journal \in JournalType /\ own \in JournalType
    /\ {calibration, anchor, queued, outside, reused} \subseteq BOOLEAN
    /\ error \in {"none", "failed", "conflict"}
    /\ upsets \in 0..MaxUpsets /\ requests \in 0..MaxRequests

\* At every moment, also when datad is killed in the middle of an operation,
\* the journal on disk names the value to put back for every file, option and
\* service that datad has changed ("journaled before mutation"); except after
\* a partly released journal was used again, which the code allows.
JournalCovers ==
    ~reused =>
        /\ \A i \in Files : file[i] = Ours =>
              journal.there /\ journal.before[i] \in base.file[i]
        /\ \A k \in Keys : uci[k] = Ours =>
              journal.there /\ journal.uciOwned /\ journal.uci[k] \in base.uci[k]
        /\ svc \notin base.svc =>
              journal.there /\ journal.serviceOwned /\ journal.service \subseteq base.svc

\* Every resource has the value its owner gave it.
AllReturned ==
    /\ \A i \in Files : file[i] \in base.file[i]
    /\ \A k \in Keys : uci[k] \in base.uci[k]
    /\ svc \in base.svc

\* The journal is given up only when every resource has the value its owner
\* gave it, with the same exception.
Exact == journal.there /\ ~journal'.there => reused \/ AllReturned
RestoreIsExact == [][Exact]_vars

\* An operation, its rollback included, never overwrites a resource that was
\* in other hands when it began: neither a taking over, nor a restore.
LeavesForeign ==
    foreign' = foreign =>
        /\ \A i \in Files : <<"file", i>> \in foreign => file'[i] = file[i]
        /\ \A k \in Keys : <<"uci", k>> \in foreign => uci'[k] = uci[k]
        /\ <<"svc", 0>> \in foreign => svc' = svc
ForeignKept == [][LeavesForeign]_vars

\* A conflict that nobody else has caused does not last: restore accepts the
\* journal that was left, whatever step was cut short (except a service that
\* was left half off, see PartialIsRecoverable).
ConflictIsCurable ==
    error = "conflict" =>
        \/ outside
        \/ journal.serviceOwned /\ ServiceConflict(journal)
        \/ PreflightOk(journal)

\* Whatever datad changed can be given back, and is: exactly, to its owner, and
\* not over what others have set meanwhile.
GivenBack == []JournalCovers /\ []ConflictIsCurable /\ RestoreIsExact /\ ForeignKept

\* Partial operations can be recovered on restart: with no change from
\* outside, no operation ends in a conflict.
PartialIsRecoverable == error = "conflict" => outside

(***************************************************************************)
(* The inductive invariant behind GivenBack.                               *)
(***************************************************************************)
Early == {"sample", "prepare", "snapshot"}
Applying == {"apply", "take_over", "disable", "stop", "service_read", "claim", "put", "own_uci", "uci_set",
             "commit", "verify", "seal"}
\* A restore once its preflight has passed, and once it has come to the options.
Late == {"uci_back", "commit_back", "note_uci", "service_back", "start", "service_check", "remove"}
PuttingBack == {"put_back", "note_back"} \cup Late

Operations ==
    [step: {"idle", "boot", "preflight"} \cup Early \cup Applying \cup PuttingBack, at: 0..NFiles + 2,
     goal: {"none", "sync", "rollback", "restore", "again"}, calibrate: BOOLEAN, cancelled: BOOLEAN]
Bases == [file: [Files -> SUBSET Value], uci: [Keys -> SUBSET Value], svc: SUBSET Service]

Shapes ==
    /\ file \in [Files -> Value] /\ uci \in [Keys -> Value] /\ svc \in Service
    /\ journal \in JournalType /\ own \in JournalType /\ op \in Operations /\ base \in Bases
    /\ op.step \in {"claim", "put", "put_back", "note_back"} => op.at \in Files
    /\ op.step \in {"uci_set", "uci_back"} => op.at \in Keys
    /\ op.step \in Early \cup Applying => op.goal = "sync"
    /\ op.step \in PuttingBack \cup {"preflight"} => op.goal \in {"rollback", "restore", "again"}

\* What is on disk names everything of datad's, and puts nothing of its own back.
Named ==
    /\ \A i \in Files : file[i] = Ours => journal.there = TRUE /\ journal.applied[i] = Ours
    /\ \A k \in Keys : uci[k] = Ours => journal.there = TRUE /\ journal.uciOwned = TRUE
    /\ \A i \in Files : journal.before[i] # Ours /\ journal.applied[i] \in {journal.before[i], Ours}
    /\ \A k \in Keys : journal.uci[k] # Ours
    /\ \A s, t \in journal.service : s = t
    /\ journal.serviceOwned = TRUE => journal.service # {}
    /\ journal.there = FALSE => journal = NoJournal

\* What belongs to its owner is as the owner wants it, and so is what the
\* journal would put back for the rest.
Owned ==
    /\ \A i \in Files : IF file[i] = Ours THEN journal.before[i] \in base.file[i] ELSE file[i] \in base.file[i]
    /\ \A k \in Keys : IF uci[k] = Ours THEN journal.uci[k] \in base.uci[k] ELSE uci[k] \in base.uci[k]
    /\ svc \notin base.svc => journal.serviceOwned = TRUE
    /\ journal.serviceOwned = TRUE /\ (svc \notin base.svc \/ Off \in base.svc) => journal.service \subseteq base.svc

\* With nobody else at work there are two values.
Alone ==
    /\ \A i \in Files : file[i] \in {"found", Ours} /\ journal.before[i] = "found"
    /\ \A k \in Keys : uci[k] \in {"found", Ours} /\ journal.uci[k] = "found"

\* The operation's copy: the journal, or what the journal is about to become.
Copies ==
    /\ op.step \in Applying \cup Late => own = journal
    /\ op.step = "preflight" /\ op.goal \in {"restore", "again"} => own = journal
    /\ op.step \in Applying \cup PuttingBack \cup {"preflight"} =>
         /\ journal.there = TRUE /\ own.there = TRUE
         /\ own.before = journal.before /\ own.uci = journal.uci /\ own.service = journal.service
         /\ \A i \in Files : own.applied[i] \in {own.before[i], Ours} /\ (journal.applied[i] = Ours => own.applied[i] = Ours)
         /\ journal.uciOwned = TRUE => own.uciOwned = TRUE
         /\ journal.serviceOwned = TRUE => own.serviceOwned = TRUE
         /\ own.serviceOwned = TRUE => own.service # {}
    /\ op.step = "snapshot" => journal.there = FALSE
    /\ op.step = "take_over" => own.service # {}
    /\ op.step = "put" => own.applied[op.at] = Ours
    /\ op.step \in {"uci_set", "commit", "verify", "seal", "uci_back", "commit_back", "note_uci"} => own.uciOwned = TRUE
    /\ op.step \in {"disable", "stop", "service_read", "service_back", "start", "service_check"} => own.serviceOwned = TRUE
    /\ op.step \in {"service_back", "start", "service_check", "remove"} => own.uciOwned = FALSE
    /\ op.step = "remove" => own.serviceOwned = FALSE

\* How far a restore has come with the files.
Progress ==
    \A i \in Files :
        \/ op.step = "put_back" /\ i > op.at
        \/ op.step = "note_back" /\ i >= op.at
        \/ op.step \in Late
        => file[i] # Ours

\* What the operation may put back is what the owners want.
Wanted ==
    /\ op.step = "preflight" /\ op.goal = "rollback" => own.service \subseteq base.svc
    /\ op.step \in Applying =>
         /\ \A i \in Files : own.before[i] \in base.file[i]
         /\ \A k \in Keys : own.uci[k] \in base.uci[k]
         /\ own.service \subseteq base.svc
    /\ op.step \in PuttingBack =>
         /\ \A i \in Files : own.before[i] \in base.file[i]
         /\ own.uciOwned = TRUE => \A k \in Keys : own.uci[k] \in base.uci[k]
         /\ own.serviceOwned = TRUE => own.service \subseteq base.svc

\* An operation looks for other owners before it writes.
Looks ==
    /\ foreign \subseteq InOtherHands(journal)
    /\ op.step \notin {"sample", "prepare", "preflight"} \/ op.goal = "rollback" \/ journal.there = FALSE => foreign = {}

OwnershipInv ==
    /\ Shapes /\ Named /\ Copies /\ Progress /\ Looks
    /\ ~reused => Owned /\ Wanted
    /\ ~outside => Alone
=============================================================================
