------------------------------ MODULE NatWatch ------------------------------
(***************************************************************************)
(* When the NAT is detected (nat.rs measure, Watcher): on request, and by  *)
(* the watcher after the WAN addresses changed and settled, with retries.  *)
(* A detection takes up to BUDGET, the addresses may change meanwhile, and *)
(* the watcher learns of them from snapshots, a tick at a time.            *)
(***************************************************************************)
EXTENDS Integers

CONSTANTS
    MaxWan,    \* bound: WAN addresses the carrier hands out, one after another
    SETTLE,    \* how long addresses must have been stable, in ticks
    Retries,   \* waits before the retries, in ticks: a function on 1..n
    None       \* no result yet, no retry planned, nobody measures

VARIABLES
    wan,       \* the device's WAN address now; 0: none
    known,     \* WAN: the addresses of the last snapshot with any
    running,   \* who holds RUNNING: "watcher", "request" or None
    label,     \* the addresses the running detection will be filed under
    during,    \* history: the addresses the device had since it began
    last,      \* LAST: [label, failed], and the history of its run
    seen, since, attempts, retryAt    \* Watcher

vars == <<wan, known, running, label, during, last, seen, since, attempts, retryAt>>
watcher == <<seen, since, attempts, retryAt>>

Min(a, b) == IF a < b THEN a ELSE b
MaxRetries == IF DOMAIN Retries = {} THEN 0 ELSE CHOOSE n \in DOMAIN Retries : n + 1 \notin DOMAIN Retries

(***************************************************************************)
(* The carrier: an address is given out once.                              *)
(***************************************************************************)
WanChanges ==
    /\ wan < MaxWan
    /\ wan' = wan + 1
    /\ during' = IF running = None THEN during ELSE during \cup {wan'}
    /\ UNCHANGED <<known, running, label, last, watcher>>

(***************************************************************************)
(* measure.                                                                *)
(***************************************************************************)

\* try_lock of RUNNING; the addresses are noted before the detection runs.
Begin(who) ==
    /\ running' = who
    /\ label' = known
    /\ during' = {wan}

MutEnd(failed) ==
    /\ last' = [label |-> known, failed |-> failed, during |-> during]
    /\ running' = None /\ label' = 0 /\ during' = {}

\* The result is filed, a failure like a success.
End(failed) ==
    /\ last' = [label |-> label, failed |-> failed, during |-> during]
    /\ running' = None /\ label' = 0 /\ during' = {}

\* detect: a request while a detection runs is refused.
Request ==
    /\ running = None
    /\ Begin("request")
    /\ UNCHANGED <<wan, known, last, watcher>>

RequestEnds ==
    /\ running = "request"
    /\ \E failed \in BOOLEAN : End(failed)
    /\ UNCHANGED <<wan, known, watcher>>

(***************************************************************************)
(* Watcher.                                                                *)
(***************************************************************************)
GoodFor(w) == last # None /\ ~last.failed /\ last.label = w

\* due, for addresses that have not changed since the last tick.
Due(busy) ==
    /\ since >= SETTLE
    /\ ~GoodFor(seen)
    /\ attempts <= MaxRetries /\ ~busy
    /\ retryAt = None \/ retryAt = 0

\* tick with a snapshot that is current, or one change behind.
Tick ==
    /\ running # "watcher"
    /\ \E address \in {wan, wan - 1}, speedtest \in BOOLEAN :
         /\ address >= known
         /\ known' = IF address = 0 THEN known ELSE address
         /\ IF address = 0 THEN UNCHANGED <<running, label, during, watcher>>
            ELSE IF address # seen
            THEN /\ seen' = address /\ since' = 0 /\ attempts' = 0 /\ retryAt' = None
                 /\ UNCHANGED <<running, label, during>>
            ELSE IF Due(speedtest \/ running # None)
            THEN /\ running' = "watcher" /\ label' = known' /\ during' = {wan}
                 /\ UNCHANGED <<seen, since, attempts, retryAt>>
            ELSE /\ since' = Min(since + 1, SETTLE)
                 /\ retryAt' = IF retryAt = None \/ retryAt = 0 THEN retryAt ELSE retryAt - 1
                 /\ UNCHANGED <<running, label, during, seen, attempts>>
    /\ UNCHANGED <<wan, last>>

\* finished: a failure plans the next retry, if any is left.
Finished(failed) ==
    /\ attempts' = attempts + 1
    /\ retryAt' = IF failed /\ attempts + 1 \in DOMAIN Retries THEN Retries[attempts + 1] ELSE None

WatcherEnds ==
    /\ running = "watcher"
    /\ \E failed \in BOOLEAN : End(failed) /\ Finished(failed)
    /\ UNCHANGED <<wan, known, seen, since>>

Init ==
    /\ wan = 0 /\ known = 0 /\ running = None /\ label = 0 /\ during = {} /\ last = None
    /\ seen = 0 /\ since = 0 /\ attempts = 0 /\ retryAt = None

Next == WanChanges \/ Request \/ RequestEnds \/ Tick \/ WatcherEnds

Spec == Init /\ [][Next]_vars

(***************************************************************************)
(* Properties.                                                             *)
(***************************************************************************)

\* A successful result that is filed under the address the device has now was
\* measured on that address from beginning to end, so that the watcher never
\* takes the NAT of an earlier connection for this one's (measure, due).
FiledUnderItsWan ==
    last # None /\ ~last.failed /\ last.label = wan => last.during = {wan}

(***************************************************************************)
(* FiledUnderItsWan for any number of WAN addresses, any settling time and *)
(* any retry plan.  It needs the order in which addresses become known:    *)
(* the watcher's knowledge, and so the label a detection gets, is never    *)
(* newer than any address the device has while the detection runs.         *)
(***************************************************************************)

\* Addresses are numbers, and what is known of them is never ahead.
Behind ==
    /\ wan \in Nat /\ known \in Nat /\ known <= wan

\* A running detection has seen the present address and no older one than the
\* one it will be filed under.
LabelIsOldest ==
    running # None =>
        /\ label \in Nat
        /\ wan \in during
        /\ during \subseteq label .. wan

\* The filed result: if its label is the address of now, nothing changed
\* while it was measured.
Filed ==
    last # None =>
        /\ last.label \in Nat /\ last.label <= wan
        /\ last.label = wan => last.during = {wan}

NatInv == Behind /\ LabelIsOldest /\ Filed
=============================================================================
