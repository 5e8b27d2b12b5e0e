------------------------------ MODULE Neighbor ------------------------------
(***************************************************************************)
(* The neighbour cell collector (neighbor_manager.rs) of several datad     *)
(* instances, as while one replaces another, around one lock file and one  *)
(* capture directory.                                                      *)
(***************************************************************************)
EXTENDS Naturals

CONSTANTS
    Instances,    \* datad processes
    None,         \* nobody
    MaxStarts     \* bound: collectors started

VARIABLES
    owner,     \* who holds owner.lock
    dirs,      \* the instances whose capture directory exists
    m,         \* per instance: enabled, child, run, lock, context, status, stop
    net,       \* the serving cell
    starts     \* collectors started

vars == <<owner, dirs, m, net, starts>>

(***************************************************************************)
(* Manager.  stop: what follows when the collector has been waited for.    *)
(***************************************************************************)
Off == [enabled |-> FALSE, child |-> "none", run |-> FALSE, lock |-> FALSE, context |-> 0, status |-> "disabled", stop |-> "no"]

Free(i) == m[i].stop = "no"

\* start: without the program or the lock it is left for a later tick; under
\* the lock old captures are removed, and a new directory and process made.
\* failed: what follows when that goes wrong.
Start(i, s, failed) ==
    \/ m' = [m EXCEPT ![i] = [s EXCEPT !.status = "dependency_missing"]] /\ UNCHANGED <<owner, dirs, starts>>
    \/ /\ owner # None
       /\ m' = [m EXCEPT ![i] = [s EXCEPT !.status = "blocked"]] /\ UNCHANGED <<owner, dirs, starts>>
    \/ /\ owner = None /\ starts < MaxStarts
       /\ owner' = i /\ starts' = starts + 1
       /\ \/ m' = [m EXCEPT ![i] = [s EXCEPT !.lock = TRUE, !.run = TRUE, !.child = "running", !.status = "collecting"]] /\ dirs' = {i}
          \/ m' = [m EXCEPT ![i] = [s EXCEPT !.lock = TRUE, !.status = "error", !.stop = failed, !.enabled = (failed = "no")]] /\ dirs' = {}

\* set_enabled(true): a failure to start switches it off again.
Enable(i) ==
    /\ Free(i) /\ ~m[i].enabled /\ ~m[i].lock
    /\ Start(i, [m[i] EXCEPT !.enabled = TRUE], "off")
    /\ UNCHANGED net

\* stop_child: SIGTERM, then up to two seconds of waiting, then SIGKILL.
Stop(i, then) == m' = [m EXCEPT ![i].stop = then, ![i].enabled = @ /\ then # "off"]

\* set_enabled(false) and the end of the process.
Disable(i) ==
    /\ Free(i) /\ m[i].enabled
    /\ Stop(i, "off")
    /\ UNCHANGED <<owner, dirs, net, starts>>

\* tick: a start that did not come about is tried again; a new serving cell
\* restarts the collector; an exit is noted; a capture too large stops it.
Tick(i) ==
    /\ Free(i) /\ m[i].enabled
    /\ \/ /\ m[i].child = "none" /\ ~m[i].lock
          /\ Start(i, m[i], "no")
       \/ /\ m[i].child # "none" \/ m[i].lock
          /\ net # m[i].context
          /\ m' = [m EXCEPT ![i].context = net, ![i].stop = IF m[i].context = 0 THEN "no" ELSE "restart"]
          /\ UNCHANGED <<owner, dirs, starts>>
       \/ /\ net = m[i].context /\ m[i].child = "exited"
          /\ m' = [m EXCEPT ![i].child = "none", ![i].status = "error"]
          /\ UNCHANGED <<owner, dirs, starts>>
       \/ /\ net = m[i].context /\ m[i].child = "running" /\ i \in dirs
          /\ \/ m' = [m EXCEPT ![i].stop = "limit", ![i].status = "error"]
             \/ m' = [m EXCEPT ![i].status = "ready"]
          /\ UNCHANGED <<owner, dirs, starts>>
    /\ UNCHANGED net

MutStopped(i) ==
    /\ m[i].stop \in {"off", "restart"} /\ m[i].lock
    /\ m' = [m EXCEPT ![i].lock = FALSE, ![i].stop = "again"]
    /\ owner' = None
    /\ UNCHANGED <<dirs, net, starts>>

\* The collector has ended: only now its directory goes, and then the lock.
Stopped(i) ==
    /\ m[i].stop \in {"limit", "off", "restart"}
    /\ LET s == [m[i] EXCEPT !.child = "none", !.stop = "no"] IN
       IF m[i].stop = "limit" THEN m' = [m EXCEPT ![i] = s] /\ UNCHANGED <<owner, dirs>>
       ELSE /\ m' = [m EXCEPT ![i] = [s EXCEPT !.run = FALSE, !.lock = FALSE,
                                              !.stop = IF m[i].stop = "restart" THEN "again" ELSE "no",
                                              !.status = IF m[i].stop = "restart" THEN @ ELSE "disabled"]]
            /\ dirs' = IF m[i].run THEN dirs \ {i} ELSE dirs
            /\ owner' = IF m[i].lock THEN None ELSE owner
    /\ UNCHANGED <<net, starts>>

\* restart: started again, if no other instance has taken the lock meanwhile.
Again(i) ==
    /\ m[i].stop = "again"
    /\ Start(i, [m[i] EXCEPT !.stop = "no"], "no")
    /\ UNCHANGED net

\* The collector ends by itself; the serving cell changes.
Exits(i) ==
    /\ m[i].child = "running"
    /\ m' = [m EXCEPT ![i].child = "exited"]
    /\ UNCHANGED <<owner, dirs, net, starts>>

Moves ==
    /\ net' \in {1, 2} \ {net}
    /\ UNCHANGED <<owner, dirs, m, starts>>

Init ==
    /\ owner = None /\ dirs = {} /\ m = [i \in Instances |-> Off] /\ net = 1 /\ starts = 0

Next == (\E i \in Instances : Enable(i) \/ Disable(i) \/ Tick(i) \/ Stopped(i) \/ Again(i) \/ Exits(i)) \/ Moves

Spec == Init /\ [][Next]_vars

(***************************************************************************)
(* Properties.                                                             *)
(***************************************************************************)

\* However instances start, restart and stop, at most one of them has a
\* collector at work, and the directory it writes to is still there: no other
\* instance has cleared it away (start, restart, shutdown).
OneCollector ==
    \A i \in Instances : m[i].child = "running" =>
      /\ i \in dirs
      /\ \A j \in Instances \ {i} : m[j].child # "running"
(* The inductive invariant of OneCollector: a collector runs under its       *)
(* instance's lock, one instance has the lock, and nobody starts a second    *)
(* time before the lock was given back.                                      *)
Manager == [enabled: BOOLEAN, child: {"none", "running", "exited"}, run: BOOLEAN, lock: BOOLEAN,
            context: {0, 1, 2}, stop: {"no", "off", "restart", "limit", "again"},
            status: {"disabled", "dependency_missing", "blocked", "collecting", "ready", "error"}]
CellsInv ==
    /\ m \in [Instances -> Manager] /\ net \in {1, 2}
    /\ \A i \in Instances :
         /\ m[i].lock => owner = i
         /\ m[i].child = "running" => m[i].lock /\ i \in dirs
         /\ m[i].stop = "again" => ~m[i].lock
=============================================================================
