---------------------------- MODULE CloudRemote ----------------------------
(***************************************************************************)
(* The remote sessions the platform opens over the cloud connection: the   *)
(* bridge manager of one MQTT session, the tunnels it starts, and their    *)
(* end when they are closed, when they run out, and when the connection    *)
(* ends or the settings change (CloudLink).                                *)
(***************************************************************************)
EXTENDS CloudLink, FiniteSets

CONSTANTS
    Ids,        \* ids of remote.open
    Kinds,      \* target services, of "web", "panel", "control", "files", "shell"
    MaxActive,  \* tunnels at a time (4)
    MaxSeen,    \* ids remembered (128)
    Shells      \* slots of the web shell

VARIABLES
    tunnels,  \* the tasks of tunnels, of earlier MQTT sessions too (~mine)
    active,   \* BridgeState.active
    seen,     \* BridgeState.seen
    held      \* history: ids closed in this session

remoteVars == <<tunnels, active, seen, held>>
remoteSpecVars == <<vars, remoteVars>>

Mine == {t \in tunnels : t.mine}

\* validate_remote: remote access must be on, and the service switched on.
\* The origin, the path, the ports and the lengths of the request are checked
\* there too; only a request that passes them is considered here.
Allowed(c, kind) ==
    /\ c.on /\ c.remote
    /\ kind \in {"control", "files", "shell"} => c.feats

ShellFree == Cardinality({t \in tunnels : t.kind = "shell" /\ t.stage # "leaving"}) < Shells

\* receive: an id already seen is ignored, a full table refuses.  The stop
\* signal of a tunnel with the same id is replaced, which ends that one.
Open ==
    /\ link = "up" /\ enrolled
    /\ \E i \in Ids \ seen, k \in Kinds :
         /\ Allowed(cur, k)
         /\ Cardinality(active) < MaxActive /\ Cardinality(seen) < MaxSeen
         /\ k = "shell" => ShellFree
         /\ tunnels' = {IF t.id = i /\ t.mine THEN [t EXCEPT !.stop = TRUE] ELSE t
                            : t \in tunnels}
                \cup {[id |-> i, mine |-> TRUE, kind |-> k, ver |-> taken,
                       stop |-> FALSE, stage |-> "open"]}
         /\ active' = active \cup {i} /\ seen' = seen \cup {i}
    /\ UNCHANGED <<vars, held>>

\* close of an id that was not seen yet: a late remote.open is ignored.
Remember(i) == IF Cardinality(seen) < MaxSeen THEN seen \cup {i} ELSE seen

\* close: stop the tunnel if there is one, else remember the id.
Close ==
    /\ link = "up" /\ enrolled
    /\ \E i \in Ids :
         /\ tunnels' = {IF t.id = i /\ t.mine THEN [t EXCEPT !.stop = TRUE] ELSE t
                            : t \in tunnels}
         /\ seen' = IF i \in {t.id : t \in Mine} THEN seen ELSE Remember(i)
         /\ held' = IF Cardinality(seen) < MaxSeen \/ i \in seen THEN held \cup {i} ELSE held
    /\ UNCHANGED <<vars, active>>

\* Twelve hours later, longer than any tunnel lives.
Forget ==
    /\ \E i \in seen \ {t.id : t \in Mine} :
         seen' = seen \ {i} /\ held' = held \ {i}
    /\ UNCHANGED <<vars, tunnels, active>>

\* A panel with control works on one request at a time; a file session runs
\* its request on another thread.
Request ==
    /\ \E t \in tunnels :
         /\ t.kind \in {"control", "files"} /\ t.stage = "open"
         /\ tunnels' = (tunnels \ {t}) \cup {[t EXCEPT !.stage = "busy"]}
    /\ UNCHANGED <<vars, active, seen, held>>

Answer ==
    /\ \E t \in tunnels :
         /\ t.stage = "busy"
         /\ tunnels' = (tunnels \ {t}) \cup {[t EXCEPT !.stage = "open"]}
    /\ UNCHANGED <<vars, active, seen, held>>

\* The manager of an earlier MQTT session has a table of its own.
Freed(t) == IF t.mine THEN active \ {t.id} ELSE active

\* A pipe, a panel or a shell may end whenever it waits: told to stop, out of
\* time, refused or cut off.  A control request is finished first; a file
\* request is cancelled.
MayEnd(t) == t.stage = "open" \/ (t.stage = "busy" /\ t.kind = "files")

Leave ==
    /\ \E t \in tunnels :
         /\ MayEnd(t)
         /\ tunnels' = (tunnels \ {t}) \cup {[t EXCEPT !.stage = "leaving"]}
         /\ active' = Freed(t)
    /\ UNCHANGED <<vars, seen, held>>

\* The task drops its stop signal.
Gone ==
    /\ \E t \in tunnels : t.stage = "leaving" /\ tunnels' = tunnels \ {t}
    /\ UNCHANGED <<vars, active, seen, held>>

MutStopAll == tunnels

\* BridgeManager::shutdown.
StopAll == {[t EXCEPT !.stop = TRUE] : t \in tunnels}

\* A step of the connection: the end of a session stops its tunnels, and a new
\* session starts with an empty table.  A restart of the process ends them all.
LinkStep(Step) ==
    /\ Step
    /\ IF pc = "dial" /\ pc' = "session"
       THEN /\ active' = {} /\ seen' = {} /\ held' = {}
            /\ tunnels' = {[t EXCEPT !.mine = FALSE, !.ver = 0] : t \in tunnels}
       ELSE /\ tunnels' = IF link # "down" /\ link' = "down" THEN StopAll ELSE tunnels
            /\ UNCHANGED <<active, seen, held>>

RestartAll == Restart /\ tunnels' = {} /\ UNCHANGED <<active, seen, held>>

RemoteInit == Init /\ tunnels = {} /\ active = {} /\ seen = {} /\ held = {}

RemoteNext ==
    \/ LinkStep(Owner) \/ LinkStep(Activate) \/ LinkStep(Loop) \/ LinkStep(SeeChange)
    \/ LinkStep(DialFails) \/ LinkStep(ConnectionLost) \/ LinkStep(RetryPrimary)
    \/ LinkStep(ConnAck) \/ LinkStep(Session) \/ LinkStep(Outage) \/ RestartAll
    \/ Open \/ Close \/ Forget \/ Request \/ Answer \/ Leave \/ Gone

RemoteSpec == RemoteInit /\ [][RemoteNext]_remoteSpecVars /\ Fairness

\* A tunnel that has not been told to stop belongs to the MQTT session that is
\* up, and to the settings that session was started with: no remote access
\* outlives its connection or the settings that allowed it
\* (BridgeManager::shutdown at every way out of the session).
TunnelsFollow ==
    \A t \in tunnels : ~t.stop => t.mine /\ link = "up" /\ t.ver = taken

\* The slots taken are those of the running tunnels of this session, through
\* closes, ends in any order and reconnections: none leaks, none is freed for
\* a tunnel of another session (BridgeState.active).
SlotsExact == link = "up" => active = {t.id : t \in {u \in Mine : u.stage # "leaving"}}

\* A remote.open that comes late, or again, for a session the platform closed
\* is ignored (BridgeManager::close).
ClosedStaysClosed == \A t \in Mine : t.id \in held => t.stop

\* Remote access follows the connection, its settings and the platform's word.
RemoteSafe == MemberAtHome /\ TunnelsFollow /\ SlotsExact /\ ClosedStaysClosed
=============================================================================
