----------------------------- MODULE CloudNodes -----------------------------
(***************************************************************************)
(* The relay nodes the platform hands out and the owner's switch for them. *)
(* remote.nodes.set is applied by the MQTT session, the switch by the      *)
(* settings page; both read the saved record, build the next one, write    *)
(* the file and then replace the record, and the lock is only held for     *)
(* each single read and replacement.                                       *)
(***************************************************************************)
EXTENDS Naturals

CONSTANTS
    Nodes,        \* node origins
    Homes,        \* platforms
    None,         \* nothing in hand
    MaxRevision   \* bound: revisions of the list

VARIABLES
    saved, file,  \* the record in memory and on disk
    home,         \* the platform of the settings in force
    command,      \* the record the session is about to store
    switch,       \* the record the settings page is about to store
    told          \* history: the owner's last acknowledged choice

vars == <<saved, file, home, command, switch, told>>

Empty == [revision |-> 0, nodes |-> {}, home |-> "none", disabled |-> FALSE]

\* The origins a remote.open may use, beside those of the owner.
Active == IF saved.disabled \/ saved.home # home THEN {} ELSE saved.nodes

\* RemoteNodes::apply up to the store.  An older list of the same platform is
\* acknowledged and changes nothing.
BeginApply ==
    /\ command = None
    /\ \E r \in 1..MaxRevision, n \in SUBSET Nodes :
         /\ ~(r <= saved.revision /\ saved.home = home)
         /\ command' = [revision |-> r, nodes |-> n, home |-> home,
                        disabled |-> saved.disabled]
    /\ UNCHANGED <<saved, file, home, switch, told>>

\* store: the file first; a failed write leaves the record alone.
EndApply ==
    /\ command # None
    /\ command' = None
    /\ \/ saved' = command /\ file' = command
       \/ UNCHANGED <<saved, file>>
    /\ UNCHANGED <<home, switch, told>>

\* Cloud::update with the switch: set_enabled up to the store.
BeginSwitch ==
    /\ switch = None
    /\ \E off \in BOOLEAN :
         IF saved.disabled = off THEN told' = off /\ UNCHANGED switch
         ELSE switch' = [saved EXCEPT !.disabled = off] /\ UNCHANGED told
    /\ UNCHANGED <<saved, file, home, command>>

EndSwitch ==
    /\ switch # None
    /\ switch' = None
    /\ \/ saved' = switch /\ file' = switch /\ told' = switch.disabled
       \/ UNCHANGED <<saved, file, told>>
    /\ UNCHANGED <<home, command>>

Move == \E h \in Homes \ {home} : home' = h /\ UNCHANGED <<saved, file, command, switch, told>>

\* The file is read again; one that cannot be used counts as empty.
Restart ==
    /\ saved' \in {file, Empty}
    /\ file' = saved'
    /\ command' = None /\ switch' = None /\ told' = saved'.disabled
    /\ UNCHANGED home

Init ==
    /\ saved = Empty /\ file = Empty /\ home \in Homes
    /\ command = None /\ switch = None /\ told = FALSE

Next == BeginApply \/ EndApply \/ BeginSwitch \/ EndSwitch \/ Move \/ Restart

Spec == Init /\ [][Next]_vars

\* Once the owner's choice has been acknowledged, it is in force: no node is
\* trusted while the switch is off ("The owner's local switch; off means no
\* node is trusted").
SwitchHolds == switch = None /\ told => Active = {}
=============================================================================
