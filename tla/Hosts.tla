-------------------------------- MODULE Hosts --------------------------------
(***************************************************************************)
(* The Hosts manager (hosts.rs): saves and restores of /etc/hosts by local *)
(* and cloud clients at once, serialised by a file lock that is taken only *)
(* after the file was read; the first save publishes a backup with a link. *)
(* Editors outside datad know neither the lock nor the revisions.          *)
(* A content stands for its SHA-256 revision.                              *)
(***************************************************************************)
EXTENDS Naturals

CONSTANTS
    None,
    Clients,    \* a client saves the content that carries its name
    Outside,    \* contents that editors outside datad write
    Original,   \* the one the firmware ships
    MaxInode,   \* bound: files that take the place of /etc/hosts
    MaxFaults   \* bound: system calls that fail, and power cuts

VARIABLES
    hosts,    \* /etc/hosts: text and inode
    backup,   \* original.json: text and whether its directory entry is synced
    lock,     \* the client that holds write.lock, or None
    call,     \* per client: step, current (the image read first), desired
    loaded,   \* the text dnsmasq read last
    faults

vars == <<hosts, backup, lock, call, loaded, faults>>

Texts == Clients \cup Outside

Idle == [step |-> "idle", current |-> None, desired |-> None, answer |-> None]

Fault == faults < MaxFaults /\ faults' = faults + 1

Step(c, s) == call' = [call EXCEPT ![c].step = s]

\* An error or an answer drops the lock's file, and so the lock.
Return(c, answer) ==
    /\ call' = [call EXCEPT ![c] = [Idle EXCEPT !.answer = answer]]
    /\ lock' = IF lock = c THEN None ELSE lock

\* current: read_at refuses a file that changes while it is read, so that what
\* it returns is one version of the file.
current == hosts

\* The revision and the identity of the file: what replace compares.
Unchanged(c) == current = call[c].current

(***************************************************************************)
(* action.                                                                 *)
(***************************************************************************)

\* hosts.save or hosts.restore: the file is read and its revision compared
\* with the one the client expects, before the lock.
Begin(c, desired, expected) ==
    /\ call[c].step = "idle"
    /\ current.text = expected
    /\ call' = [call EXCEPT ![c] = [step |-> "lock", current |-> current, desired |-> desired, answer |-> None]]
    /\ UNCHANGED <<hosts, backup, lock, loaded, faults>>

\* lock: try_lock_exclusive, never waits.
Lock(c) ==
    /\ call[c].step = "lock"
    /\ \/ /\ lock = None /\ lock' = c
          /\ Step(c, IF call[c].desired = None THEN "original" ELSE "backup")
       \/ lock # None /\ Return(c, "busy")
    /\ UNCHANGED <<hosts, backup, loaded, faults>>

\* A restore reads the backup.
Restore(c) ==
    /\ call[c].step = "original"
    /\ \/ backup = None /\ Return(c, "unavailable")
       \/ /\ backup # None
          /\ call' = [call EXCEPT ![c].step = "replace", ![c].desired = backup.text]
          /\ UNCHANGED lock
    /\ UNCHANGED <<hosts, backup, loaded, faults>>

\* ensure_backup: the image, synced under a private name, is linked under the
\* fixed one, which replaces nothing.
EnsureBackup(c) ==
    /\ call[c].step = "backup"
    /\ \/ /\ backup # None
          /\ Step(c, "replace")
          /\ UNCHANGED <<backup, lock, faults>>
       \/ /\ backup = None
          /\ backup' = [text |-> call[c].current.text, synced |-> FALSE]
          /\ Step(c, "sync")
          /\ UNCHANGED <<lock, faults>>
       \/ backup = None /\ Fault /\ Return(c, "failed") /\ UNCHANGED backup
    /\ UNCHANGED <<hosts, loaded>>

\* The directory is synced, or the own link is taken back.
SyncBackup(c) ==
    /\ call[c].step = "sync"
    /\ \/ /\ backup' = [backup EXCEPT !.synced = TRUE]
          /\ Step(c, "replace")
          /\ UNCHANGED <<lock, faults>>
       \/ Fault /\ backup' = None /\ Return(c, "failed")
    /\ UNCHANGED <<hosts, loaded>>

MutCompare(c) ==
    /\ call[c].step = "replace"
    /\ \/ Step(c, "rename") /\ UNCHANGED <<lock, faults>>
       \/ Fault /\ Return(c, "failed")
    /\ UNCHANGED <<hosts, backup, loaded>>

\* replace: the new file is written beside the old one, then the old one is
\* read again,
Compare(c) ==
    /\ call[c].step = "replace"
    /\ \/ Unchanged(c) /\ Step(c, "rename") /\ UNCHANGED <<lock, faults>>
       \/ ~Unchanged(c) /\ Return(c, "conflict") /\ UNCHANGED faults
       \/ Fault /\ Return(c, "failed")
    /\ UNCHANGED <<hosts, backup, loaded>>

\* and renamed over it.  A failed sync of the directory is an error after the
\* file has changed.
Rename(c) ==
    /\ call[c].step = "rename"
    /\ hosts.inode < MaxInode
    /\ hosts' = [text |-> call[c].desired, inode |-> hosts.inode + 1]
    /\ \/ Step(c, "read") /\ UNCHANGED <<lock, faults>>
       \/ Fault /\ Return(c, "failed")
    /\ UNCHANGED <<backup, loaded>>

\* The readback before the reload.
ReadBack(c) ==
    /\ call[c].step = "read"
    /\ \/ current.text = call[c].desired /\ Step(c, "reload") /\ UNCHANGED lock
       \/ current.text # call[c].desired /\ Return(c, "readback")
    /\ UNCHANGED <<hosts, backup, loaded, faults>>

\* reload: at most 8 seconds; the client may go away here.
Reload(c) ==
    /\ call[c].step = "reload"
    /\ \/ loaded' = hosts.text /\ Step(c, "after") /\ UNCHANGED <<lock, faults>>
       \/ Fault /\ Return(c, "failed") /\ UNCHANGED loaded
       \/ Return(c, None) /\ UNCHANGED <<loaded, faults>>
    /\ UNCHANGED <<hosts, backup>>

\* The readback after it, and the answer.
Answer(c) ==
    /\ call[c].step = "after"
    /\ Return(c, IF current.text = call[c].desired THEN "ok" ELSE "readback")
    /\ UNCHANGED <<hosts, backup, loaded, faults>>

(***************************************************************************)
(* The rest of the device.                                                 *)
(***************************************************************************)

\* An editor writes in place or renames.
Edit(text, in_place) ==
    /\ text # hosts.text
    /\ hosts.inode < MaxInode
    /\ hosts' = [text |-> text, inode |-> IF in_place THEN hosts.inode ELSE hosts.inode + 1]
    /\ UNCHANGED <<backup, lock, call, loaded, faults>>

\* Power is cut: an entry that was not synced may be gone.
PowerCut ==
    /\ Fault
    /\ lock' = None
    /\ call' = [c \in Clients |-> Idle]
    /\ \/ backup # None /\ backup' = [backup EXCEPT !.synced = TRUE]
       \/ backup # None /\ ~backup.synced /\ backup' = None
       \/ backup = None /\ UNCHANGED backup
    /\ loaded' = hosts.text
    /\ UNCHANGED hosts

Init ==
    /\ hosts = [text |-> Original, inode |-> 1]
    /\ backup = None /\ lock = None
    /\ call = [c \in Clients |-> Idle]
    /\ loaded = Original
    /\ faults = 0

Next ==
    \/ \E c \in Clients :
         \/ \E desired \in {c, None}, expected \in Texts : Begin(c, desired, expected)
         \/ Lock(c) \/ Restore(c) \/ EnsureBackup(c) \/ SyncBackup(c) \/ Compare(c)
         \/ Rename(c) \/ ReadBack(c) \/ Reload(c) \/ Answer(c)
    \/ \E text \in Outside, in_place \in BOOLEAN : Edit(text, in_place)
    \/ PowerCut

Spec == Init /\ [][Next]_vars

(***************************************************************************)
(* Properties.                                                             *)
(***************************************************************************)

SaveKeeps ==
    \A c \in Clients :
      call[c].step = "rename" /\ call'[c].step # "rename" /\ hosts' # hosts
         => hosts.text \in {call[c].current.text} \cup Outside

\* A save or restore never replaces what another client has saved since the
\* caller read the file (action, replace; HOSTS_CONTROL.md: "A conflict does not
\* overwrite the newer file").  Only an editor outside datad that writes between
\* the comparison and the rename is overwritten.
NoLostSave == [][SaveKeeps]_vars

\* While /etc/hosts holds what a client saved, the backup is there, holds a
\* text that no client wrote, and has survived every power cut (ensure_backup).
Restorable ==
    hosts.text \in Clients => backup # None /\ backup.text \in Outside
\* The inductive invariant of both.  A text that a client wrote is in the file,
\* or in the image a call has read, only once the backup is synced; a backup
\* that is not synced is the work of the client that holds the lock; and since
\* the comparison only editors outside datad have written.
Image == [text : Texts, inode : Nat]
Backup == [text : Outside, synced : BOOLEAN]
Steps == {"idle", "lock", "original", "backup", "sync", "replace", "rename", "read", "reload", "after"}
CallShapes == [step : Steps, current : Image \cup {None}, desired : Texts \cup {None},
          answer : {"busy", "unavailable", "failed", "conflict", "readback", "ok", None}]
Secure == backup # None /\ backup.synced = TRUE
Safe(c, r) ==
    /\ r \in CallShapes
    /\ r.step \notin {"idle", "lock"} => lock = c
    /\ r.step # "idle" => r.current \in Image /\ (r.current.text \in Clients => Secure)
    /\ r.step \in {"backup", "sync", "replace", "rename"} => r.desired # None
    /\ r.step = "sync" => backup # None /\ backup.synced = FALSE
    /\ r.step \in {"replace", "rename"} => backup # None
    /\ r.step = "rename" => hosts.text \in {r.current.text} \cup Outside
Whole ==
    /\ hosts \in Image /\ backup \in Backup \cup {None} /\ lock \in Clients \cup {None}
    /\ hosts.text \in Clients => Secure
HostsInv ==
    /\ Whole /\ call \in [Clients -> CallShapes]
    /\ backup # None /\ backup.synced = FALSE => lock # None /\ call[lock].step = "sync"
    /\ \A c \in Clients : Safe(c, call[c])
=============================================================================
