------------------------------ MODULE Activity ------------------------------
(* The execution history (activity.rs): entries in memory, written together *)
(* on an interval, at once at the detailed level, and before anything that  *)
(* ends the process. An entry is its id, its kind and its time; the kinds   *)
(* stand for the categories that rank() and the five-minute rule tell apart.*)
EXTENDS Naturals, Sequences, SequencesExt

CONSTANTS MaxEntries,       \* 300 in the code
          Window,           \* the five minutes of one repeated failure
          MaxId, MaxNow,    \* bounds: entries recorded, seconds
          MaxFaults         \* bound: failed writes

VARIABLES stored,           \* Stored: next_id, entries, level
          dirty, storage_ok,
          disk,             \* what activity.json holds
          now,
          reboot,           \* the reboot under way: "none", "asked" or "called"
          asked,            \* the id of the entry that announced it, 0 if none was kept
          failed            \* writes that have failed

vars == <<stored, dirty, storage_ok, disk, now, reboot, asked, failed>>

Kinds == {"probe", "failed", "recovery", "task"}
Levels == 0..3              \* Off, Basic, Standard, Detailed
Detailed == 3

(* The lowest level at which an event is recorded. *)
rank(kind) == CASE kind = "probe" -> Detailed
                [] kind \in {"failed", "recovery"} -> 1
                [] OTHER -> 2

Default == [next_id |-> 0, entries |-> <<>>, level |-> 2]
Ids(st) == {st.entries[i].id: i \in DOMAIN st.entries}

TypeOK ==
  /\ stored.next_id \in 0..(MaxId + 1) /\ Len(stored.entries) <= MaxEntries
  /\ stored.level \in Levels /\ dirty \in BOOLEAN /\ storage_ok \in BOOLEAN
  /\ reboot \in {"none", "asked", "called"} /\ asked \in 0..MaxId /\ failed \in 0..MaxFaults

(* load: a file that is too long, or has an id that is still to be given *)
(* out, counts as no file.                                               *)
Load(file) == IF Len(file.entries) <= MaxEntries /\ \A id \in Ids(file): id < file.next_id
              THEN file ELSE Default

Init ==
  /\ stored = Default /\ disk = Default /\ dirty = FALSE /\ storage_ok = TRUE
  /\ now = 0 /\ reboot = "none" /\ asked = 0 /\ failed = 0

(* save: a synced temporary file is renamed over the old one, or the old *)
(* one stays.                                                            *)
Saves(st, ok) ==
  /\ ok \/ failed < MaxFaults
  /\ failed' = IF ok THEN failed ELSE failed + 1
  /\ disk' = IF ok THEN st ELSE disk

(* flush of st, with unsaved entries iff d. *)
Flushed(st, d) ==
  IF d THEN \E ok \in BOOLEAN: Saves(st, ok) /\ storage_ok' = ok /\ dirty' = ~ok
       ELSE UNCHANGED <<storage_ok, disk, failed>> /\ dirty' = d

(* The same failure again within the window adds nothing. *)
Repeated(kind) ==
  /\ kind = "failed" /\ stored.entries # <<>>
  /\ Last(stored.entries).kind = kind
  /\ IF now < Last(stored.entries).at THEN TRUE ELSE now - Last(stored.entries).at < Window

Recorded(kind) == stored.level >= rank(kind) /\ ~Repeated(kind)
NextId == IF stored.next_id = 0 THEN 1 ELSE stored.next_id

(* push: a new entry, the oldest one dropped beyond the limit, and at the *)
(* detailed level a write.                                                *)
Push(kind) ==
  IF ~Recorded(kind) THEN UNCHANGED <<stored, dirty, storage_ok, disk, failed>>
  ELSE LET longer == Append(stored.entries, [id |-> NextId, kind |-> kind, at |-> now])
           st == [stored EXCEPT !.next_id = NextId + 1,
                                !.entries = IF Len(longer) > MaxEntries THEN Tail(longer) ELSE longer]
       IN /\ NextId <= MaxId
          /\ stored' = st
          /\ IF st.level = Detailed THEN Flushed(st, TRUE)
             ELSE dirty' = TRUE /\ UNCHANGED <<storage_ok, disk, failed>>

(* Some worker records an event. *)
Record(kind) == Push(kind) /\ UNCHANGED <<now, reboot, asked>>

(* set_level and clear: the change is saved first, with the entries in *)
(* memory, and made only if that worked.                               *)
SavedFirst(st) ==
  /\ \E ok \in BOOLEAN:
       /\ Saves(st, ok)
       /\ IF ok THEN stored' = st /\ dirty' = FALSE /\ storage_ok' = TRUE
                ELSE UNCHANGED <<stored, dirty, storage_ok>>
  /\ UNCHANGED <<now, reboot, asked>>
SetLevel(l) == SavedFirst([stored EXCEPT !.level = l])
Clear == SavedFirst([stored EXCEPT !.entries = <<>>])

(* spawn_activity_flush: the interval is over. *)
Flush == dirty /\ Flushed(stored, dirty) /\ UNCHANGED <<stored, now, reboot, asked>>

(* The recovery worker or a task asks for a reboot: the entry comes first... *)
AskReboot(kind) ==
  /\ reboot = "none" /\ kind \in {"recovery", "task"}
  /\ Push(kind)
  /\ asked' = IF Recorded(kind) THEN NextId ELSE 0
  /\ reboot' = "asked" /\ UNCHANGED now
(* ...then execute_inner writes what is buffered and makes the call... *)
MutCallReboot == reboot = "asked" /\ reboot' = "called"
  /\ UNCHANGED <<stored, dirty, storage_ok, disk, failed, now, asked>>
CallReboot ==
  /\ reboot = "asked" /\ reboot' = "called"
  /\ Flushed(stored, dirty) /\ UNCHANGED <<stored, now, asked>>
(* ...which fails and is recorded... *)
RebootFails ==
  /\ reboot = "called" /\ reboot' = "none" /\ asked' = 0
  /\ Push("failed") /\ UNCHANGED now

(* datad starts again with what is on flash. *)
StartAgain ==
  /\ stored' = Load(disk') /\ dirty' = FALSE /\ storage_ok' = TRUE
  /\ reboot' = "none" /\ asked' = 0 /\ UNCHANGED now
(* ...or takes the device down. *)
Reboots == reboot = "called" /\ UNCHANGED <<disk, failed>> /\ StartAgain
(* A power loss, and a stop by the init system, before which serve flushes. *)
Crash == UNCHANGED <<disk, failed>> /\ StartAgain
Stop == /\ IF dirty THEN \E ok \in BOOLEAN: Saves(stored, ok) ELSE UNCHANGED <<disk, failed>>
        /\ StartAgain

Tick == now < MaxNow /\ now' = now + 1
        /\ UNCHANGED <<stored, dirty, storage_ok, disk, reboot, asked, failed>>

Next ==
  \/ \E kind \in Kinds: Record(kind) \/ AskReboot(kind)
  \/ \E l \in Levels: SetLevel(l)
  \/ Clear \/ Flush \/ CallReboot \/ RebootFails \/ Reboots \/ Crash \/ Stop \/ Tick

Spec == Init /\ [][Next]_vars

-----------------------------------------------------------------------------
(* When a reboot is on its way the entry that announced it is on flash,      *)
(* unless a write failed, or it was cleared or pushed out meanwhile: what     *)
(* the history shows after the restart explains it (flush_active). And what   *)
(* is not marked as unsaved is on flash as it is in memory.                   *)
RebootExplained ==
  /\ (reboot = "called" /\ storage_ok /\ asked \in Ids(stored)) => asked \in Ids(disk)
  /\ ~dirty => disk = stored
(* The inductive invariant of RebootExplained: a file is one that load      *)
(* accepts, and no later entry has the id of the one that announced the     *)
(* reboot.                                                                  *)
Entry == [id: Nat \ {0}, kind: Kinds, at: Nat]
Valid(st) ==
  /\ st \in [next_id: Nat, entries: Seq(Entry), level: Levels]
  /\ Len(st.entries) <= MaxEntries
  /\ \A id \in Ids(st): id < st.next_id
HistoryInv ==
  /\ Valid(stored) /\ Valid(disk)
  /\ dirty \in BOOLEAN /\ storage_ok \in BOOLEAN
  /\ now \in Nat
  /\ asked \in Nat /\ (asked # 0 => asked < stored.next_id)
  /\ RebootExplained
=============================================================================
