------------------------------ MODULE Identity ------------------------------
(***************************************************************************)
(* The hardware identity (identity.rs).  key.json holds the key's blob and *)
(* its public half, initialized-key-id the fingerprint of the key this     *)
(* device was initialised with.  Both are published under a new name: a    *)
(* temporary file is written and synced, linked, unlinked, and the         *)
(* directory is synced.  Requests of datad and of `zwrt-datad --identity`  *)
(* exclude each other with flock; a process may be killed and the power    *)
(* may fail between any two steps.                                         *)
(*                                                                         *)
(* A key stands for its blob, its public half and its fingerprint.  The    *)
(* file system is journalled: flash holds an earlier state of the          *)
(* directory, and a sync brings all of it up to date.                      *)
(***************************************************************************)
CONSTANTS Procs,     \* datad, which admits one request (slots), and the command line
          Keys,      \* keys the hardware may make
          None

VARIABLES dir,       \* the directory: the two files, and those with a second link
          disk,      \* the directory as flash has it
          lock,      \* who holds operation.lock
          proc,      \* the request a process works on
          made,      \* keys whose record was published
          told,      \* the key callers were told
          loose      \* a publication was broken off before its directory was synced

vars == <<dir, disk, lock, proc, made, told, loose>>

Operations == {"init", "public_key", "sign"}
Damaged == "damaged"
Empty == [key |-> None, mark |-> None, extra |-> {}]
Idle == [op |-> None, at |-> "idle", key |-> None, file |-> None]

Requests == [op: Operations \cup {None}, key: Keys \cup {None}, file: {"key", "mark", None},
             at: {"idle", "check", "make", "test", "link", "unlink", "sync", "marker", "sign",
                  "answer"}]
Directories == [key: Keys \cup {None, Damaged}, mark: Keys \cup {None},
                extra: SUBSET {"key", "mark"}]

Shapes == /\ dir \in Directories /\ disk \in Directories
          /\ proc \in [Procs -> Requests] /\ made \subseteq Keys \cup {None}
TypeOK ==
    /\ Shapes /\ None \notin made
    /\ lock \in Procs \cup {None} /\ told \in Keys \cup {None} /\ loose \in BOOLEAN

Init ==
    /\ dir = Empty /\ disk = Empty /\ lock = None /\ made = {} /\ told = None
    /\ loose = FALSE /\ proc = [p \in Procs |-> Idle]

-----------------------------------------------------------------------------
At(p, at) == proc[p].at = at
Goes(p, at) == proc' = [proc EXCEPT ![p].at = at]
Publishes(p, file) == proc' = [proc EXCEPT ![p].at = "link", ![p].file = file]

\* secure: a file with a second link is refused.
Secure(file) == file \notin dir.extra

\* load: a whole record.
Loads == dir.key \in Keys /\ Secure("key")
\* load and has_marker: neither a record nor the sign that there was one.
Uninitialized == dir.key = None /\ dir.mark = None

\* A request takes the lock and finds a record to check, or, when it asks for
\* it, that the first key is to be made.  All else is refused (busy, not
\* initialised, storage, key unusable) and changes nothing.
Begin(p, op) ==
    /\ At(p, "idle") /\ lock = None
    /\ lock' = p
    /\ \/ /\ Loads
          /\ proc' = [proc EXCEPT ![p] = [op |-> op, at |-> "check", key |-> dir.key, file |-> None]]
       \/ /\ Uninitialized /\ op = "init"
          /\ proc' = [proc EXCEPT ![p] = [op |-> op, at |-> "make", key |-> None, file |-> None]]
    /\ UNCHANGED <<dir, disk, made, told, loose>>

\* checked_record: the hardware knows the key, and it is the record's.
Check(p) ==
    /\ At(p, "check") /\ Goes(p, "marker")
    /\ UNCHANGED <<dir, disk, lock, made, told, loose>>

\* initialize: the hardware makes a key...
Generate(p) ==
    /\ At(p, "make")
    /\ \E k \in Keys \ made: proc' = [proc EXCEPT ![p].at = "test", ![p].key = k]
    /\ UNCHANGED <<dir, disk, lock, made, told, loose>>
\* ...and signs with it; then its record is published.
SelfTest(p) ==
    /\ At(p, "test") /\ Publishes(p, "key")
    /\ UNCHANGED <<dir, disk, lock, made, told, loose>>

\* ensure_marker: the marker names this key, or there is none and it is
\* published; a marker of another key ends the request (Stop).
MutMarkerAgrees(k) == dir.mark # None
MarkerAgrees(k) == dir.mark = k /\ Secure("mark")
Confirmed(p) == Goes(p, IF proc[p].op = "sign" THEN "sign" ELSE "answer")
EnsureMarker(p) ==
    /\ At(p, "marker")
    /\ \/ dir.mark = None /\ Publishes(p, "mark")
       \/ MarkerAgrees(proc[p].key) /\ Confirmed(p)
    /\ UNCHANGED <<dir, disk, lock, made, told, loose>>

\* publish_new: hard_link replaces nothing...
Link(p) ==
    LET file == proc[p].file IN
    /\ At(p, "link") /\ dir[file] = None
    /\ dir' = [dir EXCEPT ![file] = proc[p].key, !.extra = @ \cup {file}]
    /\ made' = IF file = "key" THEN made \cup {proc[p].key} ELSE made
    /\ Goes(p, "unlink")
    /\ UNCHANGED <<disk, lock, told, loose>>
\* ...the temporary name goes...
Unlink(p) ==
    /\ At(p, "unlink") /\ Goes(p, "sync")
    /\ dir' = [dir EXCEPT !.extra = @ \ {proc[p].file}]
    /\ UNCHANGED <<disk, lock, made, told, loose>>
\* ...and the directory is synced.
Sync(p) ==
    /\ At(p, "sync")
    /\ disk' = dir /\ loose' = FALSE
    /\ IF proc[p].file = "key" THEN Goes(p, "marker") ELSE Confirmed(p)
    /\ UNCHANGED <<dir, lock, made, told>>

\* sign: the hardware signs the challenge.
Sign(p) ==
    /\ At(p, "sign") /\ Goes(p, "answer")
    /\ UNCHANGED <<dir, disk, lock, made, told, loose>>

\* The caller is told the key, or the key's signature.  (A marker that was
\* removed meanwhile ends what callers may count on, see Promise.)
Answer(p) ==
    /\ At(p, "answer")
    /\ told' = IF dir.mark = None THEN None ELSE proc[p].key
    /\ lock' = None /\ proc' = [proc EXCEPT ![p] = Idle]
    /\ UNCHANGED <<dir, disk, made, loose>>

\* A request ends anywhere: the worker refuses or takes longer than 8 seconds, a
\* step on the directory fails, the caller goes away, the process is killed.
\* What was done stays, and so does a second link.
Stop(p) ==
    /\ ~At(p, "idle")
    /\ lock' = None /\ proc' = [proc EXCEPT ![p] = Idle]
    /\ loose' = (loose \/ proc[p].at \in {"unlink", "sync"})
    /\ UNCHANGED <<dir, disk, made, told>>

-----------------------------------------------------------------------------
\* Callers may count on the key they were told while its marker is there; when
\* the directory is deleted, a new key is what docs/RUNTIME.md:69 announces.
Promise(d) == IF d.mark = told THEN told ELSE None

\* The kernel writes back by itself.
Commit ==
    /\ disk # dir /\ disk' = dir /\ loose' = FALSE
    /\ UNCHANGED <<dir, lock, proc, made, told>>

\* The power fails: flash is what is left.
PowerCut ==
    /\ dir' = disk /\ told' = Promise(disk) /\ loose' = FALSE
    /\ lock' = None /\ proc' = [p \in Procs |-> Idle]
    /\ UNCHANGED <<disk, made>>

\* Somebody removes or damages a file, or puts an old record of this device in
\* the place of key.json.
Changed(d) == dir' = d /\ told' = Promise(d) /\ UNCHANGED <<disk, lock, proc, made, loose>>
Lose(file) == dir[file] # None /\ Changed([dir EXCEPT ![file] = None, !.extra = @ \ {file}])
Damage == dir.key \in Keys /\ Changed([dir EXCEPT !.key = Damaged])
Replace(k) == dir.key # k /\ Changed([dir EXCEPT !.key = k, !.extra = @ \ {"key"}])

Next ==
    \/ \E p \in Procs:
         \/ \E op \in Operations: Begin(p, op)
         \/ Check(p) \/ Generate(p) \/ SelfTest(p) \/ EnsureMarker(p)
         \/ Link(p) \/ Unlink(p) \/ Sync(p) \/ Sign(p) \/ Answer(p) \/ Stop(p)
    \/ \E file \in {"key", "mark"}: Lose(file)
    \/ \E k \in made: Replace(k)
    \/ Commit \/ PowerCut \/ Damage

Spec == Init /\ [][Next]_vars

-----------------------------------------------------------------------------
\* A key that callers were told outlives a power cut: its marker is on flash,
\* or is removed by hand.  The exception is a publication broken off between
\* the link and the sync of the directory, whose file the next request takes
\* as it finds it (ensure_marker syncs nothing when the marker is there).
ToldSurvives == told # None /\ ~loose => disk.mark = told

\* While the marker of the key they were told is there, callers are told no
\* other, whatever was lost, damaged, replaced or broken off: initialize makes
\* no second key and no request answers for another record.
SameKey == told # None /\ told' # None => told' = told
KeyKept == [][SameKey]_vars

(***************************************************************************)
(* KeyKept for any processes and any supply of keys.  A request that has   *)
(* passed ensure_marker has the marker of its key before it, or somebody   *)
(* removed it: by flock no other request can have put another one there.   *)
(***************************************************************************)
\* No two requests at a time.
Excluded == \A p \in Procs: proc[p].at # "idle" => lock = p

\* Past ensure_marker, and while the marker is being published, no other key's
\* marker is there.
Passed(r) == r.at \in {"sign", "answer"} \/ (r.at \in {"unlink", "sync"} /\ r.file = "mark")
MarkerBefore == \A p \in Procs: Passed(proc[p]) => dir.mark \in {None, proc[p].key}

\* What callers were told is what the marker says.
ToldIsMarked == told # None => dir.mark = told

\* A publication has its file.
Named == \A p \in Procs: proc[p].at \in {"link", "unlink", "sync"} => proc[p].file \in {"key", "mark"}

Kept == Excluded /\ MarkerBefore /\ ToldIsMarked /\ Named
IdentityInv == Shapes /\ Kept

(***************************************************************************)
(* ToldSurvives for any processes and any supply of keys.  A marker that   *)
(* is not on flash is being published, or its publication was broken off;  *)
(* while it is being published no caller was told anything.                *)
(***************************************************************************)
Publishing(r) == r.at \in {"unlink", "sync"} /\ r.file = "mark"
FlashFollows ==
    dir.mark \notin {None, disk.mark} => loose \/ \E p \in Procs: Publishing(proc[p])
Unannounced == \A p \in Procs: Publishing(proc[p]) => told = None
FlashInv == FlashFollows /\ Unannounced
=============================================================================
