----------------------------- MODULE FileStore -----------------------------
(***************************************************************************)
(* File sessions: uploads, archives and the other writes, next to programs *)
(* of the router that change the same files.  New content is staged under  *)
(* a hidden name and swapped in; the file it replaces is looked at after   *)
(* the swap, and put back if it is not the one the client had seen.        *)
(***************************************************************************)
EXTENDS Naturals

CONSTANTS
    Names,      \* file names
    Workers,    \* file sessions
    None,       \* no file
    Chunks,     \* chunks of an upload
    MaxStamp    \* bound: versions of files

VARIABLES
    dir,     \* what each name holds: an object with its version, or None
    temp,    \* what the hidden name of a session holds
    kept,    \* files left under recovery and hidden names
    work,    \* what each session does
    stamp,   \* versions given out
    owed     \* history: what other programs wrote and nobody replaced knowingly

vars == <<dir, temp, kept, work, stamp, owed>>

Idle == [phase |-> "idle"]

\* A file: inode, version (its metadata) and the chunks it still misses.
New(s, left) == [ino |-> s, ver |-> s, left |-> left]

Fresh == stamp < MaxStamp /\ stamp' = stamp + 1

\* A write of some names.  expect: what they held when it was planned; left:
\* chunks per file; src: the file an archive is made of, as it was then.
Job(todo, left, src) ==
    [phase |-> "stage", todo |-> todo, links |-> {}, expect |-> [n \in todo |-> dir[n]], left |-> left, src |-> src, own |-> None]

(***************************************************************************)
(* Uploads and archives.                                                   *)
(***************************************************************************)

\* upload_begin: a new file, or one whose version the client names.
UploadBegin(w) ==
    /\ work[w].phase = "idle" /\ temp[w] = None
    /\ \E n \in Names : work' = [work EXCEPT ![w] = Job({n}, Chunks, None)]
    /\ UNCHANGED <<dir, temp, kept, stamp, owed>>

\* compress: a file of the version the client names into a new one.
CompressBegin(w) ==
    /\ work[w].phase = "idle" /\ temp[w] = None
    /\ \E n, m \in Names :
         /\ dir[n] # None /\ dir[m] = None
         /\ work' = [work EXCEPT ![w] = Job({m}, 1, [name |-> n, seen |-> dir[n]])]
    /\ UNCHANGED <<dir, temp, kept, stamp, owed>>

\* extract: the name tells the format; entries are decoded into a directory of
\* their own first.
ExtractBegin(w) ==
    /\ work[w].phase = "idle" /\ temp[w] = None
    /\ \E f \in {"tar", "zip"} : work' = [work EXCEPT ![w] = [phase |-> f, todo |-> {}, links |-> {}]]
    /\ UNCHANGED <<dir, temp, kept, stamp, owed>>

\* Stage::add: each name once; a repeated one is an error (Abort).
Add(w, n, link) ==
    /\ n \notin work[w].todo
    /\ work' = [work EXCEPT ![w].todo = @ \cup {n}, ![w].links = IF link THEN @ \cup {n} ELSE @]

\* tar_decode: the next entry, a file or a link.
TarDecode(w) ==
    /\ work[w].phase = "tar"
    /\ \E n \in Names, link \in BOOLEAN : Add(w, n, link)
    /\ UNCHANGED <<dir, temp, kept, stamp, owed>>

\* zip_lzma: an entry packed this way is a file.
ZipLzma(w, n) == Add(w, n, FALSE)

\* zip_decode: the next entry, by its packing.
ZipDecode(w) ==
    /\ work[w].phase = "zip"
    /\ \E n \in Names : ZipLzma(w, n) \/ \E link \in BOOLEAN : Add(w, n, link)
    /\ UNCHANGED <<dir, temp, kept, stamp, owed>>

\* publish: without overwrite nothing of the archive may exist; what is there
\* is noted for all entries before the first is published.
Preflight(w) ==
    /\ work[w].phase \in {"tar", "zip"} /\ work[w].todo # {}
    /\ \E over \in BOOLEAN :
         /\ over \/ \A n \in work[w].todo : dir[n] = None
         /\ work' = [work EXCEPT ![w] = [Job(work[w].todo, 1, None) EXCEPT !.links = work[w].links]]
    /\ UNCHANGED <<dir, temp, kept, stamp, owed>>

Finish(w) == work' = [work EXCEPT ![w] = Idle]

\* The entry that is published next: links come after all files.
First(todo, links) == CHOOSE n \in todo : n \notin links \/ todo \subseteq links
Entry(w) == First(work[w].todo, work[w].links)

NextEntry(w) ==
    IF work[w].todo = {Entry(w)} THEN Finish(w)
    ELSE work' = [work EXCEPT ![w].todo = @ \ {Entry(w)}, ![w].phase = "stage", ![w].own = None]

\* Staged::new: the target is as expected; the hidden file is created.
Stage(w) ==
    /\ work[w].phase = "stage" /\ Entry(w) \notin work[w].links
    /\ LET n == Entry(w) IN
       IF dir[n] # work[w].expect[n] THEN Finish(w) /\ UNCHANGED <<temp, stamp>>
       ELSE /\ Fresh
            /\ temp' = [temp EXCEPT ![w] = New(stamp + 1, work[w].left)]
            /\ work' = [work EXCEPT ![w].phase = "write", ![w].own = temp'[w]]
    /\ UNCHANGED <<dir, kept, owed>>

\* upload_chunk at the expected offset, or the copy out of an archive.
Write(w) ==
    /\ work[w].phase = "write" /\ work[w].own.left > 0
    /\ temp' = [temp EXCEPT ![w].left = @ - 1]
    /\ work' = [work EXCEPT ![w].own.left = @ - 1]
    /\ UNCHANGED <<dir, kept, stamp, owed>>

\* check_target, and for a new archive its source.
StillExpected(w) ==
    /\ dir[Entry(w)] = work[w].expect[Entry(w)]
    /\ work[w].src # None => dir[work[w].src.name] = work[w].src.seen

\* upload_commit: all bytes are there, with their digest.
Complete(w) == work[w].own.left = 0

\* publish up to the swap: the target is still the one expected.
Commit(w) ==
    /\ work[w].phase = "write"
    /\ Complete(w)
    /\ IF StillExpected(w)
       THEN work' = [work EXCEPT ![w].phase = "swap"] /\ UNCHANGED temp
       ELSE Finish(w) /\ temp' = [temp EXCEPT ![w] = None]
    /\ UNCHANGED <<dir, kept, stamp, owed>>

\* Drop of a Staged that was not published: the hidden file goes if it is ours.
Discard(w, t) == IF t # None /\ t.ino = work[w].own.ino THEN {} ELSE {t} \ {None}

\* upload_abort, a mismatch, the end of the session or of its time.
Abort(w) ==
    /\ work[w].phase \in {"tar", "zip", "stage", "write", "swap", "link"}
    /\ kept' = IF temp[w] = None THEN kept ELSE kept \cup Discard(w, temp[w])
    /\ temp' = [temp EXCEPT ![w] = None]
    /\ Finish(w)
    /\ UNCHANGED <<dir, stamp, owed>>

\* renameat2: a new file never replaces one; otherwise the names are swapped.
Swap(w) ==
    /\ work[w].phase = "swap"
    /\ LET n == Entry(w) IN
       \/ /\ work[w].expect[n] = None /\ dir[n] = None
          /\ dir' = [dir EXCEPT ![n] = temp[w]] /\ temp' = [temp EXCEPT ![w] = None]
          /\ NextEntry(w)
       \/ /\ work[w].expect[n] # None /\ dir[n] # None
          /\ dir' = [dir EXCEPT ![n] = temp[w]] /\ temp' = [temp EXCEPT ![w] = dir[n]]
          /\ work' = [work EXCEPT ![w].phase = "look"]
       \/ /\ (work[w].expect[n] = None) # (dir[n] = None)
          /\ temp' = [temp EXCEPT ![w] = None] /\ Finish(w) /\ UNCHANGED dir
    /\ UNCHANGED <<kept, stamp, owed>>

MutLook(w) ==
    /\ work[w].phase = "look"
    /\ work' = [work EXCEPT ![w].phase = "unlink"]
    /\ UNCHANGED <<dir, temp, kept, stamp, owed>>

\* Is the displaced file the one the client knew?  If not, may the names be
\* swapped back?
Look(w) ==
    /\ work[w].phase = "look"
    /\ LET n == Entry(w) IN
       IF temp[w] = work[w].expect[n]
       THEN work' = [work EXCEPT ![w].phase = "unlink"] /\ UNCHANGED <<temp, kept>>
       ELSE IF dir[n] = work[w].own
       THEN work' = [work EXCEPT ![w].phase = "back"] /\ UNCHANGED <<temp, kept>>
       ELSE /\ kept' = kept \cup {temp[w]} /\ temp' = [temp EXCEPT ![w] = None]
            /\ Finish(w)
    /\ UNCHANGED <<dir, stamp, owed>>

\* The replaced file is removed: its reader knew it.
Unlink(w) ==
    /\ work[w].phase = "unlink"
    /\ owed' = owed \ {work[w].expect[Entry(w)]}
    /\ temp' = [temp EXCEPT ![w] = None]
    /\ NextEntry(w)
    /\ UNCHANGED <<dir, kept, stamp>>

\* Swapped back; what comes out is dropped if it is ours, and otherwise stays.
Back(w) ==
    /\ work[w].phase = "back"
    /\ LET n == Entry(w) IN
       IF dir[n] = None THEN kept' = kept \cup {temp[w]} /\ UNCHANGED dir
       ELSE dir' = [dir EXCEPT ![n] = temp[w]] /\ kept' = kept \cup Discard(w, dir[n])
    /\ temp' = [temp EXCEPT ![w] = None]
    /\ Finish(w)
    /\ UNCHANGED <<stamp, owed>>

\* A link of an archive: the target is as expected; then a plain rename, which
\* takes whatever is there by then.
LinkCheck(w) ==
    /\ work[w].phase = "stage" /\ Entry(w) \in work[w].links
    /\ IF dir[Entry(w)] = work[w].expect[Entry(w)] THEN work' = [work EXCEPT ![w].phase = "link"] ELSE Finish(w)
    /\ UNCHANGED <<dir, temp, kept, stamp, owed>>

LinkRename(w) ==
    /\ work[w].phase = "link"
    /\ LET n == Entry(w) IN
       IF work[w].expect[n] = None /\ dir[n] # None
       THEN Finish(w) /\ UNCHANGED <<dir, owed, stamp>>
       ELSE /\ Fresh /\ dir' = [dir EXCEPT ![n] = New(stamp + 1, 0)]
            /\ owed' = owed \ {dir[n]}
            /\ NextEntry(w)
    /\ UNCHANGED <<temp, kept>>

\* The process ends: hidden files stay where they are.
Crash ==
    /\ \E w \in Workers : work[w] # Idle
    /\ kept' = kept \cup ({temp[w] : w \in Workers} \ {None})
    /\ temp' = [w \in Workers |-> None] /\ work' = [w \in Workers |-> Idle]
    /\ UNCHANGED <<dir, stamp, owed>>

(***************************************************************************)
(* Other operations of a session, each with the version the client saw.    *)
(***************************************************************************)

\* remove: the version is checked, then whatever has the name is unlinked.
RemoveCheck(w) ==
    /\ work[w].phase = "idle"
    /\ \E n \in Names : dir[n] # None /\ work' = [work EXCEPT ![w] = [phase |-> "remove", todo |-> {n}, links |-> {}]]
    /\ UNCHANGED <<dir, temp, kept, stamp, owed>>

Remove(w) ==
    /\ work[w].phase = "remove"
    /\ LET n == Entry(w) IN
         /\ dir' = [dir EXCEPT ![n] = None]
         /\ owed' = owed \ {dir[n]}
    /\ Finish(w)
    /\ UNCHANGED <<temp, kept, stamp>>

\* rename never replaces another file.
Rename(w) ==
    /\ work[w].phase = "idle"
    /\ \E n \in Names, m \in Names :
         /\ dir[n] # None /\ dir[m] = None
         /\ dir' = [dir EXCEPT ![m] = dir[n], ![n] = None]
    /\ UNCHANGED <<temp, kept, work, stamp, owed>>

\* touch of a new name: created, never replaced.
Create(w) ==
    /\ work[w].phase = "idle" /\ Fresh
    /\ \E n \in Names : dir[n] = None /\ dir' = [dir EXCEPT ![n] = New(stamp + 1, 0)]
    /\ UNCHANGED <<temp, kept, work, owed>>

\* touch and chmod work on the opened file: a new version of the same one.
Retouch(w) ==
    /\ work[w].phase = "idle" /\ Fresh
    /\ \E n \in Names :
         /\ dir[n] # None
         /\ dir' = [dir EXCEPT ![n].ver = stamp + 1]
         /\ owed' = IF dir[n] \in owed THEN (owed \ {dir[n]}) \cup {dir'[n]} ELSE owed
    /\ UNCHANGED <<temp, kept, work>>

(***************************************************************************)
(* Downloads: the version is checked before and after every read.          *)
(***************************************************************************)

Reading(w) == work[w].phase \in {"down", "read", "check"}

\* download_begin opens the file of the version the client names.
DownloadBegin(w) ==
    /\ work[w].phase = "idle"
    /\ \E n \in Names :
         /\ dir[n] # None
         /\ work' = [work EXCEPT ![w] = [phase |-> "down", name |-> n, seen |-> dir[n], got |-> {}, data |-> 0, left |-> Chunks]]
    /\ UNCHANGED <<dir, temp, kept, stamp, owed>>

\* download_chunk: the first check.
ChunkCheck(w) ==
    /\ work[w].phase = "down" /\ work[w].left > 0
    /\ dir[work[w].name] = work[w].seen
    /\ work' = [work EXCEPT ![w].phase = "read"]
    /\ UNCHANGED <<dir, temp, kept, stamp, owed>>

\* The read from the open file, whatever its content is by now.
ChunkRead(w) ==
    /\ work[w].phase = "read"
    /\ LET now == dir[work[w].name] IN
         work' = [work EXCEPT ![w].phase = "check",
                              ![w].data = IF now # None /\ now.ino = work[w].seen.ino THEN now.ver ELSE work[w].seen.ver]
    /\ UNCHANGED <<dir, temp, kept, stamp, owed>>

\* The second check, and the chunk is handed out; a mismatch is an error and
\* the download stays where it was.
ChunkAccept(w) ==
    /\ work[w].phase = "check"
    /\ work' = IF dir[work[w].name] = work[w].seen
               THEN [work EXCEPT ![w].phase = "down", ![w].got = @ \cup {work[w].data}, ![w].left = @ - 1]
               ELSE [work EXCEPT ![w].phase = "down"]
    /\ UNCHANGED <<dir, temp, kept, stamp, owed>>

DownloadEnd(w) ==
    /\ work[w].phase = "down"
    /\ Finish(w)
    /\ UNCHANGED <<dir, temp, kept, stamp, owed>>

(***************************************************************************)
(* Other programs.                                                         *)
(***************************************************************************)

\* Some session is about to swap or has swapped this very object in.
InFlight(o) == \E w \in Workers : work[w].phase \in {"write", "swap", "look", "unlink", "back"} /\ work[w].own # None /\ work[w].own.ino = o.ino

\* A program writes a file anew, edits it in place or removes it.
Replace(n) ==
    /\ Fresh
    /\ dir' = [dir EXCEPT ![n] = New(stamp + 1, 0)]
    /\ owed' = (owed \ {dir[n]}) \cup {dir'[n]}
    /\ UNCHANGED <<temp, kept, work>>

Edit(n) ==
    /\ dir[n] # None /\ Fresh
    /\ dir' = [dir EXCEPT ![n].ver = stamp + 1]
    /\ owed' = IF InFlight(dir[n]) THEN owed ELSE (owed \ {dir[n]}) \cup {dir'[n]}
    /\ UNCHANGED <<temp, kept, work>>

Delete(n) ==
    /\ dir[n] # None
    /\ dir' = [dir EXCEPT ![n] = None]
    /\ owed' = owed \ {dir[n]}
    /\ UNCHANGED <<temp, kept, work, stamp>>

Init ==
    /\ dir = [n \in Names |-> None] /\ temp = [w \in Workers |-> None] /\ kept = {}
    /\ work = [w \in Workers |-> Idle] /\ stamp = 0 /\ owed = {}

Session(w) ==
    \/ UploadBegin(w) \/ CompressBegin(w) \/ ExtractBegin(w) \/ TarDecode(w) \/ ZipDecode(w) \/ Preflight(w)
    \/ LinkCheck(w) \/ LinkRename(w) \/ Stage(w) \/ Write(w) \/ Commit(w) \/ Abort(w) \/ Swap(w)
    \/ Look(w) \/ Unlink(w) \/ Back(w) \/ RemoveCheck(w) \/ Remove(w) \/ Rename(w) \/ Create(w) \/ Retouch(w)
    \/ DownloadBegin(w) \/ ChunkCheck(w) \/ ChunkRead(w) \/ ChunkAccept(w) \/ DownloadEnd(w)

Next ==
    \/ \E w \in Workers : Session(w)
    \/ \E n \in Names : Replace(n) \/ Edit(n) \/ Delete(n)
    \/ Crash

Spec == Init /\ [][Next]_vars

(***************************************************************************)
(* Properties.                                                             *)
(***************************************************************************)

\* A file some other program wrote is never lost to an upload or to the files
\* of an archive: it is still under its name, put back, or kept for recovery, unless the
\* client had seen this very version and replaced it, through swaps of two
\* sessions, edits at any moment and crashes (Staged::publish).
NothingLost == owed \subseteq {dir[n] : n \in Names} \cup {temp[w] : w \in Workers} \cup kept

\* No name ever holds part of a file (staging, digest check and swap).
WholeFiles == \A n \in Names : dir[n] # None => dir[n].left = 0

\* The chunks a download has handed out are all of the version the client
\* asked for, even when the file is edited or swapped between the check, the
\* read and the second check of a chunk (Session::download_chunk).
OneVersion == \A w \in Workers : Reading(w) => work[w].got \subseteq {work[w].seen.ver}
\* The inductive invariant of the three.  A file is in one place; what a session
\* stages was never seen by others, and what it has in flight is owed to nobody;
\* a displaced file is whole; and a version that a download found changed is
\* nowhere any more.
Objects == [ino : Nat, ver : Nat, left : Nat]
Expects == UNION {[S -> Objects \cup {None}] : S \in SUBSET Names}
Sources == [name : Names, seen : Objects] \cup {None}
Flying == {"write", "swap", "look", "unlink", "back"}
Jobs == [phase : Flying \cup {"stage", "link"}, todo : SUBSET Names, links : SUBSET Names,
         expect : Expects, left : Nat, src : Sources, own : Objects \cup {None}]
Entries == [phase : {"tar", "zip", "remove"}, todo : SUBSET Names, links : SUBSET Names]
Downloads == [phase : {"down", "read", "check"}, name : Names, seen : Objects, got : SUBSET Nat,
              data : Nat, left : Nat]
Old(o) == o.ino <= stamp /\ o.ver <= stamp
Gone(o) ==
    /\ \A n \in Names : dir[n] # None => dir[n].ino # o.ino \/ dir[n].ver # o.ver
    /\ \A v \in Workers : temp[v] # None => temp[v].ino # o.ino \/ temp[v].ver # o.ver
Apart ==
    /\ \A n, m \in Names : n # m /\ dir[n] # None /\ dir[m] # None => dir[n].ino # dir[m].ino
    /\ \A v, w \in Workers : v # w /\ temp[v] # None /\ temp[w] # None => temp[v].ino # temp[w].ino
    /\ \A n \in Names, w \in Workers : dir[n] # None /\ temp[w] # None => dir[n].ino # temp[w].ino
Stored ==
    /\ dir \in [Names -> Objects \cup {None}] /\ temp \in [Workers -> Objects \cup {None}] /\ stamp \in Nat
    /\ \A n \in Names : dir[n] # None => Old(dir[n])
    /\ \A w \in Workers : temp[w] # None => Old(temp[w])
    /\ Apart /\ WholeFiles
Debts == NothingLost /\ \A o \in owed : o \in Objects /\ Old(o)
Fits(w, r) ==
    /\ r = Idle \/ r \in Entries \/ r \in Jobs \/ r \in Downloads
    /\ r.phase \in Flying \cup {"stage", "link", "remove"} => r.todo # {}
    /\ r.phase \notin Flying => temp[w] = None
    /\ r.phase \in Flying => /\ r.own \in Objects /\ Old(r.own) /\ temp[w] \in Objects
                             /\ \A o \in owed : o.ino # r.own.ino
    /\ r.phase \in {"write", "swap"} => temp[w] = r.own
    /\ r.phase \in {"swap", "look", "unlink", "back"} => temp[w].left = 0
    /\ r.phase = "unlink" => temp[w] = r.expect[First(r.todo, r.links)]
    /\ r.phase \in {"down", "read", "check"} => Old(r.seen) /\ r.got \subseteq {r.seen.ver}
    /\ r.phase \in {"read", "check"} => r.left > 0
    /\ r.phase = "check" /\ r.data # r.seen.ver => Gone(r.seen)
FilesInv ==
    /\ Stored /\ Debts /\ DOMAIN work = Workers
    /\ \A w \in Workers : Fits(w, work[w])
=============================================================================
