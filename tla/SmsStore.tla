------------------------------ MODULE SmsStore ------------------------------
(***************************************************************************)
(* The SMS list: ReadCache, the vendor's web session and sending           *)
(* (rust/src/sms.rs).  State collection and the forwarder read the list    *)
(* through one cache whose lock is held over the vendor calls; a send and  *)
(* fresh_baseline bump REVISION without it.  The reader of a settings      *)
(* request may be dropped at an await.  The vendor's list is a number that *)
(* grows with every change; its capacity tells some changes, not all.      *)
(***************************************************************************)
EXTENDS Integers

CONSTANTS
    Readers,   \* callers of snapshot
    Editor,    \* the one of them that is fresh_baseline
    MaxBox,    \* bound: changes of the vendor's list
    MaxRev,    \* bound: invalidations
    MaxKey,    \* bound: session keys
    NoKey, Nobody, Never

ASSUME SmsStoreAssumption == Editor \in Readers /\ Nobody \notin Readers

VARIABLES
    rev,       \* REVISION
    cache,     \* CACHE
    lock, io,  \* who holds CACHE and SMS_IO
    pc,        \* where each reader is in snapshot
    seenRev,   \* the revision each reader has read
    asked,     \* the list when this reader invalidated, or Never
    got,       \* what snapshot returned: the list and whether it is stale
    key,       \* SESSION_KEY
    vendor,    \* the vendor: its list and the key it encrypts with
    keys       \* bound: keys made

vars == <<rev, cache, lock, io, pc, seenRev, asked, got, key, vendor, keys>>

Capacity(box) == box \div 2
Empty == [checked |-> FALSE, refreshed |-> FALSE, rev |-> 0, cap |-> Never,
          list |-> -1, err |-> FALSE]

Init ==
    /\ rev = 0 /\ cache = Empty
    /\ lock = Nobody /\ io = Nobody
    /\ pc = [r \in Readers |-> "idle"]
    /\ seenRev = [r \in Readers |-> 0]
    /\ asked = [r \in Readers |-> Never]
    /\ got = [r \in Readers |-> Never]
    /\ key = NoKey
    /\ vendor = [box |-> 0, key |-> NoKey, sealed |-> TRUE]
    /\ keys = 0

\* snapshot is called, by fresh_baseline after invalidate.
Call(r) ==
    /\ pc[r] = "idle"
    /\ pc' = [pc EXCEPT ![r] = "wait"]
    /\ r = Editor => rev < MaxRev
    /\ rev' = IF r = Editor THEN rev + 1 ELSE rev
    /\ asked' = [asked EXCEPT ![r] = IF r = Editor THEN vendor.box ELSE Never]
    /\ got' = [got EXCEPT ![r] = Never]
    /\ UNCHANGED <<cache, lock, io, seenRev, key, vendor, keys>>

\* ReadCache::value, and the end of snapshot.
Return(r, c) ==
    /\ cache' = c
    /\ got' = [got EXCEPT ![r] = IF c.cap = Never THEN Never
                                 ELSE [list |-> c.list, stale |-> c.err]]
    /\ pc' = [pc EXCEPT ![r] = "idle"]
    /\ lock' = Nobody
    /\ UNCHANGED <<rev, asked, vendor>>

\* The cache is locked; a list checked less than 5 s ago is returned.
Enter(r) ==
    /\ pc[r] = "wait"
    /\ lock = Nobody
    /\ seenRev' = [seenRev EXCEPT ![r] = rev]
    /\ IF cache.rev = rev /\ cache.checked
       THEN Return(r, cache)
       ELSE /\ lock' = r
            /\ cache' = [cache EXCEPT !.checked = TRUE]
            /\ pc' = [pc EXCEPT ![r] = "capacity"]
            /\ UNCHANGED <<rev, asked, got, vendor>>
    /\ UNCHANGED <<io, key, keys>>

MutNewRevision(r) == rev

\* The revision read when the cache was locked.
NewRevision(r) == seenRev[r]

\* zwrt_wms_get_wms_capacity fails, or tells whether the list is to be read.
ReadCapacity(r) ==
    /\ pc[r] = "capacity"
    /\ \/ Return(r, [cache EXCEPT !.err = TRUE])
       \/ LET cap     == Capacity(vendor.box)
              refresh == \/ cache.rev # seenRev[r]
                         \/ cache.cap # cap
                         \/ cache.err
                         \/ ~cache.refreshed
              c == [cache EXCEPT !.cap = cap, !.rev = NewRevision(r)]
          IN  IF refresh
              THEN /\ cache' = c
                   /\ pc' = [pc EXCEPT ![r] = "load"]
                   /\ UNCHANGED <<rev, lock, asked, got, vendor>>
              ELSE Return(r, c)
    /\ UNCHANGED <<io, seenRev, key, keys>>

\* ensure_crypto_session: the key in use, or a new one the vendor accepts.
EnsureSession ==
    \/ /\ key # NoKey
       /\ UNCHANGED <<key, keys, vendor>>
    \/ /\ key = NoKey
       /\ keys < MaxKey
       /\ keys' = keys + 1
       /\ key' = keys + 1
       /\ vendor' = [vendor EXCEPT !.key = keys + 1]

\* load_messages begins: SMS_IO is taken and a session is ensured, if the
\* vendor's web service answers.
BeginLoad(r) ==
    /\ pc[r] = "load"
    /\ io = Nobody
    /\ io' = r
    /\ \/ EnsureSession
       \/ key = NoKey /\ UNCHANGED <<key, keys, vendor>>
    /\ pc' = [pc EXCEPT ![r] = "read"]
    /\ UNCHANGED <<rev, cache, lock, seenRev, asked, got>>

\* normalize_lists: a sealed list needs the key the vendor used.
Readable == vendor.sealed => key # NoKey /\ key = vendor.key

Loaded(r, c, k) ==
    /\ io' = Nobody
    /\ key' = k
    /\ Return(r, c)

\* read_pages and normalize_lists: the list replaces the cached one when its
\* length matches the capacity.
ReadPages(r) ==
    /\ pc[r] \in {"read", "reread"}
    /\ Readable
    /\ IF Capacity(vendor.box) = cache.cap
       THEN Loaded(r, [cache EXCEPT !.list = vendor.box, !.err = FALSE, !.refreshed = TRUE], key)
       ELSE Loaded(r, [cache EXCEPT !.err = TRUE], key)
    /\ UNCHANGED <<seenRev, keys>>

\* A list that does not open is read once more under a new session.
Reregister(r) ==
    /\ pc[r] = "read"
    /\ ~Readable
    /\ keys < MaxKey
    /\ keys' = keys + 1
    /\ key' = keys + 1
    /\ vendor' = [vendor EXCEPT !.key = keys + 1]
    /\ pc' = [pc EXCEPT ![r] = "reread"]
    /\ UNCHANGED <<rev, cache, lock, io, seenRev, asked, got>>

\* The pages cannot be read, or do not open the second time either.
LoadFails(r) ==
    /\ \/ pc[r] = "read"   /\ Loaded(r, [cache EXCEPT !.err = TRUE], IF Readable THEN key ELSE NoKey)
       \/ pc[r] = "reread" /\ Loaded(r, [cache EXCEPT !.err = TRUE], NoKey)
    /\ UNCHANGED <<seenRev, keys>>

\* The request is closed or times out (40 s): its reader is dropped.
Drop(r) ==
    /\ r = Editor
    /\ pc[r] # "idle"
    /\ pc' = [pc EXCEPT ![r] = "idle"]
    /\ asked' = [asked EXCEPT ![r] = Never]
    /\ lock' = IF lock = r THEN Nobody ELSE lock
    /\ io' = IF io = r THEN Nobody ELSE io
    /\ UNCHANGED <<rev, cache, seenRev, got, key, vendor, keys>>

\* send: SMS_IO, a new session where the firmware wants one, one command, and
\* invalidate; the vendor lists the sent SMS.
SendSms ==
    /\ io = Nobody
    /\ rev < MaxRev
    /\ vendor.box < MaxBox
    /\ rev' = rev + 1
    /\ \/ /\ keys < MaxKey
          /\ keys' = keys + 1
          /\ key' = keys + 1
          /\ vendor' = [vendor EXCEPT !.key = keys + 1, !.box = @ + 1]
       \/ /\ vendor' = [vendor EXCEPT !.box = @ + 1]
          /\ UNCHANGED <<key, keys>>
    /\ UNCHANGED <<cache, lock, io, pc, seenRev, asked, got>>

\* The vendor's web interface takes over the session, or its list changes.
VendorChanges ==
    /\ \/ vendor' = [vendor EXCEPT !.key = NoKey]
       \/ vendor' = [vendor EXCEPT !.sealed = ~@]
       \/ vendor.box < MaxBox /\ vendor' = [vendor EXCEPT !.box = @ + 1]
    /\ UNCHANGED <<rev, cache, lock, io, pc, seenRev, asked, got, key, keys>>

\* 5 s since the last check, 30 s since the last list.
Age ==
    /\ \/ cache' = [cache EXCEPT !.checked = FALSE]
       \/ cache' = [cache EXCEPT !.checked = FALSE, !.refreshed = FALSE]
    /\ UNCHANGED <<rev, lock, io, pc, seenRev, asked, got, key, vendor, keys>>

Read(r) == \/ Call(r) \/ Enter(r) \/ ReadCapacity(r) \/ BeginLoad(r) \/ ReadPages(r)
           \/ Reregister(r) \/ LoadFails(r) \/ Drop(r)

Next == (\E r \in Readers : Read(r)) \/ SendSms \/ VendorChanges \/ Age

Spec == Init /\ [][Next]_vars

\* fresh_baseline gives a list that was read after it was called, or one that
\* says it is stale: what was in the inbox when forwarding is switched on is in
\* the baseline, although state collection shares the cache, a request before
\* was dropped in the middle of a load, and the invalidation falls into a read.
FreshBaseline ==
    \A r \in Readers :
       pc[r] = "idle" /\ asked[r] # Never /\ got[r] # Never
          => got[r].stale \/ got[r].list >= asked[r]

(***************************************************************************)
(* Proof of FreshBaseline.  A cache that carries the present revision has  *)
(* been checked since the last invalidation, or is being loaded under its  *)
(* lock; only a request that is dropped leaves it otherwise, and the next  *)
(* one raises the revision.                                                *)
(***************************************************************************)

Cache == [checked : BOOLEAN, refreshed : BOOLEAN, rev : Nat, cap : Int \cup {Never},
          list : Int, err : BOOLEAN]

Types ==
    /\ rev \in Nat /\ keys \in Nat
    /\ cache \in Cache
    /\ lock \in Readers \cup {Nobody}
    /\ pc \in [Readers -> {"idle", "wait", "capacity", "load", "read", "reread"}]
    /\ seenRev \in [Readers -> Nat]
    /\ asked \in [Readers -> Nat \cup {Never}]
    /\ got \in [Readers -> [list : Int, stale : BOOLEAN] \cup {Never}]
    /\ vendor \in [box : Nat, key : Nat \cup {NoKey}, sealed : BOOLEAN]

\* The readers past the lock of the cache, and those of them that load.
Inside == {"capacity", "load", "read", "reread"}
Loads == {"load", "read", "reread"}

\* The cache lock excludes; only fresh_baseline asks, for a list there was.
Locked ==
    /\ \A r \in Readers : pc[r] \in Inside <=> lock = r
    /\ cache.rev <= rev
    /\ \A r \in Readers : seenRev[r] <= rev
    /\ \A r \in Readers \ {Editor} : asked[r] = Never
    /\ asked[Editor] # Never => asked[Editor] <= vendor.box

\* The cached list is as new as the request, or says that it may not be.
Good == cache.err \/ cache.list >= asked[Editor]

Loading == \E r \in Readers : pc[r] \in Loads

\* What the revision says to a request in progress.
RevisionTells ==
    asked[Editor] # Never =>
        /\ pc[Editor] # "idle" => Good \/ cache.rev # rev \/ Loading
        /\ pc[Editor] = "capacity" => Good \/ cache.rev # seenRev[Editor]

SmsInv == Types /\ Locked /\ RevisionTells /\ FreshBaseline
=============================================================================
