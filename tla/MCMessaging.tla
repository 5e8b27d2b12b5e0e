---------------------------- MODULE MCMessaging ----------------------------
(***************************************************************************)
(* The parts of SMS forwarding, model-checked in one run.  `live` says     *)
(* which part a behaviour is about; the others keep their initial state.   *)
(* SmsStore is extended: its variables and constants are the module's own. *)
(* SmsForward has two instances: one follows the fingerprints of three SMS *)
(* over the network method, the other the SIM quota over two numbers.      *)
(* The second half of the module holds the proofs about the parts; the     *)
(* inductive invariants stand in the modules of the parts.                 *)
(***************************************************************************)
EXTENDS SmsStore, FiniteSets, Sequences, TLC, TLAPS, WellFoundedInduction, FiniteSetTheorems, SequenceTheorems

CONSTANTS m1, m2, m3, p1, p2, r1, r2
CONSTANTS None, Corrupt, Unusable, NoPower

CONSTANTS
    Undated, Blocked, Skew, Lags, MaxDaily,  \* of both instances of SmsForward
    InboxMsgs, InboxFromTarget, InboxMethods, InboxRequests, InboxPhones, InboxMaxSeen,
    InboxMaxInbox, InboxBatch, InboxDayLen, InboxMaxTime,
    QuotaMsgs, QuotaFromTarget, QuotaMethods, QuotaRequests, QuotaPhones, QuotaMaxSeen,
    QuotaMaxInbox, QuotaBatch, QuotaDayLen, QuotaMaxTime

CONSTANTS Levels, Points, Rearm, MaxTold  \* of PowerNotice

\* POWER_THRESHOLDS lie further apart than POWER_REARM_PERCENT.
ASSUME PowerAssumption ==
    /\ Levels \subseteq Nat /\ Points \subseteq Nat
    /\ Rearm \in Nat
    /\ \A p, q \in Points : p < q => q - p >= Rearm
    /\ NoPower \notin Points /\ NoPower \notin Levels \X (1..2)

\* An SMS list (512) is no longer than what MAX_SEEN (1024) remembers, and a day
\* takes time.  True time starts at 2 and the device clock is at most 2 behind,
\* so it is never before its epoch.  "sms" is the loop's own delivery.
ASSUME InboxAssumption ==
    /\ MaxDaily \in Nat /\ Lags \subseteq 0..2 /\ 0 \in Lags
    /\ InboxMaxSeen \in Nat /\ InboxMaxInbox \in Nat /\ InboxMaxInbox <= InboxMaxSeen
    /\ InboxDayLen \in Nat /\ InboxDayLen > 0 /\ "sms" \notin InboxRequests
    /\ None \notin InboxMsgs /\ IsFiniteSet(InboxPhones) /\ InboxPhones # {}

ASSUME QuotaAssumption ==
    /\ MaxDaily \in Nat /\ Lags \subseteq 0..2 /\ 0 \in Lags
    /\ QuotaMaxSeen \in Nat /\ QuotaMaxInbox \in Nat /\ QuotaMaxInbox <= QuotaMaxSeen
    /\ QuotaDayLen \in Nat /\ QuotaDayLen > 0 /\ "sms" \notin QuotaRequests
    /\ None \notin QuotaMsgs /\ IsFiniteSet(QuotaPhones) /\ QuotaPhones # {}

VARIABLES live,
    config, file, lastResult, job, edit, loop, snap, left, inbox, at, now, lag,
    recorded, day, sent, held,
    power, disk, notice, quiet, told,
    port, addresses, stage, tls, caps, secret, accepted, result

Inbox == INSTANCE SmsForward WITH
    Msgs <- InboxMsgs, FromTarget <- InboxFromTarget, Methods <- InboxMethods,
    Requests <- InboxRequests, Phones <- InboxPhones, MaxSeen <- InboxMaxSeen,
    MaxInbox <- InboxMaxInbox, Batch <- InboxBatch, DayLen <- InboxDayLen,
    MaxTime <- InboxMaxTime

Quota == INSTANCE SmsForward WITH
    Msgs <- QuotaMsgs, FromTarget <- QuotaFromTarget, Methods <- QuotaMethods,
    Requests <- QuotaRequests, Phones <- QuotaPhones, MaxSeen <- QuotaMaxSeen,
    MaxInbox <- QuotaMaxInbox, Batch <- QuotaBatch, DayLen <- QuotaDayLen,
    MaxTime <- QuotaMaxTime

Battery == INSTANCE PowerNotice

Mail == INSTANCE Smtp

smsVars == <<config, file, lastResult, job, edit, loop, snap, left, inbox, at,
             now, lag, recorded, day, sent, held>>
batteryVars == <<power, disk, notice, quiet, told>>
mailVars == <<port, addresses, stage, tls, caps, secret, accepted, result>>
allVars == <<live, smsVars, batteryVars, vars, mailVars>>

AllInit ==
    /\ live \in {"inbox", "quota", "battery", "store", "mail"}
    /\ IF live = "inbox" THEN Inbox!Init ELSE Quota!Init
    /\ Battery!Init /\ Init /\ Mail!Init

InboxStep == live = "inbox" /\ Inbox!Next /\ UNCHANGED <<live, batteryVars, vars, mailVars>>
QuotaStep == live = "quota" /\ Quota!Next /\ UNCHANGED <<live, batteryVars, vars, mailVars>>
BatteryStep == live = "battery" /\ Battery!Next /\ UNCHANGED <<live, smsVars, vars, mailVars>>
StoreStep == live = "store" /\ Next /\ UNCHANGED <<live, smsVars, batteryVars, mailVars>>
MailStep == live = "mail" /\ Mail!Next /\ UNCHANGED <<live, smsVars, batteryVars, vars>>

AllNext == InboxStep \/ QuotaStep \/ BatteryStep \/ StoreStep \/ MailStep

AllSpec == AllInit /\ [][AllNext]_allVars

\* SmsForward.NoReplay and SimQuota: a recorded SMS is not delivered again, and
\* the SIM is used at most MaxDaily times a day.
ForwardOnce == []Quota!SimQuota /\ Inbox!NoReplay

\* PowerNotice.WobbleOnce: a point is not reported twice in a wobble.
WobbleOnce == Battery!WobbleOnce

\* Smtp.SmtpSafe: credentials only over TLS, "sent" only when accepted.
SmtpSafe == Mail!SmtpSafe

(***************************************************************************)
(* Smtp: credentials only over TLS.                                        *)
(***************************************************************************)

LEMMA MailKept == Mail!SmtpInv /\ Mail!Next => Mail!SmtpInv'
<1> SUFFICES ASSUME Mail!SmtpInv, Mail!Next PROVE Mail!SmtpInv'
  OBVIOUS
<1> USE DEF Mail!SmtpInv, Mail!SmtpSafe, Mail!Stages, Mail!Dialogue
<1>1. CASE Mail!Dial
  <2>1. tls' \in BOOLEAN
    BY <1>1, Zenon DEF Mail!Dial, Mail!Stop
  <2>2. /\ stage' \in {"greeting", "done"} /\ secret' = {} /\ accepted' = accepted
        /\ stage' = "greeting" => addresses' = "public" /\ result' = "pending"
        /\ result' # "sent"
    <3> HIDE DEF Mail!SmtpSafe
    <3>1. CASE port' \in {465, 587} /\ addresses' = "public"
      BY <1>1, <3>1 DEF Mail!Dial
    <3>2. CASE ~(port' \in {465, 587} /\ addresses' = "public")
      BY <1>1, <3>2 DEF Mail!Dial, Mail!Stop
    <3> QED
      BY <3>1, <3>2
  <2> QED
    BY <2>1, <2>2
<1>2. CASE Mail!Break
  BY <1>2 DEF Mail!Break, Mail!Stop
<1>3. ASSUME NEW code \in Mail!Codes, Mail!Greeting(code) PROVE Mail!SmtpInv'
  BY <1>3 DEF Mail!Greeting, Mail!Stop
<1>4. ASSUME NEW code \in Mail!Codes, Mail!StartTls(code) PROVE Mail!SmtpInv'
  BY <1>4 DEF Mail!StartTls, Mail!Stop
<1>5. ASSUME NEW code \in Mail!Codes, Mail!Auth(code) PROVE Mail!SmtpInv'
  BY <1>5 DEF Mail!Auth, Mail!Stop
<1>6. ASSUME NEW code \in Mail!Codes, Mail!Transact(code) PROVE Mail!SmtpInv'
  <2>1. accepted' \in BOOLEAN /\ (result = "sent" => accepted')
    BY <1>6, Zenon DEF Mail!Transact
  <2>2. /\ UNCHANGED <<port, addresses, tls, caps, secret>>
        /\ stage' \in {"rcpt", "data", "body", "done"}
        /\ stage' # "done" => result' = result
        /\ result' = "sent" => stage = "body" /\ code = 250
    BY <1>6 DEF Mail!Transact, Mail!Stop
  <2>3. stage = "body" /\ code = 250 => accepted'
    BY <1>6, Zenon DEF Mail!Transact
  <2> QED
    BY <1>6, <2>1, <2>2, <2>3 DEF Mail!Transact
<1>7. ASSUME NEW code \in Mail!Codes, NEW c \in SUBSET {"AUTH", "STARTTLS"},
             Mail!Ehlo(code, c)
      PROVE  Mail!SmtpInv'
  BY <1>7 DEF Mail!Ehlo, Mail!Stop, Mail!CanAuth
<1> QED
  BY <1>1, <1>2, <1>3, <1>4, <1>5, <1>6, <1>7 DEF Mail!Next

\* One submission to any server, and whoever answers for it on the plain
\* stream: the credentials of AUTH PLAIN go only to a certified TLS stream to a
\* public address, and send returns "sent" only when the server took the
\* message (smtp_forward.rs, send and exchange).
THEOREM SmtpSafeHolds == AllSpec => []SmtpSafe
<1>1. AllInit => Mail!SmtpInv
  BY DEF AllInit, Mail!Init, Mail!SmtpInv, Mail!SmtpSafe, Mail!Stages
<1>2. Mail!SmtpInv /\ [AllNext]_allVars => Mail!SmtpInv'
  <2>1. Mail!SmtpInv /\ mailVars' = mailVars => Mail!SmtpInv'
    <3>1. mailVars' = mailVars =>
             /\ addresses' = addresses /\ stage' = stage /\ tls' = tls
             /\ secret' = secret /\ accepted' = accepted /\ result' = result
      BY DEF mailVars
    <3> QED
      BY <3>1, Zenon DEF Mail!SmtpInv, Mail!SmtpSafe
  <2>2. [AllNext]_allVars => Mail!Next \/ mailVars' = mailVars
    BY DEF AllNext, allVars, InboxStep, QuotaStep, BatteryStep, StoreStep, MailStep
  <2> QED
    BY <2>1, <2>2, MailKept
<1>3. Mail!SmtpInv => SmtpSafe
  BY DEF Mail!SmtpInv, SmtpSafe
<1> QED
  BY <1>1, <1>2, <1>3, PTL DEF AllSpec

(***************************************************************************)
(* SmsStore: FreshBaseline from SmsInv.                                    *)
(***************************************************************************)

\* How a reader leaves: with the cache it returns, which is as new as the
\* request if it is the one of fresh_baseline, and tells by its revision
\* otherwise.
LEMMA ReturnStep ==
    ASSUME SmsInv, NEW r \in Readers, NEW c \in Cache, Return(r, c),
           lock \in {r, Nobody}, c.rev <= rev, keys' \in Nat,
           seenRev' \in [Readers -> Nat], \A q \in Readers : seenRev'[q] <= rev,
           asked[Editor] # Never /\ pc[Editor] # "idle" =>
               c.err \/ c.list >= asked[Editor] \/ (r # Editor /\ c.rev # rev),
           pc[r] # "idle"
    PROVE  SmsInv'
<1> USE SmsStoreAssumption DEF SmsInv
<1>1. /\ cache' = c /\ lock' = Nobody /\ UNCHANGED <<rev, asked, vendor>>
      /\ pc' = [pc EXCEPT ![r] = "idle"]
      /\ got' = [got EXCEPT ![r] = IF c.cap = Never THEN Never
                                   ELSE [list |-> c.list, stale |-> c.err]]
  BY DEF Return
<1>2. c.err \in BOOLEAN /\ c.list \in Int
  BY DEF Cache
<1>3. Types'
  <2>1. [list |-> c.list, stale |-> c.err] \in [list : Int, stale : BOOLEAN]
    BY <1>2
  <2> QED
    BY <1>1, <2>1 DEF Types
<1>4. Locked'
  BY <1>1, <1>2 DEF Types, Locked, Inside
<1>5. pc'[Editor] # "capacity" /\ (pc'[Editor] # "idle" => r # Editor /\ pc[Editor] # "idle")
  BY <1>1 DEF Types, Locked, Inside
<1>6. RevisionTells'
  BY <1>1, <1>5 DEF RevisionTells, Good
<1>7. ASSUME NEW q \in Readers, pc'[q] = "idle", asked'[q] # Never, got'[q] # Never
      PROVE  got'[q].stale \/ got'[q].list >= asked'[q]
  <2>1. q = Editor /\ asked'[q] = asked[q]
    BY <1>1, <1>7 DEF Locked
  <2>2. CASE q = r
    BY <1>1, <1>2, <1>7, <2>1, <2>2 DEF Types
  <2>3. CASE q # r
    BY <1>1, <1>7, <2>1, <2>3 DEF Types, FreshBaseline
  <2> QED
    BY <2>2, <2>3
<1> QED
  BY <1>3, <1>4, <1>6, <1>7 DEF FreshBaseline

\* A snapshot begins; that of fresh_baseline raises the revision first.
LEMMA CallStep ==
    ASSUME SmsInv, NEW r \in Readers, Call(r)
    PROVE  SmsInv'
<1> USE SmsStoreAssumption DEF SmsInv
<1>1. /\ pc[r] = "idle" /\ pc' = [pc EXCEPT ![r] = "wait"]
      /\ rev' = IF r = Editor THEN rev + 1 ELSE rev
      /\ asked' = [asked EXCEPT ![r] = IF r = Editor THEN vendor.box ELSE Never]
      /\ got' = [got EXCEPT ![r] = Never]
      /\ UNCHANGED <<cache, lock, io, seenRev, key, vendor, keys>>
  BY DEF Call
<1>2. vendor.box \in Nat /\ cache.rev \in Nat
  BY DEF Types, Cache
<1>3. Types'
  BY <1>1, <1>2 DEF Types
<1>4. Locked'
  BY <1>1, <1>2 DEF Types, Locked, Inside
<1>5. Loading => Loading'
  BY <1>1 DEF Loading, Loads, Types
<1>6. RevisionTells'
  <2>1. CASE r = Editor
    BY <1>1, <1>2, <2>1 DEF RevisionTells, Types, Locked
  <2>2. CASE r # Editor
    BY <1>1, <1>5, <2>2 DEF RevisionTells, Types, Good
  <2> QED
    BY <2>1, <2>2
<1>7. FreshBaseline'
  BY <1>1 DEF Types, FreshBaseline
<1> QED
  BY <1>3, <1>4, <1>6, <1>7

\* The lock is taken, or a cache of the present revision is returned.
LEMMA EnterStep ==
    ASSUME SmsInv, NEW r \in Readers, Enter(r)
    PROVE  SmsInv'
<1> USE SmsStoreAssumption DEF SmsInv
<1>1. /\ pc[r] = "wait" /\ lock = Nobody /\ keys' = keys
      /\ seenRev' = [seenRev EXCEPT ![r] = rev]
  BY DEF Enter
<1>2. /\ seenRev' \in [Readers -> Nat]
      /\ \A q \in Readers : seenRev'[q] <= rev
      /\ seenRev'[r] = rev
  BY <1>1 DEF Types, Locked
<1>3. ~Loading
  BY <1>1 DEF Loading, Loads, Locked, Inside, Types
<1>4. asked[Editor] # Never /\ pc[Editor] # "idle" => Good \/ cache.rev # rev
  BY <1>3 DEF RevisionTells
<1>5. CASE cache.rev = rev /\ cache.checked
  <2>1. Return(r, cache)
    BY <1>5 DEF Enter
  <2>2. cache \in Cache /\ cache.rev <= rev /\ keys' \in Nat
    BY <1>1 DEF Types, Locked
  <2>3. asked[Editor] # Never /\ pc[Editor] # "idle" =>
          cache.err \/ cache.list >= asked[Editor]
    BY <1>4, <1>5 DEF Good
  <2> QED
    BY <1>1, <1>2, <2>1, <2>2, <2>3, ReturnStep
<1>6. CASE ~(cache.rev = rev /\ cache.checked)
  <2>1. /\ lock' = r /\ cache' = [cache EXCEPT !.checked = TRUE]
        /\ pc' = [pc EXCEPT ![r] = "capacity"]
        /\ UNCHANGED <<rev, asked, got, vendor>>
    BY <1>6 DEF Enter
  <2>2. /\ cache' \in Cache /\ cache'.rev = cache.rev /\ cache'.err = cache.err
        /\ cache'.list = cache.list
    BY <2>1 DEF Types, Cache
  <2>3. Types'
    BY <1>1, <1>2, <2>1, <2>2 DEF Types
  <2>4. Locked'
    BY <1>1, <1>2, <2>1, <2>2 DEF Types, Locked, Inside
  <2>5. Good' <=> Good
    BY <2>1, <2>2 DEF Good
  <2>6. pc'[Editor] = "capacity" => r = Editor
    BY <1>1, <2>1 DEF Types, Locked, Inside
  <2>7. RevisionTells'
    BY <1>1, <1>2, <1>4, <2>1, <2>2, <2>5, <2>6 DEF RevisionTells, Types
  <2>8. FreshBaseline'
    BY <1>1, <2>1 DEF Types, FreshBaseline
  <2> QED
    BY <2>3, <2>4, <2>7, <2>8
<1> QED
  BY <1>5, <1>6

\* The capacity decides whether the list is read; the cache takes the revision
\* its reader saw.
LEMMA CapacityStep ==
    ASSUME SmsInv, NEW r \in Readers, ReadCapacity(r)
    PROVE  SmsInv'
<1> USE SmsStoreAssumption DEF SmsInv
<1>1. pc[r] = "capacity" /\ lock = r /\ seenRev' = seenRev /\ keys' = keys
  BY DEF ReadCapacity, Locked, Inside
<1>2. seenRev' \in [Readers -> Nat] /\ (\A q \in Readers : seenRev'[q] <= rev) /\ keys' \in Nat
  BY <1>1 DEF Types, Locked
<1>3. ~Loading
  BY <1>1 DEF Loading, Loads, Locked, Inside, Types
<1>4. CASE Return(r, [cache EXCEPT !.err = TRUE])
  <2> DEFINE c == [cache EXCEPT !.err = TRUE]
  <2>1. c \in Cache /\ c.rev <= rev /\ c.err
    BY DEF Types, Locked, Cache
  <2> HIDE DEF c
  <2> QED
    BY <1>1, <1>2, <1>4, <2>1, ReturnStep DEF c
<1> DEFINE cap == Capacity(vendor.box)
           refresh == \/ cache.rev # seenRev[r] \/ cache.cap # cap
                      \/ cache.err \/ ~cache.refreshed
           c == [cache EXCEPT !.cap = cap, !.rev = NewRevision(r)]
<1>5. /\ c \in Cache /\ c.rev = seenRev[r] /\ c.err = cache.err /\ c.list = cache.list
      /\ c.rev <= rev
  <2>1. cap \in Int
    BY DEF Capacity, Types
  <2>2. cache \in Cache /\ seenRev[r] \in Nat /\ seenRev[r] <= rev
    BY DEF Types, Locked
  <2> HIDE DEF cap
  <2>3. c \in Cache
    BY <2>1, <2>2 DEF Cache, NewRevision
  <2>4. c.rev = seenRev[r]
    BY <2>2 DEF Cache, NewRevision
  <2>5. c.err = cache.err /\ c.list = cache.list
    BY <2>2 DEF Cache
  <2> QED
    BY <2>2, <2>3, <2>4, <2>5
<1> HIDE DEF c
<1>6. CASE refresh /\ /\ cache' = c /\ pc' = [pc EXCEPT ![r] = "load"]
                      /\ UNCHANGED <<rev, lock, asked, got, vendor>>
  <2>1. Types'
    BY <1>1, <1>2, <1>5, <1>6 DEF Types
  <2>2. Locked'
    BY <1>1, <1>2, <1>5, <1>6 DEF Types, Locked, Inside
  <2>3. Loading'
    BY <1>6 DEF Loading, Loads, Types
  <2>4. pc'[Editor] # "capacity"
    BY <1>1, <1>6 DEF Types, Locked, Inside
  <2>5. RevisionTells'
    BY <2>3, <2>4 DEF RevisionTells
  <2>6. FreshBaseline'
    BY <1>1, <1>6 DEF Types, FreshBaseline
  <2> QED
    BY <2>1, <2>2, <2>5, <2>6
<1>7. CASE ~refresh /\ Return(r, c)
  <2>1. cache.rev = seenRev[r] /\ c.rev = cache.rev
    BY <1>5, <1>7
  <2>2. asked[Editor] # Never /\ pc[Editor] # "idle" =>
          c.err \/ c.list >= asked[Editor] \/ (r # Editor /\ c.rev # rev)
    BY <1>1, <1>3, <1>5, <2>1 DEF RevisionTells, Good
  <2> QED
    BY <1>1, <1>2, <1>5, <1>7, <2>2, ReturnStep
<1> QED
  BY <1>4, <1>6, <1>7 DEF ReadCapacity, c

\* The vendor's session changes, or one stage of a load follows another.
LEMMA SessionStep ==
    ASSUME SmsInv, NEW r \in Readers, BeginLoad(r) \/ Reregister(r)
    PROVE  SmsInv'
<1> USE SmsStoreAssumption DEF SmsInv
<1>1. /\ pc[r] \in Loads /\ UNCHANGED <<rev, cache, lock, seenRev, asked, got>>
      /\ \E l \in Loads : pc' = [pc EXCEPT ![r] = l]
  BY DEF BeginLoad, Reregister, Loads
<1>2. keys' \in Nat /\ vendor' \in [box : Nat, key : Nat \cup {NoKey}, sealed : BOOLEAN]
      /\ vendor'.box = vendor.box
  BY DEF BeginLoad, Reregister, EnsureSession, Types
<1>3. Types'
  BY <1>1, <1>2 DEF Types, Loads
<1>4. Locked'
  BY <1>1, <1>2 DEF Types, Locked, Inside, Loads
<1>5. Loading'
  BY <1>1 DEF Loading, Loads, Types
<1>6. pc'[Editor] = "capacity" => pc[Editor] = "capacity"
  BY <1>1 DEF Types, Loads
<1>7. RevisionTells'
  BY <1>1, <1>5, <1>6 DEF RevisionTells, Good
<1>8. FreshBaseline'
  BY <1>1 DEF Types, FreshBaseline, Loads
<1> QED
  BY <1>3, <1>4, <1>7, <1>8

\* A load ends with the present list, or with the error.
LEMMA LoadStep ==
    ASSUME SmsInv, NEW r \in Readers, ReadPages(r) \/ LoadFails(r)
    PROVE  SmsInv'
<1> USE SmsStoreAssumption DEF SmsInv
<1>1. pc[r] \in Loads /\ seenRev' = seenRev /\ keys' = keys
  BY DEF ReadPages, LoadFails, Loads
<1>2. lock = r
  BY <1>1 DEF Locked, Inside, Loads
<1>3. seenRev' \in [Readers -> Nat] /\ (\A q \in Readers : seenRev'[q] <= rev) /\ keys' \in Nat
  BY <1>1 DEF Types, Locked
<1>4. CASE Return(r, [cache EXCEPT !.err = TRUE])
  <2> DEFINE c == [cache EXCEPT !.err = TRUE]
  <2>1. c \in Cache /\ c.rev <= rev /\ c.err
    BY DEF Types, Locked, Cache
  <2>2. Return(r, c) /\ pc[r] # "idle"
    BY <1>1, <1>4 DEF Loads
  <2> HIDE DEF c
  <2> QED
    BY <1>2, <1>3, <2>1, <2>2, ReturnStep
<1>5. CASE Return(r, [cache EXCEPT !.list = vendor.box, !.err = FALSE, !.refreshed = TRUE])
  <2> DEFINE c == [cache EXCEPT !.list = vendor.box, !.err = FALSE, !.refreshed = TRUE]
  <2>1. cache \in Cache /\ vendor.box \in Nat /\ cache.rev <= rev
    BY DEF Types, Locked
  <2>2. c \in Cache
    <3>0. PICK l \in Int : l = vendor.box
      BY <2>1
    <3>1. PICK d \in Cache : d = [cache EXCEPT !.list = vendor.box]
      BY <2>1, <3>0 DEF Cache
    <3>2. PICK e \in Cache : e = [d EXCEPT !.err = FALSE]
      BY DEF Cache
    <3>3. [e EXCEPT !.refreshed = TRUE] \in Cache
      BY DEF Cache
    <3>4. c = [e EXCEPT !.refreshed = TRUE]
      BY <2>1, <3>1, <3>2 DEF Cache
    <3> QED
      BY <3>3, <3>4
  <2>3. c.rev = cache.rev /\ c.list = vendor.box
    BY <2>1 DEF Cache
  <2>4. Return(r, c) /\ pc[r] # "idle"
    BY <1>1, <1>5 DEF Loads
  <2> HIDE DEF c
  <2>5. asked[Editor] # Never => c.list >= asked[Editor]
    BY <2>1, <2>3 DEF Locked, Types
  <2> QED
    BY <1>2, <1>3, <2>1, <2>2, <2>3, <2>4, <2>5, ReturnStep
<1> QED
  BY <1>4, <1>5 DEF ReadPages, LoadFails, Loaded

\* The reader of a settings request is dropped: it asks no more.
LEMMA DropStep ==
    ASSUME SmsInv, NEW r \in Readers, Drop(r)
    PROVE  SmsInv'
<1> USE SmsStoreAssumption DEF SmsInv
<1>1. /\ r = Editor /\ pc' = [pc EXCEPT ![r] = "idle"]
      /\ asked' = [asked EXCEPT ![r] = Never]
      /\ lock' = IF lock = r THEN Nobody ELSE lock
      /\ UNCHANGED <<rev, cache, seenRev, got, key, vendor, keys>>
  BY DEF Drop
<1>2. Types'
  BY <1>1 DEF Types
<1>3. Locked'
  BY <1>1 DEF Types, Locked, Inside
<1>4. RevisionTells'
  BY <1>1 DEF Types, RevisionTells
<1>5. FreshBaseline'
  BY <1>1 DEF Types, Locked, FreshBaseline
<1> QED
  BY <1>2, <1>3, <1>4, <1>5

\* A send, the vendor and time: the list grows, the revision does, the cache
\* is aged.
LEMMA OutsideStep ==
    ASSUME SmsInv, SendSms \/ VendorChanges \/ Age
    PROVE  SmsInv'
<1> USE SmsStoreAssumption DEF SmsInv
<1>1. UNCHANGED <<lock, pc, seenRev, asked, got>> /\ rev' \in {rev, rev + 1} /\ keys' \in Nat
  BY DEF SendSms, VendorChanges, Age, Types
<1>2. /\ vendor' \in [box : Nat, key : Nat \cup {NoKey}, sealed : BOOLEAN]
      /\ vendor'.box >= vendor.box
  <2>1. vendor \in [box : Nat, key : Nat \cup {NoKey}, sealed : BOOLEAN] /\ keys \in Nat
    BY DEF Types
  <2> DEFINE Boxes == [box : Nat, key : Nat \cup {NoKey}, sealed : BOOLEAN]
  <2>0. /\ [vendor EXCEPT !.box = vendor.box + 1] \in Boxes
        /\ [vendor EXCEPT !.box = vendor.box + 1].box = vendor.box + 1
    BY <2>1
  <2>2. CASE SendSms
    <3>1. CASE vendor' = [vendor EXCEPT !.key = keys + 1, !.box = vendor.box + 1]
      <4>1. vendor' \in Boxes
        <5>1. vendor' = [box |-> vendor.box + 1, key |-> keys + 1, sealed |-> vendor.sealed]
          BY <2>1, <3>1
        <5> QED
          BY <2>1, <5>1
      <4>2. vendor'.box = vendor.box + 1
        BY <2>1, <3>1
      <4> QED
        BY <2>1, <4>1, <4>2
    <3>2. CASE vendor' = [vendor EXCEPT !.box = vendor.box + 1]
      BY <2>0, <2>1, <3>2
    <3> QED
      BY <2>2, <3>1, <3>2 DEF SendSms
  <2>3. CASE VendorChanges
    <3>1. CASE vendor' = [vendor EXCEPT !.key = NoKey]
      BY <2>1, <3>1
    <3>2. CASE vendor' = [vendor EXCEPT !.sealed = ~vendor.sealed]
      <4>1. PICK b \in BOOLEAN : b = ~vendor.sealed
        OBVIOUS
      <4>2. vendor' = [vendor EXCEPT !.sealed = b]
        BY <3>2, <4>1
      <4> QED
        BY <2>1, <4>2
    <3>3. CASE vendor' = [vendor EXCEPT !.box = vendor.box + 1]
      BY <2>0, <2>1, <3>3
    <3> QED
      BY <2>3, <3>1, <3>2, <3>3 DEF VendorChanges
  <2>4. CASE Age
    BY <2>1, <2>4 DEF Age
  <2> QED
    BY <2>2, <2>3, <2>4
<1>3. /\ cache' \in Cache /\ cache'.rev = cache.rev /\ cache'.err = cache.err
      /\ cache'.list = cache.list
  <2>1. cache \in Cache
    BY DEF Types
  <2>2. CASE cache' = cache
    BY <2>1, <2>2
  <2>3. CASE cache' = [cache EXCEPT !.checked = FALSE]
    BY <2>1, <2>3 DEF Cache
  <2>4. CASE cache' = [cache EXCEPT !.checked = FALSE, !.refreshed = FALSE]
    BY <2>1, <2>4 DEF Cache
  <2> QED
    BY <2>2, <2>3, <2>4 DEF SendSms, VendorChanges, Age
<1>4. Types'
  BY <1>1, <1>2, <1>3 DEF Types
<1>5. Locked'
  BY <1>1, <1>2, <1>3 DEF Types, Locked, Cache
<1>6. cache'.rev # rev' \/ rev' = rev
  BY <1>1, <1>3 DEF Types, Locked, Cache
<1>7. (Good' <=> Good) /\ (Loading' <=> Loading)
  BY <1>1, <1>3 DEF Good, Loading
<1>8. RevisionTells'
  BY <1>1, <1>3, <1>6, <1>7 DEF RevisionTells
<1>9. FreshBaseline'
  BY <1>1 DEF FreshBaseline
<1> QED
  BY <1>4, <1>5, <1>8, <1>9

\* Every step of the readers and of what is around them.
LEMMA StepSms ==
    ASSUME SmsInv, [Next]_vars
    PROVE  SmsInv'
<1>1. CASE UNCHANGED vars
  BY <1>1 DEF vars, SmsInv, Types, Locked, RevisionTells, Good, Loading, FreshBaseline
<1> QED
  BY <1>1, CallStep, EnterStep, CapacityStep, SessionStep, LoadStep, DropStep, OutsideStep
     DEF Next, Read

\* fresh_baseline gives a list that was read after it was called, or one that
\* says it is stale (snapshot, ReadCache, invalidate), for any readers of the
\* cache, any changes of the vendor's list and any requests that are dropped.
THEOREM FreshBaselineHolds == Spec => []FreshBaseline
<1>1. Init => SmsInv
  BY SmsStoreAssumption DEF Init, Empty, Cache, SmsInv, Types, Locked, Inside, RevisionTells,
                            FreshBaseline
<1>2. SmsInv /\ [Next]_vars => SmsInv'
  BY StepSms
<1>3. SmsInv => FreshBaseline
  BY DEF SmsInv
<1> QED
  BY <1>1, <1>2, <1>3, PTL DEF Spec

(***************************************************************************)
(* PowerNotice: WobbleOnce from WobbleInv.                                 *)
(***************************************************************************)

LEMMA LeastNatural ==
    ASSUME NEW T, T \subseteq Nat, T # {}
    PROVE  \E x \in T : \A y \in T : x <= y
<1> DEFINE R == OpToRel(<, Nat)
<1>1. IsWellFoundedOn(R, Nat)
  BY NatLessThanWellFounded, Zenon
<1>2. \A a, b \in Nat : a < b => <<a, b>> \in R
  BY DEF OpToRel
<1> HIDE DEF R
<1>3. PICK x \in T : \A y \in T : ~(<<y, x>> \in R)
  BY WFMin, <1>1, Zenon
<1>4. \A y \in T : ~(y < x)
  BY <1>2, <1>3
<1> QED
  BY <1>4

LEMMA GreatestNatural ==
    ASSUME NEW T, T \subseteq Nat, T # {}, NEW b \in Nat, \A t \in T : t <= b
    PROVE  \E x \in T : \A y \in T : y <= x
<1> DEFINE D == {b - t : t \in T}
<1>0. D \subseteq Nat /\ D # {}
  <2>1. PICK t \in T : TRUE
    OBVIOUS
  <2>2. b - t \in D
    OBVIOUS
  <2> QED
    BY <2>2
<1>1. PICK d \in D : \A e \in D : d <= e
  <2> HIDE DEF D
  <2> QED
    BY <1>0, LeastNatural
<1>2. PICK x \in T : d = b - x
  BY <1>1
<1>3. \A y \in T : b - x <= b - y
  BY <1>1, <1>2
<1> QED
  BY <1>3

\* crossed_power_threshold names the last point on the way, or none.
LEMMA CrossedOnTheWay ==
    ASSUME NEW old \in Nat, NEW new \in Nat, NEW q, q = Battery!Crossed(old, new), q # NoPower
    PROVE  /\ q \in Points
           /\ \/ /\ old < q /\ q <= new
                 /\ \A p \in Points : ~(q < p /\ p <= new)
              \/ /\ old > q /\ q >= new
                 /\ \A p \in Points : ~(new <= p /\ p < q)
<1> DEFINE up   == {p \in Points : old < p /\ new >= p}
           down == {p \in Points : old > p /\ new <= p}
<1>1. CASE up # {}
  <2>1. \E p \in up : \A r \in up : r <= p
    BY <1>1, GreatestNatural, PowerAssumption
  <2>2. q = CHOOSE p \in up : \A r \in up : r <= p
    BY <1>1 DEF Battery!Crossed
  <2>3. q \in up /\ \A r \in up : r <= q
    <3> HIDE DEF up
    <3> QED BY <2>1, <2>2
  <2> QED
    BY <2>3, PowerAssumption
<1>2. CASE up = {} /\ down # {}
  <2>1. \E p \in down : \A r \in down : p <= r
    BY <1>2, LeastNatural, PowerAssumption
  <2>2. q = CHOOSE p \in down : \A r \in down : p <= r
    BY <1>2 DEF Battery!Crossed
  <2>3. q \in down /\ \A r \in down : q <= r
    <3> HIDE DEF down
    <3> QED BY <2>1, <2>2
  <2> QED
    BY <2>3, PowerAssumption
<1>3. CASE up = {} /\ down = {}
  BY <1>3 DEF Battery!Crossed
<1> QED
  BY <1>1, <1>2, <1>3

\* A level near a point has no other point on the way to it.
LEMMA NearAdjacent ==
    ASSUME NEW p \in Points, NEW r \in Battery!Readings, Battery!Distance(r[1], p) < Rearm
    PROVE  Battery!Adjacent(p, r)
<1>1. r[1] \in Nat /\ p \in Nat /\ Points \subseteq Nat /\ Rearm \in Nat
  BY PowerAssumption DEF Battery!Readings
<1> QED
  BY <1>1, PowerAssumption DEF Battery!Adjacent, Battery!Distance

\* A baseline that changes its level and keeps its suppressed point.
LEMMA SamePoint ==
    ASSUME Battery!WobbleInv, NEW r \in Battery!Readings \cup {NoPower},
           NEW n, quiet' = Battery!Near(r), told' \in Nat,
           power' \in Battery!Baselines, disk' \in Battery!Baselines,
           power'.point = power.point, disk'.point = disk.point,
           power'.last \in {power.last, disk.last, r}, disk'.last \in {power.last, disk.last, r}
    PROVE  Battery!WobbleInv'
<1>1. quiet' \subseteq quiet
  BY DEF Battery!Near
<1>2. \A p \in quiet' : Battery!Adjacent(p, r)
  <2> SUFFICES ASSUME NEW p \in quiet' PROVE Battery!Adjacent(p, r)
    OBVIOUS
  <2>1. CASE r = NoPower
    BY <2>1 DEF Battery!Adjacent
  <2>2. CASE r # NoPower
    <3>1. p \in Points /\ Battery!Distance(r[1], p) < Rearm
      BY <2>2 DEF Battery!Near, Battery!WobbleInv
    <3> QED
      BY <2>2, <3>1, NearAdjacent
  <2> QED
    BY <2>1, <2>2
<1>3. \A p \in quiet' : /\ Battery!Adjacent(p, power'.last)
                        /\ Battery!Adjacent(p, disk'.last)
                        /\ power'.point = p /\ disk'.point = p
  BY <1>1, <1>2 DEF Battery!WobbleInv
<1> QED
  BY <1>1, <1>3 DEF Battery!WobbleInv, Battery!Adjacent

\* An observed change that is recorded: the new point is the only one left to
\* suppress, since the old one is not near.
LEMMA RecordedStep ==
    ASSUME Battery!WobbleInv, NEW r \in Battery!Readings, power.last \in Battery!Readings,
           NEW hit, hit = Battery!Crossed(power.last[1], r[1]),
           NEW point, point = IF hit = Battery!Armed(r) THEN NoPower ELSE hit,
           NEW next, next = [power EXCEPT !.last = r,
                                 !.point = IF point = NoPower THEN Battery!Armed(r) ELSE point],
           power' = next, disk' = next, told' \in Nat,
           quiet' = Battery!Near(r) \cup (IF point = NoPower THEN {} ELSE {point})
    PROVE  Battery!WobbleInv'
<1>0. /\ power.last[1] \in Nat /\ r[1] \in Nat /\ Points \subseteq Nat /\ Rearm \in Nat
      /\ NoPower \notin Points /\ r # NoPower /\ power.last # NoPower
  BY PowerAssumption DEF Battery!Readings, Battery!Charging
<1>1. point # NoPower => /\ point \in Points /\ Battery!Adjacent(point, r)
                         /\ point = hit
  BY <1>0, CrossedOnTheWay DEF Battery!Adjacent
<1>2. ASSUME NEW p \in Battery!Near(r) PROVE point = NoPower /\ Battery!Armed(r) = p
  <2>1. /\ p \in quiet /\ p \in Points /\ power.point = p /\ Battery!Adjacent(p, power.last)
        /\ Battery!Distance(r[1], p) < Rearm
    BY <1>0 DEF Battery!Near, Battery!WobbleInv
  <2>2. Battery!Armed(r) = p
    BY <1>0, <2>1 DEF Battery!Armed, Battery!Distance
  <2>3. CASE point # NoPower
    <3>1. hit # p /\ hit \in Points /\ hit # NoPower
      BY <2>2, <2>3, <1>1
    <3>2. \/ power.last[1] < hit /\ hit <= r[1]
          \/ power.last[1] > hit /\ hit >= r[1]
      BY <3>1, <1>0, CrossedOnTheWay
    <3>3. ~(p < hit /\ hit <= power.last[1]) /\ ~(power.last[1] <= hit /\ hit < p)
      BY <1>0, <2>1, <3>1 DEF Battery!Adjacent
    <3> QED
      BY <1>0, <2>1, <3>1, <3>2, <3>3, PowerAssumption DEF Battery!Distance
  <2> QED
    BY <2>2, <2>3
<1>3. next.point = (IF point = NoPower THEN Battery!Armed(r) ELSE point) /\ next.last = r
  BY DEF Battery!WobbleInv, Battery!Baselines
<1>4. Battery!Armed(r) \in Points \cup {NoPower}
  BY DEF Battery!Armed, Battery!WobbleInv, Battery!Baselines
<1>5. next \in Battery!Baselines
  BY <1>1, <1>4 DEF Battery!WobbleInv, Battery!Baselines
<1>6. ASSUME NEW p \in quiet'
      PROVE  p \in Points /\ power'.point = p /\ Battery!Adjacent(p, r)
  <2>1. CASE p \in Battery!Near(r)
    <3>1. p \in Points /\ Battery!Distance(r[1], p) < Rearm
      BY <1>0, <2>1 DEF Battery!Near, Battery!WobbleInv
    <3> QED
      BY <1>2, <1>3, <2>1, <3>1, NearAdjacent
  <2>2. CASE p \notin Battery!Near(r)
    BY <1>1, <1>3, <2>2
  <2> QED
    BY <2>1, <2>2
<1> QED
  BY <1>3, <1>5, <1>6 DEF Battery!WobbleInv, Battery!Adjacent

\* What an observation does: the suppressed point stays suppressed while the
\* level is near it, in memory and on disk.
LEMMA ObserveStep ==
    ASSUME Battery!WobbleInv, NEW r \in Battery!Readings \cup {NoPower}, Battery!Observe(r)
    PROVE  Battery!WobbleInv'
<1>1. told' \in Nat
  <2>1. \E n : Battery!Note(r, n)
    BY Zenon DEF Battery!Observe
  <2> QED
    BY <2>1 DEF Battery!Note, Battery!WobbleInv
<1>2. power \in Battery!Baselines /\ disk \in Battery!Baselines
  BY DEF Battery!WobbleInv
<1>3. CASE r = power.last /\ Battery!Note(r, Battery!Silent) /\ UNCHANGED <<power, disk>>
  <2>1. quiet' = Battery!Near(r)
    BY <1>3 DEF Battery!Note, Battery!Silent
  <2> QED
    BY <1>1, <1>2, <1>3, <2>1, SamePoint
<1>4. CASE /\ power' = [power EXCEPT !.last = r]
           /\ Battery!Note(r, Battery!Silent) /\ UNCHANGED disk
  <2>1. quiet' = Battery!Near(r)
    BY <1>4 DEF Battery!Note, Battery!Silent
  <2>2. power' \in Battery!Baselines /\ power'.last = r /\ power'.point = power.point
    BY <1>2, <1>4 DEF Battery!Baselines
  <2> QED
    BY <1>1, <1>2, <1>4, <2>1, <2>2, SamePoint
<1>5. CASE /\ \E ok \in BOOLEAN : Battery!Keep([power EXCEPT !.last = r], ok)
           /\ Battery!Note(r, Battery!Silent)
  <2>1. quiet' = Battery!Near(r)
    BY <1>5 DEF Battery!Note, Battery!Silent
  <2>2. LET n == [power EXCEPT !.last = r] IN
           n \in Battery!Baselines /\ n.last = r /\ n.point = power.point
    BY <1>2 DEF Battery!Baselines
  <2>3. \/ power' = [power EXCEPT !.last = r] /\ disk' = power'
        \/ power' = power /\ disk' = disk
    BY <1>5 DEF Battery!Keep
  <2>4. quiet # {} => disk.point = power.point
    BY DEF Battery!WobbleInv
  <2>5. CASE quiet = {}
    BY <1>1, <1>2, <2>1, <2>2, <2>3, <2>5 DEF Battery!WobbleInv, Battery!Near
  <2> QED
    BY <1>1, <1>2, <2>1, <2>2, <2>3, <2>4, <2>5, SamePoint
<1>6. CASE /\ NoPower \notin {r, power.last}
           /\ UNCHANGED <<power, disk>> /\ Battery!Note(r, Battery!Silent)
  <2>1. quiet' = Battery!Near(r)
    BY <1>6 DEF Battery!Note, Battery!Silent
  <2> QED
    BY <1>1, <1>2, <1>6, <2>1, SamePoint
<1>7. CASE /\ NoPower \notin {r, power.last}
           /\ LET hit    == Battery!Crossed(power.last[1], r[1])
                  point  == IF hit = Battery!Armed(r) THEN NoPower ELSE hit
                  charge == r[2] # power.last[2]
                  next   == [power EXCEPT !.last = r,
                                 !.point = IF point = NoPower THEN Battery!Armed(r) ELSE point]
                  n      == [charge |-> charge, point |-> point]
              IN  Battery!Keep(next, TRUE) /\ Battery!Note(r, n)
  <2> DEFINE hit    == Battery!Crossed(power.last[1], r[1])
             point  == IF hit = Battery!Armed(r) THEN NoPower ELSE hit
             next   == [power EXCEPT !.last = r,
                            !.point = IF point = NoPower THEN Battery!Armed(r) ELSE point]
  <2>1. power' = next /\ disk' = next
    BY <1>7 DEF Battery!Keep
  <2>2. quiet' = Battery!Near(r) \cup (IF point = NoPower THEN {} ELSE {point})
    BY <1>7 DEF Battery!Note
  <2>3. r \in Battery!Readings /\ power.last \in Battery!Readings
    BY <1>2, <1>7 DEF Battery!Baselines
  <2> QED
    BY <1>1, <2>1, <2>2, <2>3, RecordedStep
<1> QED
  BY <1>3, <1>4, <1>5, <1>6, <1>7 DEF Battery!Observe

LEMMA SwitchStep ==
    ASSUME Battery!WobbleInv, NEW explicit \in BOOLEAN, NEW on \in BOOLEAN,
           NEW enabled \in BOOLEAN, NEW r \in Battery!Readings \cup {NoPower},
           Battery!Switch(explicit, on, enabled, r)
    PROVE  Battery!WobbleInv'
<1> DEFINE next == [power EXCEPT !.on = IF explicit THEN on ELSE @, !.enabled = enabled,
                       !.last = IF explicit \/ (enabled /\ ~power.enabled /\ power.on)
                                THEN r ELSE @]
<1>1. power' = next /\ disk' = next /\ told' = told /\ quiet' = Battery!Near(r)
  BY DEF Battery!Switch, Battery!Keep
<1>2. /\ power \in Battery!Baselines /\ disk \in Battery!Baselines /\ told \in Nat
      /\ quiet # {} => disk.point = power.point
  BY DEF Battery!WobbleInv
<1>3. next \in Battery!Baselines /\ next.point = power.point /\ next.last \in {power.last, r}
  BY <1>2 DEF Battery!Baselines
<1>4. CASE quiet = {}
  BY <1>1, <1>2, <1>3, <1>4 DEF Battery!WobbleInv, Battery!Near
<1> QED
  BY <1>1, <1>2, <1>3, <1>4, SamePoint

LEMMA BatteryKept == Battery!WobbleInv /\ Battery!Next => Battery!WobbleInv'
<1> SUFFICES ASSUME Battery!WobbleInv, Battery!Next PROVE Battery!WobbleInv'
  OBVIOUS
<1>1. CASE Battery!Restart
  BY <1>1 DEF Battery!Restart, Battery!WobbleInv, Battery!Adjacent
<1> QED
  BY <1>1, SwitchStep, ObserveStep DEF Battery!Next

LEMMA WobbleStep ==
    ASSUME Battery!WobbleInv, Battery!Next
    PROVE  told' > told /\ notice'.point \in quiet
             => Battery!Distance(power'.last[1], notice'.point) >= Rearm
<1> SUFFICES ASSUME told' > told, notice'.point \in quiet
             PROVE  Battery!Distance(power'.last[1], notice'.point) >= Rearm
  OBVIOUS
<1>1. told \in Nat /\ power \in Battery!Baselines /\ quiet \subseteq Points
  BY DEF Battery!WobbleInv
<1>2. PICK r \in Battery!Readings \cup {NoPower} : Battery!Observe(r)
  <2>1. \A explicit, on, enabled, r : ~Battery!Switch(explicit, on, enabled, r)
    <3>1. \A explicit, on, enabled, r : Battery!Switch(explicit, on, enabled, r) => told' = told
      BY Zenon DEF Battery!Switch
    <3> QED
      BY <1>1, <3>1
  <2>2. ~Battery!Restart
    BY <1>1 DEF Battery!Restart
  <2> QED
    BY <2>1, <2>2 DEF Battery!Next
<1>3. ~Battery!Note(r, Battery!Silent)
  BY <1>1 DEF Battery!Note
<1> DEFINE hit    == Battery!Crossed(power.last[1], r[1])
           point  == IF hit = Battery!Armed(r) THEN NoPower ELSE hit
           next   == [power EXCEPT !.last = r,
                          !.point = IF point = NoPower THEN Battery!Armed(r) ELSE point]
           n      == [charge |-> r[2] # power.last[2], point |-> point]
<1>4. Battery!Keep(next, TRUE) /\ Battery!Note(r, n)
  BY <1>2, <1>3, Zenon DEF Battery!Observe
<1>5. notice'.point = point /\ power' = next
  BY <1>4 DEF Battery!Keep, Battery!Note
<1>6. power'.last = r
  BY <1>1, <1>5 DEF Battery!Baselines
<1>7. point \in quiet /\ point # NoPower /\ hit = point /\ Battery!Armed(r) # point
  BY <1>1, <1>5, PowerAssumption
<1>8. power.point = point
  BY <1>7 DEF Battery!WobbleInv
<1> QED
  BY <1>5, <1>6, <1>7, <1>8 DEF Battery!Armed

\* For any levels, any thresholds further apart than the rearm distance, and
\* any interleaving of readings, switches, failed writes and restarts: a
\* notified point is not notified again before the level has been
\* POWER_REARM_PERCENT away from it (observe_power_with_clock, update).
THEOREM WobbleOnceHolds == AllSpec => WobbleOnce
<1>1. AllInit => Battery!WobbleInv
  BY DEF AllInit, Battery!Init, Battery!Off, Battery!WobbleInv, Battery!Baselines
<1>2. [AllNext]_allVars => Battery!Next \/ batteryVars' = batteryVars
  BY DEF AllNext, allVars, InboxStep, QuotaStep, BatteryStep, StoreStep, MailStep
<1>3. Battery!WobbleInv /\ [AllNext]_allVars => Battery!WobbleInv'
  <2>1. Battery!WobbleInv /\ batteryVars' = batteryVars => Battery!WobbleInv'
    BY DEF batteryVars, Battery!WobbleInv, Battery!Adjacent
  <2> QED
    BY <1>2, <2>1, BatteryKept
<1>4. Battery!WobbleInv /\ [AllNext]_allVars
        => [told' > told /\ notice'.point \in quiet
              => Battery!Distance(power'.last[1], notice'.point) >= Rearm]_(Battery!vars)
  BY <1>2, WobbleStep DEF Battery!vars, batteryVars
<1> QED
  BY <1>1, <1>3, <1>4, PTL DEF AllSpec, WobbleOnce, Battery!WobbleOnce

(***************************************************************************)
(* SmsForward: ForwardOnce from ForwardInv, for both instances.            *)
(***************************************************************************)

\* There is a kth element of a finite set of numbers.
LEMMA Ranks ==
    ASSUME NEW n \in Nat, NEW I \in SUBSET (1..n)
    PROVE  /\ IsFiniteSet(I) /\ Cardinality(I) \in Nat /\ Cardinality(I) <= n
           /\ \A k \in 1..Cardinality(I) : \E i \in I : Cardinality({j \in I : j < i}) = k - 1
<1>1. IsFiniteSet(1..n) /\ Cardinality(1..n) = n
  <2>1. 1 \in Int /\ n \in Int OBVIOUS
  <2>2. IsFiniteSet(1..n) /\ Cardinality(1..n) = IF 1 > n THEN 0 ELSE n - 1 + 1 BY <2>1, FS_Interval
  <2> QED BY <2>2
<1>2. IsFiniteSet(I) /\ Cardinality(I) <= n BY <1>1, FS_Subset
<1>3. Cardinality(I) \in Nat BY <1>2, FS_CardinalityType
<1> DEFINE Below(i) == {j \in I : j < i}
           T == {k \in 1..Cardinality(I) : ~\E i \in I : Cardinality(Below(i)) = k - 1}
<1>4. T = {}
  <2>1. SUFFICES ASSUME T # {} PROVE FALSE OBVIOUS
  <2>2. PICK k \in T : \A l \in T : k <= l
    <3>1. T \subseteq Nat OBVIOUS
    <3> HIDE DEF T
    <3> QED BY <2>1, <3>1, LeastNatural
  <2>3. k \in 1..Cardinality(I) /\ ~\E i \in I : Cardinality(Below(i)) = k - 1 OBVIOUS
  <2>4. I \subseteq Nat OBVIOUS
  <2>5. CASE k = 1
    <3>1. I # {}
      <4>1. Cardinality({}) = 0 BY FS_EmptySet
      <4>2. Cardinality(I) # 0 BY <1>3, <2>3
      <4> QED BY <4>1, <4>2
    <3>2. PICK i \in I : \A j \in I : i <= j
      <4> HIDE DEF T
      <4> QED BY <2>4, <3>1, LeastNatural
    <3>3. Below(i) = {}
      <4>1. \A j \in I : j \in Nat /\ i \in Nat /\ i <= j BY <2>4, <3>2
      <4>2. \A j \in I : ~(j < i) BY <4>1
      <4> QED BY <4>2, Zenon
    <3>4. Cardinality({}) = 0 BY FS_EmptySet
    <3>5. Cardinality(Below(i)) = k - 1 BY <2>5, <3>3, <3>4
    <3> QED BY <2>3, <3>5
  <2>6. CASE k # 1
    <3>1. k - 1 \in 1..Cardinality(I) /\ k - 1 \notin T
      <4>1. k - 1 \in 1..Cardinality(I) /\ ~(k <= k - 1) BY <1>3, <2>3, <2>6
      <4> HIDE DEF T
      <4> QED BY <2>2, <4>1
    <3>2. PICK i \in I : Cardinality(Below(i)) = k - 1 - 1 BY <3>1
    <3> DEFINE U == {j \in I : j > i}
    <3>3. U # {}
      <4>1. SUFFICES ASSUME U = {} PROVE FALSE OBVIOUS
      <4>2. I = Below(i) \cup {i} /\ i \notin Below(i)
        <5>1. \A j \in I : ~(j > i) BY <4>1, Zenon
        <5>2. \A j \in I : j \in Nat BY <2>4
        <5>3. ~(i < i) /\ i \in I BY <5>2
        <5> HIDE DEF U, T
        <5>4. \A j \in I : j < i \/ j = i BY <5>1, <5>2
        <5> QED BY <5>3, <5>4, Zenon
      <4>3. IsFiniteSet(Below(i)) BY <1>2, FS_Subset
      <4>4. Cardinality(I) = Cardinality(Below(i)) + 1
        <5> HIDE DEF Below
        <5> QED BY <4>2, <4>3, FS_AddElement
      <4> QED BY <1>3, <2>3, <3>2, <4>4
    <3>4. PICK i2 \in U : \A j \in U : i2 <= j
      <4>1. U \subseteq Nat BY <2>4
      <4> HIDE DEF U, T
      <4> QED BY <3>3, <4>1, LeastNatural
    <3>5. Below(i2) = Below(i) \cup {i} /\ i \notin Below(i) /\ i2 \in I
      <4>1. i2 \in Nat /\ i \in Nat /\ i2 \in I /\ i2 > i BY <2>4
      <4>2. \A j \in I : j \in Nat BY <2>4
      <4>3. \A j \in I : j > i => i2 <= j BY <3>4
      <4> HIDE DEF U, T
      <4>4. \A j \in I : j < i2 <=> (j < i \/ j = i) BY <4>1, <4>2, <4>3
      <4>5. ~(i < i) BY <4>1
      <4> QED BY <4>1, <4>4, <4>5, Zenon
    <3>6. IsFiniteSet(Below(i)) BY <1>2, FS_Subset
    <3>7. Cardinality(Below(i2)) = Cardinality(Below(i)) + 1
      <4> HIDE DEF Below
      <4> QED BY <3>5, <3>6, FS_AddElement
    <3>8. Cardinality(Below(i2)) = k - 1 BY <2>3, <3>2, <3>7
    <3> QED BY <2>3, <3>5, <3>8
  <2> QED BY <2>5, <2>6
<1>5. \A k \in 1..Cardinality(I) : \E i \in I : Cardinality(Below(i)) = k - 1
  <2>1. \A k \in 1..Cardinality(I) : k \notin T => \E i \in I : Cardinality(Below(i)) = k - 1 OBVIOUS
  <2> HIDE DEF T, Below
  <2> QED BY <1>4, <2>1
<1> QED BY <1>2, <1>3, <1>5

\* --- The fingerprints.

LEMMA InboxCardinality == \A S : Inbox!Cardinality(S) = Cardinality(S)
BY Zenon DEF Inbox!Cardinality, Cardinality

LEMMA InboxPicked ==
    ASSUME NEW s \in Seq(InboxMsgs), NEW I \in SUBSET (1..Len(s))
    PROVE  /\ Inbox!Picked(s, I) \in Seq(InboxMsgs) /\ Len(Inbox!Picked(s, I)) <= Len(s)
           /\ \A k \in 1..Len(Inbox!Picked(s, I)) : \E i \in I : Inbox!Picked(s, I)[k] = s[i]
<1> DEFINE pos(k) == CHOOSE i \in I : Inbox!Cardinality({j \in I : j < i}) = k - 1
           w == [k \in 1..Inbox!Cardinality(I) |-> s[pos(k)]]
<1>1. Len(s) \in Nat OBVIOUS
<1>2. /\ Inbox!Cardinality(I) \in Nat /\ Inbox!Cardinality(I) <= Len(s)
      /\ \A k \in 1..Inbox!Cardinality(I) : \E i \in I : Inbox!Cardinality({j \in I : j < i}) = k - 1
    BY <1>1, Ranks, InboxCardinality
<1>3. \A k \in 1..Inbox!Cardinality(I) : pos(k) \in I BY <1>2, Zenon
<1>4. Inbox!Picked(s, I) = w BY Zenon DEF Inbox!Picked
<1> HIDE DEF pos
<1>5. \A k \in 1..Inbox!Cardinality(I) : w[k] = s[pos(k)] /\ s[pos(k)] \in InboxMsgs
  <2>1. \A i \in I : s[i] \in InboxMsgs BY <1>1
  <2>2. \A k \in 1..Inbox!Cardinality(I) : s[pos(k)] \in InboxMsgs BY <1>3, <2>1, Zenon
  <2>3. \A k \in 1..Inbox!Cardinality(I) : w[k] = s[pos(k)] BY Zenon
  <2> QED BY <2>2, <2>3
<1>6. w \in [1..Inbox!Cardinality(I) -> InboxMsgs] BY <1>5
<1>7. w \in Seq(InboxMsgs) /\ Len(w) = Inbox!Cardinality(I)
  <2>1. DOMAIN w = 1..Inbox!Cardinality(I) OBVIOUS
  <2> HIDE DEF w
  <2>2. \E n \in Nat : w \in [1..n -> InboxMsgs] BY <1>2, <1>6
  <2>3. w \in Seq(InboxMsgs) BY <2>2, SeqDef
  <2>4. Len(w) \in Nat /\ 1..Len(w) = 1..Inbox!Cardinality(I) BY <2>1, <2>3, LenProperties
  <2> QED BY <1>2, <2>3, <2>4
<1>8. \A k \in 1..Len(w) : \E i \in I : w[k] = s[i] BY <1>3, <1>5, <1>7
<1> HIDE DEF w
<1> QED BY <1>2, <1>4, <1>7, <1>8

LEMMA InboxSuffix ==
    ASSUME NEW s \in Seq(InboxMsgs), NEW n \in Nat
    PROVE  Inbox!Suffix(s, n) \in Seq(InboxMsgs) /\ Len(Inbox!Suffix(s, n)) <= n /\ (Len(s) <= n => Inbox!Suffix(s, n) = s)
<1>1. Len(s) \in Nat OBVIOUS
<1>2. CASE Len(s) > n
  <2>1. Inbox!Suffix(s, n) = SubSeq(s, Len(s) - n + 1, Len(s)) BY <1>2 DEF Inbox!Suffix
  <2>2. Len(s) - n + 1 \in 1..(Len(s) + 1) /\ Len(s) \in (Len(s) - n + 1 - 1)..Len(s) BY <1>1, <1>2
  <2>3. /\ SubSeq(s, Len(s) - n + 1, Len(s)) \in Seq(InboxMsgs)
        /\ Len(SubSeq(s, Len(s) - n + 1, Len(s)))
             = IF Len(s) - n + 1 <= Len(s) THEN Len(s) - (Len(s) - n + 1) + 1 ELSE 0
    BY <2>2, SubSeqProperties
  <2> QED BY <1>1, <1>2, <2>1, <2>3
<1>3. CASE ~(Len(s) > n)
  <2>1. Inbox!Suffix(s, n) = SubSeq(s, 1, Len(s)) BY <1>3 DEF Inbox!Suffix
  <2>2. SubSeq(s, 1, Len(s)) = s BY SubSeqFull
  <2> QED BY <1>1, <1>3, <2>1, <2>2
<1> QED BY <1>2, <1>3

LEMMA InboxUnseen ==
    ASSUME NEW s \in Seq(InboxMsgs), NEW old
    PROVE  Inbox!Unseen(s, old) \in Seq(InboxMsgs) /\ Len(Inbox!Unseen(s, old)) <= Len(s)
<1>1. Inbox!Firsts(s, old) \in SUBSET (1..Len(s)) BY DEF Inbox!Firsts
<1> QED BY <1>1, InboxPicked DEF Inbox!Unseen

\* What a pass records is new, and what it delivers too.
LEMMA InboxPass ==
    ASSUME snap \in Seq(InboxMsgs)
    PROVE  /\ Inbox!Pass.new \in Seq(InboxMsgs)
           /\ Inbox!Pass.msg # None => Inbox!Pass.msg \in InboxMsgs /\ Inbox!Pass.msg \notin Inbox!Elems(config.seen)
<1> DEFINE I == {i \in Inbox!Firsts(snap, config.seen) : ~Inbox!Early(snap[i])}
           todo == Inbox!Picked(snap, I)
           hits == {i \in 1..Len(todo) : Inbox!Recent(todo[i]) /\ todo[i] \notin Blocked}
           stop == IF hits = {} THEN Len(todo) ELSE CHOOSE i \in hits : \A j \in hits : i <= j
<1>1. Inbox!Pass.new = SubSeq(todo, 1, stop) /\ Inbox!Pass.msg = (IF hits = {} THEN None ELSE todo[stop])
  BY Zenon DEF Inbox!Pass
<1>2. I \in SUBSET (1..Len(snap)) /\ (\A i \in I : snap[i] \notin Inbox!Elems(config.seen))
  BY DEF Inbox!Firsts
<1> HIDE DEF I
<1>3. todo \in Seq(InboxMsgs) /\ (\A k \in 1..Len(todo) : \E i \in I : todo[k] = snap[i]) BY <1>2, InboxPicked
<1> HIDE DEF todo
<1>4. Len(todo) \in Nat BY <1>3
<1>5. hits # {} => stop \in hits
  <2>1. SUFFICES ASSUME hits # {} PROVE stop \in hits OBVIOUS
  <2>2. hits \subseteq Nat OBVIOUS
  <2> HIDE DEF hits
  <2>3. \E i \in hits : \A j \in hits : i <= j BY <2>1, <2>2, LeastNatural
  <2>4. (CHOOSE i \in hits : \A j \in hits : i <= j) \in hits BY <2>3, Zenon
  <2> QED BY <2>1, <2>4
<1>6. hits \subseteq 1..Len(todo) OBVIOUS
<1>7. stop \in 0..Len(todo)
  <2>1. CASE hits = {} BY <1>4, <2>1
  <2>2. CASE hits # {}
    <3> HIDE DEF hits, stop
    <3>1. stop \in 1..Len(todo) BY <1>5, <1>6, <2>2
    <3>2. PICK m : m = stop OBVIOUS
    <3>3. PICK n : n = Len(todo) OBVIOUS
    <3>4. m \in 1..n /\ n \in Nat BY <1>4, <3>1, <3>2, <3>3, Zenon
    <3>5. m \in 0..n BY <3>4
    <3> QED BY <3>2, <3>3, <3>5, Zenon
  <2> QED BY <2>1, <2>2
<1> HIDE DEF hits, stop
<1>8. SubSeq(todo, 1, stop) \in Seq(InboxMsgs)
  <2>1. 1 \in Int /\ stop \in Int BY <1>4, <1>7
  <2>2. \A i \in 1..stop : todo[i] \in InboxMsgs BY <1>3, <1>4, <1>7
  <2> QED BY <2>1, <2>2, SubSeqProperties
<1>9. hits # {} => todo[stop] \in InboxMsgs /\ todo[stop] \notin Inbox!Elems(config.seen)
  <2>1. SUFFICES ASSUME hits # {} PROVE todo[stop] \in InboxMsgs /\ todo[stop] \notin Inbox!Elems(config.seen)
    OBVIOUS
  <2>2. stop \in 1..Len(todo) BY <1>5, <1>6, <2>1
  <2>3. PICK i \in I : todo[stop] = snap[i] BY <1>3, <2>2
  <2>4. snap[i] \notin Inbox!Elems(config.seen) /\ snap[i] \in InboxMsgs BY <1>2
  <2> QED BY <2>3, <2>4
<1> QED BY <1>1, <1>8, <1>9

\* Settings a fingerprint, a baseline or a reservation is written into stay valid.
LEMMA InboxValid ==
    ASSUME NEW c, NEW d, Inbox!ValidConfig(c), d.enabled = c.enabled, d.method = c.method, d.phones = c.phones, d.url = c.url,
           Len(d.seen) <= InboxMaxSeen, d.used <= MaxDaily, d.qdate = Inbox!NoDate => d.used = 0
    PROVE  Inbox!ValidConfig(d)
BY Zenon DEF Inbox!ValidConfig

LEMMA InboxMarked ==
    ASSUME NEW c \in Inbox!Configs, NEW s \in Seq(InboxMsgs), NEW t \in Int, Inbox!ValidConfig(c), Len(s) <= InboxMaxSeen
    PROVE  /\ [c EXCEPT !.seen = s] \in Inbox!Configs /\ Inbox!ValidConfig([c EXCEPT !.seen = s])
           /\ [c EXCEPT !.seen = s, !.version = 3, !.since = t] \in Inbox!Configs
           /\ Inbox!ValidConfig([c EXCEPT !.seen = s, !.version = 3, !.since = t])
<1>1. c.used <= MaxDaily /\ (c.qdate = Inbox!NoDate => c.used = 0) BY Zenon DEF Inbox!ValidConfig
<1>2. PICK d : d = [c EXCEPT !.seen = s] OBVIOUS
<1>3. PICK e : e = [c EXCEPT !.seen = s, !.version = 3, !.since = t] OBVIOUS
<1>4. /\ d \in Inbox!Configs /\ d.enabled = c.enabled /\ d.method = c.method /\ d.phones = c.phones /\ d.url = c.url
      /\ d.seen = s /\ d.used = c.used /\ d.qdate = c.qdate
  BY <1>2 DEF Inbox!Configs
<1>5. /\ e \in Inbox!Configs /\ e.enabled = c.enabled /\ e.method = c.method /\ e.phones = c.phones /\ e.url = c.url
      /\ e.seen = s /\ e.used = c.used /\ e.qdate = c.qdate
  BY <1>3 DEF Inbox!Configs
<1>6. Inbox!ValidConfig(d) BY <1>1, <1>4, InboxValid
<1>7. Inbox!ValidConfig(e) BY <1>1, <1>5, InboxValid
<1> QED BY <1>2, <1>3, <1>4, <1>5, <1>6, <1>7

LEMMA InboxDefault ==
    Inbox!Default \in Inbox!Configs /\ Inbox!ValidConfig(Inbox!Default) /\ Inbox!Default.version = 0 /\ Inbox!Default.qdate = Inbox!NoDate /\ Inbox!Default.used = 0
<1>1. << >> \in Seq(InboxMsgs) /\ Len(<< >>) = 0 OBVIOUS
<1>2. Inbox!Default \in Inbox!Configs BY <1>1 DEF Inbox!Default, Inbox!Configs, Inbox!NoDate
<1>3. /\ Inbox!Default.enabled = FALSE /\ Inbox!Default.seen = << >> /\ Inbox!Default.used = 0
      /\ Inbox!Default.version = 0 /\ Inbox!Default.qdate = Inbox!NoDate
  BY DEF Inbox!Default
<1>4. Len(Inbox!Default.seen) <= InboxMaxSeen /\ Inbox!Default.used <= MaxDaily BY <1>1, <1>3, InboxAssumption
<1>5. Inbox!ValidConfig(Inbox!Default) BY <1>3, <1>4, Zenon DEF Inbox!ValidConfig
<1> QED BY <1>2, <1>3, <1>5

\* The device clock is never before the epoch, nor is its date.
LEMMA InboxToday ==
    ASSUME Inbox!Around
    PROVE  Inbox!Clock \in Int /\ Inbox!Today \in Int /\ Inbox!Today >= 0
<1>1. now \in Nat /\ now >= 2 /\ lag \in 0..2 BY InboxAssumption DEF Inbox!Around
<1>2. Inbox!Clock \in Nat BY <1>1 DEF Inbox!Clock
<1>3. InboxDayLen \in Nat /\ InboxDayLen > 0 BY InboxAssumption
<1>4. \A a \in Nat : a \div InboxDayLen \in Int /\ a \div InboxDayLen >= 0 BY <1>3
<1> QED BY <1>2, <1>4 DEF Inbox!Today

\* What is reserved is a number of phones.
LEMMA InboxReserved ==
    ASSUME Inbox!Around
    PROVE  Inbox!Reserved \in Nat /\ (job = None => Inbox!Reserved = 0)
<1>1. \A S \in SUBSET InboxPhones : Inbox!Cardinality(S) \in Nat
  BY InboxAssumption, FS_Subset, FS_CardinalityType, InboxCardinality
<1>2. CASE job = None BY <1>2 DEF Inbox!Reserved
<1>3. CASE job # None
  <2>1. job.to \in SUBSET InboxPhones BY <1>3 DEF Inbox!Around, Inbox!Jobs
  <2>2. Inbox!Cardinality(job.to) \in Nat BY <1>1, <2>1
  <2> QED BY <1>3, <2>2 DEF Inbox!Reserved
<1> QED BY <1>2, <1>3

\* A job that is over, or that has yet to reserve, holds nothing.
LEMMA InboxDone ==
    ASSUME Inbox!Stored, Inbox!Around, Inbox!Booked, UNCHANGED <<day, sent, config>>, job' = None \/ job'.stage = "reserve"
    PROVE  Inbox!Booked'
<1>1. Inbox!Reserved \in Nat BY InboxReserved
<1>2. Inbox!Reserved' = 0 BY DEF Inbox!Reserved
<1>3. sent \in Nat /\ sent + Inbox!Reserved <= config.used BY DEF Inbox!Booked
<1>4. sent' + Inbox!Reserved' <= config'.used
  <2>1. \A r, u \in Nat : sent + r <= u => sent + 0 <= u BY <1>3
  <2>2. config.used \in Nat BY DEF Inbox!Stored, Inbox!Configs
  <2> QED BY <1>1, <1>2, <1>3, <2>1, <2>2
<1> QED BY <1>3, <1>4 DEF Inbox!Booked

\* What no step of the settings or of the world around touches.
LEMMA InboxSame ==
    ASSUME Inbox!ForwardInv
    PROVE  /\ UNCHANGED <<config, file>> => Inbox!Stored'
           /\ UNCHANGED <<config, recorded>> => Inbox!Remembered'
           /\ UNCHANGED <<config, job, day, sent>> => Inbox!Booked'
<1>1. UNCHANGED <<config, file>> => Inbox!Stored'
  BY DEF Inbox!ForwardInv, Inbox!Stored, Inbox!ValidConfig, Inbox!NoDate
<1>2. UNCHANGED <<config, recorded>> => Inbox!Remembered' BY DEF Inbox!ForwardInv, Inbox!Remembered
<1>3. UNCHANGED <<config, job, day, sent>> => Inbox!Booked'
  BY Zenon DEF Inbox!ForwardInv, Inbox!Booked, Inbox!Reserved, Inbox!UsesSim
<1> QED BY <1>1, <1>2, <1>3

LEMMA InboxBeginEdit ==
    ASSUME Inbox!ForwardInv, NEW in \in Inbox!Inputs, Inbox!BeginEdit(in) PROVE Inbox!ForwardInv'
<1>1. UNCHANGED <<config, file, lastResult, job, loop, snap, left, inbox, at, now, lag, recorded, day, sent, held>>
  BY DEF Inbox!BeginEdit, Inbox!manager, Inbox!world, Inbox!history
<1>2. Inbox!Stored' /\ Inbox!Remembered' /\ Inbox!Booked' BY <1>1, InboxSame
<1>3. PICK list : edit' = [in |-> in, list |-> list] /\ (list = inbox \/ list = Unusable \/ list = << >>)
  BY DEF Inbox!BeginEdit
<1>4. edit'.in \in Inbox!Inputs /\ Inbox!Listed(edit'.list)
  <2>1. edit'.in = in /\ edit'.list = list BY <1>3
  <2>2. Inbox!Listed(list)
    <3>1. CASE list = inbox BY <3>1 DEF Inbox!ForwardInv, Inbox!Around, Inbox!Listed
    <3>2. CASE list = Unusable BY <3>2 DEF Inbox!Listed
    <3>3. CASE list = << >> BY <3>3, InboxAssumption DEF Inbox!Listed
    <3> QED BY <1>3, <3>1, <3>2, <3>3
  <2> QED BY <2>1, <2>2
<1>5. Inbox!Around' BY <1>1, <1>4 DEF Inbox!ForwardInv, Inbox!Around, Inbox!Listed, Inbox!Inputs
<1> QED BY <1>2, <1>5 DEF Inbox!ForwardInv

\* The settings an update saves, and the fingerprints they remember.
LEMMA InboxEdited ==
    ASSUME Inbox!ForwardInv, edit # None, edit.list # Unusable
    PROVE  /\ Inbox!Edited(edit) \in Inbox!Configs
           /\ Inbox!Edited(edit).qdate = config.qdate /\ Inbox!Edited(edit).used = config.used
           /\ Inbox!NeedsBaseline(edit.in) => /\ Inbox!Edited(edit).version = 3
                                              /\ Inbox!Edited(edit).seen = Inbox!Suffix(recorded \o Inbox!Unseen(edit.list, recorded), InboxMaxSeen)
           /\ ~Inbox!NeedsBaseline(edit.in) => Inbox!Edited(edit).version = config.version /\ Inbox!Edited(edit).seen = config.seen
<1>1. config \in Inbox!Configs /\ edit.in \in Inbox!Inputs /\ edit.list \in Seq(InboxMsgs)
  BY DEF Inbox!ForwardInv, Inbox!Stored, Inbox!Around, Inbox!Listed
<1>2. PICK c : c = [config EXCEPT !.enabled = edit.in.enabled, !.method = edit.in.method,
                               !.url = edit.in.url, !.phones = edit.in.phones]
  OBVIOUS
<1>3. /\ edit.in.enabled \in BOOLEAN /\ edit.in.method \in InboxMethods
      /\ edit.in.url \in BOOLEAN /\ edit.in.phones \in SUBSET InboxPhones
  BY <1>1 DEF Inbox!Inputs
<1>4. /\ c \in Inbox!Configs /\ c.qdate = config.qdate /\ c.used = config.used
      /\ c.version = config.version /\ c.seen = config.seen
  BY <1>1, <1>2, <1>3 DEF Inbox!Configs
<1>5. recorded = (IF c.version = 3 THEN c.seen ELSE << >>) BY <1>4 DEF Inbox!ForwardInv, Inbox!Remembered
<1>6. Inbox!Edited(edit) = IF Inbox!NeedsBaseline(edit.in)
                     THEN [c EXCEPT !.seen = Inbox!Suffix(recorded \o Inbox!Unseen(edit.list, recorded), InboxMaxSeen),
                                    !.since = Inbox!Clock, !.version = 3]
                     ELSE c
  BY <1>2, <1>5, Zenon DEF Inbox!Edited
<1>7. PICK t \in Int : t = Inbox!Clock BY InboxToday DEF Inbox!ForwardInv
<1>8. recorded \in Seq(InboxMsgs) BY <1>4, <1>5 DEF Inbox!Configs
<1>9. PICK w : w = Inbox!Suffix(recorded \o Inbox!Unseen(edit.list, recorded), InboxMaxSeen) OBVIOUS
<1>10. w \in Seq(InboxMsgs)
  <2>1. Inbox!Unseen(edit.list, recorded) \in Seq(InboxMsgs) BY <1>1, InboxUnseen
  <2>2. recorded \o Inbox!Unseen(edit.list, recorded) \in Seq(InboxMsgs) BY <1>8, <2>1
  <2> QED BY <1>9, <2>2, InboxSuffix, InboxAssumption
<1>11. CASE Inbox!NeedsBaseline(edit.in)
  <2>1. Inbox!Edited(edit) = [c EXCEPT !.seen = w, !.since = t, !.version = 3] BY <1>6, <1>7, <1>9, <1>11
  <2>2. PICK d : d = [c EXCEPT !.seen = w, !.since = t, !.version = 3] OBVIOUS
  <2>3. d \in Inbox!Configs /\ d.qdate = c.qdate /\ d.used = c.used /\ d.version = 3 /\ d.seen = w
    BY <1>4, <1>10, <2>2 DEF Inbox!Configs
  <2> QED BY <1>4, <1>9, <1>11, <2>1, <2>2, <2>3
<1>12. CASE ~Inbox!NeedsBaseline(edit.in)
  <2>1. Inbox!Edited(edit) = c BY <1>6, <1>12
  <2> QED BY <1>4, <1>12, <2>1
<1> QED BY <1>11, <1>12

LEMMA InboxApplyEdit ==
    ASSUME Inbox!ForwardInv, Inbox!ApplyEdit PROVE Inbox!ForwardInv'
<1>1. UNCHANGED <<job, loop, snap, left, inbox, at, now, lag>> /\ edit # None /\ edit' = None
  BY DEF Inbox!ApplyEdit, Inbox!world
<1>2. Inbox!Around' BY <1>1 DEF Inbox!ForwardInv, Inbox!Around, Inbox!Listed
<1>3. CASE UNCHANGED <<Inbox!manager, Inbox!history>>
  <2>1. Inbox!Stored' /\ Inbox!Remembered' /\ Inbox!Booked'
    BY <1>1, <1>3, InboxSame DEF Inbox!manager, Inbox!history
  <2> QED BY <1>2, <2>1 DEF Inbox!ForwardInv
<1>4. CASE ~UNCHANGED <<Inbox!manager, Inbox!history>>
  <2>1. /\ edit.list # Unusable /\ Inbox!ValidConfig(Inbox!Edited(edit)) /\ config' = Inbox!Edited(edit) /\ file' = Inbox!Edited(edit)
        /\ recorded' = IF Inbox!NeedsBaseline(edit.in) THEN Inbox!Suffix(recorded \o Inbox!Unseen(edit.list, recorded), InboxMaxSeen) ELSE recorded
        /\ UNCHANGED <<day, sent>>
    BY <1>4 DEF Inbox!ApplyEdit, Inbox!Save
  <2>2. PICK d : d = Inbox!Edited(edit) OBVIOUS
  <2>3. /\ d \in Inbox!Configs /\ Inbox!ValidConfig(d) /\ d.qdate = config.qdate /\ d.used = config.used
        /\ recorded' = IF d.version = 3 THEN d.seen ELSE << >>
    BY <1>1, <2>1, <2>2, InboxEdited DEF Inbox!ForwardInv, Inbox!Remembered
  <2>4. config' = d /\ file' = d BY <2>1, <2>2
  <2>5. Inbox!Stored' BY <2>3, <2>4 DEF Inbox!Stored, Inbox!ValidConfig, Inbox!NoDate
  <2>6. Inbox!Remembered' BY <2>3, <2>4 DEF Inbox!Remembered
  <2>7. Inbox!Reserved' = Inbox!Reserved BY <1>1, Zenon DEF Inbox!Reserved, Inbox!UsesSim
  <2>8. Inbox!Booked' BY <2>1, <2>3, <2>4, <2>7 DEF Inbox!ForwardInv, Inbox!Booked
  <2> QED BY <1>2, <2>5, <2>6, <2>8 DEF Inbox!ForwardInv
<1> QED BY <1>3, <1>4

LEMMA InboxNewJob ==
    ASSUME Inbox!Stored, NEW by \in InboxRequests \cup {"power", "sms"}, NEW m \in InboxMsgs \cup {None}
    PROVE  Inbox!NewJob(by, m) \in Inbox!Jobs /\ Inbox!NewJob(by, m).stage = "reserve" /\ Inbox!NewJob(by, m).by = by /\ Inbox!NewJob(by, m).msg = m
<1>1. config.method \in InboxMethods \cup {"net"} /\ config.phones \in SUBSET InboxPhones
  BY DEF Inbox!Stored, Inbox!Configs
<1> QED BY <1>1 DEF Inbox!NewJob, Inbox!Jobs

\* A step that at most takes or gives back the manager, or moves the loop.
LEMMA InboxMove ==
    ASSUME Inbox!ForwardInv, UNCHANGED <<config, file, inbox, now, lag, recorded, day, sent>>,
           edit' = edit \/ edit' = None, job' = None \/ (job' \in Inbox!Jobs /\ job'.stage = "reserve"), Inbox!Listed(snap')
    PROVE  Inbox!ForwardInv'
<1>1. Inbox!Stored' /\ Inbox!Remembered' BY InboxSame
<1>2. Inbox!Booked' BY InboxDone DEF Inbox!ForwardInv
<1>3. Inbox!Around' BY DEF Inbox!ForwardInv, Inbox!Around, Inbox!Listed, Inbox!Jobs, Inbox!Inputs
<1> QED BY <1>1, <1>2, <1>3 DEF Inbox!ForwardInv

LEMMA InboxNothing == Inbox!Listed(<< >>)
BY InboxAssumption DEF Inbox!Listed

LEMMA InboxLoop ==
    ASSUME Inbox!ForwardInv, Inbox!PowerPass \/ Inbox!ReadList \/ Inbox!EndPass PROVE Inbox!ForwardInv'
<1>1. Inbox!Listed(snap) /\ Inbox!Listed(inbox) /\ Inbox!Listed(Unusable)
  BY DEF Inbox!ForwardInv, Inbox!Around, Inbox!Listed
<1>2. UNCHANGED <<config, file, edit, inbox, now, lag, recorded, day, sent>>
  BY DEF Inbox!PowerPass, Inbox!ReadList, Inbox!EndPass, Inbox!manager, Inbox!world, Inbox!history
<1>3. CASE Inbox!PowerPass
  <2>1. Inbox!NewJob("power", None) \in Inbox!Jobs /\ Inbox!NewJob("power", None).stage = "reserve"
    BY InboxNewJob DEF Inbox!ForwardInv
  <2>2. snap' = snap /\ (job' = None \/ job' = Inbox!NewJob("power", None)) BY <1>3 DEF Inbox!PowerPass
  <2>3. job' = None \/ (job' \in Inbox!Jobs /\ job'.stage = "reserve") BY <2>1, <2>2
  <2>4. Inbox!Listed(snap') BY <1>1, <2>2
  <2> QED BY <1>2, <2>3, <2>4, InboxMove
<1>4. CASE Inbox!ReadList \/ Inbox!EndPass
  <2>1. job' = None BY <1>4 DEF Inbox!ReadList, Inbox!EndPass, Inbox!Free
  <2>2. snap' = snap \/ snap' = inbox \/ snap' = Unusable \/ snap' = << >>
    BY <1>4 DEF Inbox!ReadList, Inbox!EndPass
  <2>3. Inbox!Listed(snap') BY <1>1, <2>2, InboxNothing
  <2> QED BY <1>2, <2>1, <2>3, InboxMove
<1> QED BY <1>3, <1>4

LEMMA InboxRequest ==
    ASSUME Inbox!ForwardInv, NEW by \in InboxRequests, Inbox!Request(by) PROVE Inbox!ForwardInv'
<1>1. UNCHANGED <<config, file, edit, snap, inbox, now, lag, recorded, day, sent>> /\ job' = Inbox!NewJob(by, None)
  BY DEF Inbox!Request, Inbox!manager, Inbox!world, Inbox!history
<1>2. job' \in Inbox!Jobs /\ job'.stage = "reserve" BY <1>1, InboxNewJob DEF Inbox!ForwardInv
<1>3. Inbox!Listed(snap') BY <1>1 DEF Inbox!ForwardInv, Inbox!Around, Inbox!Listed
<1> QED BY <1>1, <1>2, <1>3, InboxMove

LEMMA InboxAbandon ==
    ASSUME Inbox!ForwardInv, Inbox!RefuseJob \/ Inbox!Post \/ Inbox!Unsendable \/ Inbox!Abandon PROVE Inbox!ForwardInv'
<1>1. UNCHANGED <<config, file, inbox, now, lag, recorded, day, sent>> /\ job' = None /\ (edit' = edit \/ edit' = None)
  BY DEF Inbox!RefuseJob, Inbox!Post, Inbox!Unsendable, Inbox!Abandon, Inbox!Finish, Inbox!manager, Inbox!world, Inbox!history
<1>2. snap' = snap \/ snap' = << >>
  BY DEF Inbox!RefuseJob, Inbox!Post, Inbox!Unsendable, Inbox!Abandon, Inbox!Finish
<1>3. Inbox!Listed(snap) BY DEF Inbox!ForwardInv, Inbox!Around
<1>4. Inbox!Listed(snap') BY <1>2, <1>3, InboxNothing
<1> QED BY <1>1, <1>4, InboxMove

LEMMA InboxWorld ==
    ASSUME Inbox!ForwardInv, (\E m \in InboxMsgs : Inbox!Arrive(m)) \/ (\E i \in 1..Len(inbox) : Inbox!Delete(i)) \/ Inbox!TimePasses \/ Inbox!StepClock
    PROVE  Inbox!ForwardInv'
<1>1. UNCHANGED <<config, file, lastResult, job, edit, loop, snap, left, recorded, day, sent, held>>
  BY DEF Inbox!Arrive, Inbox!Delete, Inbox!TimePasses, Inbox!StepClock, Inbox!manager, Inbox!history
<1>2. Inbox!Stored' /\ Inbox!Remembered' /\ Inbox!Booked' BY <1>1, InboxSame
<1>3. inbox \in Seq(InboxMsgs) /\ Len(inbox) \in Nat /\ Len(inbox) <= InboxMaxInbox /\ now \in Nat /\ now >= 2 /\ lag \in Lags
  BY DEF Inbox!ForwardInv, Inbox!Around
<1>4. inbox' \in Seq(InboxMsgs) /\ Len(inbox') <= InboxMaxInbox
  <2>1. CASE \E m \in InboxMsgs : Inbox!Arrive(m)
    <3>1. PICK m \in InboxMsgs : inbox' = Append(inbox, m) /\ Len(inbox) < InboxMaxInbox
      BY <2>1 DEF Inbox!Arrive
    <3> QED BY <1>3, <3>1, InboxAssumption
  <2>2. CASE \E i \in 1..Len(inbox) : Inbox!Delete(i)
    <3>1. PICK i \in 1..Len(inbox) : inbox' = SubSeq(inbox, 1, i - 1) \o SubSeq(inbox, i + 1, Len(inbox))
      BY <2>2 DEF Inbox!Delete
    <3>2. SubSeq(inbox, 1, i - 1) \in Seq(InboxMsgs) /\ Len(SubSeq(inbox, 1, i - 1)) = i - 1
      <4>1. 1 \in Int /\ i - 1 \in Int /\ (\A k \in 1..(i - 1) : inbox[k] \in InboxMsgs) BY <1>3
      <4>2. /\ SubSeq(inbox, 1, i - 1) \in Seq(InboxMsgs)
            /\ Len(SubSeq(inbox, 1, i - 1)) = IF 1 <= i - 1 THEN i - 1 - 1 + 1 ELSE 0
        BY <4>1, SubSeqProperties
      <4> QED BY <1>3, <4>2
    <3>3. SubSeq(inbox, i + 1, Len(inbox)) \in Seq(InboxMsgs) /\ Len(SubSeq(inbox, i + 1, Len(inbox))) = Len(inbox) - i
      <4>1. i + 1 \in Int /\ Len(inbox) \in Int /\ (\A k \in (i + 1)..Len(inbox) : inbox[k] \in InboxMsgs)
        BY <1>3
      <4>2. /\ SubSeq(inbox, i + 1, Len(inbox)) \in Seq(InboxMsgs)
            /\ Len(SubSeq(inbox, i + 1, Len(inbox))) = IF i + 1 <= Len(inbox) THEN Len(inbox) - (i + 1) + 1 ELSE 0
        BY <4>1, SubSeqProperties
      <4> QED BY <1>3, <4>2
    <3>4. PICK a \in Seq(InboxMsgs), b \in Seq(InboxMsgs) : inbox' = a \o b /\ Len(a) = i - 1 /\ Len(b) = Len(inbox) - i
      BY <3>1, <3>2, <3>3
    <3>5. a \o b \in Seq(InboxMsgs) /\ Len(a \o b) = Len(a) + Len(b) OBVIOUS
    <3>6. Len(inbox') = Len(inbox) - 1 BY <1>3, <3>4, <3>5
    <3> QED BY <1>3, <3>4, <3>5, <3>6, InboxAssumption
  <2>3. CASE Inbox!TimePasses \/ Inbox!StepClock BY <1>3, <2>3 DEF Inbox!TimePasses, Inbox!StepClock
  <2> QED BY <2>1, <2>2, <2>3
<1>5. now' \in Nat /\ now' >= 2 /\ lag' \in Lags
  <2>1. now' = now \/ now' = now + 1 BY DEF Inbox!Arrive, Inbox!Delete, Inbox!TimePasses, Inbox!StepClock
  <2>2. lag' = lag \/ lag' \in Lags BY DEF Inbox!Arrive, Inbox!Delete, Inbox!TimePasses, Inbox!StepClock
  <2>3. \A n \in Nat : n >= 2 => n + 1 \in Nat /\ n + 1 >= 2 OBVIOUS
  <2> QED BY <1>3, <2>1, <2>2, <2>3
<1>6. Inbox!Around'
  BY <1>1, <1>4, <1>5 DEF Inbox!ForwardInv, Inbox!Around, Inbox!Listed, Inbox!Jobs, Inbox!Inputs
<1> QED BY <1>2, <1>6 DEF Inbox!ForwardInv

LEMMA InboxRestart ==
    ASSUME Inbox!ForwardInv, Inbox!Restart PROVE Inbox!ForwardInv'
<1>1. job' = None /\ edit' = None /\ snap' = << >> /\ UNCHANGED <<inbox, now, lag>>
  BY DEF Inbox!Restart, Inbox!world
<1>2. Inbox!Around' BY <1>1, InboxNothing DEF Inbox!ForwardInv, Inbox!Around, Inbox!Listed
<1>3. Inbox!Reserved' = 0 BY <1>1 DEF Inbox!Reserved
<1>4. CASE file' = Corrupt
  <2>1. config' = Inbox!Default /\ recorded' = << >> /\ day' = Inbox!NoDate /\ sent' = 0
    BY <1>4 DEF Inbox!Restart, Inbox!Loaded
  <2>2. PICK d : d = Inbox!Default OBVIOUS
  <2>3. d \in Inbox!Configs /\ Inbox!ValidConfig(d) /\ d.version = 0 /\ d.qdate = Inbox!NoDate /\ d.used = 0
    BY <2>2, InboxDefault
  <2>4. config' = d BY <2>1, <2>2
  <2>5. Inbox!Stored'
    <3>1. (config \in Inbox!Configs /\ Inbox!ValidConfig(config))'
      BY <2>3, <2>4 DEF Inbox!ValidConfig, Inbox!NoDate
    <3> QED BY <1>4, <2>1, <3>1 DEF Inbox!Stored
  <2>6. Inbox!Remembered' BY <2>1, <2>3, <2>4 DEF Inbox!Remembered
  <2>7. Inbox!Booked' BY <1>3, <2>1, <2>3, <2>4 DEF Inbox!Booked, Inbox!NoDate
  <2> QED BY <1>2, <2>5, <2>6, <2>7 DEF Inbox!ForwardInv
<1>5. CASE file' # Corrupt
  <2>1. file' = file /\ file = config /\ UNCHANGED <<recorded, day, sent>>
    BY <1>5 DEF Inbox!Restart, Inbox!history, Inbox!ForwardInv, Inbox!Stored
  <2>2. config' = config
    <3>1. config' = Inbox!Loaded(file') BY DEF Inbox!Restart
    <3>2. Inbox!Loaded(file') = IF file' = Corrupt \/ ~Inbox!ValidConfig(file') THEN Inbox!Default ELSE file'
      BY Zenon DEF Inbox!Loaded
    <3>3. Inbox!ValidConfig(config) BY DEF Inbox!ForwardInv, Inbox!Stored
    <3> QED BY <1>5, <2>1, <3>1, <3>2, <3>3
  <2>3. Inbox!Stored' /\ Inbox!Remembered' BY <2>1, <2>2, InboxSame
  <2>4. Inbox!Booked' BY <1>1, <2>1, <2>2, InboxDone DEF Inbox!ForwardInv
  <2> QED BY <1>2, <2>3, <2>4 DEF Inbox!ForwardInv
<1> QED BY <1>4, <1>5

\* Fingerprints are on disk before anything is delivered.
LEMMA InboxNextMessage ==
    ASSUME Inbox!ForwardInv, Inbox!NextMessage PROVE Inbox!ForwardInv'
<1>1. snap \in Seq(InboxMsgs) /\ Len(snap) \in Nat /\ Len(snap) <= InboxMaxInbox
  BY DEF Inbox!ForwardInv, Inbox!Around, Inbox!Listed, Inbox!NextMessage
<1>2. config \in Inbox!Configs /\ Inbox!ValidConfig(config) /\ config.seen \in Seq(InboxMsgs)
  BY DEF Inbox!ForwardInv, Inbox!Stored, Inbox!Configs
<1>3. InboxMaxSeen \in Nat /\ InboxMaxInbox \in Nat /\ InboxMaxInbox <= InboxMaxSeen BY InboxAssumption
<1>4. PICK m \in InboxMsgs \cup {None}, w \in Seq(InboxMsgs), d \in Inbox!Configs :
         /\ Inbox!Deliver(m, w) /\ config' = d /\ file' = d /\ Inbox!ValidConfig(d)
         /\ d.qdate = config.qdate /\ d.used = config.used /\ d.version = 3
         /\ d.seen = Inbox!Suffix(recorded \o w, InboxMaxSeen)
  <2>1. CASE config.version # 3
    <3>1. PICK w : w = Inbox!Unseen(snap, << >>) OBVIOUS
    <3>2. PICK t \in Int : t = Inbox!Clock BY InboxToday DEF Inbox!ForwardInv
    <3>3. w \in Seq(InboxMsgs) /\ Len(w) <= Len(snap) /\ Len(w) \in Nat BY <1>1, <3>1, InboxUnseen
    <3>4. Len(w) <= InboxMaxSeen BY <1>1, <1>3, <3>3
    <3>5. PICK d : d = [config EXCEPT !.seen = w, !.version = 3, !.since = t] OBVIOUS
    <3>6. Inbox!Deliver(None, w) /\ config' = d /\ file' = d
      BY <2>1, <3>1, <3>2, <3>5 DEF Inbox!NextMessage, Inbox!Save
    <3>7. d \in Inbox!Configs /\ Inbox!ValidConfig(d) BY <1>2, <3>3, <3>4, <3>5, InboxMarked
    <3>8. d.qdate = config.qdate /\ d.used = config.used /\ d.version = 3 /\ d.seen = w
      BY <1>2, <3>5 DEF Inbox!Configs
    <3>9. recorded = << >> BY <2>1 DEF Inbox!ForwardInv, Inbox!Remembered
    <3>10. recorded \o w = w BY <3>3, <3>9
    <3>11. Inbox!Suffix(recorded \o w, InboxMaxSeen) = w BY <1>3, <3>3, <3>4, <3>10, InboxSuffix
    <3> QED BY <3>3, <3>6, <3>7, <3>8, <3>11
  <2>2. CASE config.version = 3
    <3>1. PICK w : w = Inbox!Pass.new OBVIOUS
    <3>2. PICK m : m = Inbox!Pass.msg OBVIOUS
    <3>3. w \in Seq(InboxMsgs) /\ m \in InboxMsgs \cup {None} BY <1>1, <3>1, <3>2, InboxPass
    <3>4. recorded = config.seen BY <2>2 DEF Inbox!ForwardInv, Inbox!Remembered
    <3>5. PICK u : u = Inbox!Suffix(config.seen \o w, InboxMaxSeen) OBVIOUS
    <3>6. u \in Seq(InboxMsgs) /\ Len(u) <= InboxMaxSeen
      <4>1. config.seen \o w \in Seq(InboxMsgs) BY <1>2, <3>3
      <4> QED BY <1>3, <3>5, <4>1, InboxSuffix
    <3>7. PICK d : d = [config EXCEPT !.seen = u] OBVIOUS
    <3>8. Inbox!Deliver(m, w) /\ config' = d /\ file' = d
      BY <2>2, <3>1, <3>2, <3>5, <3>7 DEF Inbox!NextMessage, Inbox!Save
    <3>9. d \in Inbox!Configs /\ Inbox!ValidConfig(d)
      <4>1. 0 \in Int OBVIOUS
      <4> QED BY <1>2, <3>6, <3>7, <4>1, InboxMarked
    <3>10. d.qdate = config.qdate /\ d.used = config.used /\ d.version = 3 /\ d.seen = u
      BY <1>2, <2>2, <3>7 DEF Inbox!Configs
    <3> QED BY <3>3, <3>4, <3>5, <3>8, <3>9, <3>10
  <2> QED BY <2>1, <2>2
<1>5. Inbox!Stored' BY <1>4 DEF Inbox!Stored, Inbox!ValidConfig, Inbox!NoDate
<1>6. Inbox!Remembered' BY <1>4 DEF Inbox!Remembered, Inbox!Deliver
<1>7. job' = None \/ job' = Inbox!NewJob("sms", m) BY <1>4 DEF Inbox!Deliver
<1>8. job' = None \/ (job' \in Inbox!Jobs /\ job'.stage = "reserve")
  <2>1. Inbox!NewJob("sms", m) \in Inbox!Jobs /\ Inbox!NewJob("sms", m).stage = "reserve"
    BY InboxNewJob DEF Inbox!ForwardInv
  <2> QED BY <1>7, <2>1
<1>9. Inbox!Booked'
  <2>1. Inbox!Reserved' = 0 BY <1>8 DEF Inbox!Reserved
  <2>2. Inbox!Reserved = 0 BY InboxReserved DEF Inbox!ForwardInv, Inbox!NextMessage, Inbox!Free
  <2>3. UNCHANGED <<day, sent>> BY <1>4 DEF Inbox!Deliver
  <2> QED BY <1>4, <2>1, <2>2, <2>3 DEF Inbox!ForwardInv, Inbox!Booked
<1>10. Inbox!Around'
  <2>1. UNCHANGED <<edit, inbox, now, lag>> /\ (snap' = snap \/ snap' = << >>)
    BY <1>4 DEF Inbox!Deliver, Inbox!world
  <2>2. Inbox!Listed(snap') BY <1>1, <2>1, InboxNothing DEF Inbox!Listed
  <2> QED BY <1>8, <2>1, <2>2 DEF Inbox!ForwardInv, Inbox!Around, Inbox!Listed, Inbox!Jobs, Inbox!Inputs
<1> QED BY <1>5, <1>6, <1>9, <1>10 DEF Inbox!ForwardInv

LEMMA InboxTargets ==
    ASSUME NEW j \in Inbox!Jobs PROVE Inbox!Targets(j) \in SUBSET InboxPhones
<1>1. Inbox!TargetPhone \in InboxPhones BY InboxAssumption, Zenon DEF Inbox!TargetPhone
<1>2. j.to \in SUBSET InboxPhones BY DEF Inbox!Jobs
<1> QED BY <1>1, <1>2 DEF Inbox!Targets

\* Quota for every number is booked before the first one is sent to.
LEMMA InboxReserve ==
    ASSUME Inbox!ForwardInv, Inbox!Reserve PROVE Inbox!ForwardInv'
<1>1. job \in Inbox!Jobs /\ job # None /\ UNCHANGED <<edit, snap, inbox, now, lag, recorded>>
  BY DEF Inbox!ForwardInv, Inbox!Around, Inbox!Reserve, Inbox!world
<1>2. PICK S \in SUBSET InboxPhones : S = Inbox!Targets(job) BY <1>1, InboxTargets
<1>3. Inbox!Cardinality(S) \in Nat BY InboxAssumption, FS_Subset, FS_CardinalityType, InboxCardinality
<1>4. job' = [job EXCEPT !.stage = "send", !.to = S] BY <1>2 DEF Inbox!Reserve
<1>5. /\ job' \in Inbox!Jobs /\ job'.to = S /\ job'.by = job.by /\ job'.method = job.method
      /\ (Inbox!UsesSim(job') <=> Inbox!UsesSim(job))
  <2>1. PICK j : j = [job EXCEPT !.stage = "send", !.to = S] OBVIOUS
  <2>2. j \in Inbox!Jobs /\ j.to = S /\ j.by = job.by /\ j.method = job.method BY <1>1, <2>1 DEF Inbox!Jobs
  <2> QED BY <1>4, <2>1, <2>2 DEF Inbox!UsesSim
<1>6. Inbox!Around' BY <1>1, <1>5 DEF Inbox!ForwardInv, Inbox!Around, Inbox!Listed, Inbox!Jobs, Inbox!Inputs
<1>7. config \in Inbox!Configs /\ Inbox!ValidConfig(config) /\ config.used \in Nat /\ config.qdate \in Int
  BY DEF Inbox!ForwardInv, Inbox!Stored, Inbox!Configs
<1>8. day = config.qdate /\ sent \in Nat /\ sent <= config.used
  <2>1. Inbox!Reserved = 0 BY DEF Inbox!Reserved, Inbox!Reserve
  <2> QED BY <2>1 DEF Inbox!ForwardInv, Inbox!Booked
<1>9. CASE Inbox!UsesSim(job)
  <2>1. PICK q : q = Inbox!QuotaDay.date OBVIOUS
  <2>2. PICK u : u = Inbox!QuotaDay.used + Inbox!Cardinality(S) OBVIOUS
  <2>3. Inbox!Today \in Int /\ Inbox!Today >= 0 BY InboxToday DEF Inbox!ForwardInv
  <2>4. IF Inbox!Today > config.qdate THEN q = Inbox!Today /\ u = Inbox!Cardinality(S)
        ELSE q = config.qdate /\ u = config.used + Inbox!Cardinality(S)
    <3>1. config.qdate = Inbox!NoDate => Inbox!Today > config.qdate BY <2>3 DEF Inbox!NoDate
    <3>2. CASE Inbox!Today > config.qdate
      <4>1. Inbox!QuotaDay = [date |-> Inbox!Today, used |-> 0] BY <3>2 DEF Inbox!QuotaDay
      <4>2. q = Inbox!Today /\ u = 0 + Inbox!Cardinality(S) BY <2>1, <2>2, <4>1
      <4> QED BY <1>3, <3>2, <4>2
    <3>3. CASE ~(Inbox!Today > config.qdate) BY <2>1, <2>2, <3>1, <3>3 DEF Inbox!QuotaDay
    <3> QED BY <3>2, <3>3
  <2>5. q \in Int /\ q # Inbox!NoDate /\ u \in Nat
    <3>1. CASE Inbox!Today > config.qdate BY <1>3, <2>3, <2>4, <3>1 DEF Inbox!NoDate
    <3>2. CASE ~(Inbox!Today > config.qdate) BY <1>3, <1>7, <2>3, <2>4, <3>2 DEF Inbox!NoDate
    <3> QED BY <3>1, <3>2
  <2>6. PICK d : d = [config EXCEPT !.qdate = q, !.used = u] OBVIOUS
  <2>7. u <= MaxDaily /\ config' = d /\ file' = d
    BY <1>2, <1>9, <2>1, <2>2, <2>6 DEF Inbox!Reserve, Inbox!Save
  <2>8. /\ d \in Inbox!Configs /\ d.enabled = config.enabled /\ d.method = config.method /\ d.phones = config.phones
        /\ d.url = config.url /\ d.seen = config.seen /\ d.version = config.version /\ d.qdate = q /\ d.used = u
    BY <1>7, <2>5, <2>6 DEF Inbox!Configs
  <2>9. Inbox!ValidConfig(d)
    <3>1. Len(d.seen) <= InboxMaxSeen BY <1>7, <2>8 DEF Inbox!ValidConfig
    <3> QED BY <1>7, <2>5, <2>7, <2>8, <3>1, InboxValid
  <2>10. Inbox!Stored' BY <2>7, <2>8, <2>9 DEF Inbox!Stored, Inbox!ValidConfig, Inbox!NoDate
  <2>11. Inbox!Remembered' BY <1>1, <2>7, <2>8 DEF Inbox!ForwardInv, Inbox!Remembered
  <2>12. Inbox!Booked'
    <3>1. day' = (IF Inbox!Today > day THEN Inbox!Today ELSE day) /\ sent' = (IF Inbox!Today > day THEN 0 ELSE sent)
      BY <1>9 DEF Inbox!Reserve
    <3>2. Inbox!Reserved' = Inbox!Cardinality(S) \/ Inbox!Reserved' = 0 BY <1>5 DEF Inbox!Reserved
    <3>3. day' = q /\ sent' \in Nat /\ sent' + Inbox!Reserved' <= u
      <4>1. CASE Inbox!Today > config.qdate BY <1>3, <1>8, <2>4, <3>1, <3>2, <4>1
      <4>2. CASE ~(Inbox!Today > config.qdate) BY <1>3, <1>7, <1>8, <2>4, <3>1, <3>2, <4>2
      <4> QED BY <4>1, <4>2
    <3> QED BY <2>7, <2>8, <3>3 DEF Inbox!Booked
  <2> QED BY <1>6, <2>10, <2>11, <2>12 DEF Inbox!ForwardInv
<1>10. CASE ~Inbox!UsesSim(job)
  <2>1. UNCHANGED <<config, file, day, sent>> BY <1>10 DEF Inbox!Reserve
  <2>2. Inbox!Reserved' = 0 BY <1>5, <1>10 DEF Inbox!Reserved
  <2>3. Inbox!Booked' BY <1>7, <1>8, <2>1, <2>2 DEF Inbox!Booked
  <2>4. Inbox!Stored' /\ Inbox!Remembered' BY <1>1, <2>1, InboxSame
  <2> QED BY <1>6, <2>3, <2>4 DEF Inbox!ForwardInv
<1> QED BY <1>9, <1>10

\* One number after the other: what was sent moves from what is booked.
LEMMA InboxSendSim ==
    ASSUME Inbox!ForwardInv, NEW p \in InboxPhones, Inbox!SendSim(p) PROVE Inbox!ForwardInv'
<1>1. job \in Inbox!Jobs /\ UNCHANGED <<config, file, edit, inbox, now, lag, recorded, day>>
  BY DEF Inbox!ForwardInv, Inbox!Around, Inbox!SendSim, Inbox!Finish, Inbox!manager, Inbox!world
<1>2. Inbox!Stored' /\ Inbox!Remembered' BY <1>1, InboxSame
<1>3. job.to \in SUBSET InboxPhones /\ p \in job.to BY <1>1 DEF Inbox!Jobs, Inbox!SendSim
<1>4. IsFiniteSet(job.to) BY <1>3, InboxAssumption, FS_Subset
<1>5. PICK n \in Nat : n = Inbox!Cardinality(job.to) BY <1>4, FS_CardinalityType, InboxCardinality
<1>6. Inbox!Cardinality(job.to \ {p}) = n - 1 /\ n > 0
  <2>1. Inbox!Cardinality(job.to \ {p}) = n - 1 BY <1>3, <1>4, <1>5, FS_RemoveElement, InboxCardinality
  <2>2. IsFiniteSet(job.to \ {p}) BY <1>4, FS_Subset
  <2>3. n - 1 \in Nat BY <2>1, <2>2, FS_CardinalityType, InboxCardinality
  <2> QED BY <1>5, <2>1, <2>3
<1>7. Inbox!Reserved = n BY <1>5 DEF Inbox!Reserved, Inbox!SendSim
<1>8. day = config.qdate /\ sent \in Nat /\ sent + n <= config.used /\ config.used \in Nat
  BY <1>7 DEF Inbox!ForwardInv, Inbox!Booked, Inbox!Stored, Inbox!Configs
<1>9. CASE Inbox!Finish(TRUE)
  <2>1. job' = None /\ sent' = sent + 1 /\ (snap' = snap \/ snap' = << >>)
    BY <1>9 DEF Inbox!Finish, Inbox!SendSim
  <2>2. Inbox!Reserved' = 0 BY <2>1 DEF Inbox!Reserved
  <2>3. sent' \in Nat /\ sent' + 0 <= config.used BY <1>6, <1>8, <2>1
  <2>4. Inbox!Booked' BY <1>1, <1>8, <2>2, <2>3 DEF Inbox!Booked
  <2>5. Inbox!Listed(snap) BY DEF Inbox!ForwardInv, Inbox!Around
  <2>6. Inbox!Listed(snap') BY <2>1, <2>5, InboxNothing
  <2>7. Inbox!Around' BY <1>1, <2>1, <2>6 DEF Inbox!ForwardInv, Inbox!Around, Inbox!Listed, Inbox!Inputs
  <2> QED BY <1>2, <2>4, <2>7 DEF Inbox!ForwardInv
<1>10. CASE ~Inbox!Finish(TRUE)
  <2>1. job' = [job EXCEPT !.to = @ \ {p}] /\ snap' = snap /\ sent' = sent + 1 BY <1>10 DEF Inbox!SendSim
  <2>2. job' \in Inbox!Jobs /\ job'.to = job.to \ {p}
    <3>1. PICK S \in SUBSET InboxPhones : S = job.to \ {p} BY <1>3
    <3>2. job' = [job EXCEPT !.to = S] BY <2>1, <3>1
    <3>3. job' \in Inbox!Jobs /\ job'.to = S BY <1>1, <3>2 DEF Inbox!Jobs
    <3> QED BY <3>1, <3>3
  <2>3. Inbox!Reserved' = n - 1 \/ Inbox!Reserved' = 0 BY <1>6, <2>2 DEF Inbox!Reserved
  <2>4. sent' \in Nat /\ sent' + Inbox!Reserved' <= config.used
    <3>1. PICK r : r = Inbox!Reserved' OBVIOUS
    <3>2. r = n - 1 \/ r = 0 BY <2>3, <3>1
    <3>3. sent + 1 \in Nat /\ sent + 1 + r <= config.used BY <1>6, <1>8, <3>2
    <3> QED BY <2>1, <3>1, <3>3
  <2>5. Inbox!Booked' BY <1>1, <1>8, <2>4 DEF Inbox!Booked
  <2>6. Inbox!Around'
    BY <1>1, <2>1, <2>2 DEF Inbox!ForwardInv, Inbox!Around, Inbox!Listed, Inbox!Jobs, Inbox!Inputs
  <2> QED BY <1>2, <2>5, <2>6 DEF Inbox!ForwardInv
<1> QED BY <1>9, <1>10

LEMMA InboxInit == Inbox!Init => Inbox!ForwardInv
<1> SUFFICES ASSUME Inbox!Init PROVE Inbox!ForwardInv OBVIOUS
<1>1. PICK d : d = [Inbox!Default EXCEPT !.enabled = TRUE, !.url = TRUE] OBVIOUS
<1>2. /\ d \in Inbox!Configs /\ d.version = 0 /\ d.qdate = Inbox!NoDate /\ d.used = 0 /\ d.url = TRUE
      /\ d.seen = << >> /\ d.method = "net"
  <2>1. PICK c \in Inbox!Configs : c = Inbox!Default BY InboxDefault
  <2>2. /\ c.version = 0 /\ c.qdate = Inbox!NoDate /\ c.used = 0 /\ c.seen = << >> /\ c.method = "net"
    BY <2>1 DEF Inbox!Default
  <2>3. PICK b \in BOOLEAN : b = TRUE OBVIOUS
  <2>4. d = [c EXCEPT !.enabled = b, !.url = b] BY <1>1, <2>1, <2>3
  <2>5. /\ d \in Inbox!Configs /\ d.url = b /\ d.version = c.version /\ d.qdate = c.qdate /\ d.used = c.used
        /\ d.seen = c.seen /\ d.method = c.method
    BY <2>4 DEF Inbox!Configs
  <2> QED BY <2>2, <2>3, <2>5
<1>3. Len(d.seen) <= InboxMaxSeen /\ d.used <= MaxDaily BY <1>2, InboxAssumption
<1>4. d.method # "sms" BY <1>2
<1>5. Inbox!ValidConfig(d) BY <1>2, <1>3, <1>4, Zenon DEF Inbox!ValidConfig
<1>6. file = d /\ config = Inbox!Loaded(d) BY <1>1, Zenon DEF Inbox!Init
<1>7. Inbox!Loaded(d) = Inbox!Default \/ Inbox!Loaded(d) = d BY Zenon DEF Inbox!Loaded
<1>8. Inbox!Loaded(d) = Inbox!Default => d = Corrupt \/ Inbox!Default = d BY <1>5, Zenon DEF Inbox!Loaded
<1>9. Inbox!Stored BY <1>2, <1>5, <1>6, <1>7, <1>8, InboxDefault, Zenon DEF Inbox!Stored
<1>10. config.version = 0 /\ config.qdate = Inbox!NoDate /\ config.used = 0 BY <1>2, <1>6, <1>7, InboxDefault
<1>11. Inbox!Remembered BY <1>10 DEF Inbox!Remembered, Inbox!Init
<1>12. Inbox!Booked BY <1>10 DEF Inbox!Booked, Inbox!Reserved, Inbox!Init
<1>13. Inbox!Around BY InboxNothing, InboxAssumption DEF Inbox!Around, Inbox!Init
<1> QED BY <1>9, <1>11, <1>12, <1>13 DEF Inbox!ForwardInv

LEMMA InboxKept == Inbox!ForwardInv /\ [Inbox!Next]_(Inbox!vars) => Inbox!ForwardInv'
<1> SUFFICES ASSUME Inbox!ForwardInv, [Inbox!Next]_(Inbox!vars) PROVE Inbox!ForwardInv' OBVIOUS
<1>1. CASE Inbox!Manage BY <1>1, InboxBeginEdit, InboxApplyEdit DEF Inbox!Manage
<1>2. CASE Inbox!Loop BY <1>2, InboxLoop, InboxNextMessage DEF Inbox!Loop
<1>3. CASE Inbox!Send
  <2>1. CASE \E by \in InboxRequests : Inbox!Request(by) BY <2>1, InboxRequest
  <2>2. CASE \E p \in InboxPhones : Inbox!SendSim(p) BY <2>2, InboxSendSim
  <2>3. CASE Inbox!RefuseJob \/ Inbox!Post \/ Inbox!Unsendable \/ Inbox!Abandon BY <2>3, InboxAbandon
  <2>4. CASE Inbox!Reserve BY <2>4, InboxReserve
  <2> QED BY <1>3, <2>1, <2>2, <2>3, <2>4 DEF Inbox!Send
<1>4. CASE Inbox!World BY <1>4, InboxWorld, InboxRestart DEF Inbox!World
<1>5. CASE UNCHANGED Inbox!vars
  <2>1. UNCHANGED <<config, file, job, edit, snap, inbox, now, lag, recorded, day, sent>>
    BY <1>5 DEF Inbox!vars
  <2>2. Inbox!Stored' /\ Inbox!Remembered' /\ Inbox!Booked' BY <2>1, InboxSame
  <2>3. Inbox!Around' BY <2>1 DEF Inbox!ForwardInv, Inbox!Around, Inbox!Listed, Inbox!Jobs, Inbox!Inputs
  <2> QED BY <2>2, <2>3 DEF Inbox!ForwardInv
<1> QED BY <1>1, <1>2, <1>3, <1>4, <1>5 DEF Inbox!Next

LEMMA InboxSends == Inbox!ForwardInv => Inbox!SimQuota
<1> SUFFICES ASSUME Inbox!ForwardInv PROVE Inbox!SimQuota OBVIOUS
<1>1. PICK r \in Nat : r = Inbox!Reserved BY InboxReserved DEF Inbox!ForwardInv
<1>2. sent \in Nat /\ sent + r <= config.used BY <1>1 DEF Inbox!ForwardInv, Inbox!Booked
<1>3. config.used \in Nat /\ config.used <= MaxDaily
  BY DEF Inbox!ForwardInv, Inbox!Stored, Inbox!Configs, Inbox!ValidConfig
<1> QED BY <1>2, <1>3, InboxAssumption DEF Inbox!SimQuota

LEMMA InboxNoReplay ==
    ASSUME Inbox!ForwardInv, [Inbox!Next]_(Inbox!vars), job = None, job' # None, job'.by = "sms"
    PROVE  job'.msg \notin Inbox!Elems(recorded)
<1>1. CASE Inbox!NextMessage
  <2>1. config.version # 3 => job' = None BY <1>1 DEF Inbox!NextMessage, Inbox!Deliver
  <2>2. config.version = 3 BY <2>1
  <2>3. recorded = config.seen BY <2>2 DEF Inbox!ForwardInv, Inbox!Remembered
  <2>4. snap \in Seq(InboxMsgs) BY <1>1 DEF Inbox!ForwardInv, Inbox!Around, Inbox!Listed, Inbox!NextMessage
  <2>5. Inbox!Pass.msg # None /\ job' = Inbox!NewJob("sms", Inbox!Pass.msg)
    BY <1>1, <2>2 DEF Inbox!NextMessage, Inbox!Deliver
  <2>6. job'.msg = Inbox!Pass.msg BY <2>5 DEF Inbox!NewJob
  <2>7. Inbox!Pass.msg \notin Inbox!Elems(config.seen) BY <2>4, <2>5, InboxPass
  <2> QED BY <2>3, <2>6, <2>7
<1>2. CASE Inbox!PowerPass
  <2>1. job' = Inbox!NewJob("power", None) BY <1>2 DEF Inbox!PowerPass
  <2>2. job'.by = "power" BY <2>1 DEF Inbox!NewJob
  <2> QED BY <2>2
<1>3. CASE \E by \in InboxRequests : Inbox!Request(by)
  <2>1. PICK by \in InboxRequests : job' = Inbox!NewJob(by, None) BY <1>3 DEF Inbox!Request
  <2>2. job'.by = by BY <2>1 DEF Inbox!NewJob
  <2> QED BY <2>1, <2>2, InboxAssumption
<1>4. ~(Inbox!Manage \/ Inbox!World \/ UNCHANGED Inbox!vars)
  BY DEF Inbox!Manage, Inbox!World, Inbox!BeginEdit, Inbox!ApplyEdit, Inbox!Arrive, Inbox!Delete, Inbox!TimePasses, Inbox!StepClock, Inbox!Restart, Inbox!vars
<1>6. ~(Inbox!ReadList \/ Inbox!EndPass \/ Inbox!Reserve \/ Inbox!RefuseJob \/ Inbox!Post \/ Inbox!Unsendable \/ Inbox!Abandon)
  BY DEF Inbox!ReadList, Inbox!EndPass, Inbox!Reserve, Inbox!RefuseJob, Inbox!Post, Inbox!Unsendable, Inbox!Abandon, Inbox!Finish
<1>5. ~\E p \in InboxPhones : Inbox!SendSim(p) BY DEF Inbox!SendSim
<1> QED BY <1>1, <1>2, <1>3, <1>4, <1>5, <1>6 DEF Inbox!Next, Inbox!Loop, Inbox!Send

\* --- The SIM quota.

LEMMA QuotaCardinality == \A S : Quota!Cardinality(S) = Cardinality(S)
BY Zenon DEF Quota!Cardinality, Cardinality

LEMMA QuotaPicked ==
    ASSUME NEW s \in Seq(QuotaMsgs), NEW I \in SUBSET (1..Len(s))
    PROVE  /\ Quota!Picked(s, I) \in Seq(QuotaMsgs) /\ Len(Quota!Picked(s, I)) <= Len(s)
           /\ \A k \in 1..Len(Quota!Picked(s, I)) : \E i \in I : Quota!Picked(s, I)[k] = s[i]
<1> DEFINE pos(k) == CHOOSE i \in I : Quota!Cardinality({j \in I : j < i}) = k - 1
           w == [k \in 1..Quota!Cardinality(I) |-> s[pos(k)]]
<1>1. Len(s) \in Nat OBVIOUS
<1>2. /\ Quota!Cardinality(I) \in Nat /\ Quota!Cardinality(I) <= Len(s)
      /\ \A k \in 1..Quota!Cardinality(I) : \E i \in I : Quota!Cardinality({j \in I : j < i}) = k - 1
    BY <1>1, Ranks, QuotaCardinality
<1>3. \A k \in 1..Quota!Cardinality(I) : pos(k) \in I BY <1>2, Zenon
<1>4. Quota!Picked(s, I) = w BY Zenon DEF Quota!Picked
<1> HIDE DEF pos
<1>5. \A k \in 1..Quota!Cardinality(I) : w[k] = s[pos(k)] /\ s[pos(k)] \in QuotaMsgs
  <2>1. \A i \in I : s[i] \in QuotaMsgs BY <1>1
  <2>2. \A k \in 1..Quota!Cardinality(I) : s[pos(k)] \in QuotaMsgs BY <1>3, <2>1, Zenon
  <2>3. \A k \in 1..Quota!Cardinality(I) : w[k] = s[pos(k)] BY Zenon
  <2> QED BY <2>2, <2>3
<1>6. w \in [1..Quota!Cardinality(I) -> QuotaMsgs] BY <1>5
<1>7. w \in Seq(QuotaMsgs) /\ Len(w) = Quota!Cardinality(I)
  <2>1. DOMAIN w = 1..Quota!Cardinality(I) OBVIOUS
  <2> HIDE DEF w
  <2>2. \E n \in Nat : w \in [1..n -> QuotaMsgs] BY <1>2, <1>6
  <2>3. w \in Seq(QuotaMsgs) BY <2>2, SeqDef
  <2>4. Len(w) \in Nat /\ 1..Len(w) = 1..Quota!Cardinality(I) BY <2>1, <2>3, LenProperties
  <2> QED BY <1>2, <2>3, <2>4
<1>8. \A k \in 1..Len(w) : \E i \in I : w[k] = s[i] BY <1>3, <1>5, <1>7
<1> HIDE DEF w
<1> QED BY <1>2, <1>4, <1>7, <1>8

LEMMA QuotaSuffix ==
    ASSUME NEW s \in Seq(QuotaMsgs), NEW n \in Nat
    PROVE  Quota!Suffix(s, n) \in Seq(QuotaMsgs) /\ Len(Quota!Suffix(s, n)) <= n /\ (Len(s) <= n => Quota!Suffix(s, n) = s)
<1>1. Len(s) \in Nat OBVIOUS
<1>2. CASE Len(s) > n
  <2>1. Quota!Suffix(s, n) = SubSeq(s, Len(s) - n + 1, Len(s)) BY <1>2 DEF Quota!Suffix
  <2>2. Len(s) - n + 1 \in 1..(Len(s) + 1) /\ Len(s) \in (Len(s) - n + 1 - 1)..Len(s) BY <1>1, <1>2
  <2>3. /\ SubSeq(s, Len(s) - n + 1, Len(s)) \in Seq(QuotaMsgs)
        /\ Len(SubSeq(s, Len(s) - n + 1, Len(s)))
             = IF Len(s) - n + 1 <= Len(s) THEN Len(s) - (Len(s) - n + 1) + 1 ELSE 0
    BY <2>2, SubSeqProperties
  <2> QED BY <1>1, <1>2, <2>1, <2>3
<1>3. CASE ~(Len(s) > n)
  <2>1. Quota!Suffix(s, n) = SubSeq(s, 1, Len(s)) BY <1>3 DEF Quota!Suffix
  <2>2. SubSeq(s, 1, Len(s)) = s BY SubSeqFull
  <2> QED BY <1>1, <1>3, <2>1, <2>2
<1> QED BY <1>2, <1>3

LEMMA QuotaUnseen ==
    ASSUME NEW s \in Seq(QuotaMsgs), NEW old
    PROVE  Quota!Unseen(s, old) \in Seq(QuotaMsgs) /\ Len(Quota!Unseen(s, old)) <= Len(s)
<1>1. Quota!Firsts(s, old) \in SUBSET (1..Len(s)) BY DEF Quota!Firsts
<1> QED BY <1>1, QuotaPicked DEF Quota!Unseen

\* What a pass records is new, and what it delivers too.
LEMMA QuotaPass ==
    ASSUME snap \in Seq(QuotaMsgs)
    PROVE  /\ Quota!Pass.new \in Seq(QuotaMsgs)
           /\ Quota!Pass.msg # None => Quota!Pass.msg \in QuotaMsgs /\ Quota!Pass.msg \notin Quota!Elems(config.seen)
<1> DEFINE I == {i \in Quota!Firsts(snap, config.seen) : ~Quota!Early(snap[i])}
           todo == Quota!Picked(snap, I)
           hits == {i \in 1..Len(todo) : Quota!Recent(todo[i]) /\ todo[i] \notin Blocked}
           stop == IF hits = {} THEN Len(todo) ELSE CHOOSE i \in hits : \A j \in hits : i <= j
<1>1. Quota!Pass.new = SubSeq(todo, 1, stop) /\ Quota!Pass.msg = (IF hits = {} THEN None ELSE todo[stop])
  BY Zenon DEF Quota!Pass
<1>2. I \in SUBSET (1..Len(snap)) /\ (\A i \in I : snap[i] \notin Quota!Elems(config.seen))
  BY DEF Quota!Firsts
<1> HIDE DEF I
<1>3. todo \in Seq(QuotaMsgs) /\ (\A k \in 1..Len(todo) : \E i \in I : todo[k] = snap[i]) BY <1>2, QuotaPicked
<1> HIDE DEF todo
<1>4. Len(todo) \in Nat BY <1>3
<1>5. hits # {} => stop \in hits
  <2>1. SUFFICES ASSUME hits # {} PROVE stop \in hits OBVIOUS
  <2>2. hits \subseteq Nat OBVIOUS
  <2> HIDE DEF hits
  <2>3. \E i \in hits : \A j \in hits : i <= j BY <2>1, <2>2, LeastNatural
  <2>4. (CHOOSE i \in hits : \A j \in hits : i <= j) \in hits BY <2>3, Zenon
  <2> QED BY <2>1, <2>4
<1>6. hits \subseteq 1..Len(todo) OBVIOUS
<1>7. stop \in 0..Len(todo)
  <2>1. CASE hits = {} BY <1>4, <2>1
  <2>2. CASE hits # {}
    <3> HIDE DEF hits, stop
    <3>1. stop \in 1..Len(todo) BY <1>5, <1>6, <2>2
    <3>2. PICK m : m = stop OBVIOUS
    <3>3. PICK n : n = Len(todo) OBVIOUS
    <3>4. m \in 1..n /\ n \in Nat BY <1>4, <3>1, <3>2, <3>3, Zenon
    <3>5. m \in 0..n BY <3>4
    <3> QED BY <3>2, <3>3, <3>5, Zenon
  <2> QED BY <2>1, <2>2
<1> HIDE DEF hits, stop
<1>8. SubSeq(todo, 1, stop) \in Seq(QuotaMsgs)
  <2>1. 1 \in Int /\ stop \in Int BY <1>4, <1>7
  <2>2. \A i \in 1..stop : todo[i] \in QuotaMsgs BY <1>3, <1>4, <1>7
  <2> QED BY <2>1, <2>2, SubSeqProperties
<1>9. hits # {} => todo[stop] \in QuotaMsgs /\ todo[stop] \notin Quota!Elems(config.seen)
  <2>1. SUFFICES ASSUME hits # {} PROVE todo[stop] \in QuotaMsgs /\ todo[stop] \notin Quota!Elems(config.seen)
    OBVIOUS
  <2>2. stop \in 1..Len(todo) BY <1>5, <1>6, <2>1
  <2>3. PICK i \in I : todo[stop] = snap[i] BY <1>3, <2>2
  <2>4. snap[i] \notin Quota!Elems(config.seen) /\ snap[i] \in QuotaMsgs BY <1>2
  <2> QED BY <2>3, <2>4
<1> QED BY <1>1, <1>8, <1>9

\* Settings a fingerprint, a baseline or a reservation is written into stay valid.
LEMMA QuotaValid ==
    ASSUME NEW c, NEW d, Quota!ValidConfig(c), d.enabled = c.enabled, d.method = c.method, d.phones = c.phones, d.url = c.url,
           Len(d.seen) <= QuotaMaxSeen, d.used <= MaxDaily, d.qdate = Quota!NoDate => d.used = 0
    PROVE  Quota!ValidConfig(d)
BY Zenon DEF Quota!ValidConfig

LEMMA QuotaMarked ==
    ASSUME NEW c \in Quota!Configs, NEW s \in Seq(QuotaMsgs), NEW t \in Int, Quota!ValidConfig(c), Len(s) <= QuotaMaxSeen
    PROVE  /\ [c EXCEPT !.seen = s] \in Quota!Configs /\ Quota!ValidConfig([c EXCEPT !.seen = s])
           /\ [c EXCEPT !.seen = s, !.version = 3, !.since = t] \in Quota!Configs
           /\ Quota!ValidConfig([c EXCEPT !.seen = s, !.version = 3, !.since = t])
<1>1. c.used <= MaxDaily /\ (c.qdate = Quota!NoDate => c.used = 0) BY Zenon DEF Quota!ValidConfig
<1>2. PICK d : d = [c EXCEPT !.seen = s] OBVIOUS
<1>3. PICK e : e = [c EXCEPT !.seen = s, !.version = 3, !.since = t] OBVIOUS
<1>4. /\ d \in Quota!Configs /\ d.enabled = c.enabled /\ d.method = c.method /\ d.phones = c.phones /\ d.url = c.url
      /\ d.seen = s /\ d.used = c.used /\ d.qdate = c.qdate
  BY <1>2 DEF Quota!Configs
<1>5. /\ e \in Quota!Configs /\ e.enabled = c.enabled /\ e.method = c.method /\ e.phones = c.phones /\ e.url = c.url
      /\ e.seen = s /\ e.used = c.used /\ e.qdate = c.qdate
  BY <1>3 DEF Quota!Configs
<1>6. Quota!ValidConfig(d) BY <1>1, <1>4, QuotaValid
<1>7. Quota!ValidConfig(e) BY <1>1, <1>5, QuotaValid
<1> QED BY <1>2, <1>3, <1>4, <1>5, <1>6, <1>7

LEMMA QuotaDefault ==
    Quota!Default \in Quota!Configs /\ Quota!ValidConfig(Quota!Default) /\ Quota!Default.version = 0 /\ Quota!Default.qdate = Quota!NoDate /\ Quota!Default.used = 0
<1>1. << >> \in Seq(QuotaMsgs) /\ Len(<< >>) = 0 OBVIOUS
<1>2. Quota!Default \in Quota!Configs BY <1>1 DEF Quota!Default, Quota!Configs, Quota!NoDate
<1>3. /\ Quota!Default.enabled = FALSE /\ Quota!Default.seen = << >> /\ Quota!Default.used = 0
      /\ Quota!Default.version = 0 /\ Quota!Default.qdate = Quota!NoDate
  BY DEF Quota!Default
<1>4. Len(Quota!Default.seen) <= QuotaMaxSeen /\ Quota!Default.used <= MaxDaily BY <1>1, <1>3, QuotaAssumption
<1>5. Quota!ValidConfig(Quota!Default) BY <1>3, <1>4, Zenon DEF Quota!ValidConfig
<1> QED BY <1>2, <1>3, <1>5

\* The device clock is never before the epoch, nor is its date.
LEMMA QuotaToday ==
    ASSUME Quota!Around
    PROVE  Quota!Clock \in Int /\ Quota!Today \in Int /\ Quota!Today >= 0
<1>1. now \in Nat /\ now >= 2 /\ lag \in 0..2 BY QuotaAssumption DEF Quota!Around
<1>2. Quota!Clock \in Nat BY <1>1 DEF Quota!Clock
<1>3. QuotaDayLen \in Nat /\ QuotaDayLen > 0 BY QuotaAssumption
<1>4. \A a \in Nat : a \div QuotaDayLen \in Int /\ a \div QuotaDayLen >= 0 BY <1>3
<1> QED BY <1>2, <1>4 DEF Quota!Today

\* What is reserved is a number of phones.
LEMMA QuotaReserved ==
    ASSUME Quota!Around
    PROVE  Quota!Reserved \in Nat /\ (job = None => Quota!Reserved = 0)
<1>1. \A S \in SUBSET QuotaPhones : Quota!Cardinality(S) \in Nat
  BY QuotaAssumption, FS_Subset, FS_CardinalityType, QuotaCardinality
<1>2. CASE job = None BY <1>2 DEF Quota!Reserved
<1>3. CASE job # None
  <2>1. job.to \in SUBSET QuotaPhones BY <1>3 DEF Quota!Around, Quota!Jobs
  <2>2. Quota!Cardinality(job.to) \in Nat BY <1>1, <2>1
  <2> QED BY <1>3, <2>2 DEF Quota!Reserved
<1> QED BY <1>2, <1>3

\* A job that is over, or that has yet to reserve, holds nothing.
LEMMA QuotaDone ==
    ASSUME Quota!Stored, Quota!Around, Quota!Booked, UNCHANGED <<day, sent, config>>, job' = None \/ job'.stage = "reserve"
    PROVE  Quota!Booked'
<1>1. Quota!Reserved \in Nat BY QuotaReserved
<1>2. Quota!Reserved' = 0 BY DEF Quota!Reserved
<1>3. sent \in Nat /\ sent + Quota!Reserved <= config.used BY DEF Quota!Booked
<1>4. sent' + Quota!Reserved' <= config'.used
  <2>1. \A r, u \in Nat : sent + r <= u => sent + 0 <= u BY <1>3
  <2>2. config.used \in Nat BY DEF Quota!Stored, Quota!Configs
  <2> QED BY <1>1, <1>2, <1>3, <2>1, <2>2
<1> QED BY <1>3, <1>4 DEF Quota!Booked

\* What no step of the settings or of the world around touches.
LEMMA QuotaSame ==
    ASSUME Quota!ForwardInv
    PROVE  /\ UNCHANGED <<config, file>> => Quota!Stored'
           /\ UNCHANGED <<config, recorded>> => Quota!Remembered'
           /\ UNCHANGED <<config, job, day, sent>> => Quota!Booked'
<1>1. UNCHANGED <<config, file>> => Quota!Stored'
  BY DEF Quota!ForwardInv, Quota!Stored, Quota!ValidConfig, Quota!NoDate
<1>2. UNCHANGED <<config, recorded>> => Quota!Remembered' BY DEF Quota!ForwardInv, Quota!Remembered
<1>3. UNCHANGED <<config, job, day, sent>> => Quota!Booked'
  BY Zenon DEF Quota!ForwardInv, Quota!Booked, Quota!Reserved, Quota!UsesSim
<1> QED BY <1>1, <1>2, <1>3

LEMMA QuotaBeginEdit ==
    ASSUME Quota!ForwardInv, NEW in \in Quota!Inputs, Quota!BeginEdit(in) PROVE Quota!ForwardInv'
<1>1. UNCHANGED <<config, file, lastResult, job, loop, snap, left, inbox, at, now, lag, recorded, day, sent, held>>
  BY DEF Quota!BeginEdit, Quota!manager, Quota!world, Quota!history
<1>2. Quota!Stored' /\ Quota!Remembered' /\ Quota!Booked' BY <1>1, QuotaSame
<1>3. PICK list : edit' = [in |-> in, list |-> list] /\ (list = inbox \/ list = Unusable \/ list = << >>)
  BY DEF Quota!BeginEdit
<1>4. edit'.in \in Quota!Inputs /\ Quota!Listed(edit'.list)
  <2>1. edit'.in = in /\ edit'.list = list BY <1>3
  <2>2. Quota!Listed(list)
    <3>1. CASE list = inbox BY <3>1 DEF Quota!ForwardInv, Quota!Around, Quota!Listed
    <3>2. CASE list = Unusable BY <3>2 DEF Quota!Listed
    <3>3. CASE list = << >> BY <3>3, QuotaAssumption DEF Quota!Listed
    <3> QED BY <1>3, <3>1, <3>2, <3>3
  <2> QED BY <2>1, <2>2
<1>5. Quota!Around' BY <1>1, <1>4 DEF Quota!ForwardInv, Quota!Around, Quota!Listed, Quota!Inputs
<1> QED BY <1>2, <1>5 DEF Quota!ForwardInv

\* The settings an update saves, and the fingerprints they remember.
LEMMA QuotaEdited ==
    ASSUME Quota!ForwardInv, edit # None, edit.list # Unusable
    PROVE  /\ Quota!Edited(edit) \in Quota!Configs
           /\ Quota!Edited(edit).qdate = config.qdate /\ Quota!Edited(edit).used = config.used
           /\ Quota!NeedsBaseline(edit.in) => /\ Quota!Edited(edit).version = 3
                                              /\ Quota!Edited(edit).seen = Quota!Suffix(recorded \o Quota!Unseen(edit.list, recorded), QuotaMaxSeen)
           /\ ~Quota!NeedsBaseline(edit.in) => Quota!Edited(edit).version = config.version /\ Quota!Edited(edit).seen = config.seen
<1>1. config \in Quota!Configs /\ edit.in \in Quota!Inputs /\ edit.list \in Seq(QuotaMsgs)
  BY DEF Quota!ForwardInv, Quota!Stored, Quota!Around, Quota!Listed
<1>2. PICK c : c = [config EXCEPT !.enabled = edit.in.enabled, !.method = edit.in.method,
                               !.url = edit.in.url, !.phones = edit.in.phones]
  OBVIOUS
<1>3. /\ edit.in.enabled \in BOOLEAN /\ edit.in.method \in QuotaMethods
      /\ edit.in.url \in BOOLEAN /\ edit.in.phones \in SUBSET QuotaPhones
  BY <1>1 DEF Quota!Inputs
<1>4. /\ c \in Quota!Configs /\ c.qdate = config.qdate /\ c.used = config.used
      /\ c.version = config.version /\ c.seen = config.seen
  BY <1>1, <1>2, <1>3 DEF Quota!Configs
<1>5. recorded = (IF c.version = 3 THEN c.seen ELSE << >>) BY <1>4 DEF Quota!ForwardInv, Quota!Remembered
<1>6. Quota!Edited(edit) = IF Quota!NeedsBaseline(edit.in)
                     THEN [c EXCEPT !.seen = Quota!Suffix(recorded \o Quota!Unseen(edit.list, recorded), QuotaMaxSeen),
                                    !.since = Quota!Clock, !.version = 3]
                     ELSE c
  BY <1>2, <1>5, Zenon DEF Quota!Edited
<1>7. PICK t \in Int : t = Quota!Clock BY QuotaToday DEF Quota!ForwardInv
<1>8. recorded \in Seq(QuotaMsgs) BY <1>4, <1>5 DEF Quota!Configs
<1>9. PICK w : w = Quota!Suffix(recorded \o Quota!Unseen(edit.list, recorded), QuotaMaxSeen) OBVIOUS
<1>10. w \in Seq(QuotaMsgs)
  <2>1. Quota!Unseen(edit.list, recorded) \in Seq(QuotaMsgs) BY <1>1, QuotaUnseen
  <2>2. recorded \o Quota!Unseen(edit.list, recorded) \in Seq(QuotaMsgs) BY <1>8, <2>1
  <2> QED BY <1>9, <2>2, QuotaSuffix, QuotaAssumption
<1>11. CASE Quota!NeedsBaseline(edit.in)
  <2>1. Quota!Edited(edit) = [c EXCEPT !.seen = w, !.since = t, !.version = 3] BY <1>6, <1>7, <1>9, <1>11
  <2>2. PICK d : d = [c EXCEPT !.seen = w, !.since = t, !.version = 3] OBVIOUS
  <2>3. d \in Quota!Configs /\ d.qdate = c.qdate /\ d.used = c.used /\ d.version = 3 /\ d.seen = w
    BY <1>4, <1>10, <2>2 DEF Quota!Configs
  <2> QED BY <1>4, <1>9, <1>11, <2>1, <2>2, <2>3
<1>12. CASE ~Quota!NeedsBaseline(edit.in)
  <2>1. Quota!Edited(edit) = c BY <1>6, <1>12
  <2> QED BY <1>4, <1>12, <2>1
<1> QED BY <1>11, <1>12

LEMMA QuotaApplyEdit ==
    ASSUME Quota!ForwardInv, Quota!ApplyEdit PROVE Quota!ForwardInv'
<1>1. UNCHANGED <<job, loop, snap, left, inbox, at, now, lag>> /\ edit # None /\ edit' = None
  BY DEF Quota!ApplyEdit, Quota!world
<1>2. Quota!Around' BY <1>1 DEF Quota!ForwardInv, Quota!Around, Quota!Listed
<1>3. CASE UNCHANGED <<Quota!manager, Quota!history>>
  <2>1. Quota!Stored' /\ Quota!Remembered' /\ Quota!Booked'
    BY <1>1, <1>3, QuotaSame DEF Quota!manager, Quota!history
  <2> QED BY <1>2, <2>1 DEF Quota!ForwardInv
<1>4. CASE ~UNCHANGED <<Quota!manager, Quota!history>>
  <2>1. /\ edit.list # Unusable /\ Quota!ValidConfig(Quota!Edited(edit)) /\ config' = Quota!Edited(edit) /\ file' = Quota!Edited(edit)
        /\ recorded' = IF Quota!NeedsBaseline(edit.in) THEN Quota!Suffix(recorded \o Quota!Unseen(edit.list, recorded), QuotaMaxSeen) ELSE recorded
        /\ UNCHANGED <<day, sent>>
    BY <1>4 DEF Quota!ApplyEdit, Quota!Save
  <2>2. PICK d : d = Quota!Edited(edit) OBVIOUS
  <2>3. /\ d \in Quota!Configs /\ Quota!ValidConfig(d) /\ d.qdate = config.qdate /\ d.used = config.used
        /\ recorded' = IF d.version = 3 THEN d.seen ELSE << >>
    BY <1>1, <2>1, <2>2, QuotaEdited DEF Quota!ForwardInv, Quota!Remembered
  <2>4. config' = d /\ file' = d BY <2>1, <2>2
  <2>5. Quota!Stored' BY <2>3, <2>4 DEF Quota!Stored, Quota!ValidConfig, Quota!NoDate
  <2>6. Quota!Remembered' BY <2>3, <2>4 DEF Quota!Remembered
  <2>7. Quota!Reserved' = Quota!Reserved BY <1>1, Zenon DEF Quota!Reserved, Quota!UsesSim
  <2>8. Quota!Booked' BY <2>1, <2>3, <2>4, <2>7 DEF Quota!ForwardInv, Quota!Booked
  <2> QED BY <1>2, <2>5, <2>6, <2>8 DEF Quota!ForwardInv
<1> QED BY <1>3, <1>4

LEMMA QuotaNewJob ==
    ASSUME Quota!Stored, NEW by \in QuotaRequests \cup {"power", "sms"}, NEW m \in QuotaMsgs \cup {None}
    PROVE  Quota!NewJob(by, m) \in Quota!Jobs /\ Quota!NewJob(by, m).stage = "reserve" /\ Quota!NewJob(by, m).by = by /\ Quota!NewJob(by, m).msg = m
<1>1. config.method \in QuotaMethods \cup {"net"} /\ config.phones \in SUBSET QuotaPhones
  BY DEF Quota!Stored, Quota!Configs
<1> QED BY <1>1 DEF Quota!NewJob, Quota!Jobs

\* A step that at most takes or gives back the manager, or moves the loop.
LEMMA QuotaMove ==
    ASSUME Quota!ForwardInv, UNCHANGED <<config, file, inbox, now, lag, recorded, day, sent>>,
           edit' = edit \/ edit' = None, job' = None \/ (job' \in Quota!Jobs /\ job'.stage = "reserve"), Quota!Listed(snap')
    PROVE  Quota!ForwardInv'
<1>1. Quota!Stored' /\ Quota!Remembered' BY QuotaSame
<1>2. Quota!Booked' BY QuotaDone DEF Quota!ForwardInv
<1>3. Quota!Around' BY DEF Quota!ForwardInv, Quota!Around, Quota!Listed, Quota!Jobs, Quota!Inputs
<1> QED BY <1>1, <1>2, <1>3 DEF Quota!ForwardInv

LEMMA QuotaNothing == Quota!Listed(<< >>)
BY QuotaAssumption DEF Quota!Listed

LEMMA QuotaLoop ==
    ASSUME Quota!ForwardInv, Quota!PowerPass \/ Quota!ReadList \/ Quota!EndPass PROVE Quota!ForwardInv'
<1>1. Quota!Listed(snap) /\ Quota!Listed(inbox) /\ Quota!Listed(Unusable)
  BY DEF Quota!ForwardInv, Quota!Around, Quota!Listed
<1>2. UNCHANGED <<config, file, edit, inbox, now, lag, recorded, day, sent>>
  BY DEF Quota!PowerPass, Quota!ReadList, Quota!EndPass, Quota!manager, Quota!world, Quota!history
<1>3. CASE Quota!PowerPass
  <2>1. Quota!NewJob("power", None) \in Quota!Jobs /\ Quota!NewJob("power", None).stage = "reserve"
    BY QuotaNewJob DEF Quota!ForwardInv
  <2>2. snap' = snap /\ (job' = None \/ job' = Quota!NewJob("power", None)) BY <1>3 DEF Quota!PowerPass
  <2>3. job' = None \/ (job' \in Quota!Jobs /\ job'.stage = "reserve") BY <2>1, <2>2
  <2>4. Quota!Listed(snap') BY <1>1, <2>2
  <2> QED BY <1>2, <2>3, <2>4, QuotaMove
<1>4. CASE Quota!ReadList \/ Quota!EndPass
  <2>1. job' = None BY <1>4 DEF Quota!ReadList, Quota!EndPass, Quota!Free
  <2>2. snap' = snap \/ snap' = inbox \/ snap' = Unusable \/ snap' = << >>
    BY <1>4 DEF Quota!ReadList, Quota!EndPass
  <2>3. Quota!Listed(snap') BY <1>1, <2>2, QuotaNothing
  <2> QED BY <1>2, <2>1, <2>3, QuotaMove
<1> QED BY <1>3, <1>4

LEMMA QuotaRequest ==
    ASSUME Quota!ForwardInv, NEW by \in QuotaRequests, Quota!Request(by) PROVE Quota!ForwardInv'
<1>1. UNCHANGED <<config, file, edit, snap, inbox, now, lag, recorded, day, sent>> /\ job' = Quota!NewJob(by, None)
  BY DEF Quota!Request, Quota!manager, Quota!world, Quota!history
<1>2. job' \in Quota!Jobs /\ job'.stage = "reserve" BY <1>1, QuotaNewJob DEF Quota!ForwardInv
<1>3. Quota!Listed(snap') BY <1>1 DEF Quota!ForwardInv, Quota!Around, Quota!Listed
<1> QED BY <1>1, <1>2, <1>3, QuotaMove

LEMMA QuotaAbandon ==
    ASSUME Quota!ForwardInv, Quota!RefuseJob \/ Quota!Post \/ Quota!Unsendable \/ Quota!Abandon PROVE Quota!ForwardInv'
<1>1. UNCHANGED <<config, file, inbox, now, lag, recorded, day, sent>> /\ job' = None /\ (edit' = edit \/ edit' = None)
  BY DEF Quota!RefuseJob, Quota!Post, Quota!Unsendable, Quota!Abandon, Quota!Finish, Quota!manager, Quota!world, Quota!history
<1>2. snap' = snap \/ snap' = << >>
  BY DEF Quota!RefuseJob, Quota!Post, Quota!Unsendable, Quota!Abandon, Quota!Finish
<1>3. Quota!Listed(snap) BY DEF Quota!ForwardInv, Quota!Around
<1>4. Quota!Listed(snap') BY <1>2, <1>3, QuotaNothing
<1> QED BY <1>1, <1>4, QuotaMove

LEMMA QuotaWorld ==
    ASSUME Quota!ForwardInv, (\E m \in QuotaMsgs : Quota!Arrive(m)) \/ (\E i \in 1..Len(inbox) : Quota!Delete(i)) \/ Quota!TimePasses \/ Quota!StepClock
    PROVE  Quota!ForwardInv'
<1>1. UNCHANGED <<config, file, lastResult, job, edit, loop, snap, left, recorded, day, sent, held>>
  BY DEF Quota!Arrive, Quota!Delete, Quota!TimePasses, Quota!StepClock, Quota!manager, Quota!history
<1>2. Quota!Stored' /\ Quota!Remembered' /\ Quota!Booked' BY <1>1, QuotaSame
<1>3. inbox \in Seq(QuotaMsgs) /\ Len(inbox) \in Nat /\ Len(inbox) <= QuotaMaxInbox /\ now \in Nat /\ now >= 2 /\ lag \in Lags
  BY DEF Quota!ForwardInv, Quota!Around
<1>4. inbox' \in Seq(QuotaMsgs) /\ Len(inbox') <= QuotaMaxInbox
  <2>1. CASE \E m \in QuotaMsgs : Quota!Arrive(m)
    <3>1. PICK m \in QuotaMsgs : inbox' = Append(inbox, m) /\ Len(inbox) < QuotaMaxInbox
      BY <2>1 DEF Quota!Arrive
    <3> QED BY <1>3, <3>1, QuotaAssumption
  <2>2. CASE \E i \in 1..Len(inbox) : Quota!Delete(i)
    <3>1. PICK i \in 1..Len(inbox) : inbox' = SubSeq(inbox, 1, i - 1) \o SubSeq(inbox, i + 1, Len(inbox))
      BY <2>2 DEF Quota!Delete
    <3>2. SubSeq(inbox, 1, i - 1) \in Seq(QuotaMsgs) /\ Len(SubSeq(inbox, 1, i - 1)) = i - 1
      <4>1. 1 \in Int /\ i - 1 \in Int /\ (\A k \in 1..(i - 1) : inbox[k] \in QuotaMsgs) BY <1>3
      <4>2. /\ SubSeq(inbox, 1, i - 1) \in Seq(QuotaMsgs)
            /\ Len(SubSeq(inbox, 1, i - 1)) = IF 1 <= i - 1 THEN i - 1 - 1 + 1 ELSE 0
        BY <4>1, SubSeqProperties
      <4> QED BY <1>3, <4>2
    <3>3. SubSeq(inbox, i + 1, Len(inbox)) \in Seq(QuotaMsgs) /\ Len(SubSeq(inbox, i + 1, Len(inbox))) = Len(inbox) - i
      <4>1. i + 1 \in Int /\ Len(inbox) \in Int /\ (\A k \in (i + 1)..Len(inbox) : inbox[k] \in QuotaMsgs)
        BY <1>3
      <4>2. /\ SubSeq(inbox, i + 1, Len(inbox)) \in Seq(QuotaMsgs)
            /\ Len(SubSeq(inbox, i + 1, Len(inbox))) = IF i + 1 <= Len(inbox) THEN Len(inbox) - (i + 1) + 1 ELSE 0
        BY <4>1, SubSeqProperties
      <4> QED BY <1>3, <4>2
    <3>4. PICK a \in Seq(QuotaMsgs), b \in Seq(QuotaMsgs) : inbox' = a \o b /\ Len(a) = i - 1 /\ Len(b) = Len(inbox) - i
      BY <3>1, <3>2, <3>3
    <3>5. a \o b \in Seq(QuotaMsgs) /\ Len(a \o b) = Len(a) + Len(b) OBVIOUS
    <3>6. Len(inbox') = Len(inbox) - 1 BY <1>3, <3>4, <3>5
    <3> QED BY <1>3, <3>4, <3>5, <3>6, QuotaAssumption
  <2>3. CASE Quota!TimePasses \/ Quota!StepClock BY <1>3, <2>3 DEF Quota!TimePasses, Quota!StepClock
  <2> QED BY <2>1, <2>2, <2>3
<1>5. now' \in Nat /\ now' >= 2 /\ lag' \in Lags
  <2>1. now' = now \/ now' = now + 1 BY DEF Quota!Arrive, Quota!Delete, Quota!TimePasses, Quota!StepClock
  <2>2. lag' = lag \/ lag' \in Lags BY DEF Quota!Arrive, Quota!Delete, Quota!TimePasses, Quota!StepClock
  <2>3. \A n \in Nat : n >= 2 => n + 1 \in Nat /\ n + 1 >= 2 OBVIOUS
  <2> QED BY <1>3, <2>1, <2>2, <2>3
<1>6. Quota!Around'
  BY <1>1, <1>4, <1>5 DEF Quota!ForwardInv, Quota!Around, Quota!Listed, Quota!Jobs, Quota!Inputs
<1> QED BY <1>2, <1>6 DEF Quota!ForwardInv

LEMMA QuotaRestart ==
    ASSUME Quota!ForwardInv, Quota!Restart PROVE Quota!ForwardInv'
<1>1. job' = None /\ edit' = None /\ snap' = << >> /\ UNCHANGED <<inbox, now, lag>>
  BY DEF Quota!Restart, Quota!world
<1>2. Quota!Around' BY <1>1, QuotaNothing DEF Quota!ForwardInv, Quota!Around, Quota!Listed
<1>3. Quota!Reserved' = 0 BY <1>1 DEF Quota!Reserved
<1>4. CASE file' = Corrupt
  <2>1. config' = Quota!Default /\ recorded' = << >> /\ day' = Quota!NoDate /\ sent' = 0
    BY <1>4 DEF Quota!Restart, Quota!Loaded
  <2>2. PICK d : d = Quota!Default OBVIOUS
  <2>3. d \in Quota!Configs /\ Quota!ValidConfig(d) /\ d.version = 0 /\ d.qdate = Quota!NoDate /\ d.used = 0
    BY <2>2, QuotaDefault
  <2>4. config' = d BY <2>1, <2>2
  <2>5. Quota!Stored'
    <3>1. (config \in Quota!Configs /\ Quota!ValidConfig(config))'
      BY <2>3, <2>4 DEF Quota!ValidConfig, Quota!NoDate
    <3> QED BY <1>4, <2>1, <3>1 DEF Quota!Stored
  <2>6. Quota!Remembered' BY <2>1, <2>3, <2>4 DEF Quota!Remembered
  <2>7. Quota!Booked' BY <1>3, <2>1, <2>3, <2>4 DEF Quota!Booked, Quota!NoDate
  <2> QED BY <1>2, <2>5, <2>6, <2>7 DEF Quota!ForwardInv
<1>5. CASE file' # Corrupt
  <2>1. file' = file /\ file = config /\ UNCHANGED <<recorded, day, sent>>
    BY <1>5 DEF Quota!Restart, Quota!history, Quota!ForwardInv, Quota!Stored
  <2>2. config' = config
    <3>1. config' = Quota!Loaded(file') BY DEF Quota!Restart
    <3>2. Quota!Loaded(file') = IF file' = Corrupt \/ ~Quota!ValidConfig(file') THEN Quota!Default ELSE file'
      BY Zenon DEF Quota!Loaded
    <3>3. Quota!ValidConfig(config) BY DEF Quota!ForwardInv, Quota!Stored
    <3> QED BY <1>5, <2>1, <3>1, <3>2, <3>3
  <2>3. Quota!Stored' /\ Quota!Remembered' BY <2>1, <2>2, QuotaSame
  <2>4. Quota!Booked' BY <1>1, <2>1, <2>2, QuotaDone DEF Quota!ForwardInv
  <2> QED BY <1>2, <2>3, <2>4 DEF Quota!ForwardInv
<1> QED BY <1>4, <1>5

\* Fingerprints are on disk before anything is delivered.
LEMMA QuotaNextMessage ==
    ASSUME Quota!ForwardInv, Quota!NextMessage PROVE Quota!ForwardInv'
<1>1. snap \in Seq(QuotaMsgs) /\ Len(snap) \in Nat /\ Len(snap) <= QuotaMaxInbox
  BY DEF Quota!ForwardInv, Quota!Around, Quota!Listed, Quota!NextMessage
<1>2. config \in Quota!Configs /\ Quota!ValidConfig(config) /\ config.seen \in Seq(QuotaMsgs)
  BY DEF Quota!ForwardInv, Quota!Stored, Quota!Configs
<1>3. QuotaMaxSeen \in Nat /\ QuotaMaxInbox \in Nat /\ QuotaMaxInbox <= QuotaMaxSeen BY QuotaAssumption
<1>4. PICK m \in QuotaMsgs \cup {None}, w \in Seq(QuotaMsgs), d \in Quota!Configs :
         /\ Quota!Deliver(m, w) /\ config' = d /\ file' = d /\ Quota!ValidConfig(d)
         /\ d.qdate = config.qdate /\ d.used = config.used /\ d.version = 3
         /\ d.seen = Quota!Suffix(recorded \o w, QuotaMaxSeen)
  <2>1. CASE config.version # 3
    <3>1. PICK w : w = Quota!Unseen(snap, << >>) OBVIOUS
    <3>2. PICK t \in Int : t = Quota!Clock BY QuotaToday DEF Quota!ForwardInv
    <3>3. w \in Seq(QuotaMsgs) /\ Len(w) <= Len(snap) /\ Len(w) \in Nat BY <1>1, <3>1, QuotaUnseen
    <3>4. Len(w) <= QuotaMaxSeen BY <1>1, <1>3, <3>3
    <3>5. PICK d : d = [config EXCEPT !.seen = w, !.version = 3, !.since = t] OBVIOUS
    <3>6. Quota!Deliver(None, w) /\ config' = d /\ file' = d
      BY <2>1, <3>1, <3>2, <3>5 DEF Quota!NextMessage, Quota!Save
    <3>7. d \in Quota!Configs /\ Quota!ValidConfig(d) BY <1>2, <3>3, <3>4, <3>5, QuotaMarked
    <3>8. d.qdate = config.qdate /\ d.used = config.used /\ d.version = 3 /\ d.seen = w
      BY <1>2, <3>5 DEF Quota!Configs
    <3>9. recorded = << >> BY <2>1 DEF Quota!ForwardInv, Quota!Remembered
    <3>10. recorded \o w = w BY <3>3, <3>9
    <3>11. Quota!Suffix(recorded \o w, QuotaMaxSeen) = w BY <1>3, <3>3, <3>4, <3>10, QuotaSuffix
    <3> QED BY <3>3, <3>6, <3>7, <3>8, <3>11
  <2>2. CASE config.version = 3
    <3>1. PICK w : w = Quota!Pass.new OBVIOUS
    <3>2. PICK m : m = Quota!Pass.msg OBVIOUS
    <3>3. w \in Seq(QuotaMsgs) /\ m \in QuotaMsgs \cup {None} BY <1>1, <3>1, <3>2, QuotaPass
    <3>4. recorded = config.seen BY <2>2 DEF Quota!ForwardInv, Quota!Remembered
    <3>5. PICK u : u = Quota!Suffix(config.seen \o w, QuotaMaxSeen) OBVIOUS
    <3>6. u \in Seq(QuotaMsgs) /\ Len(u) <= QuotaMaxSeen
      <4>1. config.seen \o w \in Seq(QuotaMsgs) BY <1>2, <3>3
      <4> QED BY <1>3, <3>5, <4>1, QuotaSuffix
    <3>7. PICK d : d = [config EXCEPT !.seen = u] OBVIOUS
    <3>8. Quota!Deliver(m, w) /\ config' = d /\ file' = d
      BY <2>2, <3>1, <3>2, <3>5, <3>7 DEF Quota!NextMessage, Quota!Save
    <3>9. d \in Quota!Configs /\ Quota!ValidConfig(d)
      <4>1. 0 \in Int OBVIOUS
      <4> QED BY <1>2, <3>6, <3>7, <4>1, QuotaMarked
    <3>10. d.qdate = config.qdate /\ d.used = config.used /\ d.version = 3 /\ d.seen = u
      BY <1>2, <2>2, <3>7 DEF Quota!Configs
    <3> QED BY <3>3, <3>4, <3>5, <3>8, <3>9, <3>10
  <2> QED BY <2>1, <2>2
<1>5. Quota!Stored' BY <1>4 DEF Quota!Stored, Quota!ValidConfig, Quota!NoDate
<1>6. Quota!Remembered' BY <1>4 DEF Quota!Remembered, Quota!Deliver
<1>7. job' = None \/ job' = Quota!NewJob("sms", m) BY <1>4 DEF Quota!Deliver
<1>8. job' = None \/ (job' \in Quota!Jobs /\ job'.stage = "reserve")
  <2>1. Quota!NewJob("sms", m) \in Quota!Jobs /\ Quota!NewJob("sms", m).stage = "reserve"
    BY QuotaNewJob DEF Quota!ForwardInv
  <2> QED BY <1>7, <2>1
<1>9. Quota!Booked'
  <2>1. Quota!Reserved' = 0 BY <1>8 DEF Quota!Reserved
  <2>2. Quota!Reserved = 0 BY QuotaReserved DEF Quota!ForwardInv, Quota!NextMessage, Quota!Free
  <2>3. UNCHANGED <<day, sent>> BY <1>4 DEF Quota!Deliver
  <2> QED BY <1>4, <2>1, <2>2, <2>3 DEF Quota!ForwardInv, Quota!Booked
<1>10. Quota!Around'
  <2>1. UNCHANGED <<edit, inbox, now, lag>> /\ (snap' = snap \/ snap' = << >>)
    BY <1>4 DEF Quota!Deliver, Quota!world
  <2>2. Quota!Listed(snap') BY <1>1, <2>1, QuotaNothing DEF Quota!Listed
  <2> QED BY <1>8, <2>1, <2>2 DEF Quota!ForwardInv, Quota!Around, Quota!Listed, Quota!Jobs, Quota!Inputs
<1> QED BY <1>5, <1>6, <1>9, <1>10 DEF Quota!ForwardInv

LEMMA QuotaTargets ==
    ASSUME NEW j \in Quota!Jobs PROVE Quota!Targets(j) \in SUBSET QuotaPhones
<1>1. Quota!TargetPhone \in QuotaPhones BY QuotaAssumption, Zenon DEF Quota!TargetPhone
<1>2. j.to \in SUBSET QuotaPhones BY DEF Quota!Jobs
<1> QED BY <1>1, <1>2 DEF Quota!Targets

\* Quota for every number is booked before the first one is sent to.
LEMMA QuotaReserve ==
    ASSUME Quota!ForwardInv, Quota!Reserve PROVE Quota!ForwardInv'
<1>1. job \in Quota!Jobs /\ job # None /\ UNCHANGED <<edit, snap, inbox, now, lag, recorded>>
  BY DEF Quota!ForwardInv, Quota!Around, Quota!Reserve, Quota!world
<1>2. PICK S \in SUBSET QuotaPhones : S = Quota!Targets(job) BY <1>1, QuotaTargets
<1>3. Quota!Cardinality(S) \in Nat BY QuotaAssumption, FS_Subset, FS_CardinalityType, QuotaCardinality
<1>4. job' = [job EXCEPT !.stage = "send", !.to = S] BY <1>2 DEF Quota!Reserve
<1>5. /\ job' \in Quota!Jobs /\ job'.to = S /\ job'.by = job.by /\ job'.method = job.method
      /\ (Quota!UsesSim(job') <=> Quota!UsesSim(job))
  <2>1. PICK j : j = [job EXCEPT !.stage = "send", !.to = S] OBVIOUS
  <2>2. j \in Quota!Jobs /\ j.to = S /\ j.by = job.by /\ j.method = job.method BY <1>1, <2>1 DEF Quota!Jobs
  <2> QED BY <1>4, <2>1, <2>2 DEF Quota!UsesSim
<1>6. Quota!Around' BY <1>1, <1>5 DEF Quota!ForwardInv, Quota!Around, Quota!Listed, Quota!Jobs, Quota!Inputs
<1>7. config \in Quota!Configs /\ Quota!ValidConfig(config) /\ config.used \in Nat /\ config.qdate \in Int
  BY DEF Quota!ForwardInv, Quota!Stored, Quota!Configs
<1>8. day = config.qdate /\ sent \in Nat /\ sent <= config.used
  <2>1. Quota!Reserved = 0 BY DEF Quota!Reserved, Quota!Reserve
  <2> QED BY <2>1 DEF Quota!ForwardInv, Quota!Booked
<1>9. CASE Quota!UsesSim(job)
  <2>1. PICK q : q = Quota!QuotaDay.date OBVIOUS
  <2>2. PICK u : u = Quota!QuotaDay.used + Quota!Cardinality(S) OBVIOUS
  <2>3. Quota!Today \in Int /\ Quota!Today >= 0 BY QuotaToday DEF Quota!ForwardInv
  <2>4. IF Quota!Today > config.qdate THEN q = Quota!Today /\ u = Quota!Cardinality(S)
        ELSE q = config.qdate /\ u = config.used + Quota!Cardinality(S)
    <3>1. config.qdate = Quota!NoDate => Quota!Today > config.qdate BY <2>3 DEF Quota!NoDate
    <3>2. CASE Quota!Today > config.qdate
      <4>1. Quota!QuotaDay = [date |-> Quota!Today, used |-> 0] BY <3>2 DEF Quota!QuotaDay
      <4>2. q = Quota!Today /\ u = 0 + Quota!Cardinality(S) BY <2>1, <2>2, <4>1
      <4> QED BY <1>3, <3>2, <4>2
    <3>3. CASE ~(Quota!Today > config.qdate) BY <2>1, <2>2, <3>1, <3>3 DEF Quota!QuotaDay
    <3> QED BY <3>2, <3>3
  <2>5. q \in Int /\ q # Quota!NoDate /\ u \in Nat
    <3>1. CASE Quota!Today > config.qdate BY <1>3, <2>3, <2>4, <3>1 DEF Quota!NoDate
    <3>2. CASE ~(Quota!Today > config.qdate) BY <1>3, <1>7, <2>3, <2>4, <3>2 DEF Quota!NoDate
    <3> QED BY <3>1, <3>2
  <2>6. PICK d : d = [config EXCEPT !.qdate = q, !.used = u] OBVIOUS
  <2>7. u <= MaxDaily /\ config' = d /\ file' = d
    BY <1>2, <1>9, <2>1, <2>2, <2>6 DEF Quota!Reserve, Quota!Save
  <2>8. /\ d \in Quota!Configs /\ d.enabled = config.enabled /\ d.method = config.method /\ d.phones = config.phones
        /\ d.url = config.url /\ d.seen = config.seen /\ d.version = config.version /\ d.qdate = q /\ d.used = u
    BY <1>7, <2>5, <2>6 DEF Quota!Configs
  <2>9. Quota!ValidConfig(d)
    <3>1. Len(d.seen) <= QuotaMaxSeen BY <1>7, <2>8 DEF Quota!ValidConfig
    <3> QED BY <1>7, <2>5, <2>7, <2>8, <3>1, QuotaValid
  <2>10. Quota!Stored' BY <2>7, <2>8, <2>9 DEF Quota!Stored, Quota!ValidConfig, Quota!NoDate
  <2>11. Quota!Remembered' BY <1>1, <2>7, <2>8 DEF Quota!ForwardInv, Quota!Remembered
  <2>12. Quota!Booked'
    <3>1. day' = (IF Quota!Today > day THEN Quota!Today ELSE day) /\ sent' = (IF Quota!Today > day THEN 0 ELSE sent)
      BY <1>9 DEF Quota!Reserve
    <3>2. Quota!Reserved' = Quota!Cardinality(S) \/ Quota!Reserved' = 0 BY <1>5 DEF Quota!Reserved
    <3>3. day' = q /\ sent' \in Nat /\ sent' + Quota!Reserved' <= u
      <4>1. CASE Quota!Today > config.qdate BY <1>3, <1>8, <2>4, <3>1, <3>2, <4>1
      <4>2. CASE ~(Quota!Today > config.qdate) BY <1>3, <1>7, <1>8, <2>4, <3>1, <3>2, <4>2
      <4> QED BY <4>1, <4>2
    <3> QED BY <2>7, <2>8, <3>3 DEF Quota!Booked
  <2> QED BY <1>6, <2>10, <2>11, <2>12 DEF Quota!ForwardInv
<1>10. CASE ~Quota!UsesSim(job)
  <2>1. UNCHANGED <<config, file, day, sent>> BY <1>10 DEF Quota!Reserve
  <2>2. Quota!Reserved' = 0 BY <1>5, <1>10 DEF Quota!Reserved
  <2>3. Quota!Booked' BY <1>7, <1>8, <2>1, <2>2 DEF Quota!Booked
  <2>4. Quota!Stored' /\ Quota!Remembered' BY <1>1, <2>1, QuotaSame
  <2> QED BY <1>6, <2>3, <2>4 DEF Quota!ForwardInv
<1> QED BY <1>9, <1>10

\* One number after the other: what was sent moves from what is booked.
LEMMA QuotaSendSim ==
    ASSUME Quota!ForwardInv, NEW p \in QuotaPhones, Quota!SendSim(p) PROVE Quota!ForwardInv'
<1>1. job \in Quota!Jobs /\ UNCHANGED <<config, file, edit, inbox, now, lag, recorded, day>>
  BY DEF Quota!ForwardInv, Quota!Around, Quota!SendSim, Quota!Finish, Quota!manager, Quota!world
<1>2. Quota!Stored' /\ Quota!Remembered' BY <1>1, QuotaSame
<1>3. job.to \in SUBSET QuotaPhones /\ p \in job.to BY <1>1 DEF Quota!Jobs, Quota!SendSim
<1>4. IsFiniteSet(job.to) BY <1>3, QuotaAssumption, FS_Subset
<1>5. PICK n \in Nat : n = Quota!Cardinality(job.to) BY <1>4, FS_CardinalityType, QuotaCardinality
<1>6. Quota!Cardinality(job.to \ {p}) = n - 1 /\ n > 0
  <2>1. Quota!Cardinality(job.to \ {p}) = n - 1 BY <1>3, <1>4, <1>5, FS_RemoveElement, QuotaCardinality
  <2>2. IsFiniteSet(job.to \ {p}) BY <1>4, FS_Subset
  <2>3. n - 1 \in Nat BY <2>1, <2>2, FS_CardinalityType, QuotaCardinality
  <2> QED BY <1>5, <2>1, <2>3
<1>7. Quota!Reserved = n BY <1>5 DEF Quota!Reserved, Quota!SendSim
<1>8. day = config.qdate /\ sent \in Nat /\ sent + n <= config.used /\ config.used \in Nat
  BY <1>7 DEF Quota!ForwardInv, Quota!Booked, Quota!Stored, Quota!Configs
<1>9. CASE Quota!Finish(TRUE)
  <2>1. job' = None /\ sent' = sent + 1 /\ (snap' = snap \/ snap' = << >>)
    BY <1>9 DEF Quota!Finish, Quota!SendSim
  <2>2. Quota!Reserved' = 0 BY <2>1 DEF Quota!Reserved
  <2>3. sent' \in Nat /\ sent' + 0 <= config.used BY <1>6, <1>8, <2>1
  <2>4. Quota!Booked' BY <1>1, <1>8, <2>2, <2>3 DEF Quota!Booked
  <2>5. Quota!Listed(snap) BY DEF Quota!ForwardInv, Quota!Around
  <2>6. Quota!Listed(snap') BY <2>1, <2>5, QuotaNothing
  <2>7. Quota!Around' BY <1>1, <2>1, <2>6 DEF Quota!ForwardInv, Quota!Around, Quota!Listed, Quota!Inputs
  <2> QED BY <1>2, <2>4, <2>7 DEF Quota!ForwardInv
<1>10. CASE ~Quota!Finish(TRUE)
  <2>1. job' = [job EXCEPT !.to = @ \ {p}] /\ snap' = snap /\ sent' = sent + 1 BY <1>10 DEF Quota!SendSim
  <2>2. job' \in Quota!Jobs /\ job'.to = job.to \ {p}
    <3>1. PICK S \in SUBSET QuotaPhones : S = job.to \ {p} BY <1>3
    <3>2. job' = [job EXCEPT !.to = S] BY <2>1, <3>1
    <3>3. job' \in Quota!Jobs /\ job'.to = S BY <1>1, <3>2 DEF Quota!Jobs
    <3> QED BY <3>1, <3>3
  <2>3. Quota!Reserved' = n - 1 \/ Quota!Reserved' = 0 BY <1>6, <2>2 DEF Quota!Reserved
  <2>4. sent' \in Nat /\ sent' + Quota!Reserved' <= config.used
    <3>1. PICK r : r = Quota!Reserved' OBVIOUS
    <3>2. r = n - 1 \/ r = 0 BY <2>3, <3>1
    <3>3. sent + 1 \in Nat /\ sent + 1 + r <= config.used BY <1>6, <1>8, <3>2
    <3> QED BY <2>1, <3>1, <3>3
  <2>5. Quota!Booked' BY <1>1, <1>8, <2>4 DEF Quota!Booked
  <2>6. Quota!Around'
    BY <1>1, <2>1, <2>2 DEF Quota!ForwardInv, Quota!Around, Quota!Listed, Quota!Jobs, Quota!Inputs
  <2> QED BY <1>2, <2>5, <2>6 DEF Quota!ForwardInv
<1> QED BY <1>9, <1>10

LEMMA QuotaInit == Quota!Init => Quota!ForwardInv
<1> SUFFICES ASSUME Quota!Init PROVE Quota!ForwardInv OBVIOUS
<1>1. PICK d : d = [Quota!Default EXCEPT !.enabled = TRUE, !.url = TRUE] OBVIOUS
<1>2. /\ d \in Quota!Configs /\ d.version = 0 /\ d.qdate = Quota!NoDate /\ d.used = 0 /\ d.url = TRUE
      /\ d.seen = << >> /\ d.method = "net"
  <2>1. PICK c \in Quota!Configs : c = Quota!Default BY QuotaDefault
  <2>2. /\ c.version = 0 /\ c.qdate = Quota!NoDate /\ c.used = 0 /\ c.seen = << >> /\ c.method = "net"
    BY <2>1 DEF Quota!Default
  <2>3. PICK b \in BOOLEAN : b = TRUE OBVIOUS
  <2>4. d = [c EXCEPT !.enabled = b, !.url = b] BY <1>1, <2>1, <2>3
  <2>5. /\ d \in Quota!Configs /\ d.url = b /\ d.version = c.version /\ d.qdate = c.qdate /\ d.used = c.used
        /\ d.seen = c.seen /\ d.method = c.method
    BY <2>4 DEF Quota!Configs
  <2> QED BY <2>2, <2>3, <2>5
<1>3. Len(d.seen) <= QuotaMaxSeen /\ d.used <= MaxDaily BY <1>2, QuotaAssumption
<1>4. d.method # "sms" BY <1>2
<1>5. Quota!ValidConfig(d) BY <1>2, <1>3, <1>4, Zenon DEF Quota!ValidConfig
<1>6. file = d /\ config = Quota!Loaded(d) BY <1>1, Zenon DEF Quota!Init
<1>7. Quota!Loaded(d) = Quota!Default \/ Quota!Loaded(d) = d BY Zenon DEF Quota!Loaded
<1>8. Quota!Loaded(d) = Quota!Default => d = Corrupt \/ Quota!Default = d BY <1>5, Zenon DEF Quota!Loaded
<1>9. Quota!Stored BY <1>2, <1>5, <1>6, <1>7, <1>8, QuotaDefault, Zenon DEF Quota!Stored
<1>10. config.version = 0 /\ config.qdate = Quota!NoDate /\ config.used = 0 BY <1>2, <1>6, <1>7, QuotaDefault
<1>11. Quota!Remembered BY <1>10 DEF Quota!Remembered, Quota!Init
<1>12. Quota!Booked BY <1>10 DEF Quota!Booked, Quota!Reserved, Quota!Init
<1>13. Quota!Around BY QuotaNothing, QuotaAssumption DEF Quota!Around, Quota!Init
<1> QED BY <1>9, <1>11, <1>12, <1>13 DEF Quota!ForwardInv

LEMMA QuotaKept == Quota!ForwardInv /\ [Quota!Next]_(Quota!vars) => Quota!ForwardInv'
<1> SUFFICES ASSUME Quota!ForwardInv, [Quota!Next]_(Quota!vars) PROVE Quota!ForwardInv' OBVIOUS
<1>1. CASE Quota!Manage BY <1>1, QuotaBeginEdit, QuotaApplyEdit DEF Quota!Manage
<1>2. CASE Quota!Loop BY <1>2, QuotaLoop, QuotaNextMessage DEF Quota!Loop
<1>3. CASE Quota!Send
  <2>1. CASE \E by \in QuotaRequests : Quota!Request(by) BY <2>1, QuotaRequest
  <2>2. CASE \E p \in QuotaPhones : Quota!SendSim(p) BY <2>2, QuotaSendSim
  <2>3. CASE Quota!RefuseJob \/ Quota!Post \/ Quota!Unsendable \/ Quota!Abandon BY <2>3, QuotaAbandon
  <2>4. CASE Quota!Reserve BY <2>4, QuotaReserve
  <2> QED BY <1>3, <2>1, <2>2, <2>3, <2>4 DEF Quota!Send
<1>4. CASE Quota!World BY <1>4, QuotaWorld, QuotaRestart DEF Quota!World
<1>5. CASE UNCHANGED Quota!vars
  <2>1. UNCHANGED <<config, file, job, edit, snap, inbox, now, lag, recorded, day, sent>>
    BY <1>5 DEF Quota!vars
  <2>2. Quota!Stored' /\ Quota!Remembered' /\ Quota!Booked' BY <2>1, QuotaSame
  <2>3. Quota!Around' BY <2>1 DEF Quota!ForwardInv, Quota!Around, Quota!Listed, Quota!Jobs, Quota!Inputs
  <2> QED BY <2>2, <2>3 DEF Quota!ForwardInv
<1> QED BY <1>1, <1>2, <1>3, <1>4, <1>5 DEF Quota!Next

LEMMA QuotaSends == Quota!ForwardInv => Quota!SimQuota
<1> SUFFICES ASSUME Quota!ForwardInv PROVE Quota!SimQuota OBVIOUS
<1>1. PICK r \in Nat : r = Quota!Reserved BY QuotaReserved DEF Quota!ForwardInv
<1>2. sent \in Nat /\ sent + r <= config.used BY <1>1 DEF Quota!ForwardInv, Quota!Booked
<1>3. config.used \in Nat /\ config.used <= MaxDaily
  BY DEF Quota!ForwardInv, Quota!Stored, Quota!Configs, Quota!ValidConfig
<1> QED BY <1>2, <1>3, QuotaAssumption DEF Quota!SimQuota

LEMMA QuotaNoReplay ==
    ASSUME Quota!ForwardInv, [Quota!Next]_(Quota!vars), job = None, job' # None, job'.by = "sms"
    PROVE  job'.msg \notin Quota!Elems(recorded)
<1>1. CASE Quota!NextMessage
  <2>1. config.version # 3 => job' = None BY <1>1 DEF Quota!NextMessage, Quota!Deliver
  <2>2. config.version = 3 BY <2>1
  <2>3. recorded = config.seen BY <2>2 DEF Quota!ForwardInv, Quota!Remembered
  <2>4. snap \in Seq(QuotaMsgs) BY <1>1 DEF Quota!ForwardInv, Quota!Around, Quota!Listed, Quota!NextMessage
  <2>5. Quota!Pass.msg # None /\ job' = Quota!NewJob("sms", Quota!Pass.msg)
    BY <1>1, <2>2 DEF Quota!NextMessage, Quota!Deliver
  <2>6. job'.msg = Quota!Pass.msg BY <2>5 DEF Quota!NewJob
  <2>7. Quota!Pass.msg \notin Quota!Elems(config.seen) BY <2>4, <2>5, QuotaPass
  <2> QED BY <2>3, <2>6, <2>7
<1>2. CASE Quota!PowerPass
  <2>1. job' = Quota!NewJob("power", None) BY <1>2 DEF Quota!PowerPass
  <2>2. job'.by = "power" BY <2>1 DEF Quota!NewJob
  <2> QED BY <2>2
<1>3. CASE \E by \in QuotaRequests : Quota!Request(by)
  <2>1. PICK by \in QuotaRequests : job' = Quota!NewJob(by, None) BY <1>3 DEF Quota!Request
  <2>2. job'.by = by BY <2>1 DEF Quota!NewJob
  <2> QED BY <2>1, <2>2, QuotaAssumption
<1>4. ~(Quota!Manage \/ Quota!World \/ UNCHANGED Quota!vars)
  BY DEF Quota!Manage, Quota!World, Quota!BeginEdit, Quota!ApplyEdit, Quota!Arrive, Quota!Delete, Quota!TimePasses, Quota!StepClock, Quota!Restart, Quota!vars
<1>6. ~(Quota!ReadList \/ Quota!EndPass \/ Quota!Reserve \/ Quota!RefuseJob \/ Quota!Post \/ Quota!Unsendable \/ Quota!Abandon)
  BY DEF Quota!ReadList, Quota!EndPass, Quota!Reserve, Quota!RefuseJob, Quota!Post, Quota!Unsendable, Quota!Abandon, Quota!Finish
<1>5. ~\E p \in QuotaPhones : Quota!SendSim(p) BY DEF Quota!SendSim
<1> QED BY <1>1, <1>2, <1>3, <1>4, <1>5, <1>6 DEF Quota!Next, Quota!Loop, Quota!Send

LEMMA ForwardAtWork ==
    ASSUME [AllNext]_allVars
    PROVE  /\ live' = live
           /\ live = "inbox" => [Inbox!Next]_(Inbox!vars)
           /\ live # "inbox" => [Quota!Next]_(Quota!vars)
BY DEF AllNext, allVars, smsVars, Inbox!vars, Quota!vars, InboxStep, QuotaStep, BatteryStep, StoreStep, MailStep

\* For any SMS, numbers, methods, quota and length of a day, and any order of
\* settings, passes, deliveries, failed writes, steps of the clock and restarts:
\* an SMS whose fingerprint is still remembered is not delivered again, and the
\* SIM is used at most MaxDaily times between two advances of the date
\* (sms_forward.rs, next_at, update, reserve_sms and load).
THEOREM ForwardOnceHolds == AllSpec => ForwardOnce
<1> DEFINE Inv == IF live = "inbox" THEN Inbox!ForwardInv ELSE Quota!ForwardInv
           Again == job = None /\ job' # None /\ job'.by = "sms" => job'.msg \notin Inbox!Elems(recorded)
<1>1. AllInit => Inv
  BY InboxInit, QuotaInit DEF AllInit
<1>2. Inv /\ [AllNext]_allVars => Inv'
  <2> SUFFICES ASSUME Inv, [AllNext]_allVars PROVE Inv'
    OBVIOUS
  <2>1. CASE live = "inbox"
    BY <2>1, ForwardAtWork, InboxKept
  <2>2. CASE live # "inbox"
    BY <2>2, ForwardAtWork, QuotaKept
  <2> QED
    BY <2>1, <2>2
<1>3. Inv => Quota!SimQuota
  <2>1. Inbox!SimQuota <=> Quota!SimQuota
    BY DEF Inbox!SimQuota, Quota!SimQuota
  <2> QED
    BY <2>1, InboxSends, QuotaSends
<1>4. Inv /\ [AllNext]_allVars => [Again]_(Inbox!vars)
  <2> SUFFICES ASSUME Inv, [AllNext]_allVars, job = None, job' # None, job'.by = "sms"
               PROVE  job'.msg \notin Inbox!Elems(recorded)
    BY DEF Inbox!vars
  <2>1. CASE live = "inbox"
    BY <2>1, ForwardAtWork, InboxNoReplay
  <2>2. CASE live # "inbox"
    <3>1. Inbox!Elems(recorded) = Quota!Elems(recorded)
      BY DEF Inbox!Elems, Quota!Elems
    <3> QED
      BY <2>2, <3>1, ForwardAtWork, QuotaNoReplay
  <2> QED
    BY <2>1, <2>2
<1> HIDE DEF Inv
<1> QED
  BY <1>1, <1>2, <1>3, <1>4, PTL DEF AllSpec, ForwardOnce, Inbox!NoReplay
=============================================================================
