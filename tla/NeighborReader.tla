--------------------------- MODULE NeighborReader ---------------------------
(***************************************************************************)
(* The reader of neighbour cell captures (neighbor.rs).  Identities with a *)
(* frequency and signals without one come in any order; the reader keeps a *)
(* bounded number of each and attributes signals to frequencies.           *)
(***************************************************************************)
EXTENDS Naturals, Sequences

CONSTANTS
    Pcis, Arfcns, \* cells and frequencies in a capture
    Records,      \* RECORDS: what the reader keeps of each kind
    Window,       \* ANCHOR_FRAMES
    MaxFrames     \* bound: frames of a capture

VARIABLES
    frames,       \* history: the frames read so far
    directs, samples,       \* the reader's records
    discarded, malformed    \* its counters

vars == <<frames, directs, samples, discarded, malformed>>

(***************************************************************************)
(* Parser: one frame after the other of a capture.                         *)
(***************************************************************************)
Keep(q, r) == IF Len(q) = Records THEN Append(Tail(q), r) ELSE Append(q, r)

MutDirect(p, a) ==
    /\ Len(frames) < MaxFrames
    /\ LET r == [kind |-> "direct", pci |-> p, arfcn |-> a, seq |-> Len(frames) + 1] IN
         frames' = Append(frames, r) /\ directs' = Keep(directs, r)
    /\ UNCHANGED <<samples, discarded, malformed>>

\* push_direct: an identity with its frequency; the oldest one makes room.
Direct(p, a) ==
    /\ Len(frames) < MaxFrames
    /\ LET r == [kind |-> "direct", pci |-> p, arfcn |-> a, seq |-> Len(frames) + 1] IN
         frames' = Append(frames, r) /\ directs' = Keep(directs, r)
    /\ discarded' = discarded + (IF Len(directs) = Records THEN 1 ELSE 0)
    /\ UNCHANGED <<samples, malformed>>

\* push_sample: a signal without a frequency; wide: it may take a frequency
\* that is the only one for its cell in the whole capture.
Sample(p, wide) ==
    /\ Len(frames) < MaxFrames
    /\ LET r == [kind |-> "sample", pci |-> p, wide |-> wide, seq |-> Len(frames) + 1] IN
         frames' = Append(frames, r) /\ samples' = Keep(samples, r)
    /\ discarded' = discarded + (IF Len(samples) = Records THEN 1 ELSE 0)
    /\ UNCHANGED <<directs, malformed>>

\* feed: a frame with a wrong checksum, or cut off by the end of the file.
Broken ==
    /\ Len(frames) < MaxFrames
    /\ frames' = Append(frames, [kind |-> "broken"])
    /\ malformed' = malformed + 1
    /\ UNCHANGED <<directs, samples, discarded>>

Range(q) == {q[k] : k \in DOMAIN q}
Near(s, d) == d.pci = s.pci /\ (IF d.seq > s.seq THEN d.seq - s.seq ELSE s.seq - d.seq) <= Window

\* result: the frequencies a sample may belong to, the near ones first.
Anchors(s, known) ==
    LET near == {d.arfcn : d \in {e \in known : Near(s, e)}}
        all == {d.arfcn : d \in {e \in known : e.pci = s.pci}} IN
    IF near # {} \/ ~s.wide THEN near ELSE all

\* A sample with one candidate is attributed to it.
Attributed == {t \in Range(samples) \X Arfcns : Anchors(t[1], Range(directs)) = {t[2]}}

Partial == discarded > 0 \/ malformed > 0

Init ==
    /\ frames = <<>> /\ directs = <<>> /\ samples = <<>> /\ discarded = 0 /\ malformed = 0

Next ==
    \/ \E p \in Pcis, a \in Arfcns : Direct(p, a)
    \/ \E p \in Pcis, wide \in BOOLEAN : Sample(p, wide)
    \/ Broken

Spec == Init /\ [][Next]_vars

(***************************************************************************)
(* Properties.                                                             *)
(***************************************************************************)

\* A signal is attributed to a frequency only if nothing in the whole capture
\* contradicts it, also when records had to be dropped, unless the result is
\* marked partial ("Conflicting frequencies stay unresolved", Parser::result).
NoSilentAttribution ==
    LET all == {f \in Range(frames) : f.kind = "direct"} IN
    ~Partial => \A x \in Attributed : Anchors(x[1], all) = {x[2]}
(* The inductive invariant of NoSilentAttribution: while nothing was         *)
(* dropped, the reader knows every identity of the capture.                  *)
Frame == [kind: {"direct"}, pci: Pcis, arfcn: Arfcns, seq: Nat]
         \cup [kind: {"sample"}, pci: Pcis, wide: BOOLEAN, seq: Nat] \cup [kind: {"broken"}]
ReaderInv ==
    /\ frames \in Seq(Frame) /\ discarded \in Nat
    /\ discarded = 0 =>
         /\ directs \in Seq(Frame)
         /\ Range(directs) = {f \in Range(frames) : f.kind = "direct"}
=============================================================================
