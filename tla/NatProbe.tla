------------------------------ MODULE NatProbe ------------------------------
(***************************************************************************)
(* One detection of the NAT in front of the device (nat.rs run), against a *)
(* NAT and a device firewall that keep mappings and holes per socket, and  *)
(* STUN servers that may be dead, plain, or deaf to CHANGE-REQUEST.  Every *)
(* request the detection sends changes what later answers get through.     *)
(***************************************************************************)
EXTENDS Naturals, Sequences, FiniteSets

CONSTANTS
    Servers,   \* the servers, in the order they are tried: a sequence
    Count,     \* PORT_FILTER_SERVERS + 1: probes with an alternate address
    None       \* no answer

VARIABLES
    net,      \* the network: nat, mapping, filter, firewall
    caps,     \* what each server does
    capture,  \* is there a packet capture?
    phase,    \* the step of the detection
    sent,     \* where the socket of each probe has sent to
    probes,   \* servers that answered; the first one leads
    todo,     \* the next server to try, or probe whose port-only test may be asked
    both,     \* what the change of address and port got: [socket, wire]
    ports,    \* what the port-only tests got
    second,   \* the mapping towards the alternate address
    mapping,  \* the verdict on the mapping
    lost      \* history: some answer was lost on the way

vars == <<net, caps, capture, phase, sent, probes, todo, both, ports, second, mapping, lost>>
fixed == <<net, caps, capture>>

All == {Servers[i] : i \in DOMAIN Servers}

\* The kinds of behaviour, the most open one first.
Behaviours == <<"independent", "address", "address_port">>
Rank(b) == CHOOSE i \in 1 .. 3 : Behaviours[i] = b
Stricter(a, b) == IF Rank(a) >= Rank(b) THEN a ELSE b

(***************************************************************************)
(* The network.  An endpoint is a server, its primary or alternate IP and  *)
(* its primary or alternate port.                                          *)
(***************************************************************************)
Primary(s) == <<s, "p", "p">>
AlternateIp(s) == <<s, "a", "p">>
Alternate(s) == <<s, "a", "a">>
ChangedPort(s) == <<s, "p", "a">>
Ip(e) == <<e[1], e[2]>>

\* The public endpoint of the socket towards dest.
Mapped(k, dest) ==
    IF ~net.nat \/ net.mapping = "independent" THEN <<k>>
    ELSE IF net.mapping = "address" THEN <<k, Ip(dest)>>
    ELSE <<k, dest>>

Passes(policy, holes, src) ==
    \/ policy = "independent"
    \/ policy = "address" /\ \E d \in holes : Ip(d) = Ip(src)
    \/ policy = "address_port" /\ src \in holes

\* Does an answer from src to the mapping used towards dest reach the device,
\* and the socket behind the device's firewall?
OnWire(k, dest, src, out) == ~net.nat \/ Passes(net.filter, {d \in out : Mapped(k, d) = Mapped(k, dest)}, src)
OnSocket(k, dest, src, out) == OnWire(k, dest, src, out) /\ Passes(net.firewall, out, src)

\* Where a server answers from, if it answers.
Obeys(kind, there, dest) == IF kind = "yes" THEN there ELSE IF kind = "same" THEN dest ELSE None
Source(dest, change) ==
    IF change = "none" THEN dest
    ELSE IF change = "both" THEN Obeys(caps[dest[1]].both, Alternate(dest[1]), dest)
    ELSE Obeys(caps[dest[1]].port, ChangedPort(dest[1]), dest)

\* query_seen: the request leaves, retransmitted; the answer is seen on the
\* socket, on the wire only, or not at all.
Query(k, dest, change, arrives) ==
    LET src == Source(dest, change)
        out == sent[k] \cup {dest} IN
    [wire   |-> IF arrives /\ src # None /\ OnWire(k, dest, src, out) THEN src ELSE None,
     socket |-> IF arrives /\ src # None /\ OnSocket(k, dest, src, out) THEN src ELSE None]

Asked(k, dest, arrives) ==
    /\ sent' = [sent EXCEPT ![k] = @ \cup {dest}]
    /\ lost' = (lost \/ ~arrives)

(***************************************************************************)
(* open_probes.                                                            *)
(***************************************************************************)
WithAlternate == {i \in DOMAIN probes : caps[probes[i]].alt}

Open ==
    /\ phase = "open" /\ todo <= Len(Servers) /\ Cardinality(WithAlternate) < Count
    /\ \E arrives \in BOOLEAN :
         LET s == Servers[todo] IN
         /\ Asked(s, Primary(s), arrives)
         /\ probes' = IF caps[s].alive /\ arrives THEN Append(probes, s) ELSE probes
    /\ todo' = todo + 1
    /\ UNCHANGED <<fixed, phase, both, ports, second, mapping>>

\* The first probe with an alternate address leads, or else the first one; it
\* is taken out and the last one put into its place (swap_remove).
First(i, those) == i \in those /\ \A j \in those : i <= j
Leads(i) == First(i, IF WithAlternate = {} THEN DOMAIN probes ELSE WithAlternate)
Main == probes[1]
Led(l) ==
    [i \in DOMAIN probes |->
      IF i = 1 THEN probes[l] ELSE IF i = l + 1 THEN probes[Len(probes)] ELSE probes[i - 1]]

\* Filtering comes first: the mapping tests open holes of their own.
Planned(s) == IF caps[s].alt THEN "both" ELSE "other"

MutOpened ==
    /\ phase = "open" /\ (todo > Len(Servers) \/ Cardinality(WithAlternate) >= Count)
    /\ \/ probes = <<>> /\ phase' = "blocked" /\ UNCHANGED <<probes, mapping, sent>>
       \/ \E l \in DOMAIN probes :
            /\ Leads(l) /\ probes' = Led(l)
            /\ mapping' = IF net.nat THEN "unknown" ELSE "independent"
            /\ sent' = [sent EXCEPT ![probes[l]] = @ \cup {AlternateIp(probes[l])}]
            /\ phase' = Planned(probes[l])
    /\ todo' = 1
    /\ UNCHANGED <<fixed, both, ports, second, lost>>

Opened ==
    /\ phase = "open" /\ (todo > Len(Servers) \/ Cardinality(WithAlternate) >= Count)
    /\ \/ probes = <<>> /\ phase' = "blocked" /\ UNCHANGED <<probes, mapping>>
       \/ \E l \in DOMAIN probes :
            /\ Leads(l) /\ probes' = Led(l)
            /\ mapping' = IF net.nat THEN "unknown" ELSE "independent"
            /\ phase' = Planned(probes[l])
    /\ todo' = 1
    /\ UNCHANGED <<fixed, sent, both, ports, second, lost>>

(***************************************************************************)
(* filtering.                                                              *)
(***************************************************************************)
View(seen, wire) == IF wire THEN seen.wire ELSE seen.socket

\* port_verdict: came from the changed port, nothing came, or says nothing.
PortVerdict(src, s) ==
    IF src = None THEN "silent"
    ELSE IF Ip(src) = Ip(Primary(s)) /\ src[3] # "p" THEN "passed"
    ELSE "ignored"

Undecided(wire) == View(both, wire) = None /\ ~\E p \in ports : PortVerdict(View(p.seen, wire), p.server) = "passed"
Needed == Undecided(FALSE) \/ (capture /\ Undecided(TRUE))

AskBoth ==
    /\ phase = "both"
    /\ \E arrives \in BOOLEAN :
         /\ both' = Query(Main, Primary(Main), "both", arrives)
         /\ Asked(Main, Primary(Main), arrives)
    /\ phase' = "ports"
    /\ UNCHANGED <<fixed, probes, todo, ports, second, mapping>>

\* The port-only test, at the leading probe and then at the others that have
\* an alternate address, as long as a verdict is missing.
Askable == {i \in WithAlternate : i >= todo}
AskPort ==
    /\ phase = "ports" /\ Needed
    /\ \E arrives \in BOOLEAN, i \in Askable :
         LET s == probes[i] IN
         /\ First(i, Askable) /\ todo' = i + 1
         /\ ports' = ports \cup {[server |-> s, seen |-> Query(s, Primary(s), "port", arrives)]}
         /\ Asked(s, Primary(s), arrives)
    /\ UNCHANGED <<fixed, phase, probes, both, second, mapping>>

Filtered ==
    /\ phase = "ports" /\ (Askable = {} \/ ~Needed)
    /\ phase' = IF mapping = "unknown" THEN "second" ELSE "done"
    /\ UNCHANGED <<fixed, sent, probes, todo, both, ports, second, mapping, lost>>

\* evaluate, for the device's view and for the carrier's.
Evaluate(wire) ==
    LET verdicts == {PortVerdict(View(p.seen, wire), p.server) : p \in ports} \ {"ignored"} IN
    IF ~caps[Main].alt THEN "unknown"
    ELSE IF View(both, wire) # None THEN IF Ip(View(both, wire)) # Ip(Primary(Main)) THEN "independent" ELSE "unknown"
    ELSE IF "passed" \in verdicts THEN "address"
    ELSE IF verdicts = {"silent"} THEN "address_port"
    ELSE "unknown"

(***************************************************************************)
(* The mapping tests of run.                                               *)
(***************************************************************************)

\* The alternate IP: same mapping, or one more question.
AskSecond ==
    /\ phase = "second"
    /\ \E arrives \in BOOLEAN :
         LET seen == Query(Main, AlternateIp(Main), "none", arrives) IN
         /\ Asked(Main, AlternateIp(Main), arrives)
         /\ second' = IF seen.socket = None THEN None ELSE Mapped(Main, AlternateIp(Main))
         /\ mapping' = IF second' = Mapped(Main, Primary(Main)) THEN "independent" ELSE mapping
         /\ phase' = IF second' = None THEN "other" ELSE IF mapping' = "independent" THEN "done" ELSE "third"
    /\ UNCHANGED <<fixed, probes, todo, both, ports>>

AskThird ==
    /\ phase = "third"
    /\ \E arrives \in BOOLEAN :
         LET seen == Query(Main, Alternate(Main), "none", arrives) IN
         /\ Asked(Main, Alternate(Main), arrives)
         /\ mapping' = IF seen.socket = None THEN "dependent"
                       ELSE IF Mapped(Main, Alternate(Main)) = second THEN "address"
                       ELSE "address_port"
    /\ phase' = "done"
    /\ UNCHANGED <<fixed, probes, todo, both, ports, second>>

\* Without an alternate address: the mapping towards another server.
Others == {i \in DOMAIN probes : probes[i] # Main}
AskOther ==
    /\ phase = "other"
    /\ \/ /\ mapping = "unknown"
          /\ \E arrives \in BOOLEAN, i \in Others :
               LET dest == Primary(probes[i])
                   seen == Query(Main, dest, "none", arrives) IN
               /\ First(i, Others)
               /\ Asked(Main, dest, arrives)
               /\ mapping' = IF seen.socket = None THEN mapping
                             ELSE IF Mapped(Main, dest) = Mapped(Main, Primary(Main)) THEN "independent"
                             ELSE "dependent"
       \/ /\ mapping # "unknown" \/ Others = {}
          /\ UNCHANGED <<sent, lost, mapping>>
    /\ phase' = "done"
    /\ UNCHANGED <<fixed, probes, todo, both, ports, second>>

\* classify: the classic name of a pair of verdicts.
Classify(filtering) ==
    CASE ~net.nat -> (CASE filtering = "independent" -> "open" [] filtering = "unknown" -> "no_nat" [] OTHER -> "firewalled")
      [] mapping \in {"address", "address_port", "dependent"} -> "symmetric"
      [] mapping = "unknown" \/ filtering = "unknown" -> "unknown"
      [] OTHER -> <<"full_cone", "restricted_cone", "port_restricted_cone">>[Rank(filtering)]

\* The type that is reported: the carrier's view when there is a capture.
Type == Classify(Evaluate(capture))

Ended ==
    /\ phase \in {"done", "blocked"}
    /\ UNCHANGED vars

FilterKinds == {Behaviours[i] : i \in 1 .. 3}

Networks ==
    [nat : {TRUE}, mapping : FilterKinds, filter : FilterKinds, firewall : FilterKinds]
    \cup [nat : {FALSE}, mapping : {"independent"}, filter : {"independent"}, firewall : FilterKinds]

ServerKinds ==
    {[alive |-> FALSE, alt |-> FALSE, both |-> "silent", port |-> "silent"],
     [alive |-> TRUE, alt |-> FALSE, both |-> "silent", port |-> "silent"]}
    \cup [alive : {TRUE}, alt : {TRUE}, both : {"yes", "same", "silent"}, port : {"yes", "same", "silent"}]

Init ==
    /\ net \in Networks /\ caps \in [All -> ServerKinds] /\ capture \in BOOLEAN
    /\ phase = "open" /\ sent = [s \in All |-> {}] /\ probes = <<>> /\ todo = 1
    /\ both = [socket |-> None, wire |-> None] /\ ports = {} /\ second = None /\ mapping = "unknown" /\ lost = FALSE

Next == Open \/ Opened \/ AskBoth \/ AskPort \/ Filtered \/ AskSecond \/ AskThird \/ AskOther \/ Ended

Spec == Init /\ [][Next]_vars

(***************************************************************************)
(* Properties.                                                             *)
(***************************************************************************)

\* What the filters in the way really do, in the view that is reported.
TrueFilter(wire) ==
    LET carrier == IF net.nat THEN net.filter ELSE "independent" IN
    IF wire THEN carrier ELSE Stricter(carrier, net.firewall)

\* A detection never reports a NAT more open than the one that is there,
\* whatever answers are lost and whatever the servers ignore: its own
\* requests open no hole that a later test mistakes for an open filter, and
\* the mapping verdict is the NAT's (run: filtering first; evaluate).
NeverTooOpen ==
    phase = "done" =>
      /\ \A wire \in {FALSE, capture} :
           Evaluate(wire) # "unknown" => Rank(Evaluate(wire)) >= Rank(TrueFilter(wire))
      /\ mapping \in {"unknown", net.mapping} \/ (mapping = "dependent" /\ net.mapping # "independent")

\* With a server that does what RFC 5780 asks and no answer lost, the
\* detection finds exactly the NAT that is there (filtering, run, classify).
FindsTheNat ==
    phase = "done" /\ ~lost /\ caps[Main].alt /\ caps[Main].both = "yes" /\ caps[Main].port = "yes" =>
      /\ mapping = net.mapping
      /\ \A wire \in {FALSE, capture} : Evaluate(wire) = TrueFilter(wire)

(***************************************************************************)
(* The inductive invariant behind them.                                    *)
(***************************************************************************)
Endpoints == All \X {"p", "a"} \X {"p", "a"}
Mappings == {<<s>> : s \in All} \cup (All \X (All \X {"p", "a"})) \cup (All \X Endpoints)
Answers == [wire : Endpoints \cup {None}, socket : Endpoints \cup {None}]

Shapes ==
    /\ net \in Networks /\ caps \in [All -> ServerKinds] /\ capture \in BOOLEAN /\ lost \in BOOLEAN
    /\ phase \in {"open", "blocked", "both", "ports", "second", "third", "other", "done"}
    /\ sent \in [All -> SUBSET Endpoints] /\ probes \in Seq(All) /\ todo \in Nat \ {0}
    /\ both \in Answers /\ ports \subseteq [server : All, seen : Answers]
    /\ phase \notin {"open", "blocked"} => probes # <<>>

\* Until the filtering tests are over, no socket has sent elsewhere than to
\* its own server.
Unopened == phase \in {"open", "both", "ports"} => \A s \in All : sent[s] \subseteq {Primary(s)}

\* What came through is the filter's doing...
Honest ==
    \A wire \in BOOLEAN :
      /\ View(both, wire) # None /\ Ip(View(both, wire)) # Ip(Primary(Main)) => TrueFilter(wire) = "independent"
      /\ \A p \in ports :
           PortVerdict(View(p.seen, wire), p.server) = "passed" => TrueFilter(wire) \in {"independent", "address"}

\* ...and so is what did not, when no answer was lost and the server is good.
Good == caps[Main].alt = TRUE /\ caps[Main].both = "yes" /\ caps[Main].port = "yes"
Silences ==
    lost = FALSE /\ Good /\ phase \in {"ports", "second", "third", "other", "done"} =>
      \A wire \in BOOLEAN :
        /\ View(both, wire) = IF TrueFilter(wire) = "independent" THEN Alternate(Main) ELSE None
        /\ \A p \in ports :
             p.server = Main => View(p.seen, wire) = IF TrueFilter(wire) = "address_port" THEN None ELSE ChangedPort(Main)

\* A view gets its verdict, or the main server was asked for one.
MainAsked == \E p \in ports : p.server = Main
Settled ==
    /\ phase = "both" => todo = 1
    /\ phase \in {"both", "ports"} => caps[Main].alt = TRUE
    /\ phase = "ports" => todo = 1 \/ MainAsked
    /\ phase \in {"second", "third", "done", "other"} /\ caps[Main].alt = TRUE =>
         MainAsked \/ \A wire \in {FALSE, capture} : ~Undecided(wire)

\* The mapping tests.
MapTrue ==
    /\ mapping \in {"unknown", net.mapping} \/ (mapping = "dependent" /\ net.mapping # "independent")
    /\ net.nat = FALSE => mapping = net.mapping
    /\ phase \in {"both", "ports", "second"} => mapping # "dependent"
    /\ phase = "second" => net.nat = TRUE /\ mapping = "unknown"
    /\ phase = "third" =>
         /\ net.nat = TRUE /\ net.mapping # "independent" /\ mapping = "unknown"
         /\ second = Mapped(Main, AlternateIp(Main))
    /\ phase \in {"second", "third"} => caps[Main].alt = TRUE
    /\ lost = FALSE /\ caps[Main].alt = TRUE => phase # "other" /\ (phase = "done" => mapping = net.mapping)

\* Nothing has been asked yet.
Fresh ==
    phase \in {"open", "both"} =>
      ports = {} /\ View(both, TRUE) = None /\ View(both, FALSE) = None

ProbeInv ==
    /\ Shapes /\ Unopened /\ Fresh
    /\ phase \notin {"open", "blocked"} => Honest /\ Silences /\ Settled /\ MapTrue
=============================================================================
