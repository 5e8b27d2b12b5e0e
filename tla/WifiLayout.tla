------------------------------ MODULE WifiLayout ------------------------------
(***************************************************************************)
(* The switches of bands and SSIDs (wifi_control.rs, and the switch of     *)
(* wifi.configure).  On the single-chip firmwares (qcacld32) some AP must  *)
(* run on wlan0, a band that is off parks its SSIDs on "wlanx", and on one *)
(* model three APs do not start: every control moves the interface names   *)
(* so that the next control, whichever it is, finds a layout that works.   *)
(* Each control runs its reads and writes without a pause by another: the  *)
(* module is about their sequences, UciControl about their interleavings.  *)
(***************************************************************************)
EXTENDS Naturals, Sequences, FiniteSets, Functions

CONSTANTS
    present_bands,
    Index,        \* Index[b]: the radio of band b is wifiN
    Bad,          \* an AP count that the single-chip model (MU5250) cannot start
    Guestless,    \* bands whose guest_supported flag is 0
    MaxFaults     \* bound: writes and commits that fail

VARIABLES
    single,   \* single_chip: the radios are of type qcacld32, a fact of the model
    radio,    \* radio[b]: the wifi-device is enabled
    ssid,     \* ssid[kind, band]: on, if (ifname)
    module,   \* zte_mbb: wifi_onoff
    mesh,     \* zte_mbb: mesh_onoff
    width,    \* htmode of each radio, as a width
    restrict, \* guest_access_restrict_enable
    faults

vars == <<single, radio, ssid, module, mesh, width, restrict, faults>>

Bands == Range(present_bands)
Kinds == {"main", "guest"}
Aps == Kinds \X Bands
Parked == <<"wlanx">>
Wlan(n) == <<"wlan", n>>
Wlan0 == Wlan(0)

\* default_ifnames: wifiN has wlan(2N) for main and wlan(2N+1) for guest.
default_ifnames(ap) == Wlan(2 * Index[ap[2]] + (IF ap[1] = "main" THEN 0 ELSE 1))

\* The APs that run: not parked, on, their radio on.
On == {ap \in Aps : radio[ap[2]] /\ ssid[ap].on /\ ssid[ap].if # Parked}

\* running_aps, with the SSIDs in ov switched as it says.
running_aps(ov) ==
    Cardinality({ap \in Aps : /\ radio[ap[2]]
                              /\ IF ap \in DOMAIN ov THEN ov[ap] ELSE ssid[ap].on
                              /\ ssid[ap].if # Parked})

\* unsupported_aps: 0 where every count starts.
unsupported_aps == IF single THEN Bad ELSE 0

NoOverride == [ap \in {} |-> TRUE]

MutCheckApCount(ov) == TRUE

\* check_ap_count: refuses a change to the bad count.
CheckApCount(ov) ==
    unsupported_aps # 0 => ~(running_aps(ov) = unsupported_aps /\ running_aps(NoOverride) # unsupported_aps)

\* write_layout: uci set of what differs, commit, reload; a failure reverts.
WriteLayout(r, s) ==
    \/ radio' = r /\ ssid' = s /\ UNCHANGED faults
    \/ /\ <<r, s>> # <<radio, ssid>>
       /\ faults < MaxFaults /\ faults' = faults + 1
       /\ UNCHANGED <<radio, ssid>>

\* wlan_set: one zwrt_wlan call, refused or confirmed by readback.
WlanSet(r, s) == WriteLayout(r, s)

(***************************************************************************)
(* Controls.                                                               *)
(***************************************************************************)

\* set_radio on firmwares with a chip per band: through the SSIDs.
SetRadio(b, on) ==
    /\ ~single
    /\ IF on THEN WlanSet([radio EXCEPT ![b] = TRUE], [ssid EXCEPT ![<<"main", b>>].on = TRUE])
       ELSE WlanSet(radio, [ssid EXCEPT ![<<"main", b>>].on = FALSE, ![<<"guest", b>>].on = FALSE])
    /\ UNCHANGED <<single, module, mesh, width, restrict>>

\* The count once band b is on again and every SSID has its stock name.
CountWith(b) ==
    Cardinality({ap \in Aps : /\ ap[2] = b \/ radio[ap[2]]
                              /\ ap = <<"main", b>> \/ ssid[ap].on})

\* set_single_chip_band, on: every band has its stock names back.
BandOn(b) ==
    /\ single
    /\ unsupported_aps # 0 => CountWith(b) # unsupported_aps
    /\ WriteLayout([radio EXCEPT ![b] = TRUE],
         [ap \in Aps |-> [on |-> ssid[ap].on \/ ap = <<"main", b>>, if |-> default_ifnames(ap)]])
    /\ UNCHANGED <<single, module, mesh, width, restrict>>

\* The band that takes wlan0 when b goes off: the first other one that is on.
Keeps(b, k) ==
    LET on == {i \in DOMAIN present_bands : LET j == present_bands[i] IN j # b /\ radio[j] /\ ssid[<<"main", j>>].on}
    IN  \E i \in on : present_bands[i] = k /\ \A j \in on : i <= j

\* set_single_chip_band, off: never with EasyMesh, never the last band; the
\* band that stays takes wlan0.
BandOff(b) ==
    /\ single /\ ~mesh
    /\ \E k \in Bands :
         /\ Keeps(b, k)
         /\ WriteLayout([radio EXCEPT ![b] = FALSE],
              [ap \in Aps |-> [on |-> ssid[ap].on,
                 if |-> IF ap[2] = b THEN Parked
                        ELSE IF ap = <<"main", k>> THEN Wlan0
                        ELSE IF ap = <<"guest", k>> THEN Wlan(1) ELSE ssid[ap].if]])
    /\ UNCHANGED <<single, module, mesh, width, restrict>>

\* single_chip_ssid, main off on wlan0: the guest SSID takes wlan0.
MainHandsOver(b) ==
    /\ single /\ ssid[<<"main", b>>].if = Wlan0
    /\ ssid[<<"guest", b>>].on
    /\ unsupported_aps # 0 => running_aps(NoOverride) # unsupported_aps + 1
    /\ WriteLayout(radio, [ssid EXCEPT ![<<"main", b>>] = [on |-> FALSE, if |-> Parked],
                                       ![<<"guest", b>>].if = Wlan0])
    /\ UNCHANGED <<single, module, mesh, width, restrict>>

\* single_chip_ssid, a parked main on: the stock names of its band again.
MainReturns(b) ==
    /\ single /\ ssid[<<"main", b>>].if = Parked
    /\ radio[b]
    /\ unsupported_aps # 0 => running_aps(NoOverride) + 1 # unsupported_aps
    /\ WriteLayout(radio, [ssid EXCEPT ![<<"main", b>>] = [on |-> TRUE, if |-> default_ifnames(<<"main", b>>)],
                                       ![<<"guest", b>>].if = default_ifnames(<<"guest", b>>)])
    /\ UNCHANGED <<single, module, mesh, width, restrict>>

\* wifi.configure, every other switch of an SSID: a plain write.
PlainSwitch(ap, on) ==
    /\ single => /\ ~(ap[1] = "main" /\ ~on /\ ssid[ap].if = Wlan0)
                     /\ ~(ap[1] = "main" /\ on /\ ssid[ap].if = Parked)
                     /\ ~(ap[1] = "guest" /\ ~on /\ ssid[ap].if = Wlan0)
    /\ CheckApCount([x \in {ap} |-> on])
    /\ WriteLayout(radio, [ssid EXCEPT ![ap].on = on])
    /\ UNCHANGED <<single, module, mesh, width, restrict>>

\* set_guest: some guest SSIDs, or all, in one write; then the isolation.
SetGuest(bs, on, isolate) ==
    /\ bs # {}
    /\ on => bs \cap Guestless = {}
    /\ ~on /\ single => \A b \in bs : ssid[<<"guest", b>>].if # Wlan0
    /\ CheckApCount([ap \in {"guest"} \X bs |-> on])
    /\ WlanSet(radio, [ap \in Aps |-> IF ap \in {"guest"} \X bs THEN [ssid[ap] EXCEPT !.on = on] ELSE ssid[ap]])
    /\ restrict' = IF faults' = faults THEN isolate ELSE restrict
    /\ UNCHANGED <<single, module, mesh, width>>

\* set_module: the stock service turns every radio off, or on.
SetModule(on) ==
    /\ module' = on
    /\ radio' = IF module = on THEN radio ELSE [b \in Bands |-> on]
    /\ UNCHANGED <<single, ssid, mesh, width, restrict, faults>>

\* widths: what a band can use.
widths(b) == IF b = "2g" THEN {20, 40} ELSE {20, 40, 80, 160}

\* set_bandwidth.
SetBandwidth(b, w) ==
    /\ w \in widths(b)
    /\ width' = [width EXCEPT ![b] = w]
    /\ UNCHANGED <<single, radio, ssid, module, mesh, restrict, faults>>

\* EasyMesh is switched by another control, with both bands on.
SwitchMesh ==
    /\ mesh' = ~mesh
    /\ UNCHANGED <<single, radio, ssid, module, width, restrict, faults>>

Init ==
    /\ single \in BOOLEAN
    /\ radio = [b \in Bands |-> TRUE]
    /\ ssid = [ap \in Aps |-> [on |-> ap[1] = "main", if |-> default_ifnames(ap)]]
    /\ module = TRUE /\ mesh = FALSE
    /\ width = [b \in Bands |-> 20]
    /\ restrict = FALSE
    /\ faults = 0

Next ==
    \/ \E b \in Bands, on \in BOOLEAN : SetRadio(b, on)
    \/ \E b \in Bands : BandOn(b) \/ BandOff(b) \/ MainHandsOver(b) \/ MainReturns(b)
    \/ \E ap \in Aps, on \in BOOLEAN : PlainSwitch(ap, on)
    \/ \E bs \in SUBSET Bands, on \in BOOLEAN, isolate \in BOOLEAN : SetGuest(bs, on, isolate)
    \/ \E on \in BOOLEAN : SetModule(on)
    \/ \E b \in Bands, w \in {20, 80} : SetBandwidth(b, w)
    \/ SwitchMesh

Spec == Init /\ [][Next]_vars

(***************************************************************************)
(* Properties.                                                             *)
(***************************************************************************)

\* No radio is on whose SSIDs a band control parked.  The module switch, which
\* turns every radio on and leaves the names alone, is what breaks it.
Aligned == \A b \in Bands : radio[b] => ssid[<<"guest", b>>].if # Parked

CountStays ==
    Aligned /\ module' = module /\ unsupported_aps # 0 =>
      Cardinality(On') # unsupported_aps \/ Cardinality(On) = unsupported_aps

\* An AP count that the firmware cannot start is never reached by a control of
\* an SSID, of the guests or of a band (check_ap_count, and the counts that
\* single_chip_ssid and set_single_chip_band make), after any sequence of them.
CountKept == [][CountStays]_vars

\* What the proof needs of the layout: names are stock names or the parked one.
Named == [on: BOOLEAN, if: {Parked} \cup {default_ifnames(ap) : ap \in Aps} \cup {Wlan0, Wlan(1)}]

\* The APs that run in a layout.
Runs(r, s) == {ap \in Aps : r[ap[2]] /\ s[ap].on /\ s[ap].if # Parked}

WifiInv == single \in BOOLEAN /\ radio \in [Bands -> BOOLEAN] /\ ssid \in [Aps -> Named]

=============================================================================
