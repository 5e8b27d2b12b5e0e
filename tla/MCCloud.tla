------------------------------ MODULE MCCloud ------------------------------
(***************************************************************************)
(* Settings for the cloud connection and its remote sessions: off, two     *)
(* platforms, an enrollment account, with and without remote features.     *)
(***************************************************************************)
EXTENDS CloudRemote

CONSTANTS b0, m1

Setting(on, pending, feats, home) ==
    [on |-> on, pending |-> pending, remote |-> on, feats |-> feats, home |-> home]

SomeConfigs ==
    {Setting(FALSE, FALSE, FALSE, "a"), Setting(TRUE, FALSE, FALSE, "a"),
     Setting(TRUE, TRUE, TRUE, "b")}

OneEndpoint == {{b0}, {m1}}
=============================================================================
