-------------------------------- MODULE Smtp --------------------------------
(***************************************************************************)
(* One SMTP submission (rust/src/smtp_forward.rs): implicit TLS on port    *)
(* 465, STARTTLS on 587, AUTH PLAIN, one message.  The server answers what *)
(* it likes; anybody between the two may answer for it while the           *)
(* connection is plain.  The whole of it runs under one timeout.           *)
(***************************************************************************)
EXTENDS Naturals

VARIABLES
    port,      \* Settings.port
    addresses, \* the DNS answers: all public, some private, or none
    stage,     \* the reply that is awaited next, or the end
    tls,       \* whether the stream is a certified TLS stream
    caps,      \* the capabilities of the last EHLO that are still believed
    secret,    \* streams the credentials were written to
    accepted,  \* the server took the message
    result     \* what send returns

vars == <<port, addresses, stage, tls, caps, secret, accepted, result>>

Init ==
    /\ port = 0
    /\ addresses = "none"
    /\ stage = "resolve" /\ tls = FALSE /\ caps = {} /\ secret = {}
    /\ accepted = FALSE /\ result = "pending"

Stop(r) == stage' = "done" /\ result' = r

\* Settings::configured, the lookup and its address filter, the dial; TLS at
\* once on 465.
Dial ==
    /\ stage = "resolve"
    /\ port' \in {25, 465, 587}
    /\ addresses' \in {"public", "private", "none"}
    /\ IF port' \in {465, 587} /\ addresses' = "public"
       THEN stage' = "greeting" /\ tls' = (port' = 465) /\ UNCHANGED result
       ELSE Stop("invalid_forward_config") /\ UNCHANGED tls
    /\ UNCHANGED <<caps, secret, accepted>>

\* expect(220): the greeting is answered with EHLO.
Greeting(code) ==
    /\ stage = "greeting"
    /\ IF code = 220 THEN stage' = "ehlo" /\ UNCHANGED result ELSE Stop("delivery_failed")
    /\ UNCHANGED <<port, addresses, tls, caps, secret, accepted>>

MutCanAuth(c) == "AUTH" \in c

\* Credentials follow only what the protected stream advertised.
CanAuth(c) == tls /\ "AUTH" \in c

\* The EHLO reply: on a plain stream only STARTTLS will do; on a TLS stream
\* AUTH PLAIN, and the credentials are written.
Ehlo(code, c) ==
    /\ stage = "ehlo"
    /\ caps' = c
    /\ \/ /\ code = 250 /\ CanAuth(c)
          /\ stage' = "auth" /\ secret' = secret \cup {tls} /\ UNCHANGED result
       \/ /\ code = 250 /\ ~CanAuth(c) /\ ~tls /\ "STARTTLS" \in c
          /\ stage' = "starttls" /\ UNCHANGED <<secret, result>>
       \/ /\ code # 250 \/ (~CanAuth(c) /\ (tls \/ "STARTTLS" \notin c))
          /\ Stop("delivery_failed") /\ UNCHANGED secret
    /\ UNCHANGED <<port, addresses, tls, accepted>>

\* STARTTLS: what the plain stream advertised is forgotten.
StartTls(code) ==
    /\ stage = "starttls"
    /\ \/ code = 220 /\ tls' = TRUE /\ caps' = {} /\ stage' = "ehlo" /\ UNCHANGED result
       \/ Stop("delivery_failed") /\ UNCHANGED <<tls, caps>>
    /\ UNCHANGED <<port, addresses, secret, accepted>>

\* AUTH PLAIN; a 334 challenge is answered with the same credentials, once.
Auth(code) ==
    /\ stage \in {"auth", "auth2"}
    /\ \/ code = 235 /\ stage' = "mail" /\ UNCHANGED <<result, secret>>
       \/ /\ code = 334 /\ stage = "auth"
          /\ stage' = "auth2" /\ secret' = secret \cup {tls} /\ UNCHANGED result
       \/ code = 451 /\ Stop("smtp_auth_temporary") /\ UNCHANGED secret
       \/ /\ code \notin {235, 451} /\ ~(code = 334 /\ stage = "auth")
          /\ Stop("smtp_auth_failed") /\ UNCHANGED secret
    /\ UNCHANGED <<port, addresses, tls, caps, accepted>>

\* MAIL, RCPT, DATA and the message, each answered with its own code.
Dialogue == [mail |-> <<250, "rcpt">>, rcpt |-> <<250, "data">>,
             data |-> <<354, "body">>, body |-> <<250, "done">>]

Transact(code) ==
    /\ stage \in DOMAIN Dialogue
    /\ accepted' = (accepted \/ (stage = "body" /\ code = 250))
    /\ IF code # Dialogue[stage][1]
       THEN Stop("delivery_failed")
       ELSE /\ stage' = Dialogue[stage][2]
            /\ result' = IF stage = "body" THEN "sent" ELSE result
    /\ UNCHANGED <<port, addresses, tls, caps, secret>>

\* An unreadable reply, a closed stream or the 20 s limit.
Break ==
    /\ stage # "done"
    /\ Stop("delivery_failed")
    /\ UNCHANGED <<port, addresses, tls, caps, secret, accepted>>

Codes == {220, 235, 250, 334, 354, 451, 554}

Next ==
    \/ Dial \/ Break
    \/ \E code \in Codes :
          \/ Greeting(code) \/ StartTls(code) \/ Auth(code) \/ Transact(code)
          \/ \E c \in SUBSET {"AUTH", "STARTTLS"} : Ehlo(code, c)

Spec == Init /\ [][Next]_vars

\* The credentials are written only to a certified TLS stream to a public
\* address, whatever is advertised on the plain one, and "sent" is reported
\* only when the server has taken the message.
SmtpSafe ==
    /\ secret \subseteq {TRUE}
    /\ secret # {} => addresses = "public"
    /\ result = "sent" => accepted

Stages == {"resolve", "greeting", "ehlo", "starttls", "auth", "auth2"}
            \cup DOMAIN Dialogue \cup {"done"}

\* The inductive invariant of SmtpSafe: nothing is written before the address
\* is known, AUTH is in progress only on the TLS stream, and no answer is
\* given before the end.
SmtpInv ==
    /\ SmtpSafe
    /\ stage \in Stages /\ tls \in BOOLEAN /\ accepted \in BOOLEAN
    /\ stage \notin {"resolve", "done"} => addresses = "public"
    /\ stage \in {"auth", "auth2"} => tls = TRUE
    /\ stage = "resolve" => secret = {}
    /\ stage # "done" => result = "pending"
=============================================================================
