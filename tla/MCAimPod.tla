------------------------------- MODULE MCAimPod -------------------------------
(***************************************************************************)
(* Specs for TLC: a password, or a certificate with its key, for two users, *)
(* with and without a CA bundle and log persistence.                        *)
(***************************************************************************)
EXTENDS AimPod

Base == [user |-> "admin", password |-> TRUE, certName |-> NoName, keyRef |-> FALSE,
         certRef |-> FALSE, ca |-> <<>>, log |-> FALSE]

Cert(user) == [Base EXCEPT !.user = user, !.password = FALSE, !.certName = Plain("cert"),
                           !.keyRef = TRUE, !.certRef = TRUE]
Bundle == <<"/etc/ssl/certs", Plain("ca.crt")>>

\* The certificate is called like the key of another user.
OthersKey == <<"user", "_private_key">>

\* Differs from Base in the rendered files only.
Renamed == [Base EXCEPT !.certName = Plain("cert")]

\* Both ways to log in, two users, with and without a CA bundle and logs.
NamedSpecs ==
    {Base, Renamed, [Base EXCEPT !.log = TRUE],
     Cert("user"), [Cert("user") EXCEPT !.log = TRUE],
     [Cert("admin") EXCEPT !.certName = OthersKey, !.log = TRUE, !.ca = Bundle]}

ASSUME SpecsAreComplete == \A s \in NamedSpecs : Complete(s)
===============================================================================
