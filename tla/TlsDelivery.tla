----------------------------- MODULE TlsDelivery -----------------------------
(***************************************************************************)
(* LocalTlsDelivery::verify (mirrord/config/src/feature/network/incoming/ *)
(* tls_delivery.rs): the check of the configuration of how stolen TLS      *)
(* traffic is delivered to the local application.  A configuration is a   *)
(* record of the fields verify reads: the protocol, trust_roots as None,  *)
(* an empty or a non-empty list, server_cert as None or given, and         *)
(* server_name as None or a name rustls's ServerName parses as a DNS name,*)
(* an IP address, or not at all.  The result is "ok" or the error's kind. *)
(***************************************************************************)

\* Option::None of a field.
None == "none"

\* ServerName::try_from: a valid DNS name or an IP address.
ServerNameValid(n) == n \in {"dns", "ip"}

\* The check after the match: a server_name that is given must parse.
ServerNameCheck(c) ==
    IF c.serverName # None /\ ~ServerNameValid(c.serverName)
    THEN "invalid_server_name" ELSE "ok"

\* Mutant: the catch-all arm returns Ok, skipping the server_name check.
VerifyMatchReturnsOk(c) ==
    IF c.protocol = "tcp" THEN ServerNameCheck(c)
    ELSE IF c.trustRoots # None /\ c.serverCert # None THEN "conflict"
    ELSE IF c.trustRoots = "empty" THEN "invalid_trust_roots"
    ELSE "ok"

(***************************************************************************)
(* verify: the match arms in order (the first that matches wins): Tcp     *)
(* ignores the TLS settings; trust_roots together with server_cert is a   *)
(* Conflict; an empty trust_roots list is an InvalidValue.  Then, for     *)
(* every protocol, a given server_name must parse.                        *)
(***************************************************************************)
Verify(c) ==
    IF c.protocol = "tcp" THEN ServerNameCheck(c)
    ELSE IF c.trustRoots # None /\ c.serverCert # None THEN "conflict"
    ELSE IF c.trustRoots = "empty" THEN "invalid_trust_roots"
    ELSE ServerNameCheck(c)

=============================================================================
