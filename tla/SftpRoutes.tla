------------------------------ MODULE SftpRoutes ------------------------------
(***************************************************************************)
(* Where an SFTP operation goes: the routes that connection/sftp.rs makes of a    *)
(* connection's profile and of the host and account a window has found itself at.  *)
(*                                                                         *)
(* An endpoint has a host, an account, a port and the secret saved for it, which    *)
(* is named after the host it was saved for.  NoHost stands for one that is not given. *)
(* An account is the sequence of its parts: a bastion takes accounts that name the  *)
(* host, and the account there, that one wants to reach.                         *)
(***************************************************************************)
EXTENDS Integers, Sequences, SequencesExt

CONSTANTS
  Hosts,      \* names of hosts
  Names       \* what accounts are called

Modes == {"Terminal", "Auto", "SftpDirect", "SftpGateway"}
Accounts == {<<>>} \cup {<<n>> : n \in Names}
Roles == {"Server", "Bastion"}
Jumps == {"Direct", "Menu"}

NoHost == ""
NoSecret == ""
OwnPort == "own port"
Port22 == "22"

Endpoint(host, account) == [host |-> host, account |-> account, port |-> OwnPort, secret |-> host]
Endpoints == {Endpoint(h, a) : h \in Hosts \cup {NoHost}, a \in Accounts}
Overrides == [host : Hosts \cup {NoHost}, account : Accounts]
AnyProfiles == [role : Roles, mode : Modes, jump : Jumps, target : Endpoints, gateway : Endpoints]

Route(target, proxy) == [target |-> target, proxy |-> proxy]
NoEndpoint == Endpoint(NoHost, <<>>)
NoRoute == Route(NoEndpoint, NoEndpoint)

-----------------------------------------------------------------------------
Inferred(p) == p.mode \in {"Auto", "SftpDirect"} /\ p.jump = "Direct"

\* (a bug to try: the secret goes along to whatever host is asked for)
KeepsSecret(e, changed) == e.secret
(* A saved secret is for the saved host.                                      *)
SecretFor(e, changed) == IF changed THEN NoSecret ELSE e.secret

(* apply_target_override                                                     *)
Overridden(e, o) ==
  LET changed == o.host # NoHost /\ o.host # e.host
  IN [host    |-> IF o.host = NoHost THEN e.host ELSE o.host,
      account |-> IF o.account = <<>> THEN e.account ELSE o.account,
      port    |-> IF changed THEN Port22 ELSE e.port,
      secret  |-> SecretFor(e, changed)]

(* infer_direct_login_proxy: through the host that one logs in to.               *)
InferredProxy(p, o, target) ==
  IF Inferred(p) /\ o.host # NoHost /\ p.target.host \notin {NoHost, target.host} THEN p.target
  ELSE NoEndpoint

(* effective_sftp_route                                                      *)
Effective(p, o) ==
  LET target == Overridden(p.target, o)
  IN Route(target,
           IF p.mode = "SftpGateway" /\ p.gateway.host # NoHost THEN p.gateway
           ELSE InferredProxy(p, o, target))

(* composite_username_fallback_route: the login's account, the host and the account  *)
(* there make one account of the bastion.                                       *)
Composite(p, o) ==
  IF /\ Inferred(p)
     /\ o.host # NoHost /\ o.account # <<>> /\ p.target.host \notin {NoHost, o.host} /\ p.target.account # <<>>
    THEN Route([p.target EXCEPT !.account = <<Head(@), o.host>> \o o.account], NoEndpoint)
    ELSE NoRoute

(* primary_sftp_route and fallback_sftp_route                                   *)
AllRoutes(p, o) ==
  LET c == Composite(p, o)
      e == Effective(p, o)
  IN IF c = NoRoute THEN <<e>>
     ELSE IF p.role = "Bastion" THEN <<c, e>> ELSE <<e, c>>

(* native_sftp_routes                                                        *)
NativeRoutes(p, o) == IF p.mode # "Terminal" THEN AllRoutes(p, o) ELSE <<>>

(* plaintext_passwords, which the program's prompts are answered with in this order.  *)
Secrets(r) == SelectSeq(<<r.proxy.secret, r.target.secret>>, LAMBDA s : s # NoSecret)

\* (a bug to try: the gateway is left out of the binding)
BindingOfTarget(p) ==
  <<p.role, p.jump, p.mode, p.target.host, p.target.port, p.target.account>>
(* sftp_profile_route: what a task that was queued is bound to.                   *)
Binding(p) ==
  <<p.role, p.jump, p.mode, p.target.host, p.target.port, p.target.account,
    p.gateway.host, p.gateway.port, p.gateway.account>>

(* validate_sftp_profile_route                                                *)
Accepted(p, queued) == Binding(p) = Binding(queued)

Without(e) == [e EXCEPT !.secret = NoSecret]
Destinations(p, o) ==
  [i \in DOMAIN AllRoutes(p, o) |->
     [target |-> Without(AllRoutes(p, o)[i].target), proxy |-> Without(AllRoutes(p, o)[i].proxy)]]


-----------------------------------------------------------------------------
(* A saved secret goes only to the host it was saved for.                        *)
SecretsGoHome(p, o) ==
  \A i \in DOMAIN AllRoutes(p, o) :
    \A e \in {AllRoutes(p, o)[i].target, AllRoutes(p, o)[i].proxy} : e.secret \in {NoSecret, e.host}

(* A task whose binding the profile still has goes where it went when it was queued.   *)
BoundTasksStay(p, queued, o) ==
  Accepted(p, queued) => Destinations(p, o) = Destinations(queued, o)

=============================================================================
