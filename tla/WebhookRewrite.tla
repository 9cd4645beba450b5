---------------------------- MODULE WebhookRewrite ----------------------------
(***************************************************************************)
(* internal/webhookrewrite, the transformation of one webhook clientConfig. *)
(* The mutating, validating and CRD conversion variants have the same      *)
(* contract, so one operator stands for the three.                         *)
(*                                                                         *)
(* A service reference is its namespace and path; a URL is its host, its   *)
(* port (0 when the URL does not parse or has no numeric port) and its     *)
(* path.  Hosts are compared case-insensitively: they are given in lower   *)
(* case here.                                                              *)
(***************************************************************************)
EXTENDS Naturals

CONSTANTS
  Nil,     \* an absent service reference, or an absent URL
  Hosts    \* the hosts a URL may name

EmptyCA == ""

Service == [ns: STRING, path: STRING]
URL     == [host: Hosts, port: Nat, path: STRING]

ClientConfig == [service: Service \cup {Nil}, url: URL \cup {Nil}, ca: STRING]

(* The option WithExternalWebhookHost. *)
ExternalWebhook == [host: Hosts \cup {""}, ports: SUBSET Nat]

ASSUME NilAssumption == Nil \notin Service \cup URL

ASSUME HostsAssumption == {"localhost", "127.0.0.1"} \subseteq Hosts

active(ext) == ext.host # ""

isLoopbackAuthority(host) == host \in {"127.0.0.1", "localhost"}

(* Mutant: the port of the URL is not compared with the external ports. *)
redirected_AnyPort(cc, ext) ==
  /\ cc.url # Nil
  /\ active(ext)
  /\ isLoopbackAuthority(cc.url.host)

(* rewriteLoopbackURL takes the URL. *)
redirected(cc, ext) ==
  /\ cc.url # Nil
  /\ active(ext)
  /\ cc.url.port \in ext.ports
  /\ isLoopbackAuthority(cc.url.host)

rewriteLoopbackURL(cc, ca, ext) ==
  [service |-> cc.service,
   url |-> [host |-> ext.host, port |-> cc.url.port, path |-> cc.url.path],
   ca |-> ca]

(* A URL needs no port; a service in an unknown namespace is an error.     *)
portForClientConfig(cc, ports) ==
  IF cc.service = Nil THEN 0 ELSE ports[cc.service.ns]

(* Mutant: the path of the service reference is lost. *)
RewriteClientConfig_NoPath(cc, port, ca) ==
  IF cc.service # Nil
  THEN [service |-> Nil,
        url |-> [host |-> "localhost", port |-> port, path |-> ""],
        ca |-> ca]
  ELSE [service |-> Nil, url |-> cc.url, ca |-> ca]

RewriteClientConfig(cc, port, ca) ==
  IF cc.service # Nil
  THEN [service |-> Nil,
        url |-> [host |-> "localhost", port |-> port, path |-> cc.service.path],
        ca |-> ca]
  ELSE [service |-> Nil, url |-> cc.url, ca |-> ca]

(* Mutant: an empty pod CA is accepted. *)
rewritable_AnyCA(cc, ports, ca, ext) ==
  \/ redirected(cc, ext)
  \/ cc.service # Nil /\ cc.service.ns \in DOMAIN ports
  \/ cc.service = Nil /\ cc.url # Nil

(* No error: the pod CA is not empty, a service's namespace has a port,    *)
(* and the configuration has a service or a URL.                           *)
rewritable(cc, ports, ca, ext) ==
  /\ ca # EmptyCA
  /\ \/ redirected(cc, ext)
     \/ cc.service # Nil /\ cc.service.ns \in DOMAIN ports
     \/ cc.service = Nil /\ cc.url # Nil

(* Mutant: services are rewritten before loopback URLs are redirected. *)
rewriteByNamespace_ServiceFirst(cc, ports, ca, ext) ==
  LET rewritten == RewriteClientConfig(cc, portForClientConfig(cc, ports), ca)
  IN  IF redirected(rewritten, ext)
      THEN rewriteLoopbackURL(rewritten, ca, ext)
      ELSE rewritten

rewriteByNamespace(cc, ports, ca, ext) ==
  IF redirected(cc, ext)
  THEN rewriteLoopbackURL(cc, ca, ext)
  ELSE RewriteClientConfig(cc, portForClientConfig(cc, ports), ca)
=============================================================================
