---------------------------- MODULE TrafficPolicy ---------------------------
(***************************************************************************)
(* Which traffic may leave the machine outside the tunnel: the kill        *)
(* switch's outbound allowlist (kill_switch.rs), built from a connection   *)
(* intent (network_transaction.rs), and the split-tunnelling matcher       *)
(* (matcher.rs) over settings that were validated (config.rs).             *)
(***************************************************************************)
EXTENDS Naturals, FiniteSets, Sequences, SequencesExt

Absent == "absent"

-----------------------------------------------------------------------------
(* Addresses, one or more of each class the code tells apart               *)

Loopback == {"127.0.0.1", "::1"}
LinkLocal == {"169.254.0.1", "fe80::1"}
Unusable == Loopback \union LinkLocal
            \union {"0.0.0.0", "224.0.0.1", "255.255.255.255", "::", "ff02::1", "::ffff:9.9.9.9"}
Private4 == {"10.0.0.1"}
V4 == {"9.9.9.9", "8.8.8.8", "10.0.0.1", "127.0.0.1", "169.254.0.1", "0.0.0.0", "224.0.0.1",
       "255.255.255.255"}
V6 == {"2001:db8::1", "fc00::1", "::1", "fe80::1", "::", "ff02::1", "::ffff:9.9.9.9"}
Addresses == V4 \union V6

supported_unicast(address) == address \notin Unusable
Family(address) == IF address \in V4 THEN "Ipv4" ELSE "Ipv6"
is_private_or_loopback(address) == address \in Loopback \union LinkLocal \union Private4

-----------------------------------------------------------------------------
(* The kill switch                                                         *)

\* Empty, too long, or with a character no interface name has.
InvalidNames == {"", "long", "en 0"}

KillSwitchAllowlist(endpoint, port, transport, scoped, uplink, tunnel, family) ==
  CASE {uplink, tunnel} \intersect InvalidNames # {} -> [error |-> "InvalidInterface"]
    [] {uplink, tunnel} \intersect InvalidNames = {} /\ uplink = tunnel ->
         [error |-> "SameInterface"]
    [] OTHER ->
         IF ~supported_unicast(endpoint) \/ (endpoint \in V6 /\ scoped)
         THEN [error |-> "InvalidEndpoint"]
         ELSE IF port = 0 THEN [error |-> "InvalidPort"]
         ELSE [error |-> Absent, endpoint |-> endpoint, port |-> port, transport |-> transport,
               uplink |-> uplink, tunnel |-> tunnel, family |-> family]

\* An intent's endpoint is an address without scope or flow.
kill_switch_allowlist(intent, port, transport) ==
  IF ~intent.kill_switch_enabled THEN [error |-> "Disabled"]
  ELSE IF intent.endpoint_interface = Absent THEN [error |-> "MissingEndpointInterface"]
  ELSE KillSwitchAllowlist(intent.endpoint, port, transport, FALSE, intent.endpoint_interface,
                           intent.tunnel_interface, Family(intent.tunnel_address))

\* Only Tcp and Udp have ports, and those no zero port.
EgressTransport(e) == e.transport \in {"Tcp", "Udp"} => e.port # 0

\* (mutated: any port of the endpoint)
classify_egress_AnyPort(policy, e) ==
  IF ~supported_unicast(e.destination) \/ ~EgressTransport(e)
  THEN "Deny"
  ELSE IF e.interface = policy.tunnel /\ Family(e.destination) = policy.family
  THEN "AllowTunnel"
  ELSE IF /\ e.interface = policy.uplink /\ e.destination = policy.endpoint
          /\ e.transport = policy.transport
  THEN "AllowEndpoint" ELSE "Deny"

\* A policy's transport is Tcp or Udp.
classify_egress(policy, e) ==
  IF ~supported_unicast(e.destination) \/ ~EgressTransport(e)
  THEN "Deny"
  ELSE IF e.interface = policy.tunnel /\ Family(e.destination) = policy.family
  THEN "AllowTunnel"
  ELSE IF /\ e.interface = policy.uplink /\ e.destination = policy.endpoint
          /\ e.transport = policy.transport /\ e.port = policy.port
  THEN "AllowEndpoint" ELSE "Deny"

-----------------------------------------------------------------------------
(* Split tunnelling                                                        *)

(***************************************************************************)
(* A name is the sequence of its labels, as a dot splits it: "" is <<"">>  *)
(* and a trailing dot adds an empty label.  A domain rule is a prefix, in  *)
(* capitals or not, and labels; both sides are trimmed and lowered before  *)
(* they are compared, so blanks and the case of labels are left out.       *)
(***************************************************************************)
\* Only this spelling of the prefix has its category looked at.
DomainRuleValid(rule) ==
  /\ ~(rule.prefix = "" /\ rule.labels = <<"">>)
  /\ (rule.prefix = "geosite:" /\ ~rule.capital) => rule.labels = <<"category-ru">>

IpRuleValid(rule) == rule = "geoip:private" \/ rule \in Addresses

validate(settings) ==
  /\ \A rule \in settings.direct_domains : DomainRuleValid(rule)
  /\ \A rule \in settings.direct_ips : IpRuleValid(rule)

Under(name, labels) == IsSuffix(labels, name) /\ Len(name) > Len(labels)

is_domain_in_list(settings, name) == \E rule \in settings.direct_domains :
  IF rule.prefix = "geosite:"
  THEN rule.labels = <<"category-ru">> /\ Under(name, <<"ru">>)
  ELSE name = rule.labels \/ Under(name, rule.labels)

\* Text that is no address is in no list.
is_ip_in_list(settings, text) == text \in Addresses /\ \E rule \in settings.direct_ips :
  IF rule = "geoip:private" THEN is_private_or_loopback(text) ELSE rule = text

is_app_in_list(settings, app) == app \in settings.direct_apps

Decision(settings, in_list) ==
  CASE ~settings.enabled \/ settings.mode = "ProxyAll" -> "Proxy"
    [] settings.enabled /\ settings.mode = "BypassSelected" -> IF in_list THEN "Direct" ELSE "Proxy"
    [] settings.enabled /\ settings.mode = "ProxySelected" -> IF in_list THEN "Proxy" ELSE "Direct"
    [] settings.enabled /\ settings.mode = "BlockSelected" -> IF in_list THEN "Block" ELSE "Proxy"

match_domain(settings, name) == Decision(settings, is_domain_in_list(settings, name))
match_ip(settings, text) == Decision(settings, is_ip_in_list(settings, text))
match_app(settings, app) == Decision(settings, is_app_in_list(settings, app))

-----------------------------------------------------------------------------
(* What is checked of an intent, and of settings and a name                *)

Allowed(policy, egress, decision) == {e \in egress : classify_egress(policy, e) = decision}

\* Of all that may be sent, exactly one address, port and transport leaves
\* outside the tunnel, by the uplink; the tunnel carries one family.
KillSwitchContained(intent, port, transport, egress) ==
  LET policy == kill_switch_allowlist(intent, port, transport) IN
  policy.error = Absent =>
    /\ Allowed(policy, egress, "AllowEndpoint") =
         {e \in egress : e = [interface |-> intent.endpoint_interface, port |-> port,
                              destination |-> intent.endpoint, transport |-> transport]}
    /\ \A e \in Allowed(policy, egress, "AllowTunnel") :
         /\ e.interface = intent.tunnel_interface /\ e.interface # intent.endpoint_interface
         /\ supported_unicast(e.destination)
         /\ Family(e.destination) = Family(intent.tunnel_address)
    /\ intent.endpoint \notin Unusable

\* A label is added in front.
Below(name, labels) == {<<l>> \o name : l \in labels}

\* Leaving the tunnel is always asked for, by mode and list; what holds of a
\* name's list holds of every name below it, so that no subdomain of a proxied
\* name leaves the tunnel and none of a bypassed name is forgotten.
SplitContained(settings, name, labels) == validate(settings) =>
  /\ match_domain(settings, name) # "Proxy" => settings.enabled /\ settings.mode # "ProxyAll"
  /\ is_domain_in_list(settings, name) =>
       \A below \in Below(name, labels) :
         match_domain(settings, below) = match_domain(settings, name)
  /\ match_domain(settings, name) = "Direct" /\ settings.mode = "BypassSelected" =>
       \E rule \in settings.direct_domains :
         IsSuffix(IF rule.prefix = "geosite:" THEN <<"ru">> ELSE rule.labels, name)

\* The same for an address: an address that leaves the tunnel by a list is
\* named by it or private, never another address of the same class.
AddressContained(settings, address) == validate(settings) =>
  ((match_ip(settings, address) = "Direct" /\ settings.mode = "BypassSelected") =>
    \/ address \in settings.direct_ips
    \/ "geoip:private" \in settings.direct_ips /\ is_private_or_loopback(address))
=============================================================================
