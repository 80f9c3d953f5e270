------------------------------- MODULE MCRules ------------------------------
(***************************************************************************)
(* The pure modules over bounded inputs.  A behaviour hands the program    *)
(* one input; an invariant says what the program makes of every input of   *)
(* its kind.                                                               *)
(***************************************************************************)
EXTENDS Naturals, FiniteSets, Sequences, TLC

\* The code's bounds are 256, 16 and 64; what matters is below, at and above.
CONSTANTS MAX_NETWORK_COLLECTION_ITEMS, MAX_DNS_SERVERS, MAX_DOMAIN_ITEMS

Links == INSTANCE ShareLink
Engines == INSTANCE EngineCatalog
Traffic == INSTANCE TrafficPolicy
Contract == INSTANCE HelperContract
Rules == INSTANCE NetworkRules

VARIABLE input
Absent == "absent"

Init == input = [about |-> "nothing"]
Fresh == input.about = "nothing"
Give(about, value) == input' = [about |-> about, of |-> value]

-----------------------------------------------------------------------------
(* Links and profiles                                                      *)

Link(scheme, uuid, host, port, params) ==
  [short |-> TRUE, scheme |-> scheme, uuid |-> uuid, host |-> host, port |-> port, query |->
     {[at |-> 1, key |-> k, form |-> "exact", value |-> params[k]] :
        k \in {q \in DOMAIN params : params[q] # Absent}}]
Plain(params) == Link("vless", "uuid", "name", "443", params)
Reality == [security |-> "reality", sni |-> "name", pbk |-> "key-", sid |-> "ab", fp |-> "chrome"]

ParseSecurity == Fresh /\ \E params \in
  [security : {Absent, "none", "None", "tls", " TLS ", "reality", "other"},
   sni : {Absent, "", " name ", "NAME", "1.2.3.4"}, pbk : {Absent, "key-", "key+", " key- ", "bad"},
   sid : {Absent, "", "ab", "AB", " ab ", "bad"}, fp : {Absent, "", "Chrome", " chrome ", "bad"},
   type : {"tcp", "grpc"}, path : {Absent, "p"}] : Give("link", Plain(params))
ParseTransport == Fresh /\ \E params \in
  [security : {"none", "tls", "reality"}, host : {Absent, "", "name", "NAME", "a/b"},
   type : {Absent, "", "Raw", "tcp", "ws", "websocket", "grpc", "other"},
   authority : {Absent, "name", "other"}, path : {Absent, "", "/p", " /p ", "p"},
   serviceName : {Absent, "", "p"}, mode : {Absent, "GUN", "multi"},
   headerType : {Absent, "None", "http"}] : Give("link", Plain(params @@ Reality))
ParseAddress == Fresh /\ \E scheme \in {"vless", "vmess"}, uuid \in {"uuid", "UUID", "id", ""},
  host \in {Absent, "name", "NAME", "1.2.3.4", "::1"}, port \in {Absent, "0", "443"},
  params \in [flow : {Absent, "", "xtls-rprx-vision", "other"}, security : {"none", "tls", "reality"}] :
    Give("link", Link(scheme, uuid, host, port, params @@ Reality))
\* One more parameter, written in each of the ways.
ParseNames == Fresh /\ \E key \in {"sni", "sid", "host", "remarks"},
  form \in {"exact", "otherCase", "padded", "odd"}, short \in BOOLEAN :
    Give("link", [Plain(Reality) EXCEPT !.short = short,
           !.query = @ \union {[at |-> 2, key |-> key, form |-> form, value |-> "name"]}])

TlsObjects == [enabled : BOOLEAN, security : {"none", "tls", "reality"},
               server_name : {"", "name", " name ", "bad"},
               public_key : {Absent, "key+", " key- ", "bad"},
               short_id : {Absent, "", "ab", " ab ", "bad"},
               fingerprint : {Absent, "", "chrome", " chrome ", "bad"}]
Tls(enabled, security) ==
  [enabled |-> enabled, security |-> security, server_name |-> "name", public_key |-> "key+",
   short_id |-> "ab", fingerprint |-> Absent]
SomeTls == {Links!NoTls} \union
  {Tls(e, security) : e \in BOOLEAN, security \in {"none", "tls", "reality"}}
LoadProfile == Fresh /\ \E p \in
  [server : {"name", " name ", "", "::1"}, port : {"0", "443"}, uuid : {"uuid", " uuid ", ""},
   transport : {"tcp", "ws", "grpc"}, host : {Absent, " name ", "a/b"},
   path : {Absent, "", "/p", " /p ", "p"}, flow : {Absent, "xtls-rprx-vision"}, tls : SomeTls] :
     Give("profile", p)
LoadTls == Fresh /\ \E t \in {"tcp", "ws", "grpc"}, tls \in TlsObjects :
  Give("profile",
    [server |-> "name", port |-> "443", uuid |-> "uuid", transport |-> t, host |-> Absent,
     path |-> IF t = "ws" THEN "/p" ELSE IF t = "grpc" THEN "p" ELSE Absent,
     flow |-> Absent, tls |-> tls])

Varied == [uuid : {"uuid", "UUID", "id"}, host : {"name", "NAME", "other"}, sid : {Absent, "AB", "ab"},
           fp : {Absent, "chrome"}, security : {"none", "reality"}]
VariedLink(c) ==
  Link("vless", c.uuid, c.host, "443", [security |-> c.security, sid |-> c.sid, fp |-> c.fp] @@ Reality)
AddLink == Fresh /\ \E a, b \in Varied : Give("pair", <<VariedLink(a), VariedLink(b)>>)

-----------------------------------------------------------------------------
(* Catalogs                                                                *)

Sha == <<"a", "b", "c", "d">>
Catalog(declared, rows) ==
  [schema_version |-> 1, declared_targets |-> declared,
   releases |-> [i \in DOMAIN rows |->
     [archive_sha256 |-> "d", binary_sha256 |-> Sha[i], engine_name |-> rows[i].engine,
      version |-> rows[i].version, status |-> rows[i].status, target_os |-> rows[i].target,
      config_dialect |-> rows[i].dialect]]]
Rows(engines, versions, statuses, dialects, targets) ==
  [engine : engines, version : versions, status : statuses, dialect : dialects, target : targets]
Xray == "XrayV26"
SingBox == "SingBoxV1_13"

OneRow == Fresh /\ \E r \in Rows({"xray-core", "XRAY-CORE", "sing-box"}, {"1.0-rc", "1.0-RC"},
                        Engines!Statuses, {Xray, SingBox}, {"Darwin", "linux"}),
             version \in {0, 1, 2}, sha \in {"a", "A", "bad"} :
  Give("catalog", [Catalog(<<"macos">>, <<r>>) EXCEPT !.schema_version = version,
                                                     !.releases[1].binary_sha256 = sha])
TwoRows == Fresh /\ \E d \in {<<"macos">>, <<"Darwin", "linux">>, <<"FreeBSD", "freebsd">>, <<"macos", "Darwin">>},
  r, s \in Rows({"xray-core", "XRAY-CORE"}, {"1.0-rc", "1.0-RC", "2"}, {"Recommended", "Deprecated", "Yanked"},
               {Xray, SingBox}, {"macos", "linux", "freebsd", "FreeBSD"}) :
    Give("catalog", Catalog(d, <<r, s>>))
ThreeRows == Fresh /\ \E d \in {<<"macos">>, <<"macos", "linux">>}, r, s, t \in
  Rows({"xray-core"}, {"1.0-rc", "1.0-RC", "2"}, {"Recommended", "Yanked"}, {Xray}, {"macos", "linux"}) :
    Give("catalog", Catalog(d, <<r, s, t>>))
FourRows == Fresh /\ \E r, s, t, u \in
  Rows({"xray-core"}, {"1.0-rc", "2"}, {"Recommended", "Supported"}, {Xray}, {"Darwin", "linux"}) :
    Give("catalog", Catalog(<<"macos", "linux">>, <<r, s, t, u>>))

Requests == {Absent, " ", "1.0-rc", " 1.0-rc ", "1.0-RC", "2", "3"}
Files == [kind : {"file"}, executable : BOOLEAN, sha256 : {"a", "b", "c"}]
         \union [kind : {"none", "directory"}, executable : BOOLEAN, sha256 : {"a"}]

-----------------------------------------------------------------------------
(* Traffic                                                                 *)

Connects ==
  [kill_switch_enabled : BOOLEAN, endpoint_interface : {Absent, "en0", "en 0", "utun"},
   endpoint : Traffic!Addresses, tunnel_interface : {"utun", "", "long"},
   tunnel_address : {"10.0.0.1", "fc00::1"}]
BuildAllowlist == Fresh /\ \E intent \in Connects, port \in {0, 443}, t \in {"Tcp", "Udp"} :
  Give("intent", <<intent, port, t>>)
Egress == [interface : {"en0", "utun", "en1"}, destination : Traffic!Addresses,
           transport : {"Tcp", "Udp"}, port : {0, 80, 443}]
          \union [interface : {"en0", "utun"}, destination : Traffic!Addresses,
                  transport : {"Other"}, port : {0}]
DomainRules == [prefix : {"", "domain:", "geosite:"}, capital : BOOLEAN,
                labels : {<<"">>, <<"ru">>, <<"x", "ru">>, <<"category-ru">>, <<"other">>}]
LoadSettings == Fresh /\ \E enabled \in BOOLEAN, r, s \in DomainRules,
  mode \in {"ProxyAll", "BypassSelected", "ProxySelected", "BlockSelected"},
  ips \in {{}, {"geoip:private"}, {"9.9.9.9"}, {"text"}} :
    Give("settings", [enabled |-> enabled, mode |-> mode, direct_domains |-> {r, s},
                      direct_ips |-> ips, direct_apps |-> {}])
Labels == {"x", "ru", "y", ""}
Names == {<<l>> : l \in Labels} \union {<<l, m>> : l, m \in Labels}

-----------------------------------------------------------------------------
(* Network states                                                          *)

Owner == [component |-> "core", correlation_id |-> "c"]
Net(family, prefix) == [family |-> family, prefix |-> prefix]
Default == Net("ipv4", 0)
Route(interface) == [type |-> "AddRoute", destination |-> Default, interface |-> interface]
Unroute == [type |-> "RemoveRoute", destination |-> Default, interface |-> "utun"]
Dns(servers, domains) ==
  [servers |-> servers, search |-> Cardinality(domains), match |-> 0, domains |-> domains]
SetDns(dns) == [type |-> "SetDns", dns |-> dns]
Firewall(on) == [type |-> "ApplyFirewallPolicy", policy_id |-> "p", kill_switch_enabled |-> on]
Restore == [type |-> "RestoreFirewallSnapshot", policy_id |-> Absent, kill_switch_enabled |-> FALSE]
Kinds == {Route("utun"), Route("en0"), Firewall(TRUE), Firewall(FALSE), SetDns(Dns(1, {"d"}))}
OddKinds == {[type |-> "SetMtu", interface |-> "utun", mtu |-> m] : m \in {0, 1280}}
  \union {[type |-> "SetInterfaceAddress", interface |-> i, address |-> Net(f, 64)] :
            i \in {"utun", ""}, f \in {"ipv4", "ipv6"}}
  \union {SetDns(Dns(2, {})), SetDns(Dns(1, {"a b"})), Unroute, Restore,
          [type |-> "PreserveEndpointRoute", endpoint |-> "e", interface |-> "a b"],
          [type |-> "RemoveEndpointRoute", endpoint |-> "e"],
          [type |-> "ResetMtu", interface |-> "utun"]}

NoRollback == [required |-> FALSE, inverse |-> Rules!NoInverse]
Rollback(inverse) == [required |-> TRUE, inverse |-> inverse]
Rollbacks == {NoRollback, Rollback(Unroute), Rollback(Rules!NoInverse),
              [required |-> FALSE, inverse |-> Restore]}
Operation(key, order, kind, status, rollback) ==
  [key |-> key, apply_order |-> order, kind |-> kind, status |-> status, rollback |-> rollback]
State(phase, error, operations) ==
  [transaction_id |-> "tx", snapshot_id |-> "s", platform |-> "MacOs", owner |-> Owner,
   phase |-> phase, last_error |-> error, operations |-> operations]
Plan(operations) == State("Planned", Absent, operations)
Snapshot == [snapshot_id |-> "s", platform |-> "MacOs", owner |-> Owner, interfaces |-> <<>>,
             routes |-> <<>>, dns |-> Dns(1, {}), policy_id |-> Absent]
Interface(mtu, addresses) == [name |-> "utun", mtu |-> mtu, addresses |-> addresses]
Snapshots == {Snapshot,
  [Snapshot EXCEPT !.snapshot_id = "t"], [Snapshot EXCEPT !.platform = "Linux"],
  [Snapshot EXCEPT !.owner.component = "x"], [Snapshot EXCEPT !.policy_id = "a b"],
  [Snapshot EXCEPT !.interfaces = <<Interface(<<0>>, <<>>)>>],
  [Snapshot EXCEPT !.interfaces = <<Interface(<<1>>, <<>>), Interface(<<2>>, <<>>)>>],
  [Snapshot EXCEPT !.interfaces = <<Interface(<<>>, <<Net("ipv4", 33)>>)>>],
  [Snapshot EXCEPT !.routes = <<[destination |-> Default, gateway |-> Absent, interface |-> Absent]>>],
  [Snapshot EXCEPT !.dns = Dns(2, {})]}

Planned(key, c) == Operation(key, c.order, c.kind, "Planned", c.rollback)
Engage == Operation("a", <<1>>, Firewall(TRUE), "Planned", Rollback(Restore))

AdmitOne == Fresh /\ \E key \in {"a", ""}, order \in {<<>>, <<1>>}, kind \in Kinds \union OddKinds,
               status \in {"Planned", "Applied"} :
  Give("plan", <<Snapshot, Plan(<<Operation(key, order, kind, status, Rollback(Unroute))>>)>>)
AdmitTwo == Fresh /\ \E key \in {"a", "b"},
  c, d \in [order : {<<>>, <<1>>, <<2>>}, kind : Kinds, rollback : Rollbacks] :
    Give("plan", <<Snapshot, Plan(<<Planned("a", c), Planned(key, d)>>)>>)
AdmitThree == Fresh /\ \E c, d, e \in [order : {<<1>>, <<2>>, <<3>>}, kind : Kinds,
                              rollback : {NoRollback, Rollback(Unroute)}] :
  Give("plan", <<Snapshot, Plan(<<Planned("a", c), Planned("b", d), Planned("c", e)>>)>>)
\* A plan of no operation, one that cannot be named as a file, and snapshots
\* that are malformed or another transaction's.
AdmitWith == Fresh /\ \E snapshot \in Snapshots, id \in {"tx", "a.b", ""}, error \in {Absent, "e"},
                operations \in {<<>>, <<Engage>>} :
  Give("plan", <<snapshot, [Plan(operations) EXCEPT !.transaction_id = id, !.last_error = error]>>)
ReadState == Fresh /\ \E phase \in Rules!Phases, error \in {Absent, "e", "a b"}, key \in {"a", "b"},
  order \in {<<>>, <<1>>, <<3>>}, status \in Rules!Statuses, rollback \in Rollbacks, length \in 0..2,
  other \in [order : {<<1>>, <<2>>}, status : Rules!Statuses] :
    Give("state", State(phase, error, SubSeq(
      <<Operation("a", order, Route("utun"), status, rollback),
        Operation(key, other.order, Route("en0"), other.status, Rollback(Restore))>>, 1, length)))

-----------------------------------------------------------------------------
(* Messages of client and helper                                           *)

Required == {<<>>, <<"Tun", "Dns">>, <<"PerAppRouting">>}
            \union {[i \in 1..n |-> "Tun"] : n \in {32, 33}}
Cores == [min_supported_protocol_version : {1, 2}, protocol_version : {0, 1, 2},
          required_capabilities : Required]
Identifiers == {"id", "", " ", "long", "a b"}
Intents == [type : {"Connect"}, correlation_id : Identifiers, required_capabilities : Required,
            bytes : {65536, 65537}]
           \union [type : {"Disconnect", "Recover"}, correlation_id : Identifiers, bytes : {65}]
           \union [type : {"Status"}, bytes : {65}]
Connections == [at : Contract!Active, id : {"old"}]
               \union [at : {"Disconnected", "Failed"}, id : {Absent}]
Exchange == Fresh /\ \E core \in Cores, session \in {"s", "long"}, state \in Connections,
  intent \in Intents : Give("message", <<core, session, state, intent>>)

-----------------------------------------------------------------------------
Next == \/ ParseSecurity \/ ParseTransport \/ ParseAddress \/ ParseNames
        \/ LoadProfile \/ LoadTls \/ AddLink
        \/ OneRow \/ TwoRows \/ ThreeRows \/ FourRows
        \/ BuildAllowlist \/ LoadSettings
        \/ AdmitOne \/ AdmitTwo \/ AdmitThree \/ AdmitWith \/ ReadState
        \/ Exchange
Spec == Init /\ [][Next]_input

-----------------------------------------------------------------------------
(* Properties                                                              *)

\* A link that is accepted gives both engines one configuration, with the
\* security it names and never less; a stored profile that is valid does so up
\* to the blanks around its fields, which Xray is given; and two links are two
\* profiles of one config exactly when they differ (parser.rs, config.rs, both
\* generators).
LinksFaithful ==
  /\ input.about = "link" => Links!LinkFaithful(input.of)
  /\ input.about = "profile" => Links!ProfileFaithful(input.of)
  /\ input.about = "pair" => Links!PairFaithful(input.of[1], input.of[2])

\* In an admitted catalog a selection speaks for all rows of its version, has
\* a checksum on every declared target, and starts no file but the one a row of
\* the version asked for pins for the target, or the caller does (engine.rs).
CatalogSound == input.about = "catalog" /\ Engines!validate_engine_catalog(input.of) =>
  LET releases == Engines!get_pinned_engine_releases(input.of)
  IN \A strategy \in Engines!Strategies :
       /\ Engines!DefaultFound(input.of, strategy)
       /\ \A request \in Requests :
            /\ Engines!SelectionSound(input.of, strategy, request)
            /\ \A explicit \in {Absent, " ", " A ", "b"}, file \in Files, t \in {"macos", "linux", "other"} :
                 Engines!StartedIsPinned(releases, strategy, request, explicit, t, file)

\* Outside the tunnel goes what the kill switch's endpoint names, and what
\* split tunnelling's list names, each with the names below it (kill_switch.rs,
\* matcher.rs).
TrafficContained ==
  /\ input.about = "intent" =>
       Traffic!KillSwitchContained(input.of[1], input.of[2], input.of[3], Egress)
  /\ input.about = "settings" =>
       /\ \A name \in Names : Traffic!SplitContained(input.of, name, Labels)
       /\ \A address \in Traffic!Addresses : Traffic!AddressContained(input.of, address)

\* Whatever an admitted plan may have done has an inverse on disk before it is
\* done, and a rollback undoes exactly that (network_state.rs,
\* recovery_journal.rs).
RollbackComplete ==
  /\ input.about = "plan" => Rules!PlanRecoverable(input.of[1], input.of[2])
  /\ input.about = "state" => Rules!StateUndone(input.of)

\* A client and a helper that have agreed on a hello understand each other: what
\* the one sends the other accepts and handles, what was agreed on is served, and
\* the answer fits the state the client is in (connection.rs,
\* platform_contract.rs, helper_runtime_admission.rs, platform_helper.rs).
HelperUnderstood == input.about = "message" =>
  /\ Contract!HandshakeAgrees(input.of[1], input.of[2])
  /\ Contract!Understood(input.of[1], input.of[2], input.of[3], input.of[4])
=============================================================================
