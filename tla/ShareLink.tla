----------------------------- MODULE ShareLink ------------------------------
(***************************************************************************)
(* From a VLESS share link to the configuration an engine is started with: *)
(* the parser (parser.rs), the profile, its identity and its validation    *)
(* (config.rs), and the two generators (xray_generator.rs,                 *)
(* sing_box_generator.rs).  The profile's display name is left out: it     *)
(* reaches neither identity, validation nor configuration.                 *)
(*                                                                         *)
(* Text is a name for a class of strings; Trim and Lower say what the      *)
(* string functions do to it.  A query is a set of parameters with the     *)
(* form their key was written in; no rule depends on their order.          *)
(***************************************************************************)
EXTENDS Naturals, FiniteSets, Sequences

Absent == "absent"
\* A profile without a tls object.
NoTls == [enabled |-> FALSE, security |-> Absent, server_name |-> Absent,
          public_key |-> Absent, short_id |-> Absent, fingerprint |-> Absent]

-----------------------------------------------------------------------------
(* Text                                                                    *)

Trim(v) ==
  CASE v = " name " -> "name" [] v = " " -> "" [] v = " /p " -> "/p" [] v = " chrome " -> "chrome"
    [] v = " key- " -> "key-" [] v = " ab " -> "ab" [] v = " uuid " -> "uuid"
    [] v = " TLS " -> "TLS" [] OTHER -> v
Lower(v) ==
  CASE v = "NAME" -> "name" [] v = "AB" -> "ab" [] v = "Chrome" -> "chrome" [] v = "UUID" -> "uuid"
    [] v = "TLS" -> "tls" [] v = "GUN" -> "gun" [] v = "Raw" -> "raw" [] v = "None" -> "none"
    [] OTHER -> v
Blank(v) == Trim(v) \in {"", Absent}
IsIp(v) == v \in {"1.2.3.4", "::1"}

is_valid_sni_hostname(v) == Lower(Trim(v)) \in {"name", "other"}
is_valid_fingerprint(v) == Lower(v) = "chrome"
\* Two alphabets write the same 32 bytes; what is used is the URL-safe form.
is_valid_reality_public_key(v) == Trim(v) \in {"key-", "key+"}
to_raw_url_safe_reality_public_key(v) ==
  IF is_valid_reality_public_key(v) THEN "key-" ELSE Trim(v)
\* Hexadecimal, even, at most 16 digits.
ShortIdValid(v) == Lower(v) = "ab"
\* A hexadecimal UUID is written in lower case, any other text is kept.
normalize_uuid(v) == IF Lower(Trim(v)) = "uuid" THEN "uuid" ELSE Trim(v)

-----------------------------------------------------------------------------
(* Links                                                                   *)

CRITICAL_QUERY_KEYS ==
  {"flow", "security", "type", "headerType", "sni", "pbk", "sid", "fp", "encryption",
   "host", "path", "serviceName", "authority", "mode"}

\* A key is written as it is known, in another case, with blanks around it or
\* with characters no key may have.
Forms == {"exact", "otherCase", "padded", "odd"}

DuplicateCriticalKeys(query) == \E q, r \in query :
  /\ q # r /\ q.key = r.key /\ q.key \in CRITICAL_QUERY_KEYS
  /\ {q.form, r.form} \subseteq {"exact", "padded"}

NamesAccepted(query) ==
  /\ ~DuplicateCriticalKeys(query)
  /\ \A q \in query : q.form \notin {"padded", "odd"}
                      /\ (q.form = "otherCase" => q.key \notin CRITICAL_QUERY_KEYS)

Given(link, key) == {q.value : q \in {p \in link.query : p.key = key /\ p.form = "exact"}}
Param(link, key) == IF Given(link, key) = {} THEN Absent ELSE CHOOSE v \in Given(link, key) : TRUE

\* What the parser keeps of a parameter: nothing when it is blank.
Kept(v) == IF Blank(v) THEN Absent ELSE Trim(v)
KeptLower(v) == Lower(Kept(v))

Security(link) ==
  LET v == Param(link, "security") IN IF v = Absent THEN "none" ELSE Lower(Trim(v))
Transport(link) ==
  LET v == Lower(Trim(Param(link, "type")))
  IN IF v \in {Absent, "raw"} THEN "tcp" ELSE IF v = "websocket" THEN "ws" ELSE v

Server(link) == IF IsIp(link.host) THEN link.host ELSE Lower(link.host)
\* The host of the link unless it is an address; a blank parameter is kept.
Sni(link) ==
  LET v == Param(link, "sni") IN
  IF v = Absent THEN IF IsIp(link.host) THEN "" ELSE Server(link)
  ELSE IF IsIp(Trim(v)) THEN Trim(v) ELSE Lower(Trim(v))

\* host and authority, and path and serviceName, are two names of one value.
Hosts(link) == {KeptLower(Param(link, k)) : k \in {"host", "authority"}} \ {Absent}
Paths(link) == {Kept(Param(link, k)) : k \in {"path", "serviceName"}} \ {Absent}
Value(values) == IF values = {} THEN Absent ELSE CHOOSE v \in values : TRUE
TransportHost(link) ==
  IF Hosts(link) = {} /\ Transport(link) # "tcp" /\ ~Blank(Sni(link)) THEN Sni(link)
  ELSE Value(Hosts(link))

Flow(link) == Lower(Trim(Param(link, "flow")))
FlowKnown(link) == Flow(link) \in {Absent, "xtls-rprx-vision"}
\* Also a header of a transport other than TCP is held to this.
HeaderTypeKnown(link) == Lower(Trim(Param(link, "headerType"))) \in {Absent, "none"}

ParametersAccepted(link) ==
  /\ FlowKnown(link)
  /\ Security(link) \in {"none", "tls", "reality"}
  /\ Transport(link) \in {"tcp", "ws", "grpc"}
  /\ HeaderTypeKnown(link)
  /\ Cardinality(Hosts(link)) <= 1 /\ Cardinality(Paths(link)) <= 1
  /\ IF Transport(link) = "grpc" THEN KeptLower(Param(link, "mode")) \in {Absent, "gun"}
     ELSE Blank(Param(link, "serviceName")) /\ Blank(Param(link, "authority"))

Profile(link) ==
  [server |-> Server(link), port |-> link.port, uuid |-> normalize_uuid(link.uuid),
   transport |-> Transport(link), host |-> TransportHost(link), path |-> Value(Paths(link)),
   flow |-> Flow(link),
   tls |-> IF Security(link) = "none" THEN NoTls
           ELSE [enabled |-> TRUE, security |-> Security(link), server_name |-> Sni(link),
                 public_key |-> Kept(Param(link, "pbk")),
                 short_id |-> KeptLower(Param(link, "sid")),
                 fingerprint |-> KeptLower(Param(link, "fp"))]]

-----------------------------------------------------------------------------
(* Profiles                                                                *)

Hashed(v) == IF v = Absent THEN "" ELSE v

\* (mutated: the short id is left out)
compute_profile_id_WithoutShortId(p) ==
  <<p.server, p.port, p.uuid, p.transport, Hashed(p.flow), Hashed(p.host), Hashed(p.path),
    IF p.tls = NoTls THEN <<>>
    ELSE <<p.tls.security, p.tls.server_name, Hashed(p.tls.fingerprint),
           Hashed(p.tls.public_key)>>>>

\* The fields the digest is taken of; the digest itself is one-to-one here.
compute_profile_id(p) ==
  <<p.server, p.port, p.uuid, p.transport, Hashed(p.flow), Hashed(p.host), Hashed(p.path),
    IF p.tls = NoTls THEN <<>>
    ELSE <<p.tls.security, p.tls.server_name, Hashed(p.tls.fingerprint),
           Hashed(p.tls.public_key), Hashed(p.tls.short_id)>>>>

effective_transport_host(p) ==
  IF ~Blank(p.host) THEN Trim(p.host)
  ELSE IF p.tls # NoTls /\ ~Blank(p.tls.server_name) THEN Trim(p.tls.server_name)
  ELSE IF p.server = "::1" THEN "[::1]" ELSE Trim(p.server)
validate_transport_host(p) == effective_transport_host(p) \notin {"a/b", "a b"}

RealityValid(tls) ==
  /\ is_valid_sni_hostname(tls.server_name)
  /\ is_valid_reality_public_key(tls.public_key)
  /\ Blank(tls.short_id) \/ ShortIdValid(Trim(tls.short_id))

TlsValid(tls) ==
  /\ tls.security = "none" \/ Blank(tls.fingerprint) \/ is_valid_fingerprint(Trim(tls.fingerprint))
  /\ tls.security = "reality" => RealityValid(tls)
  /\ tls.security = "tls" => Blank(tls.server_name) \/ is_valid_sni_hostname(tls.server_name)

TransportValid(p) ==
  CASE p.transport = "tcp" -> p.host = Absent /\ p.path = Absent
    [] p.transport = "ws" -> ~Blank(p.path) /\ Trim(p.path) = "/p" /\ validate_transport_host(p)
    [] p.transport = "grpc" -> ~Blank(p.path) /\ Trim(p.path) = "p" /\ validate_transport_host(p)

ProfileValid(p) ==
  /\ ~Blank(p.server) /\ p.port # "0" /\ ~Blank(p.uuid)
  /\ p.flow # Absent => p.transport = "tcp"
  /\ ~(p.transport = "ws" /\ p.tls # NoTls /\ p.tls.enabled /\ p.tls.security = "reality")
  /\ TransportValid(p)
  /\ p.tls # NoTls => TlsValid(p.tls)

\* parse_uri returns Profile(link).
Accepted(link) ==
  /\ link.short /\ link.scheme = "vless" /\ NamesAccepted(link.query)
  /\ ~Blank(link.uuid) /\ link.host # Absent /\ link.port # Absent
  /\ ParametersAccepted(link) /\ ProfileValid(Profile(link))

\* An AppConfig: profiles in a sequence, each with its id.
AppConfigValid(config) ==
  /\ config.profiles # <<>>
  /\ \E i \in DOMAIN config.profiles : config.profiles[i].id = config.active_profile_id
  /\ \A i, j \in DOMAIN config.profiles :
       config.profiles[i].id = config.profiles[j].id => i = j
  /\ \A i \in DOMAIN config.profiles : ProfileValid(config.profiles[i].profile)

-----------------------------------------------------------------------------
(* Engine configurations, the fields of both named alike                   *)

Unprotected == [security |-> "none", server_name |-> Absent, public_key |-> Absent,
                short_id |-> Absent, fingerprint |-> Absent]
OrElse(v, default) == IF v = Absent THEN default ELSE v
PublicKey(tls) == to_raw_url_safe_reality_public_key(OrElse(tls.public_key, ""))
NameIfAny(tls) == IF Blank(tls.server_name) THEN Absent ELSE Trim(tls.server_name)

XrayTls(p) ==
  IF p.tls = NoTls \/ ~p.tls.enabled \/ p.tls.security = "none" THEN Unprotected
  ELSE IF p.tls.security = "tls"
  THEN [Unprotected EXCEPT !.security = "tls", !.server_name = NameIfAny(p.tls),
                           !.fingerprint = OrElse(p.tls.fingerprint, "chrome")]
  ELSE [security |-> "reality", server_name |-> p.tls.server_name,
        public_key |-> PublicKey(p.tls), short_id |-> OrElse(p.tls.short_id, ""),
        fingerprint |-> OrElse(p.tls.fingerprint, "chrome")]

SingBoxTls(p) ==
  IF p.tls = NoTls \/ ~p.tls.enabled \/ p.tls.security = "none" THEN Unprotected
  ELSE IF p.tls.security = "tls"
  THEN [Unprotected EXCEPT !.security = "tls", !.server_name = NameIfAny(p.tls),
                           !.fingerprint = Kept(p.tls.fingerprint)]
  ELSE [security |-> "reality", server_name |-> Trim(p.tls.server_name),
        public_key |-> PublicKey(p.tls), short_id |-> Trim(OrElse(p.tls.short_id, "")),
        fingerprint |-> OrElse(Kept(p.tls.fingerprint), "chrome")]

Stream(p) ==
  IF p.transport = "tcp" THEN [network |-> "tcp", host |-> Absent, path |-> Absent]
  ELSE [network |-> p.transport, host |-> effective_transport_host(p),
        path |-> Trim(OrElse(p.path, IF p.transport = "ws" THEN "/" ELSE ""))]

XrayConfig(p) ==
  [address |-> p.server, port |-> p.port, uuid |-> p.uuid, flow |-> p.flow,
   tls |-> XrayTls(p), stream |-> Stream(p)]
SingBoxConfig(p) ==
  [address |-> Trim(p.server), port |-> p.port, uuid |-> Trim(p.uuid), flow |-> p.flow,
   tls |-> SingBoxTls(p), stream |-> Stream(p)]

-----------------------------------------------------------------------------
(* What is checked of a link, of a profile and of two links                *)

SecurityOf(p) == IF p.tls = NoTls \/ ~p.tls.enabled THEN "none" ELSE p.tls.security

AllButFingerprint(config) == [config EXCEPT !.tls.fingerprint = ""]

\* Both engines are told the same, but for the fingerprint of plain TLS, which
\* only Xray is given when the profile names none.
EnginesAgree(p) ==
  LET x == XrayConfig(p)  s == SingBoxConfig(p) IN
  /\ AllButFingerprint(x) = AllButFingerprint(s)
  /\ x.tls.fingerprint # s.tls.fingerprint =>
       x.tls.security = "tls" /\ p.tls.fingerprint = Absent /\ x.tls.fingerprint = "chrome"

\* The same but for the blanks of a stored profile: Xray is given them, sing-box
\* is not, and of a fingerprint of blanks sing-box makes none or the default.
StrippedTls(tls) ==
  [security |-> tls.security, server_name |-> Trim(tls.server_name), public_key |-> tls.public_key,
   short_id |-> Trim(tls.short_id), fingerprint |-> Trim(tls.fingerprint)]
Stripped(config) ==
  [address |-> Trim(config.address), port |-> config.port, uuid |-> Trim(config.uuid),
   flow |-> config.flow, tls |-> StrippedTls(config.tls), stream |-> config.stream]
EnginesAgreeUpToBlanks(p) ==
  LET x == Stripped(XrayConfig(p))  s == SingBoxConfig(p) IN
  /\ AllButFingerprint(x) = AllButFingerprint(s)
  /\ x.tls.fingerprint # s.tls.fingerprint =>
       x.tls.security # "none" /\ Blank(p.tls.fingerprint)

Protected(tls, security) ==
  /\ tls.security = security
  /\ security = "reality" =>
       /\ is_valid_sni_hostname(tls.server_name) /\ tls.public_key = "key-"
       /\ tls.fingerprint \notin {"", Absent}

LinkFaithful(link) == Accepted(link) =>
  LET p == Profile(link) IN
  /\ Protected(XrayTls(p), Security(link)) /\ Protected(SingBoxTls(p), Security(link))
  /\ EnginesAgree(p)

\* A stored profile may have blanks around its fields, and its fingerprint may
\* be of blanks alone: of Xray no more than this holds.
ProfileFaithful(p) == ProfileValid(p) =>
  Protected(SingBoxTls(p), SecurityOf(p)) /\ EnginesAgreeUpToBlanks(p)

Entry(link) == [id |-> compute_profile_id(Profile(link)), profile |-> Profile(link)]
PairFaithful(a, b) == Accepted(a) /\ Accepted(b) =>
  LET config == [active_profile_id |-> Entry(a).id, profiles |-> <<Entry(a), Entry(b)>>]
  IN AppConfigValid(config) <=> Profile(a) # Profile(b)
=============================================================================
