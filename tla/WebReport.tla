------------------------------ MODULE WebReport ------------------------------
(***************************************************************************)
(* The read-only modules: asmb8_alerts, _auditlog, _info, _inventory,      *)
(* _network, _postcode, _redirection, _sel, _sensors, _sessions and        *)
(* _users, on top of the requests of plugins/module_utils/asp.py.          *)
(*                                                                         *)
(* One invocation is a sequence of steps: build the client, log in, read   *)
(* one endpoint after the other.  The modules differ in which steps those  *)
(* are, in which failures they swallow, and in what their decoders make of *)
(* a record that lacks a field.  Each of these is an operator of its own,  *)
(* named after its module; the actions are common to all of them.          *)
(***************************************************************************)
EXTENDS Integers, Sequences, FiniteSets, SequencesExt

CONSTANTS
    Calls,       \* invocations: a module with its options
    Codes,       \* POST codes the board may show
    MaxRetries,  \* AspClient's max_retries
    ReadTime,    \* bound: seconds one attempt of a request takes
    Oversleep,   \* bound: seconds time.sleep may return late
    MaxFaults    \* bound: requests of one call that meet a fault or an unusual answer

Modules == {"alerts", "auditlog", "info", "inventory", "network", "postcode",
            "redirection", "sel", "sensors", "sessions", "users"}

\* The options of the connection; pin is tls_fingerprint, by its spelling.
TlsOptions == [use_tls : BOOLEAN, allow_insecure : BOOLEAN, validate_certs : BOOLEAN,
               ca_path : BOOLEAN, pin : {"unset", "hex", "colons", "malformed"}]

\* The options that steer a module: check mode, whether its libraries are
\* there, the list option (given or not) or its flags, sensor_types (given or
\* not), and its numbers; and
\* the certificate the BMC presents: the pinned one, one that a trusted
\* authority has signed, or another.
Call == [mod : Modules, check : BOOLEAN, libs : BOOLEAN, tls : TlsOptions,
         cert : {"pinned", "signed", "other"},
         given : BOOLEAN, names : Seq(STRING), typed : BOOLEAN, types : Seq(Nat),
         state : BOOLEAN, limit : Int, after : Int, interval : Int, duration : Int]

ASSUME ReportAssumption ==
    /\ Calls \subseteq Call
    /\ MaxRetries \in Nat /\ ReadTime \in Nat /\ Oversleep \in Nat /\ MaxFaults \in Nat

Asks(c, name) == \E i \in DOMAIN c.names : c.names[i] = name

----------------------------------------------------------------------------
(* What is read, in order.  `lax` is the class of errors the caller of the *)
(* step catches: "any" IkvmError, only a "protocol" error, or "none".      *)

Step(via, field, lax) == [via |-> via, field |-> field, lax |-> lax]
Gets(fields, lax) == [i \in DOMAIN fields |-> Step("get", fields[i], lax)]

\* build_asp_client and login().
Login == <<Step("client", "client", "none"), Step("login", "login", "none")>>

gather_alerts ==
    Gets(<<"smtp", "lan", "event_filters", "policies", "triggers", "email_format",
           "adviser">>, "any")

gather_auditlog == Gets(<<"entries", "remote_storage", "logging", "sel_policy">>, "any")

gather_ipmi_facts ==
    [i \in 1..3 |-> Step("ipmi", <<"power_state", "boot_device", "mc_info">>[i], "any")]

gather_web_management_facts == <<Step("text", "host_status", "none")>>

gather_media_preconditions ==
    <<Step("get", "remote_preconditions", "protocol"), Step("get", "vmediacfg", "none")>>

gather_network == Gets(<<"lan_channels", "interfaces", "dns", "bonding", "bond_support">>, "none")

gather_users == Gets(<<"users", "role", "role_groups">>, "none")

\* The services to ask about are known once the first answer is there.
gather_sessions ==
    <<Step("get", "services", "none"), Step("get", "remote_session", "protocol"),
      Step("resolve", "services", "none")>>

ALL_SECTIONS == <<"fru", "firmware", "project_features">>

SERVICE_NAMES == <<"web", "kvm", "cd-media", "fd-media", "hd-media", "ssh", "telnet">>
SERVICE_CATALOG ==
    [name \in ToSet(SERVICE_NAMES) |->
        IF name = "ssh" THEN <<"secure">> ELSE IF name = "telnet" THEN <<"nonsecure">>
        ELSE <<"nonsecure", "secure">>]

\* One connection attempt per port a service has.
build_service_report(name) ==
    [i \in DOMAIN SERVICE_CATALOG[name] |-> Step("probe", SERVICE_CATALOG[name][i], "none")]

alerts_steps   == Login \o gather_alerts
auditlog_steps == Login \o gather_auditlog
network_steps  == Login \o gather_network
users_steps    == Login \o gather_users
sessions_steps == Login \o gather_sessions

info_steps(c) ==
    <<Step("ipmi_connect", "ipmi", "none")>> \o gather_ipmi_facts
    \o (IF Asks(c, "web") THEN Login \o gather_web_management_facts ELSE <<>>)
    \o (IF Asks(c, "preconditions") THEN gather_media_preconditions ELSE <<>>)

inventory_steps(c) ==
    Login \o Gets(IF c.given THEN c.names ELSE ALL_SECTIONS, "none")

Poll == <<Step("get", "post_code", "none"), Step("pause", "post_code", "none")>>
postcode_steps == Login \o Poll

redirection_steps(c) ==
    LET names == IF c.given THEN c.names ELSE SERVICE_NAMES
    IN  FlattenSeq([i \in DOMAIN names |-> build_service_report(names[i])])

sel_steps(c) ==
    Login \o <<Step(IF Asks(c, "after") THEN "post" ELSE "get", "sel_entries", "none")>>
    \o Gets(<<"max_entries", "policy">>, "none")

sensors_steps == Login \o Gets(<<"sensors">>, "none")

Steps(c) ==
    CASE c.mod = "alerts"      -> alerts_steps
      [] c.mod = "auditlog"    -> auditlog_steps
      [] c.mod = "info"        -> info_steps(c)
      [] c.mod = "inventory"   -> inventory_steps(c)
      [] c.mod = "network"     -> network_steps
      [] c.mod = "postcode"    -> postcode_steps
      [] c.mod = "redirection" -> redirection_steps(c)
      [] c.mod = "sel"         -> sel_steps(c)
      [] c.mod = "sensors"     -> sensors_steps
      [] c.mod = "sessions"    -> sessions_steps
      [] c.mod = "users"       -> users_steps

----------------------------------------------------------------------------
(* What the decoders make of the records.  A record is "full", or "lacks"  *)
(* the field that matters (absent or null), or is "odd" (a number that is  *)
(* not one); service and sensor records go by their name, an "unnumbered"  *)
(* service has one and no SERVICEID.  A field that is missing shows as its *)
(* default, costs its record, or is an error; int() and arithmetic on      *)
(* something odd is an exception nobody catches.                           *)

\* first: only records[0] counts.  empty: no record at all is fine, an
\* error, or leaves the field unread.
Shape(first, empty, lacks, odd) ==
    [first |-> first, empty |-> empty, lacks |-> lacks, odd |-> odd]

alerts_shape(field) ==
    IF field = "email_format" THEN Shape(FALSE, "fine", "drop", "value")
    ELSE Shape(field = "adviser", "fine", "default", "default")

auditlog_shape(field) ==
    IF field = "entries" THEN Shape(FALSE, "fine", "drop", "value")
    ELSE Shape(TRUE, "fine", "default", "default")

\* bool() takes what is missing for off.
fetch_remote_session_preconditions == Shape(TRUE, "unread", "default", "value")

\* decode_media_session_count subtracts.
fetch_vmediacfg_preconditions == Shape(TRUE, "error", "default", "crash")

info_shape(field) ==
    IF field = "vmediacfg" THEN fetch_vmediacfg_preconditions
    ELSE fetch_remote_session_preconditions

inventory_shape(field) ==
    CASE field = "fru"              -> Shape(FALSE, "fine", "value", "value")
      [] field = "firmware"         -> Shape(TRUE, "error", "default", "crash")
      [] field = "project_features" -> Shape(FALSE, "fine", "drop", "value")

network_shape(field) ==
    Shape(field \in {"bonding", "bond_support"}, "fine", "default", "value")

read_post_code == Shape(TRUE, "error", "error", "value")

sel_shape(field) ==
    IF field = "sel_entries" THEN Shape(FALSE, "fine", "default", "default")
    ELSE Shape(TRUE, "error", "error", "crash")

normalize_sensor == Shape(FALSE, "fine", "default", "crash")

\* A record without a name is skipped, one with a name and no SERVICEID is a
\* KeyError of known_service_ids.  The counts are decoded last, by
\* build_services_report.
decode_service == Shape(FALSE, "fine", "drop", "value")
fetch_remote_session_config == Shape(TRUE, "unread", "default", "value")
decode_session_record == Shape(FALSE, "fine", "default", "value")

sessions_shape(field) ==
    CASE field = "services"       -> decode_service
      [] field = "remote_session" -> fetch_remote_session_config
      [] OTHER                    -> decode_session_record

\* A slot without a user name is counted and not listed.
users_shape(field) ==
    Shape(field = "role", "fine", IF field = "users" THEN "drop" ELSE "default", "value")

ShapeOf(mod, field) ==
    CASE mod = "alerts"    -> alerts_shape(field)
      [] mod = "auditlog"  -> auditlog_shape(field)
      [] mod = "info"      -> info_shape(field)
      [] mod = "inventory" -> inventory_shape(field)
      [] mod = "network"   -> network_shape(field)
      [] mod = "postcode"  -> read_post_code
      [] mod = "sel"       -> sel_shape(field)
      [] mod = "sensors"   -> normalize_sensor
      [] mod = "sessions"  -> sessions_shape(field)
      [] mod = "users"     -> users_shape(field)

Treatment(shape, r) ==
    CASE r = "lacks"      -> shape.lacks
      [] r = "odd"        -> shape.odd
      [] r = "unnumbered" -> "crash"
      [] OTHER            -> "value"

\* The records a decoder looks at, and those it keeps.
Considered(shape, recs) ==
    IF shape.first /\ recs # <<>> THEN <<Head(recs)>> ELSE recs
Kept(shape, recs) ==
    SelectSeq(Considered(shape, recs), LAMBDA r : Treatment(shape, r) # "drop")

\* How a decoder ends: a value, a ProtocolError, a field left unread, or an
\* exception of another kind.
Verdict(shape, recs) ==
    LET met == {Treatment(shape, r) : r \in ToSet(Considered(shape, recs))}
    IN  IF recs = <<>> THEN shape.empty
        ELSE IF "error" \in met THEN "error" ELSE IF "crash" \in met THEN "crash" ELSE "fine"

\* The SensorType code of a record, 0 when it has none.
SensorType(r) == CASE r = "temp" -> 1 [] r = "fan" -> 4 [] OTHER -> 0

\* sensor_names and sensor_types, where given, both have to fit.
filter_sensors(c, value) ==
    SelectSeq(value, LAMBDA r : /\ c.given => Asks(c, r)
                                /\ c.typed => Contains(c.types, SensorType(r)))

\* read_entries and read_paged_entries: entries[:limit].
read_entries(c, value) ==
    IF c.given THEN SubSeq(value, 1, IF c.limit < Len(value) THEN c.limit ELSE Len(value))
    ELSE value

Value(c, field, recs) ==
    LET kept == Kept(ShapeOf(c.mod, field), recs)
    IN  CASE field = "sensors"     -> filter_sensors(c, kept)
          [] field = "sel_entries" -> read_entries(c, kept)
          [] OTHER                 -> kept

\* Each element once, where it first occurs.
Distinct(seq) ==
    FoldLeft(LAMBDA seen, x : IF Contains(seen, x) THEN seen ELSE Append(seen, x), <<>>, seq)

known_service_ids(recs) == Distinct(SelectSeq(recs, LAMBDA r : r # "lacks"))

\* None and an empty list ask for nothing, "all" for all that are known.
resolve_requested_session_services(c, known) ==
    IF ~c.given THEN <<>> ELSE IF Asks(c, "all") THEN known ELSE Distinct(c.names)

UnknownServices(c, known) ==
    IF ~c.given \/ Asks(c, "all") THEN {} ELSE ToSet(c.names) \ ToSet(known)

\* What asmb8_info calls proven; only the web session depends on this run.
build_capabilities(asked, web_management) ==
    {"ipmi_power", "ipmi_boot_device", "ipmi_mc_info", "redfish"}
    \cup {cap \in {"web_management"} : asked /\ web_management}

distinct_post_codes_in_order(observations) ==
    Distinct([i \in DOMAIN observations |-> observations[i].code])

----------------------------------------------------------------------------

(* The trust policy of the connection.                                     *)

\* A digest, or an error.
normalize_fingerprint(raw) == IF raw = "malformed" THEN "raises" ELSE "digest"

enforce_transport_policy(tls) == tls.use_tls \/ tls.allow_insecure

\* TlsTrustPolicy.create: the two trust modes exclude each other.
create(tls) ==
    tls.pin # "unset" => ~tls.ca_path /\ normalize_fingerprint(tls.pin) = "digest"

pinned(tls) == tls.pin # "unset"

\* Is the fingerprint asserted?
init_poolmanager(tls) == pinned(tls)

\* build_ssl_context and cert_verify: is the chain verified?
build_ssl_context(tls) == ~(pinned(tls) \/ ~tls.validate_certs)

\* Does the handshake with the BMC go through?  A redirect the BMC answers with
\* is followed by requests, on its own terms (the http:// adapter is the default
\* one): how that ends is among the answers, the failures and RequestBreaks.
Accepts(c) ==
    c.tls.use_tls =>
        /\ init_poolmanager(c.tls) => c.cert = "pinned"
        /\ build_ssl_context(c.tls) => c.cert = "signed"

----------------------------------------------------------------------------

VARIABLES
    call,     \* the invocation
    pc,       \* not yet started, working, asleep between polls, or over
    todo,     \* the steps that remain
    attempt,  \* unanswered attempts of the current request
    token,    \* did the login hand out a CSRFTOKEN?
    reads,    \* what has been read, and from which body
    result,   \* how the module ended, with its error class
    now,      \* seconds since sampling began
    began,    \* when the current poll began
    seen,     \* the observations of a sampling
    faults,   \* requests that met a fault so far
    logins,   \* web sessions this call has left on the BMC
    contacted \* has it transmitted a request?

vars == <<call, pc, todo, attempt, token, reads, result, now, began, seen, faults, logins, contacted>>

Pending == [how |-> "pending", class |-> "none"]
Failure(class) == [how |-> "failed", class |-> class]
Crash == [how |-> "crash", class |-> "none"]
Success == [how |-> "ok", class |-> "none"]

Init ==
    /\ call \in Calls
    /\ pc = "start" /\ todo = <<>> /\ attempt = 0 /\ token = FALSE
    /\ reads = <<>> /\ result = Pending
    /\ now = 0 /\ began = 0 /\ seen = <<>>
    /\ faults = 0 /\ logins = 0 /\ contacted = FALSE

Quiet == UNCHANGED <<call, now, began, seen, logins, contacted>>

End(how) == pc' = "over" /\ result' = how

----------------------------------------------------------------------------
(* main(), before anything is sent.                                        *)

\* validate_sampling_bounds.
validate_sampling_bounds(c) == c.interval \in 2..300 /\ c.duration \in 1..900

\* What is refused without contact, by a failure that has no error class.
RefusedOutright(c) ==
    \/ ~c.libs /\ c.mod # "redirection"
    \/ c.mod = "info" /\ Asks(c, "preconditions") /\ ~Asks(c, "web")
    \/ c.mod = "postcode" /\ Asks(c, "sample") /\ ~validate_sampling_bounds(c)
    \/ c.mod = "sel" /\ c.given /\ c.limit < 0
    \/ c.mod = "sel" /\ Asks(c, "after") /\ c.after < 0

\* Mutant: check mode reads like any other run.
SkippedInCheckMode_Never(c) == FALSE

\* In check mode these do not even log in.
SkippedInCheckMode(c) == c.check /\ c.mod \in {"network", "sessions", "users"}

\* asmb8_redirection refuses to set a state.
Prologue(c) ==
    CASE RefusedOutright(c)                  -> Failure("none")
      [] c.mod = "redirection" /\ c.state    -> Failure("unsupported_capability")
      [] SkippedInCheckMode(c)               -> Success
      [] OTHER                               -> Pending

Start ==
    /\ pc = "start"
    /\ IF Prologue(call) = Pending
       THEN pc' = "run" /\ todo' = Steps(call) /\ UNCHANGED result
       ELSE End(Prologue(call)) /\ UNCHANGED todo
    /\ Quiet /\ UNCHANGED <<attempt, token, reads, faults>>

----------------------------------------------------------------------------
(* One step after the other.                                               *)

At(vias) == pc = "run" /\ todo # <<>> /\ Head(todo).via \in vias
Web == {"login", "get", "post", "text"}

Entry(outcome, class, value, page) ==
    [field |-> Head(todo).field, outcome |-> outcome, class |-> class,
     value |-> value, page |-> page]

Fault == faults < MaxFaults /\ faults' = faults + 1

\* The next step.
Advance ==
    /\ todo' = Tail(todo) /\ attempt' = 0
    /\ UNCHANGED <<pc, result>>

Keep(entry) == reads' = Append(reads, entry)

\* Mutant: every failure of a read is swallowed, as in _read_endpoint.
Catches_All(lax, class) == lax # "none"

\* Which except clause the caller of the step has.
Catches(lax, class) == lax = "any" \/ (lax = "protocol" /\ class = "protocol")

\* An IkvmError: _read_endpoint, _read_ipmi_field, fetch_remote_session_*, or
\* the except clause of main().
Raises(class) ==
    IF Catches(Head(todo).lax, class)
    THEN Advance /\ Keep(Entry("failed", class, <<>>, "none"))
    ELSE End(Failure(class)) /\ UNCHANGED <<todo, attempt, reads>>

\* AspClient.__init__: enforce_transport_policy and TlsTrustPolicy.create
\* may raise.  Four modules build their client outside of their try block.
BuildClient ==
    /\ At({"client"})
    /\ IF enforce_transport_policy(call.tls) /\ create(call.tls) THEN Advance
       ELSE /\ End(IF call.mod \in {"alerts", "auditlog", "postcode", "sel"}
                   THEN Crash ELSE Failure("tls_validation"))
            /\ UNCHANGED <<todo, attempt>>
    /\ Quiet /\ UNCHANGED <<token, reads, faults>>

IpmiConnect ==
    /\ At({"ipmi_connect"})
    /\ \/ Advance /\ UNCHANGED <<reads, faults>>
       \/ Fault /\ \E class \in {"authentication", "timeout", "connection"} : Raises(class)
    /\ Quiet /\ UNCHANGED token

IpmiRead ==
    /\ At({"ipmi"})
    /\ \/ Advance /\ Keep(Entry("read", "none", <<"full">>, "ipmi")) /\ UNCHANGED faults
       \/ Fault /\ Raises("remote_operation")
    /\ Quiet /\ UNCHANGED token

\* probe_port: an OSError of any kind is an answer.
Probe ==
    /\ At({"probe"})
    /\ \E reachable \in BOOLEAN :
          /\ IF reachable THEN UNCHANGED faults ELSE Fault
          /\ Keep(Entry(IF reachable THEN "read" ELSE "failed", "none", <<>>, "none"))
    /\ Advance
    /\ Quiet /\ UNCHANGED token

----------------------------------------------------------------------------
(* Requests over HTTP.                                                     *)

Sampling == call.mod = "postcode" /\ Asks(call, "sample")

\* An attempt takes its time, which only a sampling looks at.
Transmit ==
    /\ Accepts(call)
    /\ contacted' = TRUE
    /\ now' \in IF Sampling /\ Head(todo).field = "post_code" THEN now..(now + ReadTime) ELSE {now}
    /\ UNCHANGED <<call, began>>

\* Mutant: a POST is sent again, and counted anew, until it is answered.
_send_with_retry_Forever ==
    IF attempt + 1 > MaxRetries /\ Head(todo).via # "post" THEN Raises("bmc_busy")
    ELSE /\ attempt' = IF attempt + 1 > MaxRetries THEN 1 ELSE attempt + 1
         /\ UNCHANGED <<pc, todo, reads, result>>

\* The same request again, until BmcBusyError.
_send_with_retry ==
    IF attempt + 1 > MaxRetries THEN Raises("bmc_busy")
    ELSE attempt' = attempt + 1 /\ UNCHANGED <<pc, todo, reads, result>>

\* ReadTimeout, or a reset after the request went out.  The BMC may have
\* created the session all the same.
NoAnswer ==
    /\ At(Web) /\ IF attempt = 0 THEN Fault ELSE UNCHANGED faults
    /\ Transmit
    /\ logins' \in IF Head(todo).via = "login" THEN {logins, logins + 1} ELSE {logins}
    /\ _send_with_retry
    /\ UNCHANGED <<token, seen>>

\* ConnectTimeout, SSLError, or a ConnectionError before the request went
\* out.  A certificate that is not accepted is no fault of the network.
ConnectionFails ==
    /\ At(Web)
    /\ \/ Fault /\ \E class \in {"timeout", "tls_validation", "connection"} : Raises(class)
       \/ ~Accepts(call) /\ Raises("tls_validation") /\ UNCHANGED faults
    /\ Quiet /\ UNCHANGED token

\* A RequestException that _send_once does not know: redirects without end, a
\* body cut short.  Nobody catches it, but for one that is a ValueError as well
\* (a redirect to what is no URL) in asmb8_sessions.
RequestBreaks ==
    /\ At(Web) /\ Fault
    /\ Transmit
    /\ logins' \in IF Head(todo).via = "login" THEN {logins, logins + 1} ELSE {logins}
    /\ \/ End(Crash)
       \/ call.mod = "sessions" /\ End(Failure("none"))
    /\ UNCHANGED <<todo, attempt, token, reads, seen>>

\* login(): a session cookie, with or without a CSRFTOKEN; a Failure_Login
\* cookie; or no cookie at all.
LoggedIn ==
    /\ At({"login"})
    /\ Transmit
    /\ \/ Advance /\ logins' = logins + 1 /\ token' \in BOOLEAN /\ UNCHANGED <<reads, faults>>
       \/ /\ Fault /\ \E class \in {"authentication", "protocol"} : Raises(class)
          /\ UNCHANGED <<logins, token>>
    /\ UNCHANGED seen

\* A body with its records and, after them, the empty one that ends a list.
Records(recs) == [page |-> "records", recs |-> Append(recs, "sentinel")]
Usual(field) ==
    CASE field = "services"  -> {Records(<<"web", "kvm">>)}
      [] field = "sensors"   -> {Records(<<"temp", "fan">>)}
      [] field = "post_code" -> {Records(<<code>>) : code \in Codes}
      [] OTHER               -> {Records(<<"full", "full">>)}
Unusual ==
    {[page |-> "records", recs |-> <<"full">>], Records(<<>>), Records(<<"lacks", "full">>), Records(<<"full", "odd">>),
     Records(<<"odd">>), [page |-> "login_page", recs |-> <<>>],
     [page |-> "unparsable", recs |-> <<>>]}

\* A service with a name and no number is an answer of getallservicescfg.asp only.
UnusualFor(field) ==
    Unusual \cup {b \in {Records(<<"web", "unnumbered">>)} : field = "services"}

\* _headers attaches the token to every request but the login, and these
\* endpoints answer with the login page when it is not there.
CsrfEnforced == {step.field : step \in ToSet(gather_network)}
Bodies(field) ==
    IF ~token /\ field \in CsrfEnforced
    THEN {b \in Unusual : b.page = "login_page"} ELSE Usual(field)

\* Mutant: the host status is handed on as it comes.
_raise_if_session_expired_NotText(s, body) == body.page = "login_page" /\ s.via # "text"

\* _raise_if_session_expired, before anything is parsed.
_raise_if_session_expired(s, body) == body.page = "login_page"

\* No variable, array, literal or HAPI_STATUS is to be found in what does not
\* parse.  The last record is dropped if it is the empty one.
parse_webvar(body) ==
    [ok      |-> body.page = "records",
     records |-> IF body.recs # <<>> /\ Last(body.recs) = "sentinel" THEN Front(body.recs)
                 ELSE body.recs]

Observe(s, recs) ==
    seen' = IF s.field = "post_code" THEN Append(seen, [code |-> Head(recs), at |-> began])
            ELSE seen

\* get_webvar and post_webvar, and the decoder of the field.
get_webvar(s, body) ==
    LET parsed  == parse_webvar(body)
        verdict == Verdict(ShapeOf(call.mod, s.field), parsed.records)
    IN  CASE _raise_if_session_expired(s, body) \/ ~parsed.ok \/ verdict = "error" ->
                Raises("protocol") /\ UNCHANGED seen
          [] verdict = "crash" -> End(Crash) /\ UNCHANGED <<todo, attempt, reads, seen>>
          [] verdict = "unread" ->
                Advance /\ Keep(Entry("failed", "none", <<>>, body.page)) /\ UNCHANGED seen
          [] OTHER ->
                /\ Advance /\ Observe(s, parsed.records)
                /\ Keep(Entry("read", "none", Value(call, s.field, parsed.records), body.page))

\* The text is not parsed.
get_host_status(s, body) ==
    /\ IF _raise_if_session_expired(s, body) THEN Raises("protocol")
       ELSE Advance /\ Keep(Entry("read", "none", <<>>, body.page))
    /\ UNCHANGED seen

Answered ==
    /\ At({"get", "post", "text"})
    /\ Transmit
    /\ \/ \E body \in Bodies(Head(todo).field) :
             /\ IF Head(todo).via = "text" THEN get_host_status(Head(todo), body)
                ELSE get_webvar(Head(todo), body)
             /\ UNCHANGED faults
       \/ \E body \in UnusualFor(Head(todo).field) :
             /\ Fault
             /\ IF Head(todo).via = "text" THEN get_host_status(Head(todo), body)
                ELSE get_webvar(Head(todo), body)
    /\ UNCHANGED <<token, logins>>

----------------------------------------------------------------------------

\* Mutant: the pause is not counted.
FitsAnother_NoPause(c) == now <= c.duration

FitsAnother(c) == now + c.interval <= c.duration

\* sample_post_codes, after a poll: sleep and poll again, or stop.
Pause ==
    /\ At({"pause"})
    /\ IF Sampling /\ FitsAnother(call)
       THEN /\ now' \in (now + call.interval)..(now + call.interval + Oversleep)
            /\ began' = now' /\ todo' = Poll
       ELSE todo' = Tail(todo) /\ UNCHANGED <<now, began>>
    /\ UNCHANGED <<call, pc, attempt, token, reads, result, seen, faults, logins, contacted>>

\* fetch_active_sessions asks about one service after the other.  A name the
\* BMC did not report is a ValueError.
ResolveServices ==
    LET known == known_service_ids(reads[1].value)
        names == resolve_requested_session_services(call, known)
    IN  /\ At({"resolve"})
        /\ IF UnknownServices(call, known) # {}
           THEN End(Failure("none")) /\ UNCHANGED todo
           ELSE /\ todo' = [i \in DOMAIN names |-> Step("post", names[i], "none")]
                /\ UNCHANGED <<pc, result>>
        /\ Quiet /\ UNCHANGED <<attempt, token, reads, faults>>

\* exit_json; decode_service subtracts from what may not be a number.
Finish ==
    /\ pc = "run" /\ todo = <<>>
    /\ End(IF call.mod = "sessions" /\ Contains(reads[1].value, "odd") THEN Crash ELSE Success)
    /\ Quiet /\ UNCHANGED <<todo, attempt, token, reads, faults>>

Next ==
    \/ Start \/ BuildClient \/ IpmiConnect \/ IpmiRead \/ Probe \/ NoAnswer
    \/ ConnectionFails \/ RequestBreaks \/ LoggedIn \/ Answered \/ Pause
    \/ ResolveServices \/ Finish

Spec == Init /\ [][Next]_vars

\* One process that is always doing something: every request ends in an
\* answer or a timeout, and time.sleep returns.
FairSpec == Spec /\ WF_vars(Next)

----------------------------------------------------------------------------
(* Properties.                                                             *)

\* The failures a report may have in it: those of the modules that mark each
\* field, and of getremotesession.asp when it is the answer that is wrong.
Excusable(e) ==
    \/ call.mod \in {"alerts", "auditlog", "redirection"}
    \/ e.field \in {"power_state", "boot_device", "mc_info"}
    \/ e.field \in {"remote_session", "remote_preconditions"} /\ e.class \in {"none", "protocol"}

Fields == [i \in DOMAIN reads |-> reads[i].field]
Asked(c) ==
    LET steps == SelectSeq(Steps(c), LAMBDA s : s.via \in {"get", "post", "text", "ipmi", "probe"})
    IN  [i \in DOMAIN steps |-> steps[i].field]

\* What asmb8_sessions asked about after its first two reads.
Queried == SubSeq(Fields, 3, Len(reads))

\* A module that succeeds reports every field it was asked for, in order: a
\* read that failed in between is either marked in the report and one that
\* the documentation lets fail, or it has failed the module.  asmb8_sessions
\* has asked once about each service wanted, and only about listed ones;
\* asmb8_info calls the web session proven when it has read over it.
ReportComplete ==
    result.how = "ok" /\ ~SkippedInCheckMode(call) =>
        /\ IsPrefix(Asked(call), Fields)
        /\ call.mod \notin {"postcode", "sessions"} => Len(reads) = Len(Asked(call))
        /\ \A i \in DOMAIN reads : reads[i].outcome = "failed" => Excusable(reads[i])
        /\ call.mod = "sessions" =>
              /\ Cardinality(ToSet(Queried)) = Len(Queried)
              /\ ToSet(Queried) \subseteq ToSet(reads[1].value)
              /\ call.given /\ ~Asks(call, "all") => ToSet(Queried) = ToSet(call.names)
        /\ call.mod = "info" =>
              ("web_management" \in build_capabilities(Asks(call, "web"), logins > 0) <=>
                  \E i \in DOMAIN reads : reads[i].field = "host_status" /\ reads[i].outcome = "read")

\* The BMC answers an expired session, or a request without its token, with
\* its login page and status 200.  No such page is ever reported as a
\* reading, nor is anything that did not parse, or the empty record that ends
\* a list, reported as records.
ExpiredNeverReported ==
    \A i \in DOMAIN reads : reads[i].outcome = "read" =>
        /\ reads[i].page # "login_page"
        /\ reads[i].page = "unparsable" => reads[i].field = "host_status"
        /\ ~Contains(reads[i].value, "sentinel")

NoLogin(c) ==
    \/ c.mod = "redirection"
    \/ c.check /\ c.mod \in {"network", "sessions", "users"}
    \/ c.mod = "info" /\ ~Asks(c, "web")

\* There is no logout and the BMC has room for twenty sessions: a call that
\* promises not to log in leaves none and sends nothing, any other leaves at
\* most max_retries + 1.
SessionBudget ==
    /\ NoLogin(call) => logins = 0 /\ ~contacted
    /\ logins <= MaxRetries + 1

\* However long the polls take, a sampling begins at 0, keeps its distance,
\* begins no poll after its time is up (but for a sleep that returns late),
\* and names every code it saw once, in the order in which they appeared.
SampleFaithful ==
    Sampling /\ result.how = "ok" =>
        LET codes == distinct_post_codes_in_order(seen)
            First(c) == CHOOSE i \in DOMAIN seen :
                            seen[i].code = c /\ \A j \in 1..(i - 1) : seen[j].code # c
        IN  /\ seen # <<>> /\ seen[1].at = 0 /\ Len(seen) = Len(reads)
            /\ \A i \in DOMAIN seen : seen[i].at <= call.duration + Oversleep
            /\ \A i \in 2..Len(seen) : seen[i].at >= seen[i - 1].at + call.interval
            /\ ToSet(codes) = {seen[i].code : i \in DOMAIN seen}
            /\ \A i, j \in DOMAIN codes : i < j => First(codes[i]) < First(codes[j])

\* Every call ends: an attempt that gets an answer, a failure or a timeout is
\* made a bounded number of times, for a bounded list of reads.
ReportEnds == pc = "start" ~> pc = "over"

----------------------------------------------------------------------------
(* What the documentation says and the code does not do.                   *)

\* asmb8_alerts.py, _read_endpoint: "so a failure at this point is a
\* per-endpoint refusal, not a connection problem this module should hide".
ConnectionLossNotHidden ==
    result.how = "ok" => \A i \in DOMAIN reads : reads[i].class \notin {"connection", "bmc_busy"}

\* "Every failure carries a stable, machine-readable error_class" (README.md).
FailureClassified ==
    pc = "over" => result.how # "crash" /\ (result.how = "failed" => result.class # "none")
=============================================================================
