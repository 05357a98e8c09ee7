----------------------------- MODULE MCWebReport -----------------------------
(* WebReport for TLC: every module with the options that change its course. *)
EXTENDS WebReport

Tls(use, insecure, validate, ca, pin) ==
    [use_tls |-> use, allow_insecure |-> insecure, validate_certs |-> validate,
     ca_path |-> ca, pin |-> pin]

Plain(mod) ==
    [mod |-> mod, check |-> FALSE, libs |-> TRUE, tls |-> Tls(TRUE, FALSE, TRUE, FALSE, "colons"),
     cert |-> "pinned", given |-> FALSE,
     names |-> <<>>, typed |-> FALSE, types |-> <<>>, state |-> FALSE, limit |-> 0, after |-> 0, interval |-> 2, duration |-> 5]

Flags(mod, names) == [Plain(mod) EXCEPT !.names = names]
Lists(mod, names) == [Plain(mod) EXCEPT !.given = TRUE, !.names = names]

\* Each module with its defaults; in check mode; without its libraries; with
\* TLS options that contradict each other.
EveryModule ==
    LET base == {Plain(mod) : mod \in Modules} \cup {Flags("info", <<"web", "preconditions">>)}
        dry  == {c \in base : c.mod \in {"network", "sel", "sessions", "users"}}
    IN  base \cup {[c EXCEPT !.check = TRUE] : c \in dry}
             \cup {[c EXCEPT !.libs = FALSE] : c \in base}
             \cup {[c EXCEPT !.tls.ca_path = TRUE] : c \in base}

\* The options of their own.
TheirOptions ==
    {Flags("info", <<"web">>), Flags("info", <<"preconditions">>),
     Lists("inventory", <<"firmware">>), Lists("inventory", <<>>),
     Lists("redirection", <<"ssh", "telnet">>),
     [Plain("redirection") EXCEPT !.state = TRUE],
     Lists("sensors", <<"fan">>), Lists("sensors", <<>>),
     [Plain("sensors") EXCEPT !.typed = TRUE, !.types = <<1>>],
     [Lists("sensors", <<"fan">>) EXCEPT !.typed = TRUE, !.types = <<1>>],
     Lists("sessions", <<"kvm", "web", "kvm">>), Lists("sessions", <<"all">>),
     Lists("sessions", <<"vnc">>), Lists("sessions", <<>>),
     [Plain("sel") EXCEPT !.given = TRUE, !.limit = 1],
     [Plain("sel") EXCEPT !.given = TRUE, !.limit = -1],
     [Flags("sel", <<"after">>) EXCEPT !.after = 1],
     [Flags("sel", <<"after">>) EXCEPT !.after = -1]}

Samplings ==
    {[Flags("postcode", <<"sample">>) EXCEPT !.interval = i, !.duration = d] :
        i \in {1, 2, 3}, d \in {0, 1, 4, 6}}

\* Every combination of connection options and certificates, for one module.
Connections ==
    {[Plain("sensors") EXCEPT !.tls = tls, !.cert = cert] :
        tls \in TlsOptions, cert \in {"pinned", "signed", "other"}}

AllCalls == EveryModule \cup TheirOptions \cup Samplings \cup Connections
=============================================================================
