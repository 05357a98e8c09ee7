------------------------------ MODULE NtpApply ------------------------------
(***************************************************************************)
(* asmb8_ntp on top of AspClient: the requests of                          *)
(* plugins/module_utils/asp.py with their bounded retries, driven by the   *)
(* only module that writes through them, plugins/modules/asmb8_ntp.py      *)
(* (log in, read, plan, write, read again).                                *)
(*                                                                         *)
(* Each task is one module invocation with its own client; the BMC may     *)
(* serve a request late, after its sender has given up on it, or never.    *)
(***************************************************************************)
EXTENDS Naturals, FiniteSets

CONSTANTS
    Tasks,       \* asmb8_ntp invocations against one BMC
    Servers,     \* server names
    Blank,       \* the empty server name
    None,        \* an absent value
    Cookie, Done, Refusal,  \* a login's, a write's and an error's answer
    Wants,       \* option sets a task is called with
    MaxRetries,  \* AspClient's max_retries
    Lacking      \* the sets of fields an answer of getntpcfg.asp may lack

Fields  == {"server1", "server2", "enabled"}
Names   == Servers \cup {Blank}
\* The options, with check mode among them.
Options == [server1 : Servers \cup {None}, server2 : Servers \cup {None},
            enabled : BOOLEAN \cup {None}, check : BOOLEAN]

ASSUME NtpAssumption ==
    /\ Wants \subseteq Options /\ MaxRetries \in Nat /\ Lacking \subseteq SUBSET Fields
    /\ None \notin Names \cup BOOLEAN \cup {Cookie, Done, Refusal}
    /\ Blank \notin Servers /\ Cardinality({Cookie, Done, Refusal}) = 3

VARIABLES
    want,      \* the options of each task
    pc,        \* is the task about to send, waiting for an answer, or over?
    op,        \* the request it is at
    attempt,   \* unanswered attempts of that request
    reply,     \* the answer that has arrived for the current attempt
    current,   \* the configuration the task read
    result,    \* how the task ended
    wire,      \* requests the BMC has received and not served
    bmc,       \* the BMC's NTP configuration
    applied,   \* tasks whose write the BMC has carried out
    overtaken  \* history: tasks after whose latest read or write of the BMC's
               \* configuration another task's write was carried out

taskVars == <<pc, op, attempt, reply, current, result>>
bmcVars  == <<wire, bmc, applied, overtaken>>
vars     == <<want, taskVars, bmcVars>>

\* What a task makes of the answer of getntpcfg.asp: what the record lacks is
\* None, and without a record everything is.
decode_ntp_state ==
    {[f \in Fields |-> IF f \in gone THEN None ELSE bmc[f]] : gone \in Lacking}

Init ==
    /\ want \in [Tasks -> Wants]
    /\ pc = [t \in Tasks |-> "send"] /\ op = [t \in Tasks |-> "login"]
    /\ attempt = [t \in Tasks |-> 0] /\ reply = [t \in Tasks |-> None]
    /\ current = [t \in Tasks |-> None] /\ result = [t \in Tasks |-> "running"]
    /\ wire = {} /\ bmc \in [server1 : Names, server2 : Names, enabled : BOOLEAN]
    /\ applied = {} /\ overtaken = {}

----------------------------------------------------------------------------
(* asmb8_ntp.py: what to write.                                            *)

\* Mutant: an option that is not given asks for its default.
desired_Default(t, now) ==
    [f \in Fields |-> IF want[t][f] # None THEN want[t][f]
                      ELSE IF f = "enabled" THEN FALSE ELSE now[f]]

\* plan(): an option that is not given carries the current value forward.
desired(t, now) ==
    [f \in Fields |-> IF want[t][f] # None THEN want[t][f] ELSE now[f]]

\* build_setntpcfg_data: an absent name is sent as the empty one.
build_setntpcfg_data(t) ==
    LET new == desired(t, current[t])
    IN  [f \in Fields |-> IF new[f] = None THEN Blank ELSE new[f]]

----------------------------------------------------------------------------
(* _send_once and _send_with_retry.                                        *)

End(t, how) ==
    pc' = [pc EXCEPT ![t] = "over"] /\ result' = [result EXCEPT ![t] = how]

Step(t, next) ==
    /\ op' = [op EXCEPT ![t] = next] /\ attempt' = [attempt EXCEPT ![t] = 0]
    /\ pc' = [pc EXCEPT ![t] = "send"]
    /\ UNCHANGED result

Body(t) == IF op[t] = "write" THEN build_setntpcfg_data(t) ELSE None

Transmit(t) ==
    /\ pc[t] = "send"
    /\ pc' = [pc EXCEPT ![t] = "wait"]
    /\ wire' = wire \cup {[by |-> t, op |-> op[t], try |-> attempt[t], data |-> Body(t)]}
    /\ UNCHANGED <<want, op, attempt, reply, current, result, bmc, applied, overtaken>>

\* The task no longer listens.  Of what it sent, only a write still matters:
\* a login or a read that nobody hears of changes nothing here.
GiveUp(t) ==
    /\ wire' = {r \in wire : r.by # t \/ r.op = "write"}
    /\ reply' = [reply EXCEPT ![t] = None]
    /\ UNCHANGED <<bmc, applied, overtaken>>

\* ConnectTimeout or a refused connection before anything is sent; an SSLError
\* or a ConnectionError whose text names no post-connect marker at any time; and
\* what _send_once does not catch (redirects without end, a body cut short).
\* Raised at once, whatever earlier attempts did, and not marked indeterminate.
ConnectionFails(t) ==
    /\ pc[t] \in {"send", "wait"}
    /\ End(t, "failed")
    /\ GiveUp(t)
    /\ UNCHANGED <<want, op, attempt, current>>

\* ReadTimeout, or a connection reset after the request went out:
\* _TransientBusy.  The same request is sent again, until BmcBusyError with
\* indeterminate=True.
NoAnswer(t) ==
    /\ pc[t] = "wait"
    /\ attempt' = [attempt EXCEPT ![t] = @ + 1]
    /\ GiveUp(t)
    /\ IF attempt'[t] > MaxRetries
       THEN End(t, "uncertain")
       ELSE pc' = [pc EXCEPT ![t] = "send"] /\ UNCHANGED result
    /\ UNCHANGED <<want, op, current>>

----------------------------------------------------------------------------
(* main: the answers.                                                      *)

Answered(t, o) == pc[t] = "wait" /\ op[t] = o /\ reply[t] \notin {None, Refusal}

Taken(t) == reply' = [reply EXCEPT ![t] = None] /\ UNCHANGED <<want, bmcVars>>

\* login() found a session cookie.
LoggedIn(t) ==
    /\ Answered(t, "login")
    /\ Step(t, "read")
    /\ Taken(t) /\ UNCHANGED current

\* Mutant: the enable state is left out of the comparison.
Planned_IgnoresEnabled(t) ==
    LET new  == desired(t, reply[t])
        idle == want[t].check \/ new = [reply[t] EXCEPT !.enabled = new.enabled]
    IN  /\ Answered(t, "read")
        /\ current' = [current EXCEPT ![t] = reply[t]]
        /\ IF idle THEN End(t, "unchanged") /\ UNCHANGED <<op, attempt>>
                   ELSE Step(t, "write")
        /\ Taken(t)

\* decode_ntp_state and plan().  Nothing to do, or check mode, ends the task;
\* so does an enable state that is neither known nor asked for.
Planned(t) ==
    LET new  == desired(t, reply[t])
        idle == want[t].check \/ new = reply[t]
    IN  /\ Answered(t, "read")
        /\ current' = [current EXCEPT ![t] = reply[t]]
        /\ \/ idle /\ End(t, "unchanged") /\ UNCHANGED <<op, attempt>>
           \/ ~idle /\ new.enabled = None /\ End(t, "failed") /\ UNCHANGED <<op, attempt>>
           \/ ~idle /\ new.enabled # None /\ Step(t, "write")
        /\ Taken(t)

\* set_webvar saw HAPI_STATUS 0.
Written(t) ==
    /\ Answered(t, "write")
    /\ Step(t, "verify")
    /\ Taken(t) /\ UNCHANGED current

\* What the last read says is reported and compared with nothing.
Verified(t) ==
    /\ Answered(t, "verify")
    /\ End(t, "changed")
    /\ Taken(t) /\ UNCHANGED <<op, attempt, current>>

\* A rejected login, a session-expired page, a body that does not parse, or
\* a write with another HAPI_STATUS: typed errors, none of them indeterminate.
Refused(t) ==
    /\ pc[t] = "wait" /\ reply[t] = Refusal
    /\ End(t, "failed")
    /\ Taken(t) /\ UNCHANGED <<op, attempt, current>>

----------------------------------------------------------------------------
(* The BMC.                                                                *)

Listens(r) == pc[r.by] = "wait" /\ op[r.by] = r.op /\ attempt[r.by] = r.try

Reply(r, body) ==
    /\ wire' = wire \ {r}
    /\ reply' = IF Listens(r) THEN [reply EXCEPT ![r.by] = body] ELSE reply
    /\ UNCHANGED <<want, pc, op, attempt, current, result>>

BmcLogsIn(r) ==
    /\ r.op = "login"
    /\ Reply(r, Cookie)
    /\ UNCHANGED <<bmc, applied, overtaken>>

BmcReads(r) ==
    /\ r.op \in {"read", "verify"}
    /\ \E body \in decode_ntp_state : Reply(r, body)
    /\ overtaken' = IF r.op = "read" /\ Listens(r) THEN overtaken \ {r.by} ELSE overtaken
    /\ UNCHANGED <<bmc, applied>>

BmcWrites(r) ==
    /\ r.op = "write"
    /\ bmc' = r.data
    /\ applied' = applied \cup {r.by}
    /\ overtaken' = Tasks \ {r.by}
    /\ Reply(r, Done)

BmcRefuses(r) == Reply(r, Refusal) /\ UNCHANGED <<bmc, applied, overtaken>>

\* A saturated worker pool drops the connection.
BmcDrops(r) ==
    /\ wire' = wire \ {r}
    /\ UNCHANGED <<want, taskVars, bmc, applied, overtaken>>

----------------------------------------------------------------------------

Works(t) ==
    \/ Transmit(t) \/ NoAnswer(t) \/ ConnectionFails(t) \/ LoggedIn(t)
    \/ Planned(t) \/ Written(t) \/ Verified(t) \/ Refused(t)

Bmc(r) == BmcLogsIn(r) \/ BmcReads(r) \/ BmcWrites(r) \/ BmcRefuses(r) \/ BmcDrops(r)

Next ==
    \/ \E t \in Tasks : Works(t)
    \/ \E r \in wire : Bmc(r)

Spec == Init /\ [][Next]_vars

----------------------------------------------------------------------------

Fits(t) == \A f \in Fields : want[t][f] # None => bmc[f] = want[t][f]

\* `changed` and, outside check mode, `unchanged` both mean that the BMC has
\* every value that was asked for, until a write of another task is carried
\* out: through retries, and writes that are carried out twice or late.
SuccessIsInForce ==
    \A t \in Tasks \ overtaken :
        result[t] = "changed" \/ (result[t] = "unchanged" /\ ~want[t].check) => Fits(t)

\* In this step the BMC carries out a write of task t.
Carried(t) == \E r \in wire \ wire' : r.by = t /\ r.op = "write" /\ bmc' = r.data

\* A write changes a field its task was not given in two cases only: the task's
\* read lacked the name, which is then sent as the empty one, or the write of
\* another task was carried out after that read, and what it changed is put
\* back.  Retries, duplicates and late writes alone leave such a field as it is.
UnsetLeftAlone ==
    [][\A t \in Tasks, f \in Fields :
          Carried(t) /\ bmc'[f] # bmc[f] /\ want[t][f] = None =>
              \/ current[t][f] = None /\ bmc'[f] = Blank
              \/ t \in overtaken /\ bmc'[f] = current[t][f]]_vars

----------------------------------------------------------------------------
(* What the documentation says and the code does not do.                   *)

\* "Unset (the default) leaves the current value alone" (docs/asmb8_ntp.md).
UnsetNeverTouched ==
    [][\A f \in Fields : bmc'[f] # bmc[f] => \E t \in Tasks : want[t][f] = bmc'[f]]_vars

\* "An uncertain mutation is never retried automatically" (README.md): the
\* write is not sent again once an attempt has gone unanswered.
UncertainNeverRetried ==
    [][\A r \in wire' \ wire : r.op = "write" => r.try = 0]_vars

\* "A timeout after a request was transmitted is reported with
\* indeterminate=true" (README.md): a failure without that mark means that
\* the write has not been carried out.
DefiniteMeansNotDone == \A t \in Tasks : result[t] = "failed" => t \notin applied

=============================================================================
