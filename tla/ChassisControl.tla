--------------------------- MODULE ChassisControl ---------------------------
(***************************************************************************)
(* The modules that command the board over IPMI: asmb8_power, asmb8_boot,  *)
(* asmb8_reset and asmb8_identify, each on an IpmiClient of its own        *)
(* (plugins/module_utils/ipmi.py, a classifying layer over pyghmi).        *)
(*                                                                         *)
(* A task opens a session, reads where there is something to read, plans,  *)
(* commands, and for some power commands polls until the chassis is where  *)
(* it should be.  Meanwhile the chassis changes state at its own pace,     *)
(* uses up the boot override when it boots, and people press buttons.      *)
(***************************************************************************)
EXTENDS Naturals, FiniteSets

CONSTANTS
    Tasks,         \* module invocations against one board
    Devices,       \* boot devices besides "default"
    Wants,         \* option sets a task is called with
    Nobody,        \* the author of changes no task made
    None,          \* an absent value
    wait_timeout,  \* polls of pyghmi's confirmation loop
    MaxMeddling    \* bound: changes made by people and other programs

POWER_STATES == {"on", "off", "shutdown", "reset", "boot"}
CONFIRMABLE_STATES == {"on", "off", "shutdown"}
BOOT_DEVICES == Devices \cup {"default"}
Durations == {None, 0, 1}

Power    == [module : {"power"}, state : POWER_STATES, wait : BOOLEAN, check : BOOLEAN]
Boot     == [module : {"boot"}, device : BOOT_DEVICES, uefi : BOOLEAN,
             persistent : BOOLEAN, check : BOOLEAN]
Reset    == [module : {"reset"}, check : BOOLEAN]
Identify == [module : {"identify"}, state : {"on", "off"}, duration : Durations,
             check : BOOLEAN]
Options  == Power \cup Boot \cup Reset \cup Identify

\* What get_bootdev reports; a bare "default" comes without a uefimode.
Override == [bootdev : Devices, uefimode : BOOLEAN, persistent : BOOLEAN]
            \cup [bootdev : {"default"}, uefimode : {None}, persistent : {FALSE}]
NoOverride == [bootdev |-> "default", uefimode |-> None, persistent |-> FALSE]

ASSUME ChassisAssumption ==
    /\ Wants \subseteq Options /\ wait_timeout \in Nat \ {0} /\ MaxMeddling \in Nat
    /\ "default" \notin Devices /\ Nobody \notin Tasks
    /\ None \notin BOOLEAN /\ None \notin Nat

VARIABLES
    want,      \* the options of each task, None before it starts
    pc,        \* where the task is
    polls,     \* polls it has left
    result,    \* how it ended
    power,     \* is the host on or off?
    going,     \* a transition under way and whose command it obeys, or None
    override,  \* the boot-device override
    led,       \* the identify light: "off", "on" or "timed"
    up,        \* does the BMC answer?
    sessions,  \* tasks whose IPMI session the BMC knows
    alone,     \* tasks since whose start nobody else has changed anything
    again,     \* tasks that ask for what a task still alone has just achieved
    carried,   \* tasks whose command was carried out
    meddling   \* changes made by others so far

taskVars  == <<want, pc, polls, result>>
boardVars == <<power, going, override, led, up, sessions>>
history   == <<alone, again, carried, meddling>>
vars      == <<taskVars, boardVars, history>>

Init ==
    /\ want = [t \in Tasks |-> None] /\ pc = [t \in Tasks |-> "idle"]
    /\ polls = [t \in Tasks |-> 0]
    /\ result = [t \in Tasks |-> "running"]
    /\ power \in {"on", "off"} /\ going = None /\ override = NoOverride
    /\ led = "off" /\ up = TRUE /\ sessions = {}
    /\ alone = {} /\ again = {} /\ carried = {} /\ meddling = 0

At(t, from, to) == pc[t] = from /\ pc' = [pc EXCEPT ![t] = to]

Ends(t, from, how) ==
    /\ At(t, from, "over")
    /\ result' = [result EXCEPT ![t] = how]
    /\ sessions' = sessions \ {t}

ChangedBy(who) == alone' = alone \cap {who}

----------------------------------------------------------------------------
(* plan() of asmb8_power and asmb8_boot; the others always command.        *)

\* Mutant: an override without a uefimode counts as one without UEFI.
plan_NoDefault(o, seen) ==
    CASE o.module = "power" -> seen # o.state
      [] o.module = "boot"  -> \/ seen.bootdev # o.device
                               \/ (seen.uefimode = TRUE) # o.uefi
      [] OTHER -> TRUE

plan(o, seen) ==
    CASE o.module = "power" -> seen # o.state
      [] o.module = "boot"  -> \/ seen.bootdev # o.device
                               \/ seen.uefimode \notin {None, o.uefi}
      [] OTHER -> TRUE

\* Mutant: validate_duration lets zero seconds pass.
Rejected_ZeroPasses(o) ==
    \/ o.module = "boot" /\ o.persistent
    \/ o.module = "identify" /\ o.duration # None /\ o.state = "off"

\* reject_persistent and validate_duration, before any session is opened.
Rejected(o) ==
    \/ o.module = "boot" /\ o.persistent
    \/ o.module = "identify" /\ o.duration # None /\ (o.state = "off" \/ o.duration < 1)

\* Reset and identify have nothing to read.
Reads(o) == o.module \in {"power", "boot"}

Confirms(o) == o.module = "power" /\ o.state \in CONFIRMABLE_STATES /\ o.wait

\* What a confirmation loop waits for.
Target(o) == IF o.state = "on" THEN "on" ELSE "off"

----------------------------------------------------------------------------
(* The tasks.                                                              *)

\* Does t ask for what another task has achieved, undisturbed since?
AsksAgain(o) ==
    \E u \in alone : want[u] = o /\ result[u] \in {"changed", "unchanged"}

\* main() up to build_ipmi_client: options that are refused, and check mode
\* of the modules that would have nothing to read.
Start(t, o) ==
    LET idle == o.check /\ ~Reads(o)
    IN  /\ want' = [want EXCEPT ![t] = o]
        /\ alone' = alone \cup {t}
        /\ again' = IF AsksAgain(o) THEN again \cup {t} ELSE again
        /\ \/ Rejected(o) /\ Ends(t, "idle", "failed")
           \/ ~Rejected(o) /\ idle /\ Ends(t, "idle", "planned")
           \/ ~Rejected(o) /\ ~idle /\ At(t, "idle", "connect") /\ UNCHANGED <<result, sessions>>
        /\ UNCHANGED <<polls, power, going, override, led, up, carried, meddling>>

\* IpmiClient.__init__.
Connect(t) ==
    /\ up /\ At(t, "connect", IF Reads(want[t]) THEN "read" ELSE "command")
    /\ sessions' = sessions \cup {t}
    /\ UNCHANGED <<want, polls, result, power, going, override, led, up, history>>

\* A pyghmi error at any call, whatever its cause, becomes a failure without
\* the indeterminate mark; one in the confirmation loop does so too.
CallFails(t) ==
    /\ pc[t] \in {"connect", "read", "command", "poll"}
    /\ Ends(t, pc[t], "failed")
    /\ UNCHANGED <<want, polls, power, going, override, led, up, history>>

Connected(t) == up /\ t \in sessions

\* get_power_state or get_boot_device, and plan().
ReadState(t) ==
    LET seen    == IF want[t].module = "power" THEN power ELSE override
        changed == plan(want[t], seen)
    IN  /\ Connected(t) /\ pc[t] = "read"
        /\ \/ ~changed /\ Ends(t, "read", "unchanged")
           \/ changed /\ want[t].check /\ Ends(t, "read", "planned")
           \/ changed /\ ~want[t].check /\ At(t, "read", "command") /\ UNCHANGED <<result, sessions>>
        /\ UNCHANGED <<want, polls, power, going, override, led, up, history>>

\* The BMC accepted the command: report it, or begin to wait for its effect.
Answered(t) ==
    \/ /\ ~Confirms(want[t]) /\ Ends(t, "command", "changed") /\ UNCHANGED polls
    \/ /\ Confirms(want[t]) /\ At(t, "command", "poll")
       /\ polls' = [polls EXCEPT ![t] = wait_timeout]
       /\ UNCHANGED <<result, sessions>>

Lost(t) == Ends(t, "command", "failed") /\ UNCHANGED polls

\* The override serves one boot unless it is persistent.
UseOverride == override' = IF override.persistent THEN override ELSE NoOverride

Goes(t, to) == going' = [to |-> to, by |-> t] /\ UNCHANGED <<power, override>>

Restarts == going' = None /\ UseOverride /\ UNCHANGED power

\* Chassis control; "boot" is an on or a reset.  A host that is off cannot
\* be reset: that command comes back as an error (CallFails).
PowerCommand(t) ==
    /\ want[t].module = "power"
    /\ CASE want[t].state \in {"off", "shutdown"} -> Goes(t, "off")
         [] want[t].state \in {"on", "boot"} /\ power = "off" -> Goes(t, "on")
         [] want[t].state = "on" /\ power = "on" -> UNCHANGED <<power, going, override>>
         [] want[t].state = "boot" /\ power = "on" -> Restarts
         [] want[t].state = "reset" -> power = "on" /\ Restarts
    /\ UNCHANGED led

\* set_bootdev(persist=False).
BootCommand(t) ==
    /\ want[t].module = "boot"
    /\ override' = IF want[t].device = "default" THEN NoOverride
                   ELSE [bootdev |-> want[t].device, uefimode |-> want[t].uefi,
                         persistent |-> FALSE]
    /\ UNCHANGED <<power, going, led>>

\* A duration alone decides, and zero means off.
IdentifyCommand(t) ==
    /\ want[t].module = "identify"
    /\ led' = CASE want[t].duration = None -> want[t].state
                [] want[t].duration = 0 -> "off"
                [] OTHER -> "timed"
    /\ UNCHANGED <<power, going, override>>

Carried(t) ==
    /\ Connected(t) /\ pc[t] = "command"
    /\ carried' = carried \cup {t}
    /\ ChangedBy(t)
    /\ UNCHANGED <<want, again, meddling>>

\* set_power_state, set_boot_device, set_identify: the command is carried
\* out, and its answer arrives or does not.
Command(t) ==
    /\ Carried(t) /\ UNCHANGED up
    /\ PowerCommand(t) \/ BootCommand(t) \/ IdentifyCommand(t)
    /\ Answered(t) \/ Lost(t)

\* reset_bmc, cold or warm: the BMC forgets every session; the host stays as it is.
ResetCommand(t) ==
    /\ Carried(t) /\ want[t].module = "reset"
    /\ At(t, "command", "over")
    /\ \E how \in {"changed", "failed"} : result' = [result EXCEPT ![t] = how]
    /\ up' = FALSE /\ sessions' = {}
    /\ UNCHANGED <<polls, power, going, override, led>>

\* One turn of pyghmi's confirmation loop: the target is there, or the
\* budget is used up and the failure is marked indeterminate.
Poll(t) ==
    /\ Connected(t) /\ pc[t] = "poll"
    /\ polls' = [polls EXCEPT ![t] = @ - 1]
    /\ \/ power = Target(want[t]) /\ Ends(t, "poll", "changed")
       \/ power # Target(want[t]) /\ polls[t] = 1 /\ Ends(t, "poll", "indeterminate")
       \/ power # Target(want[t]) /\ polls[t] > 1 /\ UNCHANGED <<pc, result, sessions>>
    /\ UNCHANGED <<want, power, going, override, led, up, history>>

----------------------------------------------------------------------------
(* The board and its surroundings.                                         *)

\* A transition completes, some time after the command; turning on is a boot.
PowerSettles ==
    /\ going # None
    /\ power' = going.to /\ going' = None
    /\ IF going.to = "on" THEN UseOverride ELSE UNCHANGED override
    /\ ChangedBy(going.by)
    /\ UNCHANGED <<taskVars, led, up, sessions, again, carried, meddling>>

\* The operating system ignores the request to shut down.
ShutdownIgnored ==
    /\ going # None /\ going.to = "off"
    /\ going' = None
    /\ UNCHANGED <<taskVars, power, override, led, up, sessions, history>>

LightExpires ==
    /\ led = "timed" /\ led' = "off"
    /\ ChangedBy(Nobody)
    /\ UNCHANGED <<taskVars, power, going, override, up, sessions, again, carried, meddling>>

BmcComesBack ==
    /\ ~up /\ up' = TRUE
    /\ UNCHANGED <<taskVars, power, going, override, led, sessions, history>>

Meddle ==
    /\ meddling < MaxMeddling /\ meddling' = meddling + 1
    /\ ChangedBy(Nobody)
    /\ UNCHANGED <<taskVars, led, up, sessions, again, carried>>

ButtonPressed ==
    /\ Meddle
    /\ going' = [to |-> IF power = "on" THEN "off" ELSE "on", by |-> Nobody]
    /\ UNCHANGED <<power, override>>

\* Another program, or the setup utility, chooses a boot device.
OverrideChosen ==
    /\ Meddle
    /\ override' \in Override \ {override}
    /\ UNCHANGED <<power, going>>

----------------------------------------------------------------------------

Works(t) ==
    \/ \E o \in Wants : Start(t, o)
    \/ Connect(t) \/ CallFails(t) \/ ReadState(t) \/ Command(t) \/ ResetCommand(t) \/ Poll(t)

Board == PowerSettles \/ ShutdownIgnored \/ LightExpires \/ BmcComesBack

Next ==
    \/ \E t \in Tasks : Works(t)
    \/ Board \/ ButtonPressed \/ OverrideChosen

Spec == Init /\ [][Next]_vars

----------------------------------------------------------------------------

InForce(o, how) ==
    CASE o.module = "power" ->
            Confirms(o) \/ how = "unchanged" => power = Target(o)
      [] o.module = "boot" ->
            override.bootdev = o.device /\ override.uefimode \in {None, o.uefi}
      [] o.module = "identify" ->
            led = IF o.duration = None THEN o.state ELSE "timed"
      [] OTHER -> TRUE

\* A task that succeeded has what it asked for, for as long as nobody else
\* changes anything: the host is in the power state it waited for, the
\* override is armed, the light is as requested.
SuccessIsInForce ==
    \A t \in alone : result[t] \in {"changed", "unchanged"} => InForce(want[t], result[t])

Converges(o) == o.module = "boot" \/ (Confirms(o) /\ o.state # "shutdown")

\* "O(state=on) and O(state=off) are convergent" (asmb8_power), and so is
\* asmb8_boot: a task that asks for what a task before it achieved, with
\* nobody in between, commands nothing and plans nothing.
Convergent ==
    \A t \in again \cap alone :
        Converges(want[t]) => t \notin carried /\ result[t] \notin {"changed", "planned"}

----------------------------------------------------------------------------
(* What the documentation says and the code does not do.                   *)

\* "Boot device to select for exactly one upcoming reset" (asmb8_boot).
ArmedIsOneTime ==
    \A t \in alone :
        result[t] \in {"changed", "unchanged"} /\ want[t].module = "boot" =>
            ~override.persistent

\* "A timeout after a request was transmitted is reported with
\* indeterminate=true" (README.md).
DefiniteMeansNotDone == \A t \in carried : result[t] # "failed"
=============================================================================
