---------------------------- MODULE MediaSession ----------------------------
(***************************************************************************)
(* The virtual-media session of asmb8_media: short-lived module calls      *)
(* (attach, detach) that fork, find and stop long-lived daemons, the JSON  *)
(* state file per session id that is the only channel between them, and    *)
(* the BMC's one media slot per endpoint.                                  *)
(*                                                                         *)
(* A daemon runs plugins/module_utils/media_session.py:_run_daemon; a call *)
(* runs plugins/modules/asmb8_media.py:_attach or _detach.  A step is what *)
(* happens between two points where another process can be seen: a read    *)
(* of the state file, an atomic rewrite of it, an unlink, a signal, a fork,*)
(* an answer of the BMC.                                                   *)
(***************************************************************************)
EXTENDS Naturals, FiniteSets

CONSTANTS
    Sessions,         \* session ids, the names of the state files
    Endpoints,        \* host:cd_port of a BMC, each with one media slot
    Pids,             \* process ids; never recycled
    Callers,          \* controllers, each running one module call at a time
    None,             \* Python's None: no record, no pid
    Free,             \* an unoccupied slot
    Foreign,          \* a slot held by something outside this runtime_dir
    StopWaitsExpire,  \* may wait_for_exit give up on a signalled daemon?
    CallersDie        \* may a module call be killed half way?

STATE_STARTING   == "starting"
STATE_CONNECTING == "connecting"
STATE_ATTACHED   == "attached"
STATE_DETACHED   == "detached"
STATE_ERROR      == "error"
TERMINAL_STATES  == {STATE_DETACHED, STATE_ERROR}

States  == {STATE_STARTING, STATE_CONNECTING, STATE_ATTACHED} \cup TERMINAL_STATES
Record  == [pid : Pids, ep : Endpoints, state : States]
Config  == [sid : Sessions, ep : Endpoints]

ASSUME ConstantsAssumption ==
    /\ Free \notin Pids /\ Foreign \notin Pids /\ Free # Foreign
    /\ None \notin Pids /\ None \notin Callers /\ None \notin Record
    /\ None \notin Config /\ None \notin Sessions /\ None \notin Endpoints
    /\ Callers \cap Record = {}
    /\ StopWaitsExpire \in BOOLEAN /\ CallersDie \in BOOLEAN

VARIABLES
    file,    \* session id -> None, a parsed record, or the caller whose
             \* create-only write has made the file and not yet filled it
    pc,      \* pid -> where its daemon is
    job,     \* pid -> the SessionConfig it was forked with
    stop,    \* pids whose _stop_flag is set
    slot,    \* endpoint -> Free, Foreign or the pid the BMC acknowledged
    authed,  \* history: pids that the BMC has acknowledged
    call     \* caller -> the module call it is running

vars == <<file, pc, job, stop, slot, authed, call>>
daemonVars == <<pc, job, stop, slot, authed>>

DaemonPC == {"none", "forked", "starting", "connecting", "linked",
             "serving", "reading", "closing", "gone"}
CallPC   == {"idle", "stale", "plan", "reclaim", "rwait", "rremove",
             "fallback", "fill", "await", "dwait", "dremove", "done"}
Results  == {"unchanged", "attached", "indeterminate"}
Target   == [sid : Sessions, pid : Pids]
Idle     == [pc |-> "idle", sid |-> None, ep |-> None, seen |-> None,
             todo |-> {}, on |-> None, result |-> None]

Init ==
    /\ file = [s \in Sessions |-> None]
    /\ pc = [p \in Pids |-> "none"]
    /\ job = [p \in Pids |-> None]
    /\ stop = {}
    /\ slot \in [Endpoints -> {Free, Foreign}]
    /\ authed = {}
    /\ call = [c \in Callers |-> Idle]

----------------------------------------------------------------------------
(* daemon_runtime.py: the state file and process plumbing.                 *)

\* A missing file and one that does not parse are both "no session".
read_state(s) == IF file[s] \in Record THEN file[s] ELSE None

is_pid_alive(p) == p \in Pids /\ pc[p] \notin {"none", "gone"}

\* _persist: temp file plus os.replace, one step for every reader.
Persist(p, st) ==
    file' = [file EXCEPT ![job[p].sid] = [pid |-> p, ep |-> job[p].ep, state |-> st]]

remove_state(s) == file' = [file EXCEPT ![s] = None]

\* SIGTERM: the handler only sets the flag; while it is not yet installed
\* the default disposition ends the process.
request_stop(p) ==
    \/ stop' = stop \cup {p} /\ UNCHANGED pc
    \/ /\ pc[p] = "forked" /\ p \notin stop
       /\ pc' = [pc EXCEPT ![p] = "gone"]
       /\ UNCHANGED stop

\* What the BMC does with a slot when the TCP connection of p closes.
Released(p) ==
    [e \in Endpoints |-> IF slot[e] = p THEN Free ELSE slot[e]]

----------------------------------------------------------------------------
(* The daemon, media_session.py:_run_daemon.                               *)

Advance(p, from, to) ==
    /\ pc[p] = from
    /\ pc' = [pc EXCEPT ![p] = to]
    /\ UNCHANGED <<job, stop, call>>

\* Standard descriptors, the SIGTERM handler, the first record.
ClaimStateFile(p) ==
    /\ Advance(p, "forked", "starting")
    /\ Persist(p, STATE_STARTING)
    /\ UNCHANGED <<slot, authed>>

\* The final record is written first; the finally block closes the session
\* afterwards, in CloseAndExit.
Fail(p, from) ==
    /\ Advance(p, from, "closing")
    /\ Persist(p, STATE_ERROR)
    /\ UNCHANGED <<slot, authed>>

\* Mutant: attached is reported before the BMC has acknowledged anything.
OpenImage_ReportsEarly(p) ==
    /\ Advance(p, "starting", "connecting")
    /\ Persist(p, STATE_ATTACHED)
    /\ UNCHANGED <<slot, authed>>

\* The image and the trace sidecar open, or the daemon fails.
OpenImage(p) ==
    \/ /\ Advance(p, "starting", "connecting")
       /\ Persist(p, STATE_CONNECTING)
       /\ UNCHANGED <<slot, authed>>
    \/ Fail(p, "starting")

\* login, token, iUSB authentication: the BMC acknowledges one client per
\* slot.  A taken slot (BmcBusyError) and any other error end in _fail.
Connect(p) ==
    \/ /\ Advance(p, "connecting", "linked")
       /\ slot[job[p].ep] = Free
       /\ slot' = [slot EXCEPT ![job[p].ep] = p]
       /\ authed' = authed \cup {p}
       /\ UNCHANGED file
    \/ Fail(p, "connecting")

ReportAttached(p) ==
    /\ Advance(p, "linked", "serving")
    /\ Persist(p, STATE_ATTACHED)
    /\ UNCHANGED <<slot, authed>>

\* Mutant: the serve loop never looks at the flag.
CheckStop_Deaf(p) == Advance(p, "serving", "reading") /\ UNCHANGED <<file, slot, authed>>

\* Top of serve_forever: the flag is looked at once per packet or idle poll.
CheckStop(p) ==
    \/ p \notin stop /\ Advance(p, "serving", "reading") /\ UNCHANGED <<file, slot, authed>>
    \/ /\ p \in stop
       /\ Advance(p, "serving", "closing")
       /\ Persist(p, STATE_DETACHED)
       /\ UNCHANGED <<slot, authed>>

\* on_idle and on_request both end in _persist.
ServeOne(p) ==
    /\ Advance(p, "reading", "serving")
    /\ Persist(p, STATE_ATTACHED)
    /\ UNCHANGED <<slot, authed>>

\* The peer closes, or sends a redirection-terminate and waits for us to.
PeerEnds(p) ==
    /\ Advance(p, "reading", "closing")
    /\ Persist(p, STATE_DETACHED)
    /\ slot' \in {slot, Released(p)}
    /\ UNCHANGED authed

ReadBreaks(p) == Fail(p, "reading")

CloseAndExit(p) ==
    /\ Advance(p, "closing", "gone")
    /\ slot' = Released(p)
    /\ UNCHANGED <<file, authed>>

DaemonStep(p) ==
    \/ ClaimStateFile(p) \/ OpenImage(p) \/ Connect(p) \/ ReportAttached(p)
    \/ CheckStop(p) \/ ServeOne(p) \/ PeerEnds(p) \/ ReadBreaks(p)
    \/ CloseAndExit(p)

----------------------------------------------------------------------------
(* state=attached, asmb8_media.py:_attach.                                 *)

At(c, label) == call[c].pc = label

\* A call that succeeds (or is indeterminate) shows its receipt before it
\* is over; the receipts of the others are left out.
GiveUp(c) == call' = [call EXCEPT ![c] = Idle]
Finish(c, result, seen) ==
    call' = [call EXCEPT ![c].pc = "done", ![c].result = result, ![c].seen = seen]

Running(r) == r # None /\ is_pid_alive(r.pid) /\ r.state \notin TERMINAL_STATES

\* Every call starts by reading the record of its session id.
Begin(c, label, s, e, result) ==
    call' = [call EXCEPT ![c] =
                [pc |-> label, sid |-> s, ep |-> e, seen |-> read_state(s),
                 todo |-> {}, on |-> None, result |-> result]]

AttachLookup(c, s, e) ==
    LET seen == read_state(s)
    IN  /\ At(c, "idle")
        /\ \/ Running(seen) /\ Begin(c, "done", s, e, "unchanged")
           \/ seen # None /\ ~Running(seen) /\ Begin(c, "stale", s, e, None)
           \/ seen = None /\ Begin(c, "plan", s, e, None)
        /\ UNCHANGED <<file, daemonVars>>

RecoverStale(c) ==
    /\ At(c, "stale")
    /\ remove_state(call[c].sid)
    /\ call' = [call EXCEPT ![c].pc = "plan", ![c].seen = None]
    /\ UNCHANGED daemonVars

find_conflicting_sessions(c) ==
    {[sid |-> s, pid |-> file[s].pid] :
        s \in {t \in Sessions \ {call[c].sid} :
                  read_state(t) # None /\ file[t].ep = call[c].ep}}

\* An unusable image fails the call; check mode stops short of reclamation.
AttachPlan(c) ==
    /\ At(c, "plan")
    /\ UNCHANGED <<file, daemonVars>>
    /\ \/ GiveUp(c)
       \/ call' = [call EXCEPT ![c].pc = "reclaim",
                               ![c].todo = find_conflicting_sessions(c)]

\* Mutant: a live process is waited for and was never signalled.
ReclaimSignal_Silent(c, t) ==
    /\ At(c, "reclaim")
    /\ t \in call[c].todo
    /\ call' = [call EXCEPT ![c].pc = "rwait", ![c].on = t]
    /\ UNCHANGED <<file, pc, stop, job, slot, authed>>

\* reclaim_conflicting_sessions: one round of its loop is ReclaimSignal,
\* ReclaimWait and ReclaimRemove.
ReclaimSignal(c, t) ==
    /\ At(c, "reclaim")
    /\ t \in call[c].todo
    /\ IF is_pid_alive(t.pid) THEN request_stop(t.pid) ELSE UNCHANGED <<pc, stop>>
    /\ call' = [call EXCEPT ![c].pc = "rwait", ![c].on = t]
    /\ UNCHANGED <<file, job, slot, authed>>

\* Mutant: the record is removed without waiting for the exit.
ReclaimWait_NoWait(c) ==
    /\ At(c, "rwait")
    /\ call' = [call EXCEPT ![c].pc = "rremove"]
    /\ UNCHANGED <<file, daemonVars>>

ReclaimWait(c) ==
    /\ At(c, "rwait")
    /\ ~is_pid_alive(call[c].on.pid) \/ StopWaitsExpire
    /\ call' = [call EXCEPT ![c].pc = "rremove"]
    /\ UNCHANGED <<file, daemonVars>>

ReclaimRemove(c) ==
    /\ At(c, "rremove")
    /\ remove_state(call[c].on.sid)
    /\ call' = [call EXCEPT ![c].pc = "reclaim", ![c].on = None,
                            ![c].todo = @ \ {call[c].on}]
    /\ UNCHANGED daemonVars

\* spawn_session: the daemon runs from here on, its pid comes back over the
\* pipe; or a fork fails and no pid is reported.
Spawn(c) ==
    /\ At(c, "reclaim") /\ call[c].todo = {}
    /\ \/ \E p \in Pids :
             /\ pc[p] = "none"
             /\ pc' = [pc EXCEPT ![p] = "forked"]
             /\ job' = [job EXCEPT ![p] = [sid |-> call[c].sid, ep |-> call[c].ep]]
             /\ call' = [call EXCEPT ![c].pc = "fallback", ![c].on = [sid |-> call[c].sid, pid |-> p]]
       \/ GiveUp(c) /\ UNCHANGED <<pc, job>>
    /\ UNCHANGED <<file, stop, slot, authed>>

\* _write_state_if_absent: O_CREAT|O_EXCL makes an empty file ...
FallbackCreate(c) ==
    /\ At(c, "fallback")
    /\ IF file[call[c].sid] = None
       THEN /\ file' = [file EXCEPT ![call[c].sid] = c]
            /\ call' = [call EXCEPT ![c].pc = "fill"]
       ELSE UNCHANGED file /\ call' = [call EXCEPT ![c].pc = "await"]
    /\ UNCHANGED daemonVars

\* Mutant: the fallback record is written over whatever is there.
FallbackFill_Overwrites(c) ==
    /\ At(c, "fill")
    /\ file' = [file EXCEPT ![call[c].sid] =
                   [pid |-> call[c].on.pid, ep |-> call[c].ep, state |-> STATE_STARTING]]
    /\ call' = [call EXCEPT ![c].pc = "await"]
    /\ UNCHANGED daemonVars

\* ... and json.dump fills that inode, which may no longer be the file.
FallbackFill(c) ==
    /\ At(c, "fill")
    /\ file' = [file EXCEPT ![call[c].sid] =
                   IF @ = c THEN [pid |-> call[c].on.pid, ep |-> call[c].ep,
                                  state |-> STATE_STARTING]
                   ELSE @]
    /\ call' = [call EXCEPT ![c].pc = "await"]
    /\ UNCHANGED daemonVars

\* Mutant: any record of a live session counts as success.
AwaitVerdict_Optimistic(c) ==
    /\ At(c, "await")
    /\ read_state(call[c].sid) # None
    /\ Finish(c, "attached", read_state(call[c].sid))
    /\ UNCHANGED <<file, daemonVars>>

\* wait_for_state ends on attached, error or detached.
AwaitVerdict(c) ==
    LET observed == read_state(call[c].sid)
    IN  /\ At(c, "await")
        /\ observed # None
        /\ \/ observed.state = STATE_ATTACHED /\ Finish(c, "attached", observed)
           \/ observed.state \in TERMINAL_STATES /\ GiveUp(c)
        /\ UNCHANGED <<file, daemonVars>>

\* attach_timeout: whether the last record names a live process decides
\* between a settled failure and an indeterminate one.
AwaitTimeout(c) ==
    LET observed == read_state(call[c].sid)
    IN  /\ At(c, "await")
        /\ observed # None => observed.state \in {STATE_STARTING, STATE_CONNECTING}
        /\ IF observed # None /\ is_pid_alive(observed.pid)
           THEN Finish(c, "indeterminate", observed)
           ELSE GiveUp(c)
        /\ UNCHANGED <<file, daemonVars>>

----------------------------------------------------------------------------
(* state=detached, asmb8_media.py:_detach.                                 *)

\* No record, or check mode: the call only reads.
DetachLookup(c, s) ==
    LET seen == read_state(s)
    IN  /\ At(c, "idle")
        /\ seen # None
        /\ \/ /\ ~is_pid_alive(seen.pid)
              /\ Begin(c, "dremove", s, None, None)
              /\ UNCHANGED <<pc, stop>>
           \/ /\ is_pid_alive(seen.pid)
              /\ Begin(c, "dwait", s, None, None)
              /\ request_stop(seen.pid)
        /\ UNCHANGED <<file, job, slot, authed>>

\* Mutant: detach does not wait for the process to exit.
DetachWait_NoWait(c) ==
    /\ At(c, "dwait")
    /\ call' = [call EXCEPT ![c].pc = "dremove"]
    /\ UNCHANGED <<file, daemonVars>>

DetachWait(c) ==
    /\ At(c, "dwait")
    /\ ~is_pid_alive(call[c].seen.pid) \/ StopWaitsExpire
    /\ call' = [call EXCEPT ![c].pc = "dremove"]
    /\ UNCHANGED <<file, daemonVars>>

DetachRemove(c) ==
    /\ At(c, "dremove")
    /\ remove_state(call[c].sid)
    /\ GiveUp(c)
    /\ UNCHANGED daemonVars

Return(c) ==
    /\ At(c, "done")
    /\ GiveUp(c)
    /\ UNCHANGED <<file, daemonVars>>

CallerStep(c) ==
    \/ RecoverStale(c) \/ AttachPlan(c) \/ ReclaimWait(c) \/ ReclaimRemove(c)
    \/ \E t \in call[c].todo : ReclaimSignal(c, t)
    \/ Spawn(c) \/ FallbackCreate(c) \/ FallbackFill(c)
    \/ AwaitVerdict(c) \/ AwaitTimeout(c)
    \/ DetachWait(c) \/ DetachRemove(c) \/ Return(c)

NewCall(c) ==
    \E s \in Sessions : DetachLookup(c, s) \/ \E e \in Endpoints : AttachLookup(c, s, e)

----------------------------------------------------------------------------
(* Everything else that happens to them.                                   *)

\* SIGKILL or an unhandled death: the kernel closes the socket.
Killed(p) ==
    /\ is_pid_alive(p)
    /\ pc' = [pc EXCEPT ![p] = "gone"]
    /\ slot' = Released(p)
    /\ UNCHANGED <<file, job, stop, authed, call>>

\* A module call killed between two steps.
CallerDies(c) ==
    /\ CallersDie /\ ~At(c, "idle")
    /\ GiveUp(c)
    /\ UNCHANGED <<file, daemonVars>>

\* The controller loses power: no FIN is sent, the BMC keeps the slot.
HostLoss ==
    /\ CallersDie
    /\ pc' = [p \in Pids |-> IF pc[p] = "none" THEN "none" ELSE "gone"]
    /\ slot' = [e \in Endpoints |-> IF slot[e] \in Pids THEN Foreign ELSE slot[e]]
    /\ call' = [c \in Callers |-> Idle]
    /\ UNCHANGED <<file, job, stop, authed>>

\* A client of another controller, or a browser session.
ForeignClient(e) ==
    /\ \/ slot[e] = Free /\ slot' = [slot EXCEPT ![e] = Foreign]
       \/ slot[e] = Foreign /\ slot' = [slot EXCEPT ![e] = Free]
    /\ UNCHANGED <<file, pc, job, stop, authed, call>>

\* asmb8_reset: the BMC forgets every media session; a daemon of ours only
\* learns of it when its next read ends.
BmcReset(e) ==
    /\ slot' = [slot EXCEPT ![e] = Free]
    /\ UNCHANGED <<file, pc, job, stop, authed, call>>

Next ==
    \/ \E p \in Pids : DaemonStep(p) \/ Killed(p)
    \/ \E c \in Callers : CallerStep(c) \/ NewCall(c) \/ CallerDies(c)
    \/ \E e \in Endpoints : ForeignClient(e) \/ BmcReset(e)
    \/ HostLoss

Spec == Init /\ [][Next]_vars

\* A started daemon and a started call keep going (every blocking call they
\* make is bounded by a timeout); nobody has to start one, and faults never
\* have to happen.
Fairness ==
    /\ \A p \in Pids : WF_vars(DaemonStep(p))
    /\ \A c \in Callers : WF_vars(CallerStep(c))

FairSpec == Spec /\ Fairness

----------------------------------------------------------------------------
(* Properties.                                                             *)

TypeOK ==
    /\ file \in [Sessions -> Record \cup Callers \cup {None}]
    /\ pc \in [Pids -> DaemonPC]
    /\ job \in [Pids -> Config \cup {None}]
    /\ stop \subseteq Pids
    /\ slot \in [Endpoints -> Pids \cup {Free, Foreign}]
    /\ authed \subseteq Pids
    /\ call \in [Callers ->
          [pc : CallPC, sid : Sessions \cup {None}, ep : Endpoints \cup {None},
           seen : Record \cup {None}, todo : SUBSET Target,
           on : Target \cup {None}, result : Results \cup {None}]]

\* How far a daemon must have come to have written each state.
WriterOf(p, st) ==
    /\ pc[p] # "none"
    /\ st # STATE_STARTING => pc[p] \notin {"forked", "starting"}
    /\ st \in {STATE_ATTACHED, STATE_DETACHED} => p \in authed
    /\ st \in TERMINAL_STATES => pc[p] \in {"closing", "gone"}

Honest(s, r) == job[r.pid] = [sid |-> s, ep |-> r.ep] /\ WriterOf(r.pid, r.state)

\* What a state file says was true of the daemon it names: whatever calls
\* and daemons share the runtime_dir, and whoever dies, a record names a
\* process that was forked for this very session and endpoint, and never
\* claims more than that process has reached.
RecordHonest == \A s \in Sessions : read_state(s) # None => Honest(s, file[s])

\* An attach that reports "attached" has seen the report of a daemon of its
\* own session id that the BMC did acknowledge, even when that daemon or
\* its record is gone by the time the call returns.
AttachConfirmed ==
    \A c \in Callers : At(c, "done") /\ call[c].result = "attached" =>
        /\ call[c].seen.pid \in authed
        /\ job[call[c].seen.pid].sid = call[c].sid

Rank == [starting |-> 0, connecting |-> 1, attached |-> 2, detached |-> 3, error |-> 3]

\* A rewrite of the record of one and the same daemon.
NoRegress(s) ==
    file[s] \in Record /\ file'[s] \in Record /\ file'[s].pid = file[s].pid =>
        /\ Rank[file'[s].state] >= Rank[file[s].state]
        /\ file[s].state \in TERMINAL_STATES => file'[s] = file[s]

\* Two processes write a session's first record, the daemon and its forking
\* parent.  Whichever is late, the published record of a daemon never goes
\* back to an earlier state, and never changes once terminal.
RecordNeverRegresses == [][\A s \in Sessions : NoRegress(s)]_vars

Active(p) == is_pid_alive(p) /\ pc[p] # "closing"

\* The reclamation pass ejects before the attach inserts: with one call at
\* a time and stop waits that last until the exit, two daemons of one
\* endpoint never work at the same time, so an attach is never refused by
\* a session of its own runtime_dir that is still serving.
EjectBeforeInsert ==
    \A p, q \in Pids :
        Active(p) /\ Active(q) /\ job[p].ep = job[q].ep => p = q

\* Under the same assumptions no daemon is ever lost: from the moment it
\* has claimed its state file until it has reported its end, the record
\* under its session id names it, so a later detach or reclamation finds it.
DaemonTracked ==
    \A p \in Pids :
        Active(p) /\ pc[p] # "forked" =>
            /\ read_state(job[p].sid) # None
            /\ file[job[p].sid].pid = p

\* Reclamation only touches what it may: the process an attach signals and
\* waits for was forked for another session id on the same endpoint, never
\* for another board and never for the session being attached.
ReclaimScoped ==
    \A c \in Callers : call[c].pc \in {"rwait", "rremove"} =>
        /\ job[call[c].on.pid] = [sid |-> call[c].on.sid, ep |-> call[c].ep]
        /\ call[c].on.sid # call[c].sid

\* A daemon that was told to stop ends, whatever it was doing when the
\* signal came: the flag is only read at the top of the serve loop.
StopTakesEffect == \A p \in Pids : p \in stop ~> pc[p] = "gone"

\* Every module call returns, even if no wait for an exit ever timed out.
CallsReturn == \A c \in Callers : ~At(c, "idle") ~> At(c, "idle")

----------------------------------------------------------------------------
(* The inductive invariant behind RecordHonest, AttachConfirmed and        *)
(* ReclaimScoped: what a call remembers of a daemon stays true of it.      *)

JobInv ==
    \A p \in Pids :
        /\ pc[p] # "none" => job[p] \in Config
        /\ pc[p] \in {"linked", "serving", "reading"} => p \in authed

CallOK(c) ==
    LET k == call[c] IN
    /\ k.pc # "idle" => k.sid \in Sessions
    /\ k.pc \notin {"idle", "dwait", "dremove", "done"} => k.ep \in Endpoints
    /\ k.pc \in {"stale", "dwait"} => k.seen # None
    /\ k.seen # None => Honest(k.sid, k.seen)
    /\ k.pc = "done" /\ k.result = "attached" =>
          k.seen # None /\ k.seen.state = STATE_ATTACHED
    /\ \A t \in k.todo :
          /\ t.sid # k.sid /\ pc[t.pid] # "none"
          /\ job[t.pid] = [sid |-> t.sid, ep |-> k.ep]
    /\ k.pc \in {"rwait", "rremove"} => k.on \in k.todo
    /\ k.pc \in {"fallback", "fill", "await"} =>
          /\ k.on \in Target /\ pc[k.on.pid] # "none"
          /\ job[k.on.pid] = [sid |-> k.sid, ep |-> k.ep]

IndInv == TypeOK /\ JobInv /\ RecordHonest /\ \A c \in Callers : CallOK(c)

----------------------------------------------------------------------------
(* What the documentation says and the code does not do.                   *)

\* asmb8_media.py, attach_timeout: "this module will not report success for
\* an attach it has not confirmed".
SuccessMeansAttached ==
    \A c \in Callers :
        At(c, "done") /\ call[c].result \in {"attached", "unchanged"} =>
            call[c].seen.state = STATE_ATTACHED

\* asmb8_media.py, recovered_stale_session: a discarded state file is one
\* with "recorded pid no longer running".
StaleMeansDead ==
    \A c \in Callers : At(c, "stale") => ~is_pid_alive(call[c].seen.pid)

\* asmb8_media.py, description: attach "forks a detached background process
\* ... and returns once that process has reported either attached or an
\* early failure".
ReportIsOwn ==
    \A c \in Callers :
        At(c, "done") /\ call[c].result = "attached" =>
            call[c].seen.pid = call[c].on.pid
=============================================================================
