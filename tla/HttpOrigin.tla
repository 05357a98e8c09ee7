----------------------------- MODULE HttpOrigin -----------------------------
(***************************************************************************)
(* The HTTP origin of asmb8_http_origin under one session id: module calls *)
(* that start and stop it, and the daemon of                               *)
(* plugins/module_utils/http_origin.py with its main thread and the        *)
(* handler threads of its clients.                                         *)
(*                                                                         *)
(* Every thread of a daemon publishes the shared state dict through the    *)
(* same temp path (named after the pid): copy, open with O_TRUNC, write,   *)
(* os.replace.  Handlers do so under state_lock, the main thread does not, *)
(* so these four are separate steps here, and what matters of an open file *)
(* is where its inode is now: at the temp path, at the state path, or      *)
(* nowhere.                                                                *)
(***************************************************************************)
EXTENDS Naturals, FiniteSets

CONSTANTS
    Pids,            \* process ids; never recycled
    Clients,         \* connections, each with a handler thread of its own
    None,            \* no file, no process, no lock holder
    Empty, Torn,     \* contents of a file that json.loads rejects
    MaxRequests,     \* bound: requests served in one daemon's life
    StopWaitsExpire  \* may a stop call give up before the daemon exits?

Main    == "main"
Threads == Clients \cup {Main}

STATE_STARTING  == "starting"
STATE_SERVING   == "serving"
STATE_STOPPED   == "stopped"
STATE_ERROR     == "error"
TERMINAL_STATES == {STATE_STOPPED, STATE_ERROR}
States == {STATE_STARTING, STATE_SERVING} \cup TERMINAL_STATES
Record == [pid : Pids, state : States, count : Nat]

ASSUME ConstantsAssumption ==
    /\ {None, Empty, Torn} \cap (Pids \cup Threads \cup Record) = {}
    /\ Cardinality({None, Empty, Torn}) = 3 /\ Main \notin Clients
    /\ MaxRequests \in Nat /\ StopWaitsExpire \in BOOLEAN

VARIABLES
    file,    \* the state file
    tmp,     \* pid -> its temp file
    fd,      \* pid -> thread -> where the file it has open is now
    write,   \* pid -> thread -> how far its _persist is, and with what copy
    mem,     \* pid -> the shared state dict
    lock,    \* pid -> the holder of state_lock
    pc,      \* pid -> where the main thread is
    conn,    \* pid -> clients with a handler thread
    wedged,  \* pids whose serve_forever loop does not run
    stop,    \* pids whose _stop_flag is set
    bound,   \* the pid holding the configured port
    tested,  \* history: pids that passed their self-test
    call     \* the module call in progress

disk    == <<file, tmp, fd, write>>
threads == <<mem, lock, conn>>
vars == <<disk, threads, pc, wedged, stop, bound, tested, call>>

NoWrite  == [step |-> "idle", data |-> None]
Idle     == [pc |-> "idle", seen |-> None, pid |-> None, exited |-> FALSE, holds |-> FALSE]

Init ==
    /\ file = None
    /\ tmp = [p \in Pids |-> None]
    /\ fd = [p \in Pids |-> [t \in Threads |-> None]]
    /\ write = [p \in Pids |-> [t \in Threads |-> NoWrite]]
    /\ mem = [p \in Pids |-> [pid |-> p, state |-> STATE_STARTING, count |-> 0]]
    /\ lock = [p \in Pids |-> None]
    /\ pc = [p \in Pids |-> "none"]
    /\ conn = [p \in Pids |-> {}]
    /\ wedged = {} /\ stop = {} /\ bound = None /\ tested = {}
    /\ call = Idle

read_state == IF file \in Record THEN file ELSE None
is_pid_alive(p) == p \in Pids /\ pc[p] \notin {"none", "gone"}

----------------------------------------------------------------------------
(* _persist: a copy of the dict, then _write_state_atomic.                 *)

Writing(p, t, step) == write[p][t].step = step
SetWrite(p, t, step) == write' = [write EXCEPT ![p][t].step = step]

\* os.open(O_CREAT | O_TRUNC) on the temp path.
OpenTemp(p, t) ==
    /\ Writing(p, t, "copied")
    /\ tmp' = [tmp EXCEPT ![p] = Empty]
    /\ fd' = [fd EXCEPT ![p][t] = "tmp"]
    /\ SetWrite(p, t, "opened")
    /\ UNCHANGED <<file, threads, pc, wedged, stop, bound, tested, call>>

\* A write at offset 0 over what another thread wrote there: a longer text
\* shows through.  Which one is longer depends on the counters and the time of
\* the last request as much as on the state.
Overlay(old, new) == IF old = Empty THEN {new} ELSE {new, Torn}

\* json.dump, flushed by the close.
WriteTemp(p, t) ==
    LET data == write[p][t].data
    IN  /\ Writing(p, t, "opened")
        /\ \/ /\ fd[p][t] = "tmp"
              /\ \E c \in Overlay(tmp[p], data) : tmp' = [tmp EXCEPT ![p] = c]
              /\ UNCHANGED file
           \/ fd[p][t] = "file" /\ file' \in Overlay(file, data) /\ UNCHANGED tmp
           \/ fd[p][t] = "lost" /\ UNCHANGED <<file, tmp>>
        /\ fd' = [fd EXCEPT ![p][t] = None]
        /\ SetWrite(p, t, "closed")
        /\ UNCHANGED <<threads, pc, wedged, stop, bound, tested, call>>

\* os.replace; a temp file already moved away is a suppressed OSError.
\* A handler then leaves state_lock.
ReplaceState(p, t) ==
    /\ Writing(p, t, "closed")
    /\ IF tmp[p] = None THEN UNCHANGED <<file, tmp, fd, call>>
       ELSE /\ file' = tmp[p]
            /\ tmp' = [tmp EXCEPT ![p] = None]
            /\ fd' = [q \in Pids |-> [u \in Threads |->
                         IF fd[q][u] = "file" THEN "lost"
                         ELSE IF q = p /\ fd[q][u] = "tmp" THEN "file" ELSE fd[q][u]]]
            /\ call' = [call EXCEPT !.holds = FALSE]
    /\ write' = [write EXCEPT ![p][t] = NoWrite]
    /\ lock' = IF lock[p] = t THEN [lock EXCEPT ![p] = None] ELSE lock
    /\ UNCHANGED <<mem, conn, pc, wedged, stop, bound, tested>>

PersistStep(p, t) == OpenTemp(p, t) \/ WriteTemp(p, t) \/ ReplaceState(p, t)

----------------------------------------------------------------------------
(* The main thread, _run_daemon.                                           *)

At(p, label) == pc[p] = label /\ Writing(p, Main, "idle")
Goto(p, label) == pc' = [pc EXCEPT ![p] = label]

\* Set the state key and start a _persist, without the lock.
Publish(p, st) ==
    /\ mem' = [mem EXCEPT ![p].state = st]
    /\ write' = [write EXCEPT ![p][Main] = [step |-> "copied", data |-> mem'[p]]]
    /\ UNCHANGED <<file, tmp, fd, lock, conn>>

Released(p) == IF bound = p THEN None ELSE bound

ClaimStateFile(p) ==
    /\ At(p, "forked") /\ Goto(p, "root")
    /\ Publish(p, STATE_STARTING)
    /\ UNCHANGED <<wedged, stop, bound, tested, call>>

ResolveRoot(p) ==
    /\ At(p, "root")
    /\ \/ Goto(p, "bind") /\ UNCHANGED <<disk, threads>>
       \/ Goto(p, "exit") /\ Publish(p, STATE_ERROR)
    /\ UNCHANGED <<wedged, stop, bound, tested, call>>

\* The port is one this process can have, or it is an error; then the
\* server thread starts, and may never get to run its loop.
Bind(p) ==
    /\ At(p, "bind")
    /\ \/ /\ bound = None /\ bound' = p
          /\ Goto(p, "thread") /\ Publish(p, STATE_STARTING)
          /\ wedged' \in {wedged, wedged \cup {p}}
       \/ /\ Goto(p, "exit") /\ Publish(p, STATE_ERROR)
          /\ UNCHANGED <<bound, wedged>>
    /\ UNCHANGED <<stop, tested, call>>

\* Mutant: a bound and listening socket is proof enough.
run_self_test_Trusting(p) == {TRUE}

\* One real request against ourselves, within a timeout: it fails if the
\* serve loop does not run, and may fail for other reasons.
run_self_test(p) == IF p \in wedged THEN {FALSE} ELSE BOOLEAN

SelfTest(p) ==
    /\ At(p, "thread")
    /\ \/ /\ TRUE \in run_self_test(p)
          /\ tested' = tested \cup ({p} \ wedged)
          /\ Goto(p, "control") /\ Publish(p, STATE_SERVING)
          /\ UNCHANGED bound
       \/ /\ FALSE \in run_self_test(p)
          /\ bound' = Released(p)
          /\ Goto(p, "exit") /\ Publish(p, STATE_ERROR)
          /\ UNCHANGED tested
    /\ UNCHANGED <<wedged, stop, call>>

SeeStop(p) ==
    /\ At(p, "control") /\ p \in stop
    /\ Goto(p, "shutdown")
    /\ UNCHANGED <<disk, threads, wedged, stop, bound, tested, call>>

LifetimeExpired(p) ==
    /\ At(p, "control") /\ p \notin stop
    /\ Goto(p, "shutdown")
    /\ UNCHANGED <<disk, threads, wedged, stop, bound, tested, call>>

\* Mutant: server.shutdown() is waited for without a bound.
shutdown_returns_Unbounded(p) == p \notin wedged

\* _shutdown_server_bounded: the watchdog is joined with a timeout, so it
\* returns whether or not the serve loop ever answers.
shutdown_returns(p) == TRUE

\* The finally block and the last record.  Handler threads are not joined.
ShutDown(p) ==
    /\ At(p, "shutdown") /\ shutdown_returns(p)
    /\ Goto(p, "exit") /\ Publish(p, STATE_STOPPED)
    /\ bound' = Released(p)
    /\ UNCHANGED <<wedged, stop, tested, call>>

\* os._exit: every thread stops where it is; files stay as they are.
Dies(p) ==
    /\ Goto(p, "gone")
    /\ fd' = [fd EXCEPT ![p] = [t \in Threads |-> None]]
    /\ write' = [write EXCEPT ![p] = [t \in Threads |-> NoWrite]]
    /\ lock' = [lock EXCEPT ![p] = None]
    /\ conn' = [conn EXCEPT ![p] = {}]
    /\ bound' = Released(p)
    /\ UNCHANGED <<file, tmp, mem, wedged, stop, tested>>

Exit(p) == At(p, "exit") /\ Dies(p) /\ UNCHANGED call

MainStep(p) ==
    \/ ClaimStateFile(p) \/ ResolveRoot(p) \/ Bind(p) \/ SelfTest(p)
    \/ SeeStop(p) \/ LifetimeExpired(p) \/ ShutDown(p) \/ Exit(p)
    \/ PersistStep(p, Main)

----------------------------------------------------------------------------
(* Handler threads.                                                        *)

\* Once the serve loop runs, a connection gets a thread; on it, HTTP/1.1
\* clients send any number of requests, also after the end of the loop.
Connect(p, c) ==
    /\ bound = p /\ p \notin wedged /\ c \notin conn[p]
    /\ pc[p] = "thread" => Writing(p, Main, "idle")
    /\ conn' = [conn EXCEPT ![p] = @ \cup {c}]
    /\ UNCHANGED <<disk, mem, lock, pc, wedged, stop, bound, tested, call>>

Disconnect(p, c) ==
    /\ c \in conn[p] /\ lock[p] # c
    /\ conn' = [conn EXCEPT ![p] = @ \ {c}]
    /\ UNCHANGED <<disk, mem, lock, pc, wedged, stop, bound, tested, call>>

\* The finally block of _handle: under state_lock, count and _persist.
RequestDone(p, c) ==
    /\ c \in conn[p] /\ lock[p] = None
    /\ mem[p].count < MaxRequests
    /\ lock' = [lock EXCEPT ![p] = c]
    /\ mem' = [mem EXCEPT ![p].count = @ + 1]
    /\ write' = [write EXCEPT ![p][c] = [step |-> "copied", data |-> mem'[p]]]
    /\ UNCHANGED <<file, tmp, fd, conn, pc, wedged, stop, bound, tested, call>>

HandlerStep(p, c) ==
    \/ Connect(p, c) \/ Disconnect(p, c) \/ RequestDone(p, c) \/ PersistStep(p, c)

\* The serve loop stops running while it should.
Wedge(p) ==
    /\ pc[p] = "control" /\ p \notin wedged
    /\ wedged' = wedged \cup {p}
    /\ UNCHANGED <<disk, threads, pc, stop, bound, tested, call>>

Killed(p) == is_pid_alive(p) /\ Dies(p) /\ UNCHANGED call

----------------------------------------------------------------------------
(* The module calls, asmb8_http_origin.py:_start and _stop.                *)

rest == <<threads, pc, wedged, stop, bound, tested>>
CallAt(label) == call.pc = label
Running(r) == r # None /\ is_pid_alive(r.pid) /\ r.state \notin TERMINAL_STATES

\* remove_state: an inode a thread still has open is no longer the file.
remove_state ==
    /\ file' = None
    /\ fd' = [p \in Pids |-> [t \in Threads |->
                  IF fd[p][t] = "file" THEN "lost" ELSE fd[p][t]]]
    /\ UNCHANGED <<tmp, write>>

\* A live session answers to this id: nothing to do.
StartLookup ==
    /\ CallAt("idle") /\ ~Running(read_state)
    /\ call' = [Idle EXCEPT !.pc = IF read_state = None THEN "spawn" ELSE "stale"]
    /\ UNCHANGED <<disk, rest>>

RecoverStale ==
    /\ CallAt("stale")
    /\ remove_state
    /\ call' = [call EXCEPT !.pc = "spawn"]
    /\ UNCHANGED rest

\* A bad path, check mode or a failing fork end the call.
Spawn ==
    /\ CallAt("spawn")
    /\ \/ call' = Idle /\ UNCHANGED pc
       \/ \E p \in Pids :
             /\ pc[p] = "none" /\ Goto(p, "forked")
             /\ call' = [call EXCEPT !.pc = "create", !.pid = p]
    /\ UNCHANGED <<disk, threads, wedged, stop, bound, tested>>

\* _write_state_if_absent, in two steps.
FallbackCreate ==
    /\ CallAt("create")
    /\ IF file = None
       THEN file' = Empty /\ call' = [call EXCEPT !.pc = "fill", !.holds = TRUE]
       ELSE UNCHANGED file /\ call' = [call EXCEPT !.pc = "await"]
    /\ UNCHANGED <<tmp, fd, write, rest>>

\* Mutant: the fallback record is written over whatever is there.
FallbackFill_Overwrites ==
    /\ CallAt("fill")
    /\ file' = [pid |-> call.pid, state |-> STATE_STARTING, count |-> 0]
    /\ call' = [call EXCEPT !.pc = "await", !.holds = FALSE]
    /\ UNCHANGED <<tmp, fd, write, rest>>

FallbackFill ==
    /\ CallAt("fill")
    /\ file' = IF call.holds THEN [pid |-> call.pid, state |-> STATE_STARTING, count |-> 0]
               ELSE file
    /\ call' = [call EXCEPT !.pc = "await", !.holds = FALSE]
    /\ UNCHANGED <<tmp, fd, write, rest>>

\* wait_for_state, and start_timeout without a verdict.
AwaitVerdict ==
    /\ CallAt("await")
    /\ IF read_state # None /\ read_state.state = STATE_SERVING
       THEN call' = [call EXCEPT !.pc = "started", !.seen = read_state]
       ELSE call' = Idle
    /\ UNCHANGED <<disk, rest>>

\* request_stop; SIGTERM before the handler is installed ends the process.
StopLookup ==
    LET p == read_state.pid
    IN  /\ CallAt("idle") /\ read_state # None
        /\ \/ /\ is_pid_alive(p)
              /\ call' = [Idle EXCEPT !.pc = "wait", !.pid = p]
              /\ \/ /\ stop' = stop \cup {p}
                    /\ UNCHANGED <<disk, threads, pc, wedged, bound, tested>>
                 \/ pc[p] = "forked" /\ Dies(p)
           \/ /\ ~is_pid_alive(p)
              /\ call' = [Idle EXCEPT !.pc = "remove", !.pid = p, !.exited = TRUE]
              /\ UNCHANGED <<disk, rest>>

\* Mutant: stop does not wait.
StopWait_NoWait ==
    /\ CallAt("wait")
    /\ call' = [call EXCEPT !.pc = "remove", !.exited = TRUE]
    /\ UNCHANGED <<disk, rest>>

StopWait ==
    /\ CallAt("wait")
    /\ is_pid_alive(call.pid) => StopWaitsExpire
    /\ call' = [call EXCEPT !.pc = "remove", !.exited = ~is_pid_alive(call.pid)]
    /\ UNCHANGED <<disk, rest>>

StopRemove ==
    /\ CallAt("remove")
    /\ remove_state
    /\ call' = [call EXCEPT !.pc = "stopped"]
    /\ UNCHANGED rest

Return ==
    /\ call.pc \in {"started", "stopped"}
    /\ call' = Idle
    /\ UNCHANGED <<disk, rest>>

CallStep ==
    \/ RecoverStale \/ Spawn \/ FallbackCreate \/ FallbackFill \/ AwaitVerdict
    \/ StopWait \/ StopRemove \/ Return

Next ==
    \/ \E p \in Pids : MainStep(p) \/ Wedge(p) \/ Killed(p)
    \/ \E p \in Pids, c \in Clients : HandlerStep(p, c)
    \/ StartLookup \/ StopLookup \/ CallStep

Spec == Init /\ [][Next]_vars

\* The main thread runs and the clock goes on (all its waits are bounded);
\* clients, the serve loop and the user may do nothing.
FairSpec == Spec /\ \A p \in Pids : WF_vars(MainStep(p))

----------------------------------------------------------------------------
(* Properties.                                                             *)

\* A record that says serving, and a start call that reports it, rest on a
\* real request that this very process answered, even if a slow thread
\* published the record after a later one.
ServingProved ==
    /\ read_state # None /\ read_state.state = STATE_SERVING => read_state.pid \in tested
    /\ CallAt("started") => call.seen.pid \in tested

\* A published terminal record of a daemon is only ever lost to that daemon's
\* own handlers: to one inside its finally block, which may publish a copy of
\* the dict from before the end, or through the main thread, which wrote its
\* last record into the file that a handler had renamed under it, and so tore
\* the longer text of that handler.  Without such a handler the record stands.
OnlyHandlersUndoTheEnd ==
    [][read_state # None /\ read_state.state \in TERMINAL_STATES /\ file' # None =>
          \/ file' \in Record /\ file'.pid # file.pid
          \/ file' \in Record /\ file'.state \in TERMINAL_STATES
          \/ lock[file.pid] # None
          \/ fd[file.pid][Main] = "file" /\ file' = Torn
          \/ \E p \in Pids : p # file.pid /\ is_pid_alive(p)]_vars

\* After a stop that saw the process exit, with one call at a time, neither
\* the port nor the record of that process is left.
StopLeavesNothing ==
    CallAt("stopped") /\ call.exited =>
        /\ bound # call.pid
        /\ read_state # None => read_state.pid # call.pid

\* Every daemon ends by itself once its lifetime is over, even if its serve
\* loop hangs and clients never let go.
SelfTerminates == \A p \in Pids : pc[p] = "forked" ~> pc[p] = "gone"

----------------------------------------------------------------------------
(* What the documentation says and the code does not do.                   *)

Claimed == \E p \in Pids : pc[p] \notin {"none", "forked", "root"}

\* daemon_runtime.py, _write_state_atomic: "so a reader never observes a
\* partially-written file".
NeverTorn == Claimed /\ call.pc \notin {"create", "fill"} => file \notin {Empty, Torn}

\* http_origin.py, TERMINAL_STATES: "States a live daemon will never revert
\* out of on its own".
TerminalStays ==
    [][\A p \in Pids :
          file \in Record /\ file.pid = p /\ file.state \in TERMINAL_STATES
          /\ file' \in Record /\ file'.pid = p => file'.state \in TERMINAL_STATES]_vars
=============================================================================
