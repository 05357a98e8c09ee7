------------------------- MODULE MediaSessionProofs -------------------------
(***************************************************************************)
(* Machine-checked proofs about MediaSession, for any number of session    *)
(* ids, endpoints, processes and concurrent callers, with every fault the  *)
(* module has.                                                             *)
(*                                                                         *)
(* The argument: a daemon only moves forward (Monotone), so whatever was   *)
(* once true of the daemon named by a record stays true of it, in the      *)
(* state file and in the memory of any call that has read it.              *)
(***************************************************************************)
EXTENDS MediaSession, TLAPS

\* What no step takes back.
Monotone ==
    /\ authed \subseteq authed'
    /\ \A p \in Pids :
          /\ pc[p] # "none" => pc'[p] # "none" /\ job'[p] = job[p]
          /\ pc[p] \notin {"none", "forked", "starting"} =>
                pc'[p] \notin {"none", "forked", "starting"}
          /\ pc[p] \in {"closing", "gone"} => pc'[p] \in {"closing", "gone"}

\* A daemon only moves forward, whoever takes the step.
LEMMA NextMonotone ==
    ASSUME TypeOK, [Next]_vars
    PROVE  Monotone
<1> USE DEF TypeOK, Monotone, DaemonPC
<1>1. ASSUME NEW p \in Pids, DaemonStep(p) PROVE Monotone
  BY <1>1 DEF DaemonStep, ClaimStateFile, Fail, OpenImage, Connect, ReportAttached,
     CheckStop, ServeOne, PeerEnds, ReadBreaks, CloseAndExit, Advance
<1>2. ASSUME NEW p \in Pids, Killed(p) PROVE Monotone
  BY <1>2 DEF Killed, is_pid_alive
<1>3. ASSUME NEW c \in Callers, CallerStep(c) PROVE Monotone
  <2>1. CASE \E t \in call[c].todo : ReclaimSignal(c, t)
    BY <2>1, <1>3 DEF ReclaimSignal, request_stop, is_pid_alive
  <2>2. CASE Spawn(c)
    BY <2>2 DEF Spawn
  <2>3. CASE ~(\E t \in call[c].todo : ReclaimSignal(c, t)) /\ ~Spawn(c)
    BY <2>3, <1>3 DEF CallerStep, RecoverStale, AttachPlan, ReclaimWait, ReclaimRemove,
       FallbackCreate, FallbackFill, AwaitVerdict, AwaitTimeout, DetachWait,
       DetachRemove, Return, daemonVars
  <2> QED BY <2>1, <2>2, <2>3
<1>4. ASSUME NEW c \in Callers, NewCall(c) PROVE Monotone
  BY <1>4 DEF NewCall, DetachLookup, AttachLookup, daemonVars, request_stop, is_pid_alive
<1>5. ASSUME NEW c \in Callers, CallerDies(c) PROVE Monotone
  BY <1>5 DEF CallerDies, daemonVars
<1>6. ASSUME NEW e \in Endpoints, ForeignClient(e) \/ BmcReset(e) PROVE Monotone
  BY <1>6 DEF ForeignClient, BmcReset
<1>7. CASE HostLoss
  BY <1>7 DEF HostLoss
<1>8. CASE UNCHANGED vars
  BY <1>8 DEF vars
<1> QED BY <1>1, <1>2, <1>3, <1>4, <1>5, <1>6, <1>7, <1>8 DEF Next

\* What a record says of its daemon stays true.
LEMMA HonestStable ==
    ASSUME Monotone, NEW s, NEW r \in Record, Honest(s, r)
    PROVE  Honest(s, r)'
BY DEF Monotone, Honest, WriterOf, Record, TERMINAL_STATES

----------------------------------------------------------------------------
(* The steps of the daemon.                                                *)

\* What a call remembers is untouched by a step that is not its own.
LEMMA CallStable ==
    ASSUME TypeOK, Monotone, NEW c \in Callers, CallOK(c), call'[c] = call[c]
    PROVE  CallOK(c)'
<1> DEFINE k == call[c]
<1>1. k \in [pc : CallPC, sid : Sessions \cup {None}, ep : Endpoints \cup {None},
             seen : Record \cup {None}, todo : SUBSET Target,
             on : Target \cup {None}, result : Results \cup {None}]
  BY DEF TypeOK
<1>2. k.seen # None => Honest(k.sid, k.seen)'
  BY <1>1, HonestStable DEF CallOK
<1>3. \A t \in k.todo : pc'[t.pid] # "none" /\ job'[t.pid] = [sid |-> t.sid, ep |-> k.ep]
  BY <1>1 DEF CallOK, Monotone, Target
<1>4. k.pc \in {"fallback", "fill", "await"} =>
        k.on \in Target /\ pc'[k.on.pid] # "none" /\ job'[k.on.pid] = [sid |-> k.sid, ep |-> k.ep]
  BY <1>1 DEF CallOK, Monotone, Target
<1> QED
  BY <1>2, <1>3, <1>4 DEF CallOK, Honest, WriterOf

\* Records: it is enough to look at what a step writes.
LEMMA RecordStable ==
    ASSUME Monotone, RecordHonest,
           \A s \in Sessions : \/ file'[s] = file[s]
                              \/ file'[s] \notin Record
                              \/ Honest(s, file[s])'
    PROVE  RecordHonest'
<1>1. ASSUME NEW s \in Sessions, file'[s] \in Record, file'[s] = file[s]
      PROVE  Honest(s, file[s])'
  <2>1. PICK r \in Record : r = file[s]
    BY <1>1
  <2>2. Honest(s, r)
    BY <1>1, <2>1, ConstantsAssumption DEF RecordHonest, read_state
  <2>3. Honest(s, r)'
    BY <2>2, HonestStable
  <2> QED BY <1>1, <2>1, <2>3 DEF Honest, WriterOf
<1> QED BY <1>1 DEF RecordHonest, read_state

\* The type of a call, and of the file, the jobs and the rest, separately.
CallType ==
    [pc : CallPC, sid : Sessions \cup {None}, ep : Endpoints \cup {None},
     seen : Record \cup {None}, todo : SUBSET Target,
     on : Target \cup {None}, result : Results \cup {None}]

LEMMA InitInv == Init => IndInv
<1> SUFFICES ASSUME Init PROVE IndInv
  OBVIOUS
<1>1. TypeOK
  BY DEF Init, TypeOK, DaemonPC, Idle, CallPC
<1>2. JobInv
  BY DEF Init, JobInv
<1>3. RecordHonest
  BY ConstantsAssumption DEF Init, RecordHonest, read_state
<1>4. ASSUME NEW c \in Callers PROVE CallOK(c)
  BY DEF Init, CallOK, Idle
<1> QED BY <1>1, <1>2, <1>3, <1>4 DEF IndInv

\* A daemon writes only its own session's file and its own slot.
LEMMA DaemonInv ==
    ASSUME IndInv, NEW p \in Pids, DaemonStep(p), Monotone
    PROVE  IndInv'
<1> USE DEF IndInv
<1>0. call' = call
  BY DEF DaemonStep, ClaimStateFile, Fail, OpenImage, Connect, ReportAttached,
     CheckStop, ServeOne, PeerEnds, ReadBreaks, CloseAndExit, Advance
<1>1. pc[p] # "none" /\ job[p] \in Config /\ job' = job /\ stop' = stop
  BY DEF DaemonStep, ClaimStateFile, Fail, OpenImage, Connect, ReportAttached,
     CheckStop, ServeOne, PeerEnds, ReadBreaks, CloseAndExit, Advance, JobInv
<1>2. Released(p) \in [Endpoints -> Pids \cup {Free, Foreign}]
  BY DEF TypeOK, Released
<1>3. TypeOK'
  <2>1. \A st \in States : Persist(p, st) => file' \in [Sessions -> Record \cup Callers \cup {None}]
    BY <1>1 DEF TypeOK, Persist, Record, Config
  <2>2. file' \in [Sessions -> Record \cup Callers \cup {None}]
    BY <2>1 DEF DaemonStep, ClaimStateFile, Fail, OpenImage, Connect, ReportAttached,
       CheckStop, ServeOne, PeerEnds, ReadBreaks, CloseAndExit, TypeOK, States, TERMINAL_STATES
  <2>3. pc' \in [Pids -> DaemonPC]
    BY DEF DaemonStep, ClaimStateFile, Fail, OpenImage, Connect, ReportAttached,
       CheckStop, ServeOne, PeerEnds, ReadBreaks, CloseAndExit, Advance, TypeOK, DaemonPC
  <2>4. slot' \in [Endpoints -> Pids \cup {Free, Foreign}] /\ authed' \subseteq Pids
    BY <1>2 DEF DaemonStep, ClaimStateFile, Fail, OpenImage, Connect, ReportAttached,
       CheckStop, ServeOne, PeerEnds, ReadBreaks, CloseAndExit, TypeOK
  <2> QED BY <1>0, <1>1, <2>2, <2>3, <2>4 DEF TypeOK
<1>4. JobInv'
  BY <1>1 DEF DaemonStep, ClaimStateFile, Fail, OpenImage, Connect, ReportAttached,
     CheckStop, ServeOne, PeerEnds, ReadBreaks, CloseAndExit, Advance, TypeOK, JobInv, DaemonPC
<1>5. RecordHonest'
  <2>1. \A s \in Sessions : file'[s] = file[s] \/ Honest(s, file[s])'
    <3> SUFFICES ASSUME NEW st \in States, Persist(p, st), WriterOf(p, st)'
                 PROVE  \A s \in Sessions : file'[s] = file[s] \/ Honest(s, file[s])'
      BY <1>1 DEF DaemonStep, ClaimStateFile, Fail, OpenImage, Connect, ReportAttached,
         CheckStop, ServeOne, PeerEnds, ReadBreaks, CloseAndExit, Advance, TypeOK, JobInv,
         DaemonPC, WriterOf, States, TERMINAL_STATES, STATE_STARTING, STATE_CONNECTING,
         STATE_ATTACHED, STATE_DETACHED, STATE_ERROR
    <3> QED BY <1>1 DEF Persist, Honest, WriterOf, TypeOK, Config
  <2> QED BY <2>1, RecordStable
<1>6. ASSUME NEW c \in Callers PROVE CallOK(c)'
  BY <1>0, CallStable
<1> QED BY <1>3, <1>4, <1>5, <1>6

----------------------------------------------------------------------------
(* The steps of a call.                                                    *)

\* A step of one call leaves the others' memory alone.
LEMMA OtherCalls ==
    ASSUME IndInv, Monotone, NEW c \in Callers, CallOK(c)',
           \A d \in Callers \ {c} : call'[d] = call[d]
    PROVE  \A d \in Callers : CallOK(d)'
<1> SUFFICES ASSUME NEW d \in Callers, d # c PROVE CallOK(d)'
  OBVIOUS
<1> QED BY CallStable DEF IndInv, TypeOK

\* Coming to rest is always all right.
LEMMA IdleOK ==
    ASSUME TypeOK, NEW c \in Callers, GiveUp(c)
    PROVE  CallOK(c)' /\ call' \in [Callers -> CallType]
BY DEF GiveUp, CallOK, Idle, TypeOK, CallType, CallPC

LEMMA BeginOK ==
    ASSUME IndInv, Monotone, NEW c \in Callers, NEW s \in Sessions,
           NEW e \in Endpoints \cup {None}, NEW label \in CallPC,
           NEW result \in Results \cup {None}, Begin(c, label, s, e, result),
           label \in {"stale", "plan"} => e \in Endpoints,
           label \in {"stale", "dwait"} => read_state(s) # None,
           label \in {"stale", "plan", "dwait", "dremove", "done"},
           label = "done" => result # "attached"
    PROVE  CallOK(c)' /\ call' \in [Callers -> CallType]
<1>1. PICK r \in Record \cup {None} : r = read_state(s) /\ (r # None => Honest(s, r))
  BY ConstantsAssumption DEF IndInv, RecordHonest, read_state
<1>2. call' \in [Callers -> CallType]
  BY <1>1 DEF Begin, IndInv, TypeOK, CallType
<1>3. /\ call'[c].pc = label /\ call'[c].sid = s /\ call'[c].ep = e /\ call'[c].seen = r
      /\ call'[c].todo = {} /\ call'[c].result = result
  BY <1>1 DEF Begin, IndInv, TypeOK
<1>4. r # None => Honest(s, r)'
  BY <1>1, HonestStable
<1>5. r # None => Honest(call[c].sid, call[c].seen)'
  BY <1>3, <1>4 DEF Honest, WriterOf
<1> QED BY <1>1, <1>2, <1>3, <1>5 DEF CallOK

\* Most steps of a call touch no daemon and at most unlink a file.
LEMMA QuietStep ==
    ASSUME IndInv, Monotone, NEW c \in Callers, UNCHANGED daemonVars,
           file' = file \/ \E s \in Sessions : remove_state(s),
           call' \in [Callers -> CallType], CallOK(c)',
           \A d \in Callers \ {c} : call'[d] = call[d]
    PROVE  IndInv'
<1>1. TypeOK'
  BY DEF IndInv, TypeOK, daemonVars, remove_state, CallType
<1>2. JobInv'
  BY DEF IndInv, JobInv, daemonVars
<1>3. RecordHonest'
  <2>1. \A s \in Sessions : file'[s] = file[s] \/ file'[s] \notin Record
    BY ConstantsAssumption DEF remove_state, IndInv, TypeOK
  <2> QED BY <2>1, RecordStable DEF IndInv
<1> QED BY <1>1, <1>2, <1>3, OtherCalls DEF IndInv

LEMMA CallerInv ==
    ASSUME IndInv, NEW c \in Callers, CallerStep(c), Monotone
    PROVE  IndInv'
<1> USE DEF IndInv
<1>0. /\ call \in [Callers -> CallType] /\ call[c] \in CallType /\ CallOK(c)
      /\ call[c].seen # None => call[c].seen \in Record
      /\ \A t \in call[c].todo : t \in Target
  BY DEF TypeOK, CallType
<1>1. CASE RecoverStale(c)
  <2>1. call' \in [Callers -> CallType] /\ call[c].sid \in Sessions
    BY <1>0, <1>1 DEF RecoverStale, At, CallOK, CallType, CallPC
  <2>2. CallOK(c)'
    BY <1>0, <1>1 DEF RecoverStale, At, CallOK, CallType, daemonVars
  <2> QED BY <1>0, <1>1, <2>1, <2>2, QuietStep DEF RecoverStale
<1>2. CASE AttachPlan(c)
  <2>1. CASE GiveUp(c)
    BY <1>2, <2>1, IdleOK, QuietStep DEF AttachPlan, GiveUp
  <2>2. CASE call' = [call EXCEPT ![c].pc = "reclaim", ![c].todo = find_conflicting_sessions(c)]
    <3>1. \A t \in find_conflicting_sessions(c) :
            /\ t \in Target /\ t.sid # call[c].sid /\ pc[t.pid] # "none"
            /\ job[t.pid] = [sid |-> t.sid, ep |-> call[c].ep]
      BY ConstantsAssumption DEF find_conflicting_sessions, read_state, RecordHonest, Honest,
         WriterOf, Record, Target
    <3>2. call' \in [Callers -> CallType]
      BY <1>0, <2>2, <3>1 DEF CallType, CallPC
    <3>3. CallOK(c)'
      <4>1. /\ call'[c].pc = "reclaim" /\ call'[c].todo = find_conflicting_sessions(c)
            /\ call'[c].sid = call[c].sid /\ call'[c].ep = call[c].ep
            /\ call'[c].seen = call[c].seen /\ call'[c].on = call[c].on
        BY <1>0, <2>2 DEF CallType
      <4>2. call[c].pc = "plan" /\ UNCHANGED daemonVars
        BY <1>2 DEF AttachPlan, At
      <4>3. (call[c].seen # None => Honest(call[c].sid, call[c].seen))'
        BY <1>0, <4>1, <4>2 DEF CallOK, daemonVars, Honest, WriterOf
      <4>4. \A t \in call'[c].todo : /\ t.sid # call'[c].sid /\ pc'[t.pid] # "none"
                                    /\ job'[t.pid] = [sid |-> t.sid, ep |-> call'[c].ep]
        BY <3>1, <4>1, <4>2 DEF daemonVars
      <4>5. call'[c].sid \in Sessions /\ call'[c].ep \in Endpoints
        BY <1>0, <4>1, <4>2 DEF CallOK
      <4> QED BY <4>1, <4>3, <4>4, <4>5 DEF CallOK
    <3> QED BY <1>2, <2>2, <3>2, <3>3, QuietStep DEF AttachPlan
  <2> QED BY <1>2, <2>1, <2>2 DEF AttachPlan
<1>3. CASE ReclaimWait(c) \/ DetachWait(c)
  <2>1. call' \in [Callers -> CallType]
    BY <1>0, <1>3 DEF ReclaimWait, DetachWait, CallType, CallPC
  <2>2. CallOK(c)'
    <3>1. /\ \/ call[c].pc = "rwait" /\ call'[c].pc = "rremove"
             \/ call[c].pc = "dwait" /\ call'[c].pc = "dremove"
          /\ call'[c].sid = call[c].sid /\ call'[c].ep = call[c].ep
          /\ call'[c].seen = call[c].seen /\ call'[c].on = call[c].on
          /\ call'[c].todo = call[c].todo /\ UNCHANGED daemonVars
      BY <1>0, <1>3 DEF ReclaimWait, DetachWait, At, CallType
    <3>2. (call[c].seen # None => Honest(call[c].sid, call[c].seen))'
      BY <1>0, <3>1 DEF CallOK, daemonVars, Honest, WriterOf
    <3> QED BY <1>0, <3>1, <3>2 DEF CallOK, daemonVars
  <2> QED BY <1>0, <1>3, <2>1, <2>2, QuietStep DEF ReclaimWait, DetachWait
<1>4. CASE ReclaimRemove(c)
  <2>1. call' \in [Callers -> CallType] /\ call[c].on \in Target
    BY <1>0, <1>4 DEF ReclaimRemove, At, CallOK, CallType, CallPC
  <2>2. CallOK(c)'
    BY <1>0, <1>4 DEF ReclaimRemove, At, CallOK, CallType, daemonVars, Honest, WriterOf
  <2>3. call[c].on.sid \in Sessions
    BY <2>1 DEF Target
  <2> QED BY <1>0, <1>4, <2>1, <2>2, <2>3, QuietStep DEF ReclaimRemove
<1>5. CASE AwaitVerdict(c) \/ AwaitTimeout(c)
  <2>1. CASE GiveUp(c)
    BY <1>5, <2>1, IdleOK, QuietStep DEF AwaitVerdict, AwaitTimeout, GiveUp
  <2>2. CASE \E res \in {"attached", "indeterminate"} :
               /\ read_state(call[c].sid) # None
               /\ res = "attached" => read_state(call[c].sid).state = STATE_ATTACHED
               /\ Finish(c, res, read_state(call[c].sid))
    <3>1. call[c].sid \in Sessions /\ UNCHANGED <<file, daemonVars>>
      BY <1>0, <1>5 DEF AwaitVerdict, AwaitTimeout, At, CallOK
    <3>2. PICK res \in {"attached", "indeterminate"}, r \in Record :
            /\ r = read_state(call[c].sid) /\ Honest(call[c].sid, r)
            /\ res = "attached" => r.state = STATE_ATTACHED
            /\ Finish(c, res, r)
      BY <2>2, <3>1, ConstantsAssumption DEF read_state, RecordHonest
    <3>3. call' \in [Callers -> CallType]
      BY <1>0, <3>2 DEF Finish, CallType, CallPC, Results
    <3>4. /\ call'[c].pc = "done" /\ call'[c].sid = call[c].sid /\ call'[c].seen = r
          /\ call'[c].todo = call[c].todo /\ call'[c].ep = call[c].ep /\ call'[c].result = res
      BY <1>0, <3>2 DEF Finish, CallType
    <3>5. CallOK(c)'
      <4>1. Honest(call[c].sid, call[c].seen)'
        BY <3>1, <3>2, <3>4 DEF Honest, WriterOf, daemonVars
      <4>2. \A t \in call'[c].todo :
              /\ t.sid # call'[c].sid /\ pc'[t.pid] # "none"
              /\ job'[t.pid] = [sid |-> t.sid, ep |-> call'[c].ep]
        BY <1>0, <3>1, <3>4 DEF CallOK, daemonVars
      <4> QED BY <3>1, <3>2, <3>4, <4>1, <4>2, ConstantsAssumption DEF CallOK
    <3> QED BY <3>1, <3>2, <3>3, <3>5, QuietStep DEF Finish
  <2> QED BY <1>5, <2>1, <2>2 DEF AwaitVerdict, AwaitTimeout, STATE_ATTACHED
<1>6. CASE DetachRemove(c) \/ Return(c)
  <2>1. CASE DetachRemove(c)
    <3>1. call[c].sid \in Sessions
      BY <1>0, <2>1 DEF DetachRemove, At, CallOK
    <3> QED BY <2>1, <3>1, IdleOK, QuietStep DEF DetachRemove, GiveUp
  <2>2. CASE Return(c)
    BY <2>2, IdleOK, QuietStep DEF Return, GiveUp
  <2> QED BY <1>6, <2>1, <2>2
<1>7. ASSUME NEW t \in call[c].todo, ReclaimSignal(c, t) PROVE IndInv'
  <2>1. call' \in [Callers -> CallType] /\ \A d \in Callers \ {c} : call'[d] = call[d]
    BY <1>0, <1>7 DEF ReclaimSignal, CallType, CallPC
  <2>2. pc' \in [Pids -> DaemonPC] /\ stop' \subseteq Pids
    BY <1>0, <1>7 DEF ReclaimSignal, request_stop, is_pid_alive, TypeOK, DaemonPC, Target
  <2>3. TypeOK'
    BY <1>7, <2>1, <2>2 DEF ReclaimSignal, TypeOK, CallType
  <2>4. JobInv'
    BY <1>0, <1>7 DEF ReclaimSignal, request_stop, is_pid_alive, JobInv, TypeOK, Target
  <2>5. RecordHonest'
    BY <1>7, RecordStable DEF ReclaimSignal
  <2>6. CallOK(c)'
    <3>1. /\ call'[c].pc = "rwait" /\ call'[c].sid = call[c].sid /\ call'[c].seen = call[c].seen
          /\ call'[c].todo = call[c].todo /\ call'[c].ep = call[c].ep /\ call'[c].on = t
      BY <1>0, <1>7 DEF ReclaimSignal, CallType
    <3>2. call[c].seen # None => Honest(call[c].sid, call[c].seen)'
      <4>1. PICK s, r : s = call[c].sid /\ r = call[c].seen
        OBVIOUS
      <4>2. r # None => Honest(s, r)'
        BY <1>0, <4>1, HonestStable DEF CallOK
      <4> QED BY <3>1, <4>1, <4>2 DEF Honest, WriterOf
    <3>3. \A u \in call[c].todo :
            pc'[u.pid] # "none" /\ job'[u.pid] = [sid |-> u.sid, ep |-> call[c].ep]
      BY <1>0 DEF CallOK, Monotone, Target
    <3> QED BY <1>0, <1>7, <3>1, <3>2, <3>3 DEF CallOK, ReclaimSignal, At
  <2> QED BY <2>1, <2>3, <2>4, <2>5, <2>6, OtherCalls
<1>8. CASE Spawn(c)
  <2>1. CASE GiveUp(c) /\ UNCHANGED <<pc, job>>
    BY <1>8, <2>1, IdleOK, QuietStep DEF Spawn, GiveUp, daemonVars
  <2>2. ASSUME NEW p \in Pids, pc[p] = "none", pc' = [pc EXCEPT ![p] = "forked"],
               job' = [job EXCEPT ![p] = [sid |-> call[c].sid, ep |-> call[c].ep]],
               call' = [call EXCEPT ![c].pc = "fallback", ![c].on = [sid |-> call[c].sid, pid |-> p]],
               UNCHANGED <<file, stop, slot, authed>>
        PROVE  IndInv'
    <3>0. call[c].sid \in Sessions /\ call[c].ep \in Endpoints /\ call[c].todo = {}
      BY <1>0, <1>8 DEF Spawn, At, CallOK
    <3>1. call' \in [Callers -> CallType] /\ \A d \in Callers \ {c} : call'[d] = call[d]
      BY <1>0, <2>2, <3>0 DEF CallType, CallPC, Target
    <3>2. TypeOK'
      BY <2>2, <3>0, <3>1 DEF TypeOK, CallType, DaemonPC, Config
    <3>3. JobInv'
      BY <2>2, <3>0 DEF JobInv, TypeOK, Config
    <3>4. RecordHonest'
      BY <2>2, RecordStable
    <3>5. CallOK(c)'
      <4>1. /\ call'[c].pc = "fallback" /\ call'[c].sid = call[c].sid /\ call'[c].seen = call[c].seen
            /\ call'[c].todo = {} /\ call'[c].ep = call[c].ep
            /\ call'[c].on = [sid |-> call[c].sid, pid |-> p]
        BY <1>0, <2>2, <3>0 DEF CallType
      <4>2. call[c].seen # None => Honest(call[c].sid, call[c].seen)'
        <5>1. PICK s, r : s = call[c].sid /\ r = call[c].seen
          OBVIOUS
        <5>2. r # None => Honest(s, r)'
          BY <1>0, <5>1, HonestStable DEF CallOK
        <5> QED BY <4>1, <5>1, <5>2 DEF Honest, WriterOf
      <4> QED BY <2>2, <3>0, <4>1, <4>2 DEF CallOK, Target, TypeOK
    <3> QED BY <3>1, <3>2, <3>3, <3>4, <3>5, OtherCalls
  <2> QED BY <1>8, <2>1, <2>2 DEF Spawn
<1>9. CASE FallbackCreate(c) \/ FallbackFill(c)
  <2>0. /\ call[c].sid \in Sessions /\ call[c].ep \in Endpoints /\ call[c].on \in Target
        /\ pc[call[c].on.pid] # "none" /\ call[c].on.pid \in Pids
        /\ job[call[c].on.pid] = [sid |-> call[c].sid, ep |-> call[c].ep]
        /\ UNCHANGED daemonVars
    BY <1>0, <1>9 DEF FallbackCreate, FallbackFill, At, CallOK, Target
  <2>1. call' \in [Callers -> CallType] /\ \A d \in Callers \ {c} : call'[d] = call[d]
    BY <1>0, <1>9 DEF FallbackCreate, FallbackFill, CallType, CallPC
  <2>2. TypeOK'
    BY <1>9, <2>0, <2>1 DEF FallbackCreate, FallbackFill, TypeOK, CallType, daemonVars, Record, States
  <2>3. JobInv'
    BY <2>0 DEF JobInv, daemonVars
  <2>4. \A s \in Sessions : \/ file'[s] = file[s] \/ file'[s] \notin Record \/ Honest(s, file[s])'
    BY <1>9, <2>0, ConstantsAssumption DEF FallbackCreate, FallbackFill, TypeOK, Honest, WriterOf,
       daemonVars, STATE_STARTING, STATE_ATTACHED, STATE_DETACHED, STATE_ERROR, TERMINAL_STATES
  <2>5. RecordHonest'
    BY <2>4, RecordStable
  <2>6. CallOK(c)'
    <3>1. /\ call'[c].pc \in {"fill", "await"} /\ call'[c].sid = call[c].sid
          /\ call'[c].seen = call[c].seen /\ call'[c].todo = call[c].todo
          /\ call'[c].ep = call[c].ep /\ call'[c].on = call[c].on
      BY <1>0, <1>9 DEF FallbackCreate, FallbackFill, CallType
    <3>2. call[c].seen # None => Honest(call[c].sid, call[c].seen)'
      BY <1>0, <2>0, <3>1 DEF CallOK, Honest, WriterOf, daemonVars
    <3>3. \A t \in call'[c].todo :
            /\ t.sid # call'[c].sid /\ pc'[t.pid] # "none"
            /\ job'[t.pid] = [sid |-> t.sid, ep |-> call'[c].ep]
      BY <1>0, <2>0, <3>1 DEF CallOK, daemonVars
    <3>4. /\ call'[c].sid \in Sessions /\ call'[c].ep \in Endpoints
          /\ call'[c].on \in Target /\ pc'[call'[c].on.pid] # "none"
          /\ job'[call'[c].on.pid] = [sid |-> call'[c].sid, ep |-> call'[c].ep]
      BY <1>0, <1>9, <2>0, <3>1 DEF FallbackCreate, FallbackFill, At, CallOK, daemonVars
    <3> QED BY <3>1, <3>2, <3>3, <3>4 DEF CallOK
  <2> QED BY <2>1, <2>2, <2>3, <2>5, <2>6, OtherCalls
<1> QED
  BY <1>1, <1>2, <1>3, <1>4, <1>5, <1>6, <1>7, <1>8, <1>9 DEF CallerStep

\* A new call reads, and a detach may signal.
LEMMA NewCallInv ==
    ASSUME IndInv, NEW c \in Callers, NewCall(c), Monotone
    PROVE  IndInv'
<1> USE DEF IndInv
<1>1. ASSUME NEW s \in Sessions, NEW e \in Endpoints, AttachLookup(c, s, e) PROVE IndInv'
  <2>1. CallOK(c)' /\ call' \in [Callers -> CallType]
    <3>1. CASE Begin(c, "done", s, e, "unchanged")
      BY <3>1, BeginOK DEF CallPC, Results
    <3>2. CASE read_state(s) # None /\ Begin(c, "stale", s, e, None)
      BY <3>2, BeginOK DEF CallPC
    <3>3. CASE Begin(c, "plan", s, e, None)
      BY <3>3, BeginOK DEF CallPC
    <3> QED BY <1>1, <3>1, <3>2, <3>3 DEF AttachLookup
  <2>2. \A d \in Callers \ {c} : call'[d] = call[d]
    BY <1>1 DEF AttachLookup, Begin, TypeOK
  <2> QED BY <1>1, <2>1, <2>2, QuietStep DEF AttachLookup
<1>2. ASSUME NEW s \in Sessions, DetachLookup(c, s) PROVE IndInv'
  <2>1. CallOK(c)' /\ call' \in [Callers -> CallType]
    <3>1. CASE Begin(c, "dremove", s, None, None)
      BY <3>1, BeginOK DEF CallPC
    <3>2. CASE read_state(s) # None /\ Begin(c, "dwait", s, None, None)
      BY <3>2, BeginOK DEF CallPC
    <3> QED BY <1>2, <3>1, <3>2 DEF DetachLookup
  <2>2. \A d \in Callers \ {c} : call'[d] = call[d]
    BY <1>2 DEF DetachLookup, Begin, TypeOK
  <2>3. TypeOK'
    BY <1>2, <2>1 DEF DetachLookup, request_stop, is_pid_alive, TypeOK, CallType, DaemonPC
  <2>4. JobInv'
    BY <1>2 DEF DetachLookup, request_stop, is_pid_alive, JobInv, TypeOK
  <2>5. RecordHonest'
    BY <1>2, RecordStable DEF DetachLookup
  <2> QED BY <2>1, <2>2, <2>3, <2>4, <2>5, OtherCalls
<1> QED BY <1>1, <1>2 DEF NewCall

\* Deaths of processes and calls, and the BMC's other clients.
LEMMA FaultInv ==
    ASSUME IndInv, Monotone,
           \/ \E p \in Pids : Killed(p)
           \/ \E c \in Callers : CallerDies(c)
           \/ \E e \in Endpoints : ForeignClient(e) \/ BmcReset(e)
           \/ HostLoss
    PROVE  IndInv'
<1> USE DEF IndInv
<1>1. ASSUME NEW c \in Callers, CallerDies(c) PROVE IndInv'
  BY <1>1, IdleOK, QuietStep DEF CallerDies, GiveUp
<1>2. CASE \/ \E p \in Pids : Killed(p)
           \/ \E e \in Endpoints : ForeignClient(e) \/ BmcReset(e)
  <2>1. TypeOK'
    BY <1>2 DEF Killed, ForeignClient, BmcReset, Released, is_pid_alive, TypeOK, DaemonPC
  <2>2. JobInv'
    BY <1>2 DEF Killed, ForeignClient, BmcReset, is_pid_alive, JobInv, TypeOK
  <2>3. RecordHonest'
    BY <1>2, RecordStable DEF Killed, ForeignClient, BmcReset
  <2>4. \A c \in Callers : CallOK(c)'
    BY <1>2, CallStable DEF Killed, ForeignClient, BmcReset
  <2> QED BY <2>1, <2>2, <2>3, <2>4
<1>3. CASE HostLoss
  <2>1. TypeOK'
    BY <1>3 DEF HostLoss, TypeOK, DaemonPC, Idle, CallPC
  <2>2. JobInv'
    BY <1>3 DEF HostLoss, JobInv, TypeOK
  <2>3. RecordHonest'
    BY <1>3, RecordStable DEF HostLoss
  <2>4. \A c \in Callers : CallOK(c)'
    BY <1>3 DEF HostLoss, CallOK, Idle
  <2> QED BY <2>1, <2>2, <2>3, <2>4
<1> QED BY <1>1, <1>2, <1>3

LEMMA StepInv == IndInv /\ [Next]_vars => IndInv'
<1> SUFFICES ASSUME IndInv, [Next]_vars PROVE IndInv'
  OBVIOUS
<1>1. Monotone
  BY NextMonotone DEF IndInv
<1>2. CASE UNCHANGED vars
  <2>1. TypeOK' /\ JobInv' /\ RecordHonest'
    BY <1>2 DEF IndInv, vars, TypeOK, JobInv, RecordHonest, read_state, Honest, WriterOf
  <2>2. \A c \in Callers : CallOK(c)'
    BY <1>1, <1>2, CallStable DEF IndInv, vars
  <2> QED BY <2>1, <2>2 DEF IndInv
<1>3. CASE Next
  BY <1>1, <1>3, DaemonInv, CallerInv, NewCallInv, FaultInv DEF Next
<1> QED BY <1>2, <1>3

----------------------------------------------------------------------------
(* The theorems.                                                           *)

\* Every reachable state is well formed, and everything a state file or a
\* call in progress says of a daemon is true of it.
THEOREM Invariance == Spec => []IndInv
BY InitInv, StepInv, PTL DEF Spec

\* Type correctness of the model of asmb8_media and its daemons.
THEOREM TypeCorrect == Spec => []TypeOK
<1>1. IndInv => TypeOK
  BY DEF IndInv
<1> QED BY <1>1, Invariance, PTL

\* A published record never claims more than its daemon has reached.
THEOREM RecordsAreHonest == Spec => []RecordHonest
<1>1. IndInv => RecordHonest
  BY DEF IndInv
<1> QED BY <1>1, Invariance, PTL

\* A reported attach rests on a daemon the BMC acknowledged.
THEOREM AttachIsConfirmed == Spec => []AttachConfirmed
<1>1. IndInv => AttachConfirmed
  <2> SUFFICES ASSUME IndInv, NEW c \in Callers, At(c, "done"), call[c].result = "attached"
               PROVE  call[c].seen.pid \in authed /\ job[call[c].seen.pid].sid = call[c].sid
    BY DEF AttachConfirmed
  <2>1. Honest(call[c].sid, call[c].seen) /\ call[c].seen.state = STATE_ATTACHED
    BY DEF IndInv, CallOK, At
  <2> QED BY <2>1 DEF Honest, WriterOf
<1> QED BY <1>1, Invariance, PTL

\* Reclamation signals only daemons of other sessions on its own endpoint.
THEOREM ReclamationIsScoped == Spec => []ReclaimScoped
<1>1. IndInv => ReclaimScoped
  <2> SUFFICES ASSUME IndInv, NEW c \in Callers, call[c].pc \in {"rwait", "rremove"}
               PROVE  /\ job[call[c].on.pid] = [sid |-> call[c].on.sid, ep |-> call[c].ep]
                      /\ call[c].on.sid # call[c].sid
    BY DEF ReclaimScoped
  <2> QED BY DEF IndInv, CallOK
<1> QED BY <1>1, Invariance, PTL

\* The published state of a daemon only moves forward, whichever of its two
\* writers comes last, and a terminal record of it is final.
THEOREM RecordsNeverRegress == Spec => RecordNeverRegresses
<1>1. ASSUME IndInv, [Next]_vars PROVE \A s \in Sessions : NoRegress(s)
  <2> SUFFICES ASSUME NEW s \in Sessions, file[s] \in Record, file'[s] \in Record,
                      file'[s].pid = file[s].pid, file'[s] # file[s]
               PROVE  /\ Rank[file'[s].state] >= Rank[file[s].state]
                      /\ file[s].state \notin TERMINAL_STATES
    <3>1. \A r \in Record : Rank[r.state] >= Rank[r.state]
      BY DEF Rank, Record, States, TERMINAL_STATES, STATE_STARTING, STATE_CONNECTING,
         STATE_ATTACHED, STATE_DETACHED, STATE_ERROR
    <3> QED BY <3>1 DEF NoRegress
  <2>1. WriterOf(file[s].pid, file[s].state)
    BY <1>1, ConstantsAssumption DEF IndInv, RecordHonest, read_state, Honest
  <2>2. ASSUME NEW c \in Callers, CallerStep(c) PROVE FALSE
    BY <1>1, <2>2, ConstantsAssumption DEF IndInv, TypeOK, CallerStep, RecoverStale, AttachPlan,
       ReclaimSignal, ReclaimWait, ReclaimRemove, Spawn, FallbackCreate, FallbackFill,
       AwaitVerdict, AwaitTimeout, DetachWait, DetachRemove, Return, remove_state
  <2>3. ASSUME NEW p \in Pids, DaemonStep(p)
        PROVE  /\ Rank[file'[s].state] >= Rank[file[s].state]
               /\ file[s].state \notin TERMINAL_STATES
    <3>1. PICK st \in States :
            /\ Persist(p, st)
            /\ pc[p] \notin {"forked", "starting"} =>
                  st \in {STATE_ATTACHED, STATE_DETACHED, STATE_ERROR}
      BY <2>3 DEF DaemonStep, ClaimStateFile, Fail, OpenImage, Connect, ReportAttached,
         CheckStop, ServeOne, PeerEnds, ReadBreaks, CloseAndExit, Advance, States, TERMINAL_STATES
    <3>2. job[p].sid = s /\ file'[s].state = st /\ file[s].pid = p
      BY <1>1, <3>1 DEF Persist, IndInv, TypeOK
    <3>3. pc[p] \notin {"closing", "gone"} /\ file[s].state \notin TERMINAL_STATES
      BY <2>1, <2>3, <3>2 DEF DaemonStep, ClaimStateFile, Fail, OpenImage, Connect, ReportAttached,
         CheckStop, ServeOne, PeerEnds, ReadBreaks, CloseAndExit, Advance, WriterOf
    <3>4. pc[p] \in {"forked", "starting"} => file[s].state = STATE_STARTING
      BY <2>1, <3>2 DEF WriterOf
    <3>5. file[s].state \in {STATE_STARTING, STATE_CONNECTING, STATE_ATTACHED}
      BY <3>3 DEF Record, States, TERMINAL_STATES
    <3>6. CASE file[s].state = STATE_STARTING
      BY <3>2, <3>3, <3>6 DEF Rank, States, TERMINAL_STATES, STATE_STARTING,
         STATE_CONNECTING, STATE_ATTACHED, STATE_DETACHED, STATE_ERROR
    <3>7. CASE file[s].state # STATE_STARTING
      <4>1. st \in {STATE_ATTACHED, STATE_DETACHED, STATE_ERROR}
        BY <3>1, <3>4, <3>7
      <4> QED
        BY <3>2, <3>3, <3>5, <4>1 DEF Rank, States, TERMINAL_STATES, STATE_STARTING,
           STATE_CONNECTING, STATE_ATTACHED, STATE_DETACHED, STATE_ERROR
    <3> QED BY <3>6, <3>7
  <2>4. ASSUME \/ \E p \in Pids : Killed(p)
               \/ \E c \in Callers : NewCall(c) \/ CallerDies(c)
               \/ \E e \in Endpoints : ForeignClient(e) \/ BmcReset(e)
               \/ HostLoss \/ UNCHANGED vars
        PROVE  FALSE
    BY <2>4 DEF Killed, NewCall, AttachLookup, DetachLookup, CallerDies, ForeignClient,
       BmcReset, HostLoss, vars
  <2> QED BY <1>1, <2>2, <2>3, <2>4 DEF Next
<1> QED BY <1>1, Invariance, PTL DEF Spec, RecordNeverRegresses
=============================================================================
