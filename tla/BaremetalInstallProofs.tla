----------------------- MODULE BaremetalInstallProofs -----------------------
(***************************************************************************)
(* BaremetalInstall, for any number of ids, interruptions and re-runs.     *)
(*                                                                         *)
(* The argument: inside the block the fact and the file are one and the    *)
(* same (RunIsFile), so an interruption loses nothing.  A play gets past   *)
(* state.yml only with everything settled, and what it then does to the    *)
(* flags is tied to the task it has reached (FlagsByTask), in particular   *)
(* boot_armed is on file before the boot command goes out.  Up to its      *)
(* attach a play finds no recorded daemon under the id on file unless an   *)
(* earlier one was cut off (Released).                                     *)
(***************************************************************************)
EXTENDS BaremetalInstall, TLAPS

\* The tasks between state.yml and the boot command.
BeforeArmed == {"probe", "origin", "save_origin", "build", "claim", "attach",
                "save_attached", "arm", "save_armed"}

RunIsFile ==
    IF pc \in {"idle", "state"} THEN run = None
                                ELSE file \in RunState /\ run = file

FlagsByTask ==
    /\ pc \in BeforeArmed => ~unsettled /\ ~file.reset_confirmed
    /\ pc = "reset" => ~unsettled /\ Uncertain(file)
    /\ pc \in {"save_reset", "uncertain", "observe"} => Uncertain(file)

Claimed ==
    pc = "attach" => file.session_id \in Sessions

Started ==
    pc = "save_origin" => started \in Origins

\* The tasks of a play up to its attach.
UpToAttach == {"idle", "state", "probe", "origin", "save_origin", "build", "claim", "attach"}

Released ==
    /\ pc \in UpToAttach /\ last # "crashed" /\ file # None => file.session_id \notin daemons
    /\ pc \in {"idle", "state"} /\ last \in {"completed", "failed"} => file # None
    /\ pc \in {"save_detached", "stop_origin"} => file.session_id \notin daemons

IInv == TypeOK /\ RunIsFile /\ UnsettledIsOnFile /\ FlagsByTask /\ Claimed
            /\ Started /\ Released

\* Nothing is known at first, and nothing is unsettled.
LEMMA InitIInv == Init => IInv
  BY IdsAssumption DEF Init, IInv, TypeOK, RunIsFile, UnsettledIsOnFile, FlagsByTask,
     Claimed, Started, Released, UpToAttach, BeforeArmed, Options

\* state.yml starts from a run state.
LEMMA PriorIsRunState ==
  ASSUME TypeOK
  PROVE  /\ prior_state \in RunState /\ clean_slate \in RunState
         /\ ~clean_slate.reset_confirmed
         /\ UnsettledIsOnFile /\ unsettled => Uncertain(clean_slate)
         /\ clean_slate.session_id # None => file # None /\ clean_slate.session_id = file.session_id
  BY IdsAssumption DEF TypeOK, prior_state, clean_slate, RunState, Uncertain,
     UnsettledIsOnFile, asmb8_baremetal_install_default_state

\* state.yml.
LEMMA ReconcileKeeps == IInv /\ Reconcile => IInv'
  <1> SUFFICES ASSUME IInv, Reconcile PROVE IInv'
    OBVIOUS
  <1>p. /\ prior_state \in RunState /\ clean_slate \in RunState
        /\ ~clean_slate.reset_confirmed
        /\ unsettled => Uncertain(clean_slate)
        /\ clean_slate.session_id # None => file # None /\ clean_slate.session_id = file.session_id
    BY PriorIsRunState DEF IInv
  <1>1. CASE RefuseResume
    BY <1>1, IdsAssumption DEF IInv, RefuseResume, End, TypeOK, RunIsFile, UnsettledIsOnFile,
       FlagsByTask, Claimed, Started, Released, UpToAttach, BeforeArmed, bmcVars, Tasks
  <1>2. CASE LoadState
    <2>a. PICK s \in RunState : /\ s = clean_slate /\ ~s.reset_confirmed
                                /\ unsettled => Uncertain(s)
      BY <1>p
    <2>b. [s EXCEPT !.boot_armed = FALSE, !.reset_issued = FALSE] \in RunState
      BY DEF RunState
    <2>c. ~[s EXCEPT !.boot_armed = FALSE, !.reset_issued = FALSE].reset_confirmed
      BY <2>a DEF RunState
    <2>d. pc' = "probe" /\ ~unsettled'
      BY <1>2, <2>a DEF LoadState, Goto
    <2>e. [s EXCEPT !.boot_armed = FALSE, !.reset_issued = FALSE].session_id = s.session_id
      BY DEF RunState
    <2>1. PICK r \in RunState : /\ ~r.reset_confirmed /\ run' = r /\ file' = r
                                /\ r.session_id = s.session_id
      <3>1. CASE Uncertain(s)
        BY <1>2, <2>a, <2>b, <2>c, <2>e, <3>1 DEF LoadState, save_state
      <3>2. CASE ~Uncertain(s)
        BY <1>2, <2>a, <3>2 DEF LoadState, save_state
      <3> QED BY <3>1, <3>2
    <2>2. Released'
      <3>1. last' = last /\ daemons' = daemons /\ None \notin daemons
        BY <1>2, IdsAssumption DEF IInv, TypeOK, LoadState, Goto, procVars
      <3>2. last # "crashed" => r.session_id \notin daemons
        BY <1>2, <1>p, <2>a, <2>1, <3>1 DEF IInv, Released, UpToAttach, LoadState
      <3> QED BY <2>d, <2>1, <3>1, <3>2 DEF Released, UpToAttach
    <2> QED
      BY <1>2, <2>d, <2>1, <2>2, IdsAssumption DEF IInv, LoadState, Goto, TypeOK, RunIsFile,
         UnsettledIsOnFile, FlagsByTask, Claimed, Started, BeforeArmed, procVars, Tasks
  <1> QED BY <1>1, <1>2 DEF Reconcile


\* Up to the attach, nothing touches the flags.
LEMMA DeliverKeeps == IInv /\ Deliver => IInv'
  <1> SUFFICES ASSUME IInv, Deliver PROVE IInv'
    OBVIOUS
  <1>1. CASE Probe
    <2>1. failing' \in BOOLEAN
      BY <1>1 DEF IInv, TypeOK, Probe, Goto, Fail, procVars, bmcVars
    <2>2. TypeOK'
      BY <1>1, <2>1, IdsAssumption DEF IInv, TypeOK, RunIsFile, Claimed, Tasks, Probe, Goto, Fail, procVars, bmcVars
    <2> QED
      BY <1>1, <2>2, IdsAssumption DEF IInv, RunIsFile, UnsettledIsOnFile, FlagsByTask,
         Claimed, Started, Released, UpToAttach, BeforeArmed, Uncertain, Probe, Goto, Fail, procVars, bmcVars
  <1>2. CASE \E o \in Origins : StartOrigin(o)
    <2>1. failing' \in BOOLEAN
      BY <1>2 DEF IInv, TypeOK, StartOrigin, Goto, Fail, bmcVars
    <2>2. TypeOK'
      BY <1>2, <2>1, IdsAssumption DEF IInv, TypeOK, RunIsFile, Claimed, Tasks, StartOrigin, Goto, Fail, bmcVars
    <2> QED
      BY <1>2, <2>2, IdsAssumption DEF IInv, RunIsFile, UnsettledIsOnFile, FlagsByTask,
         Claimed, Started, Released, UpToAttach, BeforeArmed, Uncertain, StartOrigin, Goto, Fail, bmcVars
  <1>3. CASE SaveOrigin
    <2>1. PICK r \in RunState : r = run
      BY <1>3, IdsAssumption DEF IInv, RunIsFile, SaveOrigin
    <2>2. PICK q \in RunState : q = [r EXCEPT !.ipxe_origin_session_id = started]
      BY <1>3, <2>1 DEF IInv, Started, RunState, SaveOrigin
    <2>3. run' = q /\ file' = q
      BY <1>3, <2>1, <2>2 DEF SaveOrigin, save_state
    <2>4. q.boot_armed = r.boot_armed /\ q.reset_confirmed = r.reset_confirmed /\ q.session_id = r.session_id
      BY <2>2 DEF RunState
    <2>5. TypeOK'
      BY <1>3, <2>3 DEF IInv, SaveOrigin, Goto, procVars, bmcVars, TypeOK, Tasks
    <2>6. Claimed' /\ Started' /\ Released'
      BY <1>3, <2>1, <2>3, <2>4, IdsAssumption DEF IInv, SaveOrigin, Goto, procVars, TypeOK, RunIsFile,
         Claimed, Started, Released, UpToAttach
    <2> QED
      BY <1>3, <2>1, <2>3, <2>4, <2>5, <2>6, IdsAssumption DEF IInv, SaveOrigin, Goto, bmcVars, RunIsFile,
         UnsettledIsOnFile, FlagsByTask, BeforeArmed, Uncertain
  <1>4. CASE BuildBootstrap
    <2>1. failing' \in BOOLEAN
      BY <1>4 DEF IInv, TypeOK, BuildBootstrap, Goto, Fail, procVars, bmcVars
    <2>2. TypeOK'
      BY <1>4, <2>1, IdsAssumption DEF IInv, TypeOK, RunIsFile, Claimed, Tasks, BuildBootstrap, Goto, Fail, procVars, bmcVars
    <2> QED
      BY <1>4, <2>2, IdsAssumption DEF IInv, RunIsFile, UnsettledIsOnFile, FlagsByTask,
         Claimed, Started, Released, UpToAttach, BeforeArmed, Uncertain, BuildBootstrap, Goto, Fail, procVars, bmcVars
  <1>5. CASE \E s \in Sessions : ClaimSession(s)
    <2>0. PICK s \in Sessions : ClaimSession(s)
      BY <1>5
    <2>1. PICK r \in RunState : r = run
      BY <2>0, IdsAssumption DEF IInv, RunIsFile, ClaimSession
    <2>2. PICK q \in RunState : q = [r EXCEPT !.session_id = s]
      BY DEF RunState
    <2>3. run' = q /\ file' = q
      BY <2>0, <2>1, <2>2 DEF ClaimSession, save_state
    <2>4. q.boot_armed = r.boot_armed /\ q.reset_confirmed = r.reset_confirmed /\ q.session_id = s
      BY <2>2 DEF RunState
    <2>5. Released'
      <3>1. last # "crashed" => s \notin daemons
        BY <2>0, <2>1, IdsAssumption DEF IInv, RunIsFile, Released, UpToAttach, ClaimSession, Live
      <3> QED BY <2>0, <2>3, <2>4, <3>1 DEF ClaimSession, Goto, procVars, Released, UpToAttach
    <2> QED
      BY <2>0, <2>1, <2>2, <2>3, <2>4, <2>5, IdsAssumption DEF IInv, ClaimSession, Goto, procVars, bmcVars, TypeOK, RunIsFile,
       UnsettledIsOnFile, FlagsByTask, Claimed, Started, BeforeArmed, Tasks, Uncertain
  <1>6. CASE AttachMedia
    <2>1. failing' \in BOOLEAN
      BY <1>6 DEF IInv, TypeOK, AttachMedia, Goto, Fail, bmcVars
    <2>2. TypeOK'
      BY <1>6, <2>1, IdsAssumption DEF IInv, TypeOK, RunIsFile, Claimed, Tasks, AttachMedia, Goto, Fail, bmcVars
    <2> QED
      BY <1>6, <2>2, IdsAssumption DEF IInv, RunIsFile, UnsettledIsOnFile, FlagsByTask,
         Claimed, Started, Released, UpToAttach, BeforeArmed, Uncertain, AttachMedia, Goto, Fail, bmcVars
  <1>7. CASE SaveAttached
    <2>1. PICK r \in RunState : r = run
      BY <1>7, IdsAssumption DEF IInv, RunIsFile, SaveAttached
    <2>2. PICK q \in RunState : q = [r EXCEPT !.media_attached = TRUE]
      BY <1>7, <2>1 DEF IInv, Started, RunState, SaveAttached
    <2>3. run' = q /\ file' = q
      BY <1>7, <2>1, <2>2 DEF SaveAttached, save_state
    <2>4. q.boot_armed = r.boot_armed /\ q.reset_confirmed = r.reset_confirmed /\ q.session_id = r.session_id
      BY <2>2 DEF RunState
    <2>5. TypeOK'
      BY <1>7, <2>3 DEF IInv, SaveAttached, Goto, procVars, bmcVars, TypeOK, Tasks
    <2>6. Claimed' /\ Started' /\ Released'
      BY <1>7, <2>1, <2>3, <2>4, IdsAssumption DEF IInv, SaveAttached, Goto, procVars, TypeOK, RunIsFile,
         Claimed, Started, Released, UpToAttach
    <2> QED
      BY <1>7, <2>1, <2>3, <2>4, <2>5, <2>6, IdsAssumption DEF IInv, SaveAttached, Goto, bmcVars, RunIsFile,
         UnsettledIsOnFile, FlagsByTask, BeforeArmed, Uncertain
  <1> QED BY <1>1, <1>2, <1>3, <1>4, <1>5, <1>6, <1>7 DEF Deliver

\* boot_armed goes on file before the command, and reset_confirmed only after
\* a probe.
LEMMA BootKeeps == IInv /\ Boot => IInv'
  <1> SUFFICES ASSUME IInv, Boot PROVE IInv'
    OBVIOUS
  <1>1. CASE ArmBoot
    <2>1. failing' \in BOOLEAN /\ armed' \in BOOLEAN
      BY <1>1 DEF IInv, TypeOK, ArmBoot, Goto, Fail, procVars
    <2>a. /\ pc' \in {"save_armed", "rescue"}
          /\ UNCHANGED <<file, run, opts, last, daemons, leaving, origins, started, host, unsettled>>
      BY <1>1 DEF ArmBoot, Goto, Fail, procVars
    <2>2. TypeOK'
      BY <2>1, <2>a DEF IInv, TypeOK, Tasks
    <2> QED
      BY <1>1, <2>2, IdsAssumption DEF IInv, RunIsFile, UnsettledIsOnFile, FlagsByTask,
         Claimed, Started, Released, UpToAttach, BeforeArmed, Uncertain, ArmBoot, Goto, Fail, procVars
  <1>2. CASE SaveArmed
    <2>1. PICK r \in RunState : r = run
      BY <1>2, IdsAssumption DEF IInv, RunIsFile, SaveArmed
    <2>2. PICK q \in RunState : q = [r EXCEPT !.boot_armed = TRUE]
      BY <1>2, <2>1 DEF IInv, Started, RunState, SaveArmed
    <2>3. run' = q /\ file' = q
      BY <1>2, <2>1, <2>2 DEF SaveArmed, save_state
    <2>4. q.boot_armed /\ q.reset_confirmed = r.reset_confirmed /\ q.session_id = r.session_id
      BY <2>2 DEF RunState
    <2>5. TypeOK'
      BY <1>2, <2>3 DEF IInv, SaveArmed, Goto, procVars, bmcVars, TypeOK, Tasks
    <2>6. Claimed' /\ Started' /\ Released'
      BY <1>2, <2>1, <2>3, <2>4, IdsAssumption DEF IInv, SaveArmed, Goto, procVars, TypeOK, RunIsFile,
         Claimed, Started, Released, UpToAttach
    <2> QED
      BY <1>2, <2>1, <2>3, <2>4, <2>5, <2>6, IdsAssumption DEF IInv, SaveArmed, Goto, bmcVars, RunIsFile,
         UnsettledIsOnFile, FlagsByTask, BeforeArmed, Uncertain
  <1>3. CASE IssueBoot
    <2>1. /\ pc = "reset" /\ pc' \in {"save_reset", "uncertain"}
          /\ UNCHANGED <<file, run, opts, last, daemons, leaving, origins, started>>
      BY <1>3 DEF IssueBoot, Goto, procVars
    <2>2. failing' \in BOOLEAN
      BY <1>3 DEF IInv, TypeOK, IssueBoot, Goto
    <2>3. armed' \in BOOLEAN /\ unsettled' \in BOOLEAN
      BY <1>3 DEF IInv, TypeOK, IssueBoot, Boots, bmcVars
    <2>4. host' \in {"off", "up", "installing", "installed"}
      BY <1>3 DEF IInv, TypeOK, IssueBoot, Boots, bmcVars
    <2>5. TypeOK'
      BY <2>1, <2>2, <2>3, <2>4 DEF IInv, TypeOK, Tasks
    <2>6. RunIsFile' /\ Claimed' /\ Started' /\ Released'
      BY <2>1 DEF IInv, RunIsFile, Claimed, Started, Released, UpToAttach
    <2>7. UnsettledIsOnFile' /\ FlagsByTask'
      BY <2>1, IdsAssumption DEF IInv, RunIsFile, UnsettledIsOnFile, FlagsByTask, BeforeArmed, Uncertain
    <2> QED BY <2>5, <2>6, <2>7 DEF IInv
  <1>4. CASE SaveReset
    <2>1. PICK r \in RunState : r = run
      BY <1>4, IdsAssumption DEF IInv, RunIsFile, SaveReset
    <2>2. PICK q \in RunState : q = [r EXCEPT !.reset_issued = TRUE]
      BY <1>4, <2>1 DEF IInv, Started, RunState, SaveReset
    <2>3. run' = q /\ file' = q
      BY <1>4, <2>1, <2>2 DEF SaveReset, save_state
    <2>4. q.boot_armed = r.boot_armed /\ q.reset_confirmed = r.reset_confirmed /\ q.session_id = r.session_id
      BY <2>2 DEF RunState
    <2>5. TypeOK'
      BY <1>4, <2>3 DEF IInv, SaveReset, Goto, procVars, bmcVars, TypeOK, Tasks
    <2>6. Claimed' /\ Started' /\ Released'
      BY <1>4, <2>1, <2>3, <2>4, IdsAssumption DEF IInv, SaveReset, Goto, procVars, TypeOK, RunIsFile,
         Claimed, Started, Released, UpToAttach
    <2> QED
      BY <1>4, <2>1, <2>3, <2>4, <2>5, <2>6, IdsAssumption DEF IInv, SaveReset, Goto, bmcVars, RunIsFile,
         UnsettledIsOnFile, FlagsByTask, BeforeArmed, Uncertain
  <1>5. CASE SaveUncertain
    <2>1. PICK r \in RunState : r = run
      BY <1>5, IdsAssumption DEF IInv, RunIsFile, SaveUncertain
    <2>2. PICK q \in RunState : q = [r EXCEPT !.reset_issued = TRUE]
      BY <1>5, <2>1 DEF IInv, Started, RunState, SaveUncertain
    <2>3. run' = q /\ file' = q
      BY <1>5, <2>1, <2>2 DEF SaveUncertain, save_state
    <2>4. q.boot_armed = r.boot_armed /\ q.reset_confirmed = r.reset_confirmed /\ q.session_id = r.session_id
      BY <2>2 DEF RunState
    <2>5. TypeOK'
      BY <1>5, <2>3 DEF IInv, SaveUncertain, Goto, procVars, bmcVars, TypeOK, Tasks
    <2>6. Claimed' /\ Started' /\ Released'
      BY <1>5, <2>1, <2>3, <2>4, IdsAssumption DEF IInv, SaveUncertain, Goto, procVars, TypeOK, RunIsFile,
         Claimed, Started, Released, UpToAttach
    <2> QED
      BY <1>5, <2>1, <2>3, <2>4, <2>5, <2>6, IdsAssumption DEF IInv, SaveUncertain, Goto, bmcVars, RunIsFile,
         UnsettledIsOnFile, FlagsByTask, BeforeArmed, Uncertain
  <1>6. CASE \E on \in BOOLEAN : Observe(on)
    <2>1. CASE Observe(TRUE)
      <3>1. PICK r \in RunState : r = run
        BY <2>1, IdsAssumption DEF IInv, RunIsFile, Observe
      <3>2. PICK q \in RunState : q = [r EXCEPT !.reset_confirmed = TRUE]
        BY DEF RunState
      <3>3. run' = q /\ file' = q /\ ~unsettled'
        BY <2>1, <3>1, <3>2 DEF Observe, save_state
      <3>4. pc' \in {"release", "handoff", "detach"}
        BY <2>1 DEF Observe, Goto, AfterObserve, AfterRelease
      <3> QED
        BY <2>1, <3>1, <3>2, <3>3, <3>4, IdsAssumption DEF IInv, Observe, Goto, procVars, TypeOK, RunIsFile,
       UnsettledIsOnFile, FlagsByTask, Claimed, Started, Released, UpToAttach, BeforeArmed, Tasks, Uncertain
    <2>2. CASE Observe(FALSE)
      <3>1. run' = run /\ file' = run /\ (unsettled' = unsettled)
        BY <2>2 DEF Observe, save_state, IInv, TypeOK
      <3>2. pc' \in {"release", "handoff", "detach"}
        BY <2>2 DEF Observe, Goto, AfterObserve, AfterRelease
      <3> QED
        BY <2>2, <3>1, <3>2, IdsAssumption DEF IInv, Observe, Goto, procVars, TypeOK, RunIsFile,
       UnsettledIsOnFile, FlagsByTask, Claimed, Started, Released, UpToAttach, BeforeArmed, Tasks, Uncertain
    <2> QED BY <1>6, <2>1, <2>2
  <1> QED BY <1>1, <1>2, <1>3, <1>4, <1>5, <1>6 DEF Boot

\* The rest leaves boot_armed and reset_confirmed alone.
LEMMA FinishKeeps == IInv /\ Finish => IInv'
  <1> SUFFICES ASSUME IInv, Finish PROVE IInv'
    OBVIOUS
  <1>1. CASE DetachMedia("release", "save_released")
    BY <1>1, IdsAssumption DEF IInv, DetachMedia, Goto, bmcVars, TypeOK, RunIsFile,
       UnsettledIsOnFile, FlagsByTask, Claimed, Started, Released, UpToAttach, BeforeArmed, Tasks, Uncertain
  <1>2. ASSUME NEW task \in AfterRelease, SaveDetached("save_released", task) PROVE IInv'
    <2>a. task \in {"handoff", "detach"}
      BY DEF AfterRelease
    <2>1. PICK r \in RunState : r = run
      BY <1>2, IdsAssumption DEF IInv, RunIsFile, SaveDetached
    <2>2. PICK q \in RunState : q = IF r.session_id = None THEN r ELSE [r EXCEPT !.detached = TRUE]
      BY DEF RunState
    <2>3. run' = q /\ file' = q
      BY <1>2, <2>1, <2>2 DEF SaveDetached, save_state
    <2>4. q.boot_armed = r.boot_armed /\ q.reset_confirmed = r.reset_confirmed /\ q.session_id = r.session_id
      BY <2>2 DEF RunState
    <2>5. TypeOK'
      BY <1>2, <2>a, <2>3 DEF IInv, SaveDetached, Goto, procVars, bmcVars, TypeOK, Tasks
    <2>6. Claimed' /\ Started' /\ Released'
      BY <1>2, <2>a, <2>1, <2>3, <2>4, IdsAssumption DEF IInv, SaveDetached, Goto, procVars, TypeOK, RunIsFile,
         Claimed, Started, Released, UpToAttach
    <2> QED
      BY <1>2, <2>a, <2>1, <2>3, <2>4, <2>5, <2>6, IdsAssumption DEF IInv, SaveDetached, Goto, bmcVars, RunIsFile,
         UnsettledIsOnFile, FlagsByTask, BeforeArmed, Uncertain
  <1>3. CASE WaitForHandoff
    <2>1. failing' \in BOOLEAN
      BY <1>3 DEF IInv, TypeOK, WaitForHandoff, Goto, Fail, procVars, bmcVars
    <2>2. TypeOK'
      BY <1>3, <2>1, IdsAssumption DEF IInv, TypeOK, RunIsFile, Claimed, Tasks, WaitForHandoff, Goto, Fail, procVars, bmcVars
    <2> QED
      BY <1>3, <2>2, IdsAssumption DEF IInv, RunIsFile, UnsettledIsOnFile, FlagsByTask,
         Claimed, Started, Released, UpToAttach, BeforeArmed, Uncertain, WaitForHandoff, Goto, Fail, procVars, bmcVars
  <1>4. CASE RecordFailure
    BY <1>4, IdsAssumption DEF IInv, RecordFailure, save_state, Goto, procVars, bmcVars, TypeOK, RunIsFile,
       UnsettledIsOnFile, FlagsByTask, Claimed, Started, Released, UpToAttach, BeforeArmed, Tasks, Uncertain
  <1>5. CASE DetachMedia("detach", "save_detached")
    BY <1>5, IdsAssumption DEF IInv, DetachMedia, Goto, bmcVars, TypeOK, RunIsFile,
       UnsettledIsOnFile, FlagsByTask, Claimed, Started, Released, UpToAttach, BeforeArmed, Tasks, Uncertain
  <1>6. CASE SaveDetached("save_detached", "stop_origin")
    <2>1. PICK r \in RunState : r = run
      BY <1>6, IdsAssumption DEF IInv, RunIsFile, SaveDetached
    <2>2. PICK q \in RunState : q = IF r.session_id = None THEN r ELSE [r EXCEPT !.detached = TRUE]
      BY DEF RunState
    <2>3. run' = q /\ file' = q
      BY <1>6, <2>1, <2>2 DEF SaveDetached, save_state
    <2>4. q.boot_armed = r.boot_armed /\ q.reset_confirmed = r.reset_confirmed /\ q.session_id = r.session_id
      BY <2>2 DEF RunState
    <2>5. TypeOK'
      BY <1>6, <2>3 DEF IInv, SaveDetached, Goto, procVars, bmcVars, TypeOK, Tasks
    <2>6. Claimed' /\ Started' /\ Released'
      BY <1>6, <2>1, <2>3, <2>4, IdsAssumption DEF IInv, SaveDetached, Goto, procVars, TypeOK, RunIsFile,
         Claimed, Started, Released, UpToAttach
    <2> QED
      BY <1>6, <2>1, <2>3, <2>4, <2>5, <2>6, IdsAssumption DEF IInv, SaveDetached, Goto, bmcVars, RunIsFile,
         UnsettledIsOnFile, FlagsByTask, BeforeArmed, Uncertain
  <1>7. CASE StopOrigin
    BY <1>7, IdsAssumption DEF IInv, StopOrigin, End, Outcome, bmcVars, TypeOK, RunIsFile,
       UnsettledIsOnFile, FlagsByTask, Claimed, Started, Released, UpToAttach, BeforeArmed, Tasks, Uncertain
  <1> QED BY <1>1, <1>2, <1>3, <1>4, <1>5, <1>6, <1>7 DEF Finish

\* What goes on around a play only ever ends things.
LEMMA OutsideKeeps ==
  IInv /\ ((\E o \in Options : BeginPlay(o)) \/ Crash \/ Surroundings) => IInv'
  <1> SUFFICES ASSUME IInv, (\E o \in Options : BeginPlay(o)) \/ Crash \/ Surroundings PROVE IInv'
    OBVIOUS
  <1>1. CASE \E o \in Options : BeginPlay(o)
    BY <1>1, IdsAssumption DEF IInv, BeginPlay, procVars, bmcVars, TypeOK, RunIsFile,
       UnsettledIsOnFile, FlagsByTask, Claimed, Started, Released, UpToAttach, BeforeArmed, Tasks, Uncertain
  <1>2. CASE Crash
    BY <1>2, IdsAssumption DEF IInv, Crash, End, bmcVars, TypeOK, RunIsFile,
       UnsettledIsOnFile, FlagsByTask, Claimed, Started, Released, UpToAttach, BeforeArmed, Tasks, Uncertain
  <1>3. CASE Surroundings
    BY <1>3, IdsAssumption DEF IInv, Surroundings, DaemonEnds, OriginExpires, InstallFinishes, procVars, bmcVars, TypeOK, RunIsFile,
       UnsettledIsOnFile, FlagsByTask, Claimed, Started, Released, UpToAttach, BeforeArmed, Tasks, Uncertain
  <1> QED BY <1>1, <1>2, <1>3

LEMMA StutterKeeps == IInv /\ UNCHANGED vars => IInv'
  BY DEF IInv, vars, TypeOK, RunIsFile,
       UnsettledIsOnFile, FlagsByTask, Claimed, Started, Released, UpToAttach, BeforeArmed, Tasks, Uncertain

\* The inductive invariant holds in every reachable state.
THEOREM Invariance == Spec => []IInv
  <1>1. IInv /\ [Next]_vars => IInv'
    BY ReconcileKeeps, DeliverKeeps, BootKeeps, FinishKeeps, OutsideKeeps, StutterKeeps DEF Next
  <1> QED BY <1>1, InitIInv, PTL DEF Spec

\* Run state, processes and machine keep their types.
THEOREM TypeCorrect == Spec => []TypeOK
  BY Invariance, PTL DEF IInv

\* The file accounts for every unsettled boot command, wherever a play is cut
\* off.
THEOREM AccountIsKept == Spec => []UnsettledIsOnFile
  BY Invariance, PTL DEF IInv

\* The role never reaches its reset with an earlier one unsettled.
THEOREM NoBlindReset == Spec => []SettledBeforeReset
  <1>1. IInv => SettledBeforeReset
    BY DEF IInv, FlagsByTask, SettledBeforeReset
  <1> QED BY <1>1, Invariance, PTL

\* The always section: however plays are interrupted and re-run, one that ends
\* by itself has told every daemon under the id on file to stop and left none
\* of them on record.  That such a daemon has also exited is not claimed.
THEOREM AlwaysDetaches == Spec => []OwnSessionToldToStop
  <1>1. IInv => OwnSessionToldToStop
    BY DEF IInv, Released, UpToAttach, OwnSessionToldToStop, Live
  <1> QED BY <1>1, Invariance, PTL

\* The id of a media daemon is on file before the daemon exists.
THEOREM ClaimComesFirst == Spec => ClaimedFirst
  <1> DEFINE Born == \A s \in daemons' \ daemons : file # None /\ file.session_id = s
  <1>1. IInv /\ [Next]_vars => Born
    <2> SUFFICES ASSUME IInv, [Next]_vars, NEW s \in daemons' \ daemons
                 PROVE  file # None /\ file.session_id = s
      OBVIOUS
    <2>1. CASE AttachMedia
      BY <2>1, IdsAssumption DEF IInv, RunIsFile, AttachMedia
    <2>2. CASE ~AttachMedia
      <3>1. daemons' \subseteq daemons
        BY <2>2 DEF Next, Reconcile, Deliver, Boot, Finish, Surroundings, BeginPlay, Crash,
           RefuseResume, LoadState, Probe, StartOrigin, SaveOrigin, BuildBootstrap, ClaimSession,
           SaveAttached, ArmBoot, SaveArmed, IssueBoot, SaveReset, SaveUncertain, Observe,
           DetachMedia, SaveDetached, WaitForHandoff, RecordFailure, StopOrigin, DaemonEnds,
           OriginExpires, InstallFinishes, procVars, vars
      <3> QED BY <3>1
    <2> QED BY <2>1, <2>2
  <1> QED BY <1>1, Invariance, PTL DEF Spec, ClaimedFirst
=============================================================================
