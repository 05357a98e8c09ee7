-------------------------- MODULE BaremetalInstall --------------------------
(***************************************************************************)
(* The role asmb8_baremetal_install: one play at a time walks the phases   *)
(* of tasks/main.yml against one target, saves its run state to a file     *)
(* after each phase, and may be interrupted anywhere.  A later play has    *)
(* only that file to go by.                                                *)
(*                                                                         *)
(* A phase is two steps, the module call and the set_fact plus             *)
(* save_state.yml that follow it, because the controller can die between   *)
(* them; a module call is what its callers see of it (MediaSession and     *)
(* HttpOrigin model its inside).  last_failure is wording that nothing     *)
(* reads back, and is left out.                                            *)
(***************************************************************************)
EXTENDS Naturals

CONSTANTS
    Sessions,   \* media session ids
    Origins,    \* HTTP origin session ids
    None        \* null, and a state file that does not exist

RunState == [media_attached : BOOLEAN, session_id : Sessions \cup {None},
             boot_armed : BOOLEAN, reset_issued : BOOLEAN,
             reset_confirmed : BOOLEAN, detached : BOOLEAN,
             ipxe_origin_session_id : Origins \cup {None}]

\* The role variables that a play looks at more than once: force_resume and
\* delivery = ipxe_http.  media_release_after_handoff and wait_for_handoff are
\* looked at once each, and are a choice there (AfterObserve, AfterRelease).
Options == [force_resume : BOOLEAN, ipxe : BOOLEAN]

ASSUME IdsAssumption ==
    None \notin Sessions \cup Origins \cup RunState \cup Options

VARIABLES
    file,       \* the run-state file of the target, or None
    run,        \* the run_state fact of the play, None when undefined
    opts,       \* the options of the current or latest play
    pc,         \* the next task of the play
    failing,    \* a task of the block has failed in this play
    last,       \* how the latest play that changed anything ended
    daemons,    \* ids of live media daemons that have a state file
    leaving,    \* ids of media daemons told to stop, unrecorded, still alive
    origins,    \* ids of live HTTP origins nobody has told to stop
    started,    \* the id returned by asmb8_http_origin, until it is saved
    armed,      \* the BMC's one-time boot override is set
    host,       \* what the machine does: "off", "up", "installing", "installed"
    unsettled   \* history: a boot command was sent that neither a probe nor
                \* an operator has settled

vars == <<file, run, opts, pc, failing, last, daemons, leaving, origins, started,
          armed, host, unsettled>>
bmcVars == <<armed, host, unsettled>>
procVars == <<daemons, leaving, origins, started>>

Tasks == {"state", "probe", "origin", "save_origin", "build", "claim",
          "attach", "save_attached", "arm", "save_armed", "reset",
          "save_reset", "uncertain", "observe", "release", "save_released",
          "handoff", "rescue", "detach", "save_detached", "stop_origin"}

asmb8_baremetal_install_default_state ==
    [media_attached |-> FALSE, session_id |-> None, boot_armed |-> FALSE,
     reset_issued |-> FALSE, reset_confirmed |-> FALSE, detached |-> TRUE,
     ipxe_origin_session_id |-> None]

Init ==
    /\ file = None /\ run = None /\ pc = "idle" /\ failing = FALSE /\ last = "none"
    /\ opts \in Options
    /\ daemons = {} /\ leaving = {} /\ origins = {} /\ started = None
    /\ armed = FALSE /\ host \in {"off", "up"} /\ unsettled = FALSE

\* Every media daemon that is still a process.
Live == daemons \cup leaving

----------------------------------------------------------------------------
(* The ends of a play, and the state file.                                 *)

\* set_fact followed by save_state.yml: the fact and the file change together.
save_state(r) == run' = r /\ file' = r

\* The next task of the play.
Goto(task) == pc' = task /\ UNCHANGED <<opts, failing, last>>

\* A task of the block fails: main.yml's rescue comes next.
Fail == pc' = "rescue" /\ failing' = TRUE /\ UNCHANGED <<file, run, opts, last>>

\* The play is over; its facts die with it.
End(how) ==
    pc' = "idle" /\ last' = how /\ run' = None /\ failing' = FALSE /\ started' = None

BeginPlay(o) ==
    /\ pc = "idle"
    /\ pc' = "state" /\ opts' = o
    /\ UNCHANGED <<file, run, failing, last, procVars, bmcVars>>

\* The controller dies, or the operator interrupts it: nothing else runs.
Crash ==
    /\ pc # "idle"
    /\ End("crashed")
    /\ UNCHANGED <<file, opts, daemons, leaving, origins, bmcVars>>

----------------------------------------------------------------------------
(* state.yml: reconcile with what an earlier play left.                    *)

prior_state == IF file = None THEN asmb8_baremetal_install_default_state ELSE file

clean_slate_Keep == prior_state
clean_slate ==
    IF prior_state.reset_confirmed THEN asmb8_baremetal_install_default_state
                                   ELSE prior_state

Uncertain(r) == r.boot_armed /\ ~r.reset_confirmed

\* The assertion stands before the block: neither rescue nor always runs.
RefuseResume ==
    /\ pc = "state" /\ Uncertain(clean_slate) /\ ~opts.force_resume
    /\ End(last)
    /\ UNCHANGED <<file, opts, daemons, leaving, origins, bmcVars>>

LoadState ==
    /\ pc = "state"
    /\ Uncertain(clean_slate) => opts.force_resume
    /\ save_state(IF Uncertain(clean_slate)
                  THEN [clean_slate EXCEPT !.boot_armed = FALSE, !.reset_issued = FALSE]
                  ELSE clean_slate)
    /\ unsettled' = (unsettled /\ ~Uncertain(clean_slate))
    /\ Goto("probe")
    /\ UNCHANGED <<procVars, armed, host>>

----------------------------------------------------------------------------
(* The phases of the block.                                                *)

Probe ==
    /\ pc = "probe"
    /\ \/ Goto(IF opts.ipxe THEN "origin" ELSE "claim") /\ UNCHANGED <<file, run>>
       \/ Fail
    /\ UNCHANGED <<procVars, bmcVars>>

\* asmb8_http_origin state=started, called without a session id: it makes one
\* up.  It may fail with no process left, or fail after start_timeout with the
\* process still running.
StartOrigin(o) ==
    /\ pc = "origin" /\ o \notin origins
    /\ \/ /\ origins' = origins \cup {o} /\ started' = o
          /\ Goto("save_origin") /\ UNCHANGED <<file, run>>
       \/ origins' \in {origins, origins \cup {o}} /\ Fail /\ UNCHANGED started
    /\ UNCHANGED <<daemons, leaving, bmcVars>>

SaveOrigin ==
    /\ pc = "save_origin"
    /\ save_state([run EXCEPT !.ipxe_origin_session_id = started])
    /\ Goto("build")
    /\ UNCHANGED <<procVars, bmcVars>>

BuildBootstrap ==
    /\ pc = "build"
    /\ \/ Goto("claim") /\ UNCHANGED <<file, run>>
       \/ Fail
    /\ UNCHANGED <<procVars, bmcVars>>

\* An id that a prior run left is kept, otherwise a random one is drawn.
ClaimSession_Unsaved(s) ==
    /\ pc = "claim"
    /\ IF run.session_id = None THEN s \notin Live
                                ELSE s = run.session_id
    /\ run' = [run EXCEPT !.session_id = s] /\ UNCHANGED file
    /\ Goto("attach")
    /\ UNCHANGED <<procVars, bmcVars>>
ClaimSession(s) ==
    /\ pc = "claim"
    /\ IF run.session_id = None THEN s \notin Live
                                ELSE s = run.session_id
    /\ save_state([run EXCEPT !.session_id = s])
    /\ Goto("attach")
    /\ UNCHANGED <<procVars, bmcVars>>

\* asmb8_media state=attached.  A live session under this id is confirmed.
\* Otherwise the other recorded sessions of the endpoint are stopped, some of
\* them perhaps in vain, and a daemon is forked: it attaches if it gets the
\* slot, or the call fails with it gone, or still running after attach_timeout.
AttachMedia ==
    /\ pc = "attach"
    /\ \/ /\ run.session_id \in daemons
          /\ Goto("save_attached") /\ UNCHANGED <<file, run, daemons>>
       \/ /\ run.session_id \notin daemons /\ leaving = {}
          /\ daemons' = {run.session_id}
          /\ Goto("save_attached") /\ UNCHANGED <<file, run>>
       \/ /\ run.session_id \notin daemons
          /\ \E kept \in SUBSET daemons :
                 daemons' \in {kept, kept \cup {run.session_id}}
          /\ Fail
    /\ UNCHANGED <<leaving, origins, started, bmcVars>>

SaveAttached ==
    /\ pc = "save_attached"
    /\ save_state([run EXCEPT !.media_attached = TRUE])
    /\ Goto("arm")
    /\ UNCHANGED <<procVars, bmcVars>>

\* asmb8_boot: set_bootdev only when get_bootdev reads something else.  IPMI
\* runs over UDP, so a failed call may have set the override.
ArmBoot ==
    /\ pc = "arm"
    /\ \/ armed' = TRUE /\ Goto("save_armed") /\ UNCHANGED <<file, run>>
       \/ armed' \in {armed, TRUE} /\ Fail
    /\ UNCHANGED <<procVars, host, unsettled>>

SaveArmed_Unsaved ==
    /\ pc = "save_armed"
    /\ run' = [run EXCEPT !.boot_armed = TRUE] /\ UNCHANGED file
    /\ Goto("reset")
    /\ UNCHANGED <<procVars, bmcVars>>
SaveArmed ==
    /\ pc = "save_armed"
    /\ save_state([run EXCEPT !.boot_armed = TRUE])
    /\ Goto("reset")
    /\ UNCHANGED <<procVars, bmcVars>>

\* The BMC turns the machine on, or resets it, and it boots the override.
Boots ==
    /\ host' = IF armed /\ daemons # {} THEN "installing" ELSE "up"
    /\ armed' = FALSE /\ unsettled' = TRUE

\* asmb8_power state=boot.  A failed call may or may not have been carried out.
IssueBoot ==
    /\ pc = "reset"
    /\ \/ Boots /\ Goto("save_reset")
       \/ /\ Boots \/ UNCHANGED bmcVars
          /\ pc' = "uncertain" /\ failing' = TRUE /\ UNCHANGED <<opts, last>>
    /\ UNCHANGED <<file, run, procVars>>

SaveReset ==
    /\ pc = "save_reset"
    /\ save_state([run EXCEPT !.reset_issued = TRUE])
    /\ Goto("observe")
    /\ UNCHANGED <<procVars, bmcVars>>

\* reset.yml's own rescue, which re-raises into main.yml's.
SaveUncertain ==
    /\ pc = "uncertain"
    /\ save_state([run EXCEPT !.reset_issued = TRUE])
    /\ Goto("rescue")
    /\ UNCHANGED <<procVars, bmcVars>>

\* What follows the optional early release, with wait_for_handoff and without.
AfterRelease == {"handoff", "detach"}

\* main.yml: with media_release_after_handoff a claimed session is released.
AfterObserve ==
    AfterRelease \cup {task \in {"release"} : run.session_id # None}

\* observe.yml: a bounded probe that fails nothing.
Observe(on) ==
    /\ pc = "observe"
    /\ on => host # "off"
    /\ save_state(IF on THEN [run EXCEPT !.reset_confirmed = TRUE] ELSE run)
    /\ unsettled' = (unsettled /\ ~on)
    /\ \E task \in AfterObserve : Goto(task)
    /\ UNCHANGED <<procVars, armed, host>>

\* wait_for_handoff.yml: the installed system answers in time, or the task
\* fails.
WaitForHandoff ==
    /\ pc = "handoff"
    /\ \/ host = "installed" /\ Goto("detach") /\ UNCHANGED <<file, run>>
       \/ Fail
    /\ UNCHANGED <<procVars, bmcVars>>

RecordFailure_Ends ==
    /\ pc = "rescue"
    /\ file' = run /\ End("failed")
    /\ UNCHANGED <<opts, daemons, leaving, origins, bmcVars>>
RecordFailure ==
    /\ pc = "rescue"
    /\ save_state(run)
    /\ Goto("detach")
    /\ UNCHANGED <<procVars, bmcVars>>

----------------------------------------------------------------------------
(* The always section.                                                     *)

\* asmb8_media state=detached: signal, wait, and remove the record whether or
\* not the daemon has gone.  Without an id, or a live daemon, nothing to do.
DetachMedia(from, to) ==
    /\ pc = from
    /\ daemons' = daemons \ {run.session_id}
    /\ leaving' \in {leaving, leaving \cup ({run.session_id} \cap daemons)}
    /\ Goto(to)
    /\ UNCHANGED <<file, run, origins, started, bmcVars>>

SaveDetached(from, to) ==
    /\ pc = from
    /\ save_state(IF run.session_id = None THEN run ELSE [run EXCEPT !.detached = TRUE])
    /\ Goto(to)
    /\ UNCHANGED <<procVars, bmcVars>>

Outcome == IF failing THEN "failed" ELSE "completed"

StopOrigin ==
    /\ pc = "stop_origin"
    /\ origins' = origins \ {run.ipxe_origin_session_id}
    /\ End(Outcome)
    /\ UNCHANGED <<file, opts, daemons, leaving, bmcVars>>

----------------------------------------------------------------------------
(* The surroundings of a play.                                             *)

DaemonEnds(s) ==
    /\ s \in Live
    /\ daemons' = daemons \ {s} /\ leaving' = leaving \ {s}
    /\ UNCHANGED <<file, run, opts, pc, failing, last, origins, started, bmcVars>>

OriginExpires(o) ==
    /\ o \in origins /\ origins' = origins \ {o}
    /\ UNCHANGED <<file, run, opts, pc, failing, last, daemons, leaving, started, bmcVars>>

InstallFinishes ==
    /\ host = "installing" /\ host' = "installed"
    /\ UNCHANGED <<file, run, opts, pc, failing, last, procVars, armed, unsettled>>

----------------------------------------------------------------------------
Reconcile == RefuseResume \/ LoadState

Deliver ==
    \/ Probe \/ SaveOrigin \/ BuildBootstrap \/ AttachMedia \/ SaveAttached
    \/ \E o \in Origins : StartOrigin(o)
    \/ \E s \in Sessions : ClaimSession(s)

Boot ==
    \/ ArmBoot \/ SaveArmed \/ IssueBoot \/ SaveReset \/ SaveUncertain
    \/ \E on \in BOOLEAN : Observe(on)

Finish ==
    \/ DetachMedia("release", "save_released")
    \/ \E task \in AfterRelease : SaveDetached("save_released", task)
    \/ WaitForHandoff \/ RecordFailure
    \/ DetachMedia("detach", "save_detached")
    \/ SaveDetached("save_detached", "stop_origin")
    \/ StopOrigin

Surroundings ==
    \/ \E s \in Sessions : DaemonEnds(s)
    \/ \E o \in Origins : OriginExpires(o)
    \/ InstallFinishes

Next ==
    \/ \E o \in Options : BeginPlay(o)
    \/ Reconcile \/ Deliver \/ Boot \/ Finish \/ Crash \/ Surroundings

Spec == Init /\ [][Next]_vars

----------------------------------------------------------------------------
(* Properties.                                                             *)

\* Types of the run state, in memory and on file, and of the processes.
TypeOK ==
    /\ file \in RunState \cup {None} /\ run \in RunState \cup {None}
    /\ opts \in Options /\ pc \in Tasks \cup {"idle"} /\ failing \in BOOLEAN
    /\ last \in {"none", "completed", "failed", "crashed"}
    /\ daemons \subseteq Sessions /\ leaving \subseteq Sessions
    /\ origins \subseteq Origins /\ started \in Origins \cup {None}
    /\ armed \in BOOLEAN /\ unsettled \in BOOLEAN
    /\ host \in {"off", "up", "installing", "installed"}

\* save_state.yml's "accurate account": from the moment the BMC may have
\* carried out a boot command until a probe or an operator settles it, the
\* file says boot_armed without reset_confirmed, wherever the play is cut off.
UnsettledIsOnFile ==
    unsettled => file # None /\ Uncertain(file)

\* state.yml's refusal: no play stands before reset.yml while an earlier boot
\* command is unsettled, whatever was interrupted and however often.
SettledBeforeReset ==
    pc = "reset" => ~unsettled

\* attach_media.yml claims the id first: whenever a media daemon is born, the
\* file already names it, so a later play can find and detach it.
ClaimedFirst ==
    [][\A s \in daemons' \ daemons : file # None /\ file.session_id = s]_vars

\* main.yml's always section: a play that ended by itself, with success or
\* with failure, has told every daemon under the id on file to stop, and has
\* left none of them on record: one that is still alive is on its way out.
OwnSessionToldToStop ==
    pc = "idle" /\ last \in {"completed", "failed"}
        => /\ file # None /\ file.session_id \notin daemons
           /\ Live \cap {file.session_id} \subseteq leaving

\* "If a prior run's reset_confirmed was true (it finished cleanly)" (role
\* README): without force_resume, a machine in the middle of an installation
\* is reset only when the play that booted it had run to its end.
MidInstallSpared ==
    pc = "reset" /\ host = "installing" => opts.force_resume \/ last = "completed"

\* main.yml: "Always detach media, even on failure, so no daemon is left holding
\* the BMC's single media slot open".  asmb8_media removes the record of a daemon
\* that has not exited within detach_timeout, with a warning.
NoDaemonLeft ==
    pc = "idle" /\ last \in {"completed", "failed"} => file.session_id \notin Live

\* vars/main.yml: the session id that a clean slate drops "refers to a session
\* that has already been detached".
CleanSlateForgetsNothing ==
    pc = "state" /\ prior_state.reset_confirmed => prior_state.session_id \notin daemons

\* stop_ipxe_origin.yml: "an ephemeral HTTP origin can never outlive this
\* play, even on failure".
OriginNeverOutlives ==
    pc = "idle" /\ last \in {"completed", "failed"} => origins = {}

\* attach_media.yml: a failed attach does not "look like a successful one in
\* the state file a resumed run reads".
FailedAttachNotRecorded ==
    [][pc = "attach" /\ pc' = "rescue" => ~file'.media_attached]_vars
=============================================================================
