------------------------ MODULE BootstrapImageProofs ------------------------
(***************************************************************************)
(* BootstrapImage, for any number of ids, plays and interruptions.         *)
(*                                                                         *)
(* Every step of the role with the build taken apart is a step of the role *)
(* of BaremetalInstall, so all that is proved of the latter carries over.  *)
(* What is known of the image follows from what is known when the build    *)
(* starts: the origin of this play is up, and the run state names it.      *)
(* What is known of the daemon that serves the session follows from what   *)
(* is known when the attach starts: only a play that was cut off can have  *)
(* left one on record under the id on file (Released).                     *)
(***************************************************************************)
EXTENDS BootstrapImage, BaremetalInstallProofs

\* While it stands before the build, a play has an origin and has saved its id.
OriginNamed ==
    pc = "build" => started \in Origins /\ run.ipxe_origin_session_id = started

\* What can be found at output_path.
Leftovers ==
    image \in {"none", "this_play", "earlier_play", "partial", "oversized"}

ImageInv == Leftovers /\ OriginNamed /\ ImageIsThisPlays

\* Whatever the tool does, the role sees a build that fails or succeeds.
LEMMA StepIsRoleStep == ImageNext => Next
  <1>1. BuildBootstrap => Next
    BY DEF Next, Deliver
  <1>2. ASSUME NEW c \in Controllers, BuildRefused(c) PROVE Next
    BY <1>1, <1>2 DEF BuildRefused, BuildFailed
  <1>3. ASSUME NEW c \in Controllers, ToolFails(c) PROVE Next
    BY <1>1, <1>3 DEF ToolFails, BuildFailed
  <1>4. ASSUME NEW c \in Controllers, ToolSucceeds(c) PROVE Next
    BY <1>1, <1>4 DEF ToolSucceeds, CheckOutput, BuildFailed, BuildDone
  <1>5. BuildInterrupted => Next
    BY DEF BuildInterrupted, Next
  <1>6. Elsewhere \/ DuringBuild => Next
    BY DEF Elsewhere, DuringBuild, Next
  <1> QED BY <1>2, <1>3, <1>4, <1>5, <1>6 DEF ImageNext

\* The role with the inside of its build task implements the role in which
\* that task is one step: what the proofs about BaremetalInstall establish
\* holds with the builder in place.
THEOREM Implements == ImageSpec => Spec
  <1>1. ImageInit => Init
    BY DEF ImageInit
  <1>2. [ImageNext]_imageVars => [Next]_vars
    BY StepIsRoleStep DEF imageVars
  <1> QED BY <1>1, <1>2, PTL DEF ImageSpec, Spec

\* The tool and the check of its output leave nothing else.
LEMMA LeftoversKept == Leftovers /\ [ImageNext]_imageVars => Leftovers'
  <1> SUFFICES ASSUME Leftovers, ImageNext PROVE Leftovers'
    BY DEF Leftovers, imageVars
  <1>1. ASSUME NEW c \in Controllers, BuildRefused(c) \/ ToolFails(c) PROVE Leftovers'
    BY <1>1 DEF Leftovers, BuildRefused, ToolFails, GrubFails
  <1>2. ASSUME NEW c \in Controllers, ToolSucceeds(c) PROVE Leftovers'
    BY <1>2 DEF Leftovers, ToolSucceeds, CheckOutput, GrubSucceeds, render_ipxe_script
  <1>3. CASE BuildInterrupted
    BY <1>3 DEF Leftovers, BuildInterrupted, Aged, GrubFails, GrubSucceeds, render_ipxe_script
  <1>4. CASE Elsewhere \/ DuringBuild
    BY <1>4 DEF Leftovers, Elsewhere, DuringBuild, PlayGoesOn, Aged
  <1> QED BY <1>1, <1>2, <1>3, <1>4 DEF ImageNext

\* A step that ends a build: only a checked image gets past it.
LEMMA BuildKeeps ==
  ASSUME ImageInv, NEW c \in Controllers,
         BuildRefused(c) \/ ToolFails(c) \/ ToolSucceeds(c)
  PROVE  (OriginNamed /\ ImageIsThisPlays)'
  <1>1. CASE pc' = "rescue"
    BY <1>1 DEF OriginNamed, ImageIsThisPlays, AfterBuild, AfterAttach
  <1>2. CASE pc' # "rescue"
    <2>1. ToolSucceeds(c) /\ BuildDone
      BY <1>2 DEF BuildRefused, ToolFails, ToolSucceeds, CheckOutput, BuildFailed, BuildDone
    <2>2. /\ pc = "build" /\ pc' = "claim" /\ run' = run /\ started' = started
      BY <2>1 DEF BuildDone, BuildBootstrap, Goto, Fail, procVars
    <2>3. started # None /\ run.ipxe_origin_session_id = started
      BY <2>2, IdsAssumption DEF ImageInv, OriginNamed
    <2>4. image' = "this_play" \/ (quiet' /\ image' \in {"this_play", "earlier_play", "partial"})
      BY <1>2, <2>1, <2>3 DEF ImageInv, Leftovers, ToolSucceeds, CheckOutput, BuildFailed,
         IsFile, WithinBudget, GrubSucceeds, render_ipxe_script
    <2> QED BY <2>2, <2>3, <2>4 DEF OriginNamed, ImageIsThisPlays, Passed, AfterAttach
  <1> QED BY <1>1, <1>2

\* The tasks of the role that lead to a task after the build start after it,
\* and keep the origin that the run state names.
LEMMA RoleKeepsOrigin ==
  ASSUME IInv, Next, pc # "build", pc' \in AfterBuild, opts'.ipxe
  PROVE  /\ pc \in AfterBuild /\ opts' = opts /\ started' = started
         /\ run'.ipxe_origin_session_id = run.ipxe_origin_session_id
  <1>1. ASSUME pc \notin {"idle", "state"} PROVE run \in RunState
    BY <1>1 DEF IInv, RunIsFile
  <1>2. CASE Surroundings
    BY <1>2 DEF Surroundings, DaemonEnds, OriginExpires, InstallFinishes, procVars
  <1>3. CASE (\E o \in Options : BeginPlay(o)) \/ Reconcile \/ Finish \/ Crash
    BY <1>3 DEF BeginPlay, Reconcile, RefuseResume, LoadState, Finish, DetachMedia, SaveDetached,
       WaitForHandoff, RecordFailure, StopOrigin, Crash, End, Goto, Fail, AfterObserve, AfterRelease, AfterBuild, AfterAttach
  <1>4. CASE Deliver
    <2>1. CASE Probe \/ SaveOrigin \/ BuildBootstrap \/ \E o \in Origins : StartOrigin(o)
      BY <2>1 DEF Probe, SaveOrigin, BuildBootstrap, StartOrigin, Goto, Fail, AfterBuild, AfterAttach
    <2>2. CASE AttachMedia
      BY <2>2 DEF AttachMedia, Goto, Fail, AfterBuild, AfterAttach
    <2>3. CASE SaveAttached \/ \E s \in Sessions : ClaimSession(s)
      BY <1>1, <2>3 DEF SaveAttached, ClaimSession, save_state, Goto, AfterBuild, AfterAttach, procVars, RunState
    <2> QED BY <1>4, <2>1, <2>2, <2>3 DEF Deliver
  <1>5. CASE Boot
    <2>1. CASE ArmBoot \/ IssueBoot
      BY <2>1 DEF ArmBoot, IssueBoot, Goto, Fail, AfterBuild, AfterAttach, procVars
    <2>2. CASE SaveArmed \/ SaveReset
      BY <1>1, <2>2 DEF SaveArmed, SaveReset, save_state, Goto, AfterBuild, AfterAttach, procVars, RunState
    <2>3. CASE SaveUncertain \/ \E on \in BOOLEAN : Observe(on)
      BY <2>3 DEF SaveUncertain, Observe, Goto, AfterObserve, AfterRelease, AfterBuild, AfterAttach
    <2> QED BY <1>5, <2>1, <2>2, <2>3 DEF Boot
  <1> QED BY <1>2, <1>3, <1>4, <1>5 DEF Next

\* A task after the attach follows another one, or the attach itself, in which
\* alone a daemon can be born.
LEMMA RoleKeepsSession ==
  ASSUME IInv, Next, pc # "build", pc' \in AfterAttach
  PROVE  /\ last' = last /\ run'.session_id = run.session_id
         /\ (pc \in AfterAttach /\ daemons' \subseteq daemons) \/ pc = "attach"
  <1>1. ASSUME pc \notin {"idle", "state"} PROVE run \in RunState
    BY <1>1 DEF IInv, RunIsFile
  <1>2. CASE Surroundings
    BY <1>2 DEF Surroundings, DaemonEnds, OriginExpires, InstallFinishes, procVars
  <1>3. CASE (\E o \in Options : BeginPlay(o)) \/ Reconcile \/ Finish \/ Crash
    BY <1>3 DEF BeginPlay, Reconcile, RefuseResume, LoadState, Finish, DetachMedia, SaveDetached,
       WaitForHandoff, RecordFailure, StopOrigin, Crash, End, Goto, Fail, AfterObserve, AfterRelease, AfterAttach
  <1>4. CASE Deliver
    <2>1. CASE Probe \/ SaveOrigin \/ BuildBootstrap \/ \E o \in Origins : StartOrigin(o)
      BY <2>1 DEF Probe, SaveOrigin, BuildBootstrap, StartOrigin, Goto, Fail, AfterAttach
    <2>2. CASE AttachMedia
      BY <2>2 DEF AttachMedia, Goto, Fail, AfterAttach
    <2>3. CASE SaveAttached
      BY <1>1, <2>3 DEF SaveAttached, save_state, Goto, AfterAttach, procVars, RunState
    <2>4. CASE \E s \in Sessions : ClaimSession(s)
      BY <2>4 DEF ClaimSession, Goto, AfterAttach
    <2> QED BY <1>4, <2>1, <2>2, <2>3, <2>4 DEF Deliver
  <1>5. CASE Boot
    <2>1. CASE ArmBoot \/ IssueBoot
      BY <2>1 DEF ArmBoot, IssueBoot, Goto, Fail, AfterAttach, procVars
    <2>2. CASE SaveArmed \/ SaveReset
      BY <1>1, <2>2 DEF SaveArmed, SaveReset, save_state, Goto, AfterAttach, procVars, RunState
    <2>3. CASE SaveUncertain \/ \E on \in BOOLEAN : Observe(on)
      BY <2>3 DEF SaveUncertain, Observe, Goto, AfterObserve, AfterRelease, AfterAttach
    <2> QED BY <1>5, <2>1, <2>2, <2>3 DEF Boot
  <1> QED BY <1>2, <1>3, <1>4, <1>5 DEF Next

\* The build is reached by saving the id of the origin just started.
LEMMA RoleNamesOrigin ==
  ASSUME IInv, Next, pc # "build", pc' = "build"
  PROVE  started' \in Origins /\ run'.ipxe_origin_session_id = started'
  <1>1. SaveOrigin
    BY DEF Next, BeginPlay, Reconcile, RefuseResume, LoadState, Deliver, Probe, StartOrigin,
       BuildBootstrap, ClaimSession, AttachMedia, SaveAttached, Boot, ArmBoot, SaveArmed,
       IssueBoot, SaveReset, SaveUncertain, Observe, Finish, DetachMedia, SaveDetached,
       WaitForHandoff, RecordFailure, StopOrigin, Crash, Surroundings, DaemonEnds,
       OriginExpires, InstallFinishes, End, Goto, Fail, AfterObserve, AfterRelease
  <1>2. run \in RunState /\ started \in Origins
    BY <1>1 DEF SaveOrigin, IInv, RunIsFile, Started
  <1> QED BY <1>1, <1>2 DEF SaveOrigin, save_state, procVars, RunState

\* A step outside the build leaves an image that the block relies on alone.
LEMMA ElsewhereKeeps ==
  ASSUME IInv, ImageInv, Elsewhere
  PROVE  (OriginNamed /\ ImageIsThisPlays)'
  <1>1. Next /\ pc # "build"
    BY DEF Elsewhere
  <1>2. OriginNamed'
    BY <1>1, RoleNamesOrigin DEF OriginNamed
  <1>3. ImageIsThisPlays'
    <2> SUFFICES ASSUME opts'.ipxe, pc' \in AfterBuild PROVE ImageIsThisPlays'
      BY DEF ImageIsThisPlays
    <2>1. /\ pc \in AfterBuild /\ opts' = opts /\ started' = started
          /\ run'.ipxe_origin_session_id = run.ipxe_origin_session_id
      BY <1>1, RoleKeepsOrigin
    <2>2. /\ image' = image /\ quiet' = quiet /\ opened' = Served
          /\ confirmed' = (confirmed \/ (pc = "attach" /\ run.session_id \in daemons))
      BY DEF Elsewhere, PlayGoesOn, AfterBuild, AfterAttach
    <2>3. Passed(image) /\ Passed(image)'
      BY <2>1, <2>2 DEF ImageInv, ImageIsThisPlays, Passed
    <2>4. ASSUME pc' \in AfterAttach, run'.session_id \in daemons'
          PROVE  Passed(opened[run.session_id])' \/ (confirmed /\ last = "crashed")'
      <3> DEFINE s == run.session_id
      <3>1. /\ last' = last /\ run'.session_id = s
            /\ (pc \in AfterAttach /\ daemons' \subseteq daemons) \/ pc = "attach"
        BY <1>1, <2>4, RoleKeepsSession
      <3>2. s \in Sessions
        BY <1>1, <2>4, <3>1, IdsAssumption DEF IInv, TypeOK, RunIsFile, Claimed, AfterAttach
      <3>3. CASE pc = "attach" /\ s \in daemons
        <4>1. last = "crashed"
          BY <3>3, IdsAssumption DEF IInv, RunIsFile, Released, UpToAttach
        <4> QED BY <2>2, <3>1, <3>3, <4>1
      <3>4. CASE pc = "attach" /\ s \notin daemons
        <4>1. opened'[s] = image
          BY <2>1, <2>2, <2>4, <3>1, <3>2, <3>4 DEF Served, media_image
        <4> QED BY <2>2, <2>3, <3>1, <4>1 DEF Passed
      <3>5. CASE pc \in AfterAttach /\ daemons' \subseteq daemons
        <4>1. s \in daemons /\ opened'[s] = opened[s]
          BY <2>2, <2>4, <3>1, <3>2, <3>5 DEF Served
        <4>2. Passed(opened[s]) \/ (confirmed /\ last = "crashed")
          BY <2>1, <3>5, <4>1 DEF ImageInv, ImageIsThisPlays
        <4> QED BY <2>2, <3>1, <4>1, <4>2 DEF Passed
      <3> QED BY <3>1, <3>3, <3>4, <3>5
    <2> QED BY <2>1, <2>3, <2>4 DEF ImageInv, ImageIsThisPlays
  <1> QED BY <1>2, <1>3

\* The same, once the invariant of the role is known to hold throughout.
LEMMA ImageStep == IInv /\ ImageInv /\ [ImageNext]_imageVars => ImageInv'
  <1> SUFFICES ASSUME IInv, ImageInv, [ImageNext]_imageVars PROVE ImageInv'
    OBVIOUS
  <1>1. Leftovers'
    BY LeftoversKept DEF ImageInv
  <1>2. CASE UNCHANGED imageVars
    BY <1>1, <1>2 DEF ImageInv, OriginNamed, ImageIsThisPlays, Passed, imageVars, vars
  <1>3. CASE \E c \in Controllers : BuildRefused(c) \/ ToolFails(c) \/ ToolSucceeds(c)
    BY <1>1, <1>3, BuildKeeps DEF ImageInv
  <1>4. CASE BuildInterrupted
    BY <1>1, <1>4 DEF ImageInv, OriginNamed, ImageIsThisPlays, BuildInterrupted, Crash, End,
       AfterBuild, AfterAttach
  <1>5. CASE DuringBuild
    BY <1>1, <1>5 DEF ImageInv, OriginNamed, ImageIsThisPlays, DuringBuild, Surroundings,
       DaemonEnds, OriginExpires, InstallFinishes, procVars, AfterBuild, AfterAttach
  <1>6. CASE Elsewhere
    BY <1>1, <1>6, ElsewhereKeeps DEF ImageInv
  <1> QED BY <1>2, <1>3, <1>4, <1>5, <1>6 DEF ImageNext

\* build_bootstrap_image and the attach in the role: whatever earlier plays and
\* interruptions left at output_path, an ipxe_http play goes on from its build
\* with an image of this play, for the origin that the run state names, and the
\* daemon of its session was opened on that image.  The exceptions are those the
\* property names: a tool that reported success without writing, and a session
\* left live by a play that was cut off, which the attach confirms as it is.
THEOREM ImageIsOfThisPlay == ImageSpec => []ImageIsThisPlays
  <1>1. ImageInit => ImageInv
    BY DEF ImageInit, Init, ImageInv, Leftovers, OriginNamed, ImageIsThisPlays, AfterBuild, AfterAttach
  <1>2. ImageSpec => []IInv
    BY Implements, Invariance
  <1>3. ImageInv => ImageIsThisPlays
    BY DEF ImageInv
  <1> QED BY <1>1, <1>2, <1>3, ImageStep, PTL DEF ImageSpec

\* state.yml's refusal, with the builder in place: no play stands before the
\* boot command while an earlier one is unsettled.
THEOREM NoBlindResetWithBuilder == ImageSpec => []SettledBeforeReset
  BY Implements, NoBlindReset
=============================================================================
