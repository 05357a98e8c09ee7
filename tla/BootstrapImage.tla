--------------------------- MODULE BootstrapImage ---------------------------
(***************************************************************************)
(* The role of BaremetalInstall with the inside of its "build" task:       *)
(* asmb8_bootstrap_image over plugins/module_utils/bootstrap_image.py.     *)
(*                                                                         *)
(* output_path outlives the play: a later play finds there what an earlier *)
(* one left, whole, cut off or too large.  What matters of an image is     *)
(* whether this play has built it, so that its script chains to the origin *)
(* of this play.  A media daemon serves what was there when it was forked, *)
(* and may outlive the play that forked it.                                *)
(***************************************************************************)
EXTENDS BaremetalInstall

VARIABLES
    image,  \* what is at output_path: "none", the whole image of "this_play" or
            \* an "earlier_play", a "partial" one, or one that is "oversized"
    opened, \* session id -> what its live, recorded daemon was opened on: such an
            \* image or the "iso" of full_iso if in this play, else something of
            \* an "earlier_play"; "none" without a daemon
    quiet,  \* history: in this play the tool has exited 0 and written nothing
    confirmed  \* history: in this play the attach has found a live session

imageVars == <<vars, image, opened, quiet, confirmed>>

\* Is there a file, and is it within size_budget_bytes?
IsFile(i) == i # "none"
WithinBudget(i) == i # "oversized"

\* A play later, no image is of this play.
Aged(i) == IF i = "this_play" THEN "earlier_play" ELSE i

\* The controller: the tools that are found, whether ipxe.lkrn is there.
REQUIRED_TOOLS == {"grub-mkrescue", "xorriso"}
Controllers == [tools : SUBSET REQUIRED_TOOLS, lkrn : BOOLEAN]

missing_tools(c) == REQUIRED_TOOLS \ c.tools

\* The script chains to the URL of the origin just started.
render_ipxe_script == IF started # None THEN "this_play" ELSE "earlier_play"

\* grub-mkrescue writes the image of the staging directory, more than the
\* budget allows, or nothing; or it fails and leaves what it got to.
GrubSucceeds == {render_ipxe_script, "oversized"}
GrubFails == {image, "none", "partial"}

ImageInit ==
    /\ Init /\ image \in {"none", "earlier_play"} /\ opened = [s \in Sessions |-> "none"]
    /\ quiet = FALSE /\ confirmed = FALSE

\* asmb8_baremetal_install_media_image_path, as it is when a daemon is forked.
media_image == IF opts.ipxe THEN image ELSE "iso"

\* What the daemons that are there after a step were opened on.
Served ==
    [s \in Sessions |-> IF s \notin daemons' THEN "none"
                        ELSE IF s \in daemons THEN opened[s] ELSE media_image]

\* The play goes on, or is over.
PlayGoesOn == opened' = Served /\ UNCHANGED image
PlayOver ==
    /\ opened' = [s \in Sessions |-> IF Served[s] = "none" THEN "none" ELSE "earlier_play"]
    /\ quiet' = FALSE /\ confirmed' = FALSE

\* A module call that fails, and one that succeeds, as the role sees them.
BuildFailed == BuildBootstrap /\ pc' = "rescue" /\ UNCHANGED <<opened, confirmed>>
BuildDone == BuildBootstrap /\ pc' = "claim" /\ UNCHANGED <<opened, confirmed>>

\* main() without its tools, or build_bootstrap_image without ipxe.lkrn:
\* nothing is run and nothing written.
BuildRefused(c) ==
    /\ missing_tools(c) # {} \/ ~c.lkrn
    /\ BuildFailed
    /\ UNCHANGED <<image, quiet>>

\* A non-zero exit, or an OSError while staging.
ToolFails(c) ==
    /\ missing_tools(c) = {} /\ c.lkrn
    /\ BuildFailed
    /\ image' \in GrubFails
    /\ UNCHANGED quiet

\* Mutant: the size is not looked at.
CheckOutput_AnySize(i) ==
    IF IsFile(i) THEN BuildDone /\ image' = i ELSE BuildFailed /\ image' = i

\* After exit 0: is there a file, and is it small enough?  If not, it goes.
CheckOutput(i) ==
    IF IsFile(i) /\ WithinBudget(i) THEN BuildDone /\ image' = i
    ELSE BuildFailed /\ image' = "none"

ToolSucceeds(c) ==
    /\ missing_tools(c) = {} /\ c.lkrn
    /\ \/ \E i \in GrubSucceeds : CheckOutput(i) /\ UNCHANGED quiet
       \/ CheckOutput(image) /\ quiet' = TRUE

\* The controller dies while the tool writes, or before its result is checked.
BuildInterrupted ==
    /\ pc = "build"
    /\ Crash
    /\ image' \in {Aged(i) : i \in GrubFails \cup GrubSucceeds}
    /\ PlayOver

\* Every other step of the role; what an ended play built is no longer new.
\* An attach that finds a live session under its id leaves it as it is.
Elsewhere ==
    /\ pc # "build" /\ Next
    /\ IF pc' = "idle" THEN image' = Aged(image) /\ PlayOver
       ELSE /\ PlayGoesOn /\ UNCHANGED quiet
            /\ confirmed' = (confirmed \/ (pc = "attach" /\ run.session_id \in daemons))

DuringBuild ==
    /\ pc = "build" /\ Surroundings
    /\ PlayGoesOn /\ UNCHANGED <<quiet, confirmed>>

ImageNext ==
    \/ Elsewhere \/ DuringBuild \/ BuildInterrupted
    \/ \E c \in Controllers : BuildRefused(c) \/ ToolFails(c) \/ ToolSucceeds(c)

ImageSpec == ImageInit /\ [][ImageNext]_imageVars

----------------------------------------------------------------------------
(* Properties.                                                             *)

\* The tasks between a successful build and the end of the block, and those of
\* them that follow a successful attach.
AfterAttach == {"save_attached", "arm", "save_armed", "reset", "save_reset", "observe"}
AfterBuild == {"claim", "attach"} \cup AfterAttach

\* An image of this play, or an older one that a tool which reported success
\* without writing has let pass.
Passed(i) == i = "this_play" \/ (quiet /\ i \in {"earlier_play", "partial"})

\* An ipxe_http play gets past its build only with an image that this very
\* play has built, whole and within its budget, whatever earlier plays and
\* crashes left at output_path, and that chains to the origin which the run
\* state names and the always section stops.  The daemon that then serves the
\* session of the play was opened on that image, with two exceptions: a tool
\* that reports success without writing lets an older image pass, and an attach
\* that finds the session live confirms it with whatever it was opened on,
\* which can only be after a play that was cut off.
ImageIsThisPlays ==
    opts.ipxe /\ pc \in AfterBuild =>
        /\ Passed(image)
        /\ started # None /\ run.ipxe_origin_session_id = started
        /\ pc \in AfterAttach /\ run.session_id \in daemons =>
              Passed(opened[run.session_id]) \/ (confirmed /\ last = "crashed")

----------------------------------------------------------------------------
(* What the documentation says and the code does not do.                   *)

\* docs/asmb8_bootstrap_image.md: it is an error when "grub-mkrescue reported
\* success but produced no output file".
QuietToolNoticed == pc \in AfterBuild => ~quiet

\* attach_media.yml: what is attached for ipxe_http is "the tiny image
\* tasks/prepare_ipxe_delivery.yml just built"; a session that an earlier play
\* left is confirmed, with the image it was opened on.
AttachServesThisImage ==
    opts.ipxe /\ pc \in AfterAttach /\ run.session_id \in daemons =>
        Passed(opened[run.session_id])
=============================================================================
