--------------------------- MODULE ConsoleCapture ---------------------------
(***************************************************************************)
(* asmb8_console: the IVTP handshake and frame capture of                  *)
(* plugins/module_utils/ivtp.py as plugins/modules/asmb8_console.py runs   *)
(* them.  Packets arrive whole and in order (TCP); a fragment carries one  *)
(* unit of data, which is its own identity.                                *)
(***************************************************************************)
EXTENDS Naturals, Sequences

CONSTANTS
    MAX_FRAME_BYTES,  \* units a reassembled frame may have
    MaxFragments,     \* fragments the BMC cuts a frame into, at most
    FrameNames,       \* names that tell frames apart, used in rotation
    MaxLine           \* bound: packets in transit

ASSUME ConsoleAssumption ==
    /\ MAX_FRAME_BYTES \in Nat \ {0} /\ MaxFragments \in Nat \ {0}
    /\ FrameNames \in Nat \ {0} /\ MaxLine \in Nat \ {0}

VARIABLES
    opts,     \* capture, check mode, send_get_web_token
    pc,       \* where the module is
    outcome,  \* exit_json, the error class of fail_json, or a traceback
    sent,     \* what the BMC has been sent, in order
    socket,   \* "none", "open" or "closed"
    status,   \* of VALIDATE_VIDEO_SESSION_RESPONSE
    buf,      \* FrameReassembler._buf
    frame,    \* what capture_one_frame returned
    file,     \* what is at output_path
    line,     \* packets on their way from the BMC
    hung,     \* has the BMC closed the connection?
    video     \* the last fragment the BMC sent

bmcVars == <<line, hung, video>>
vars    == <<opts, pc, outcome, sent, socket, status, buf, frame, file, bmcVars>>

Statuses == {"valid", "kvm_disabled", "invalid_token", "unknown", "empty"}
Reasons  == {"web_logout", "license_expired", "timed_out", "kvm_disconnect", "other"}
Classes  == {"connection", "tls_validation", "authentication", "unsupported_capability",
             "protocol", "timeout", "invalid_state", "remote_operation"}

Packet(kind, body) == [kind |-> kind, body |-> body]
Nothing == [frame |-> 0, num |-> 0, last |-> TRUE]

Init ==
    /\ opts \in [capture : {"handshake_only", "raw_frame", "decoded_frame"},
                 check : BOOLEAN, web_token : BOOLEAN]
    /\ pc = "main" /\ outcome = "none" /\ sent = <<>> /\ socket = "none" /\ status = "none"
    /\ buf = <<>> /\ frame = <<>> /\ file = <<>>
    /\ line = <<>> /\ hung = FALSE /\ video = Nothing

----------------------------------------------------------------------------
(* The BMC's end of the KVM port.                                          *)

Sent(msg) == \E i \in 1..Len(sent) : sent[i] = msg

BmcSends(packet) ==
    /\ socket = "open" /\ ~hung /\ Len(line) < MaxLine
    /\ line' = Append(line, packet)
    /\ UNCHANGED <<opts, pc, outcome, sent, socket, status, buf, frame, file, hung>>

BmcGreets == pc = "greeting" /\ BmcSends(Packet("accepted", 0)) /\ UNCHANGED video

BmcAnswers ==
    /\ pc = "response" /\ Sent("validate")
    /\ \E s \in Statuses : BmcSends(Packet("response", s))
    /\ UNCHANGED video

BmcStops ==
    /\ \E r \in Reasons : BmcSends(Packet("stop", r))
    /\ UNCHANGED video

\* LED state, encryption status, bandwidth probes.
BmcChatters == BmcSends(Packet("other", 0)) /\ UNCHANGED video

\* Video runs once redirection is resumed, from a first fragment on; a frame may
\* be given up for a new one, any number of times.
BmcStreams ==
    /\ Sent("resume")
    /\ \E last \in BOOLEAN, new \in BOOLEAN :
          LET next == IF new THEN [frame |-> (video.frame % FrameNames) + 1, num |-> 0, last |-> last]
                      ELSE [video EXCEPT !.num = @ + 1, !.last = last]
          IN  /\ (~new) => ~video.last
              /\ next.num < MaxFragments /\ (next.num = MaxFragments - 1 => last)
              /\ BmcSends(Packet("fragment", next))
              /\ video' = next

BmcHangs ==
    /\ socket = "open" /\ ~hung
    /\ hung' = TRUE
    /\ UNCHANGED <<opts, pc, outcome, sent, socket, status, buf, frame, file, line, video>>

----------------------------------------------------------------------------
(* Ends.                                                                   *)

\* Mutant: the session is stopped and closed on success only.
Finish_NoFinally(how) ==
    /\ pc' = "over" /\ outcome' = how
    /\ IF socket = "open" /\ how = "ok"
       THEN socket' = "closed" /\ sent' = Append(sent, "stop")
       ELSE UNCHANGED <<socket, sent>>

\* The finally of run_capture: STOP_SESSION_IMMEDIATE, sent or not, then
\* close; before the connection there is nothing to close.
Finish(how) ==
    /\ pc' = "over" /\ outcome' = how
    /\ IF socket = "open"
       THEN socket' = "closed" /\ sent' \in {sent, Append(sent, "stop")}
       ELSE UNCHANGED <<socket, sent>>

Over(how) ==
    Finish(how) /\ UNCHANGED <<opts, status, buf, frame, file, bmcVars>>

----------------------------------------------------------------------------
(* main and run_capture up to the connection.                              *)

CheckOptions ==
    /\ pc = "main"
    /\ \/ opts.capture = "decoded_frame" /\ Over("unsupported_capability")
       \/ opts.capture = "raw_frame" /\ Over("protocol")  \* no such directory
       \/ opts.capture # "decoded_frame" /\ opts.check /\ Over("ok")
       \/ /\ opts.capture # "decoded_frame" /\ ~opts.check
          /\ pc' = "connect"
          /\ UNCHANGED <<opts, outcome, sent, socket, status, buf, frame, file, bmcVars>>

\* The token is given, or minted with login and the JNLP document; then dial.
Connect ==
    /\ pc = "connect"
    /\ \/ \E c \in Classes : Over(c)
       \/ /\ pc' = "greeting" /\ socket' = "open"
          /\ UNCHANGED <<opts, outcome, sent, status, buf, frame, file, bmcVars>>

----------------------------------------------------------------------------
(* read_packet and write_packet.                                           *)

Reading == pc \in {"greeting", "response", "frames"}

\* No byte for the whole timeout: TimeoutError_.
ReadTimesOut == Reading /\ line = <<>> /\ ~hung /\ Over("timeout")

\* The BMC has closed: EOFError, which is no IkvmError and which main does
\* not catch.
ReadEof == Reading /\ line = <<>> /\ hung /\ Over("traceback")

\* A socket error, a short header or an implausible size.
ReadFails == Reading /\ (Over("connection") \/ Over("protocol"))

WriteFails == pc \in {"request", "resume", "refresh"} /\ Over("connection")

Write(msgs, next) ==
    /\ pc' = next /\ sent' = sent \o msgs
    /\ UNCHANGED <<opts, outcome, socket, status, buf, frame, file, bmcVars>>

\* The packet at the head of the line is consumed; the module goes on at next.
Read(next) ==
    /\ line' = Tail(line) /\ pc' = next
    /\ UNCHANGED <<opts, outcome, sent, socket, file, hung, video>>

----------------------------------------------------------------------------
(* open_channel.                                                           *)

Greeted ==
    /\ pc = "greeting" /\ line # <<>>
    /\ IF Head(line).kind = "accepted"
       THEN Read("request") /\ UNCHANGED <<status, buf, frame>>
       ELSE Over("protocol")

SendRequest ==
    /\ pc = "request"
    /\ Write(IF opts.web_token THEN <<"token", "validate">> ELSE <<"validate">>, "response")

\* validate_status_error
StatusClass(s) ==
    CASE s = "kvm_disabled"  -> "unsupported_capability"
      [] s = "invalid_token" -> "authentication"
      [] OTHER               -> "protocol"

\* stop_session_error
StopClass(r) ==
    CASE r = "web_logout"      -> "authentication"
      [] r = "license_expired" -> "unsupported_capability"
      [] r = "timed_out"       -> "timeout"
      [] r = "kvm_disconnect"  -> "invalid_state"
      [] OTHER                 -> "remote_operation"

\* Whatever is neither the response nor a stop is discarded.
Responded ==
    /\ pc = "response" /\ line # <<>>
    /\ LET p == Head(line) IN
       CASE p.kind = "response" /\ p.body = "valid" ->
              Read("resume") /\ status' = p.body /\ UNCHANGED <<buf, frame>>
         [] p.kind = "response" /\ p.body # "valid" ->
              /\ Finish(StatusClass(p.body)) /\ status' = p.body
              /\ UNCHANGED <<opts, buf, frame, file, bmcVars>>
         [] p.kind = "stop" -> Over(StopClass(p.body))
         [] OTHER -> Read("response") /\ UNCHANGED <<status, buf, frame>>

SendResume == pc = "resume" /\ Write(<<"resume">>, "opened")

Opened ==
    /\ pc = "opened"
    /\ IF opts.capture = "raw_frame" THEN Write(<<>>, "refresh") ELSE Over("ok")

----------------------------------------------------------------------------
(* capture_one_frame.                                                      *)

SendRefresh == pc = "refresh" /\ Write(<<"refresh">>, "frames")

\* Mutant: the first fragment of a frame does not clear the buffer.
feed_Appends(f) ==
    LET all == Append(buf, f)
    IN  /\ Len(all) <= MAX_FRAME_BYTES
        /\ IF f.last THEN Read("write") /\ frame' = all /\ buf' = <<>>
                     ELSE Read("frames") /\ buf' = all /\ UNCHANGED frame
        /\ UNCHANGED status

\* FrameReassembler.feed: a first fragment clears the buffer, a last one
\* hands it over.
feed(f) ==
    LET all == Append(IF f.num = 0 THEN <<>> ELSE buf, f)
    IN  \/ /\ Len(all) > MAX_FRAME_BYTES
           /\ Over("protocol")
        \/ /\ Len(all) <= MAX_FRAME_BYTES
           /\ IF f.last THEN Read("write") /\ frame' = all /\ buf' = <<>>
                        ELSE Read("frames") /\ buf' = all /\ UNCHANGED frame
           /\ UNCHANGED status

\* Mutant: packets of no interest are looked at again and again.
PacketIn_Stuck ==
    /\ pc = "frames" /\ line # <<>>
    /\ LET p == Head(line) IN
       CASE p.kind = "fragment" -> feed(p.body)
         [] p.kind = "stop" -> Over(StopClass(p.body))
         [] OTHER -> UNCHANGED vars

PacketIn ==
    /\ pc = "frames" /\ line # <<>>
    /\ LET p == Head(line) IN
       CASE p.kind = "fragment" -> feed(p.body)
         [] p.kind = "stop" -> Over(StopClass(p.body))
         [] OTHER -> Read("frames") /\ UNCHANGED <<status, buf, frame>>

\* write_frame truncates, then writes; an OSError is not caught either.
WriteFrame ==
    /\ pc = "write"
    /\ \/ file' = frame /\ Finish("ok")
       \/ file' \in {file, <<>>} /\ Finish("traceback")
    /\ UNCHANGED <<opts, status, buf, frame, bmcVars>>

----------------------------------------------------------------------------

Module ==
    \/ CheckOptions \/ Connect \/ ReadTimesOut \/ ReadEof \/ Greeted \/ SendRequest
    \/ Responded \/ SendResume \/ Opened \/ SendRefresh \/ PacketIn \/ WriteFrame

Bmc == BmcGreets \/ BmcAnswers \/ BmcStops \/ BmcChatters \/ BmcStreams \/ BmcHangs

Next == Module \/ ReadFails \/ WriteFails \/ Bmc

Spec == Init /\ [][Next]_vars

\* The module process runs on, and a read that gets nothing times out; a
\* socket error is not something to count on.
LiveSpec == Spec /\ WF_vars(Module)

----------------------------------------------------------------------------

Whole(s) ==
    /\ s # <<>> /\ s[Len(s)].last
    /\ \A i \in 1..Len(s) : s[i].frame = s[1].frame /\ s[i].num = i - 1

\* Whatever the BMC interleaves and however many frames it gives up half-way,
\* a capture of a stream that starts at a first fragment, when reported, holds all the fragments of exactly one frame,
\* and the reassembly buffer stays within its limit.
CaptureIsOneFrame ==
    /\ outcome = "ok" /\ opts.capture = "raw_frame" /\ ~opts.check => Whole(file)
    /\ Len(buf) <= MAX_FRAME_BYTES

\* However the capture ends once it has connected, by an error or a
\* traceback included, the socket is closed and nothing follows the stop.
SessionReleased ==
    /\ pc = "over" => socket # "open"
    /\ \A i \in 1..Len(sent) : sent[i] = "stop" => i = Len(sent) /\ socket = "closed"

\* A packet that takes the capture no further: one of no interest, or the first
\* fragment of a frame while the one before it lacks its end.
Diverts == BmcChatters \/ (BmcStreams /\ video'.num = 0 /\ ~video.last)

\* Every capture ends, whatever the BMC sends, stops sending, or leaves
\* unanswered, unless it sends diverting packets for ever: each packet restarts
\* handshake_timeout or frame_timeout, and the fragments of one frame alone end
\* in the frame or at MAX_FRAME_BYTES.
CaptureEnds == <>(pc = "over") \/ []<><<Diverts>>_vars

----------------------------------------------------------------------------
(* What the documentation says and the code does not do.                   *)

\* "Every failure carries a stable, machine-readable `error_class`" (README.md).
EveryFailureClassified == outcome # "traceback"

\* An unrecognised status byte is a `remote_operation` failure
\* (docs/asmb8_console.md).
UnknownStatusIsRemote == status = "unknown" => outcome = "remote_operation"

\* frame_timeout is "Seconds to wait for one complete video frame"
\* (plugins/modules/asmb8_console.py): the wait for a frame comes to an end.
FrameTimeoutEnds == pc = "frames" ~> pc = "over"

=============================================================================
