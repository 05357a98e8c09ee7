---------------------------- MODULE IusbSession -----------------------------
(***************************************************************************)
(* One iUSB connection of plugins/module_utils/iusb.py: the authentication *)
(* exchange, read_packet over a TCP stream that delivers any prefix at any *)
(* time, and serve_forever with the callbacks that media_session.py gives  *)
(* it.                                                                     *)
(*                                                                         *)
(* A frame is HEADER_LEN units of header and `len` units of payload; the   *)
(* stream is a position, so every split of a frame over recv calls is      *)
(* covered.  A header announces its length and its kind is what            *)
(* payload[OPCODE_OFFSET] would say.  The number of a frame stands for its *)
(* sequence_number.                                                        *)
(***************************************************************************)
EXTENDS Naturals, Sequences, SequencesExt

CONSTANTS
    HEADER_LEN,          \* units of a header
    MAX_PACKET_PAYLOAD,  \* longest payload read_packet accepts
    OPCODE_OFFSET,       \* payloads of at most this many units carry no opcode
    Lengths,             \* payload lengths the BMC announces
    MaxFrames            \* bound: frames the BMC sends on the connection

ASSUME WireAssumption ==
    /\ HEADER_LEN \in Nat \ {0} /\ MAX_PACKET_PAYLOAD \in Nat
    /\ OPCODE_OFFSET \in Nat /\ Lengths \subseteq Nat /\ MaxFrames \in Nat

VARIABLES
    frames,   \* what the BMC has begun to send: where, what, how long
    written,  \* units of the stream the BMC has written
    closed,   \* has the BMC closed its end?
    taken,    \* units the client has received
    got,      \* units received by the current recv_exact call
    pc,       \* where the client is
    open,     \* has the handshake been completed?
    req,      \* the frame being read or handled
    stop,     \* should_stop()
    traced,   \* READ requests in the trace sidecar, in order
    served,   \* READ requests the device has handled
    shown,    \* the same count as last published in the state file
    answers   \* sequence numbers of the responses sent

bmcVars == <<frames, written, closed>>
tallies == <<traced, served, shown, answers>>
vars == <<bmcVars, taken, got, pc, open, req, stop, tallies>>

Kinds    == {"ack", "refuse", "kill", "read", "other"}
Outcomes == {"stopped", "peer_closed", "killed", "error"}

Over  == pc \in Outcomes
Total == IF frames = <<>> THEN 0 ELSE Last(frames).at + HEADER_LEN + Last(frames).len

\* What the BMC may send next, from where the stream now ends.
Frame == [at : {Total}, kind : Kinds, len : Lengths]

Init ==
    /\ frames = <<>> /\ written = 0 /\ closed = FALSE
    /\ taken = 0 /\ got = 0 /\ pc = "auth" /\ open = FALSE /\ req = 0
    /\ stop = FALSE
    /\ traced = <<>> /\ served = 0 /\ shown = 0 /\ answers = <<>>

----------------------------------------------------------------------------
(* The BMC's end: strictly one request at a time.                          *)

Carries(f, kind) == f.len > OPCODE_OFFSET /\ f.kind = kind
Replies(f) == f.len > OPCODE_OFFSET /\ f.kind # "kill"

Answered(n) == \E i \in 1..Len(answers) : answers[i] = n

\* A frame is begun when the one before is complete and, if it asks for a
\* response, answered.  The first one answers our authentication.
BmcBegins ==
    /\ ~closed /\ pc # "auth" /\ written = Total /\ Len(frames) < MaxFrames
    /\ Len(frames) > 1 => ~Replies(Last(frames)) \/ Answered(Len(frames))
    /\ Len(frames) = 1 => open
    /\ \E f \in Frame : frames' = Append(frames, f)
    /\ UNCHANGED <<written, closed, taken, got, pc, open, req, stop, tallies>>

BmcWrites ==
    /\ ~closed /\ written < Total
    /\ \E n \in 1..(Total - written) : written' = written + n
    /\ UNCHANGED <<frames, closed, taken, got, pc, open, req, stop, tallies>>

BmcCloses ==
    /\ ~closed
    /\ closed' = TRUE
    /\ UNCHANGED <<frames, written, taken, got, pc, open, req, stop, tallies>>

----------------------------------------------------------------------------
(* The client's reads.                                                     *)

Goto(label) == pc' = label /\ UNCHANGED <<bmcVars, open, stop>>

\* build_auth is written; then the dial timeout applies to the reads.
SendAuth ==
    /\ pc = "auth"
    /\ Goto("head") \/ Goto("error")
    /\ UNCHANGED <<taken, got, req, tallies>>

want == IF pc = "head" THEN HEADER_LEN ELSE frames[req].len

\* One sock.recv: any non-empty prefix of what has arrived.
Recv ==
    /\ pc \in {"head", "body"} /\ got < want
    /\ \E n \in 1..(want - got) :
          /\ taken + n <= written
          /\ taken' = taken + n /\ got' = got + n
    /\ UNCHANGED <<bmcVars, pc, open, req, stop, tallies>>

\* The signature is only found where a frame begins.
ParseHeader ==
    LET here == {i \in 1..Len(frames) : frames[i].at = taken - got}
        Bad(i) == frames[i].len > MAX_PACKET_PAYLOAD
    IN  /\ pc = "head" /\ got = HEADER_LEN
        /\ \/ (here = {} \/ \E i \in here : Bad(i)) /\ Goto("error") /\ UNCHANGED req
           \/ \E i \in here :
                 /\ ~Bad(i)
                 /\ req' = i
                 /\ IF frames[i].len = 0 THEN Goto("handle") ELSE Goto("body")
        /\ got' = 0
        /\ UNCHANGED <<taken, tallies>>

PayloadDone ==
    /\ pc = "body" /\ got = want
    /\ Goto("handle")
    /\ got' = 0
    /\ UNCHANGED <<taken, req, tallies>>

\* Mutant: a timeout is idle whatever has been received already.
Timeout_Forgives ==
    /\ pc \in {"head", "body"} /\ got < want /\ taken = written /\ ~closed
    /\ IF open THEN Goto("loop") ELSE Goto("error")
    /\ got' = 0
    /\ UNCHANGED <<taken, req, tallies>>

\* Mutant: an idle read is simply tried again.
Timeout_Retries ==
    /\ pc \in {"head", "body"} /\ got < want /\ taken = written /\ ~closed
    /\ IF got = 0 /\ open THEN Goto(pc) ELSE Goto("error")
    /\ got' = 0
    /\ UNCHANGED <<taken, req, tallies>>

\* recv timed out.  With nothing received by this recv_exact call it is
\* IdleTimeout (serve_forever: a heartbeat and round again; _authenticate:
\* a failure); otherwise the connection has stalled.
Timeout ==
    /\ pc \in {"head", "body"} /\ got < want /\ taken = written /\ ~closed
    /\ IF got = 0 /\ open THEN Goto("loop") ELSE Goto("error")
    /\ got' = 0
    /\ UNCHANGED <<taken, req, tallies>>

\* recv returned nothing: EOFError, wherever in the frame it comes.
Eof ==
    /\ pc \in {"head", "body"} /\ got < want /\ taken = written /\ closed
    /\ IF open THEN Goto("peer_closed") /\ shown' = served
               ELSE Goto("error") /\ UNCHANGED shown
    /\ got' = 0
    /\ UNCHANGED <<taken, req, traced, served, answers>>

SocketError ==
    /\ pc \in {"head", "body"}
    /\ Goto("error")
    /\ got' = 0
    /\ UNCHANGED <<taken, req, tallies>>

----------------------------------------------------------------------------
(* _authenticate and serve_forever.                                        *)

interpret_ack ==
    /\ pc = "handle" /\ ~open
    /\ IF Carries(frames[req], "ack")
       THEN pc' = "loop" /\ open' = TRUE
       ELSE pc' = "error" /\ UNCHANGED open
    /\ UNCHANGED <<bmcVars, taken, got, req, stop, tallies>>

\* A clean end publishes the device's final counts.
CheckStop ==
    /\ pc = "loop"
    /\ IF stop THEN Goto("stopped") /\ shown' = served
               ELSE Goto("head") /\ UNCHANGED shown
    /\ UNCHANGED <<taken, got, req, traced, served, answers>>

Killed ==
    /\ pc = "handle" /\ open /\ Carries(frames[req], "kill")
    /\ Goto("killed")
    /\ shown' = served
    /\ UNCHANGED <<taken, got, req, traced, served, answers>>

\* Mutant: the trace line is left for later.
OnRequest_NoTrace ==
    /\ pc = "handle" /\ open /\ ~Carries(frames[req], "kill")
    /\ Goto("reply")
    /\ shown' = served
    /\ UNCHANGED <<taken, got, req, traced, served, answers>>

\* on_request: publish the counts so far, append the trace line; a failing
\* trace write ends the session.
OnRequest ==
    /\ pc = "handle" /\ open /\ ~Carries(frames[req], "kill")
    /\ \/ /\ Goto("reply")
          /\ traced' = IF Carries(frames[req], "read") THEN Append(traced, req) ELSE traced
       \/ Carries(frames[req], "read") /\ Goto("error") /\ UNCHANGED traced
    /\ shown' = served
    /\ UNCHANGED <<taken, got, req, served, answers>>

\* Mutant: responses are numbered by a counter of our own.
Reply_OwnCounter ==
    /\ pc = "reply" /\ Replies(frames[req])
    /\ Goto("loop")
    /\ served' = IF frames[req].kind = "read" THEN served + 1 ELSE served
    /\ answers' = Append(answers, Len(answers) + 1)
    /\ UNCHANGED <<taken, got, req, traced, shown>>

\* Mutant: an opcode the device does not know gets no reply.
Reply_KnownOnly ==
    /\ pc = "reply" /\ Replies(frames[req])
    /\ Goto("loop")
    /\ IF frames[req].kind = "read"
       THEN served' = served + 1 /\ answers' = Append(answers, req)
       ELSE UNCHANGED <<served, answers>>
    /\ UNCHANGED <<taken, got, req, traced, shown>>

\* handler.handle, then build_response_frame with the request's own
\* sequence number; the image read or the socket may fail.
Reply ==
    /\ pc = "reply" /\ Replies(frames[req])
    /\ \/ /\ Goto("loop")
          /\ served' = IF frames[req].kind = "read" THEN served + 1 ELSE served
          /\ answers' = Append(answers, req)
       \/ /\ Goto("error")
          /\ served' \in {served, IF frames[req].kind = "read" THEN served + 1 ELSE served}
          /\ UNCHANGED answers
    /\ UNCHANGED <<taken, got, req, traced, shown>>

\* A payload too short for an opcode gets no reply.
NoReply ==
    /\ pc = "reply" /\ ~Replies(frames[req])
    /\ Goto("loop")
    /\ UNCHANGED <<taken, got, req, tallies>>

ClientStep ==
    \/ SendAuth \/ Recv \/ ParseHeader \/ PayloadDone \/ Timeout \/ Eof
    \/ interpret_ack \/ CheckStop \/ Killed \/ OnRequest \/ Reply \/ NoReply

\* SIGTERM, at any moment.
Sigterm ==
    /\ ~stop /\ ~Over
    /\ stop' = TRUE
    /\ UNCHANGED <<bmcVars, taken, got, pc, open, req, tallies>>

Next ==
    \/ BmcBegins \/ BmcWrites \/ BmcCloses
    \/ ClientStep \/ SocketError \/ Sigterm

Spec == Init /\ [][Next]_vars

\* The client never blocks: each recv is bounded by the socket timeout, so
\* one of Recv, Timeout and Eof always comes.  The BMC owes us nothing.
FairSpec == Spec /\ WF_vars(ClientStep)

----------------------------------------------------------------------------
(* Properties.                                                             *)

\* The position the current recv_exact started from begins a frame.
AtBoundary == taken - got \in {frames[i].at : i \in 1..Len(frames)} \cup {Total}

EndOf(n) == frames[n].at + HEADER_LEN + frames[n].len
ReadAnswers == SelectSeq(answers, LAMBDA n : frames[n].kind = "read")

\* Responses pair with requests by the header's sequence number alone:
\* however the stream is cut up and whatever times out, a response is sent
\* at most once, in order, and only for a request that asks for one and
\* was received to its last byte.
ResponsesPaired ==
    /\ \A i \in 1..Len(answers) :
          answers[i] > 1 /\ Replies(frames[answers[i]]) /\ EndOf(answers[i]) <= taken
    /\ \A i, j \in 1..Len(answers) : i < j => answers[i] < answers[j]

\* What is on record of a session stays within the one request in hand.  The
\* sidecar never misses a READ that was answered, keeps their order, and is
\* ahead by at most the one whose reply is still to come or was lost with the
\* session; the published counters lag by at most one and are exact in the
\* record of a clean end, whichever of the three ends it is.
AccountsExact ==
    /\ IsPrefix(ReadAnswers, traced)
    /\ Len(traced) <= Len(ReadAnswers) + 1
    /\ Len(traced) > Len(ReadAnswers) => pc \in {"reply", "error"}
    /\ shown <= served /\ served <= shown + 1
    /\ Over /\ pc # "error" => shown = served

\* A stop request ends the session whatever the BMC does: it may send half
\* a frame, nothing at all, or keep asking.
StopNoticed == stop ~> Over

\* A header whose payload came late is dropped and the reader is out of
\* step; as soon as more of the stream arrives the session ends: it never
\* goes on with a misread stream.
DesyncEnds == pc \in {"loop", "head"} /\ ~AtBoundary /\ written > taken ~> Over

\* A request that asks for a response and has arrived gets it, or the
\* session ends: the BMC is never left waiting on a live connection.
RequestServed ==
    \A n \in 2..MaxFrames :
        n <= Len(frames) /\ Replies(frames[n]) /\ written >= EndOf(n) ~> Answered(n) \/ Over

----------------------------------------------------------------------------
(* What the documentation says and the code does not do.                   *)

\* iusb.py, IdleTimeout: raised on "zero bytes read for the *current*
\* logical read (a fresh packet header, not a payload already in flight)",
\* so the serve loop only ever goes round at a frame boundary.
IdleOnlyAtBoundary == pc = "loop" => AtBoundary

\* media_session.py, read_trace_log_path: "one line per READ(10)/READ(12)
\* request actually served".
TraceIsServed == Over => Len(traced) = Len(ReadAnswers)
=============================================================================
