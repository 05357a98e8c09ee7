----------------------------- MODULE HttpRequest -----------------------------
(***************************************************************************)
(* What a handler thread of HttpOrigin answers: one request to             *)
(* plugins/module_utils/http_origin.py as a function, from the request and *)
(* what happens to the file meanwhile to the response.                     *)
(*                                                                         *)
(* A file is the sequence of its bytes.  A path is the sequence of its     *)
(* segments, after the one round of percent-decoding; the directory tree   *)
(* says where each segment leads, links followed.                          *)
(***************************************************************************)
EXTENDS HttpOrigin, Integers, Sequences, SequencesExt

CONSTANTS
    Tree,       \* <<directory, segment>> -> node
    Links,      \* the entries of the tree that are symbolic links
    Parent,     \* node -> the directory it really is in
    Regular,    \* the nodes that are regular files
    ServedRoot, \* the directory to serve
    Nowhere,    \* what resolves to nothing: a name that is not there
    MaxSize,    \* bound: bytes of a file
    MaxDepth    \* bound: segments of a path

Nodes == DOMAIN Parent
Segments == {key[2] : key \in DOMAIN Tree} \cup {"", ".", "..", "missing"}

ASSUME TreeAssumption ==
    /\ \A key \in DOMAIN Tree : key[1] \in Nodes /\ Tree[key] \in Nodes
    /\ \A n \in Nodes : Parent[n] \in Nodes
    /\ Links \subseteq DOMAIN Tree
    /\ \A key \in DOMAIN Tree \ Links : Parent[Tree[key]] = key[1]
    /\ Regular \subseteq Nodes /\ ServedRoot \in Nodes /\ Nowhere \notin Nodes
    /\ MaxSize \in Nat /\ MaxDepth \in Nat

----------------------------------------------------------------------------
(* Paths.                                                                  *)

\* The root has to be a directory when the module is called.
validate_root(node) == node \in Nodes /\ node \notin Regular

\* node, its directory, the directory of that, ...
Ancestors(node) ==
    LET up[k \in 0..Cardinality(Nodes)] == IF k = 0 THEN node ELSE Parent[up[k - 1]]
    IN  {up[k] : k \in 0..Cardinality(Nodes)}

Walk(at, segment) == IF <<at, segment>> \in DOMAIN Tree THEN Tree[<<at, segment>>] ELSE Nowhere

\* Where joinpath and resolve end up: the last node on the way that exists,
\* and whether that is the end of the path.
Resolve(segments) ==
    FoldLeft(LAMBDA r, s : IF ~r.whole \/ Walk(r.node, s) = Nowhere
                           THEN [node |-> r.node, whole |-> FALSE]
                           ELSE [node |-> Walk(r.node, s), whole |-> TRUE],
             [node |-> ServedRoot, whole |-> TRUE], segments)

\* Mutant: the links on the way are not looked at.
resolve_within_root_NoLinks(path) ==
    LET segments == SelectSeq(path, LAMBDA s : s \notin {"", "."})
    IN  IF Contains(segments, "..") THEN Nowhere
        ELSE IF Resolve(segments).whole THEN Resolve(segments).node ELSE ServedRoot

\* The node to serve; a path that leads out of the root is refused, one that
\* ends inside it without a node there is taken for a name without a file.
resolve_within_root(path) ==
    LET segments == SelectSeq(path, LAMBDA s : s \notin {"", "."})
        r        == Resolve(segments)
    IN  IF Contains(segments, "..") \/ ServedRoot \notin Ancestors(r.node) THEN Nowhere
        ELSE IF r.whole THEN r.node ELSE ServedRoot

----------------------------------------------------------------------------
(* Range headers.  A number is absent, not a number, or an integer.        *)

Absent == [is |-> "absent", n |-> 0]
Bad == [is |-> "bad", n |-> 0]
Num(n) == [is |-> "number", n |-> n]

\* A header that is no single bytes range with a dash, or first-last.  What
\* stands before the first dash has no sign; after it there may be another.
NoRange == [kind |-> "none", first |-> Absent, last |-> Absent]
Headers ==
    {NoRange} \cup [kind : {"bytes"}, first : {Absent, Bad} \cup {Num(n) : n \in 0..(MaxSize + 1)},
                    last : {Absent, Bad} \cup {Num(n) : n \in (-1)..(MaxSize + 1)}]

Least(a, b) == IF a < b THEN a ELSE b

Ignored == [is |-> "ignored", start |-> 0, end |-> 0]
RangeNotSatisfiable == [is |-> "unsatisfiable", start |-> 0, end |-> 0]
ByteRange(start, end) == [is |-> "range", start |-> start, end |-> end]

\* Mutant: a suffix longer than the file starts before it.
SuffixRange_Unclipped(n, size) == ByteRange(size - n, size - 1)

\* The last n bytes, or all there are.
SuffixRange(n, size) == ByteRange(IF size > n THEN size - n ELSE 0, size - 1)

parse_range_header(h, size) ==
    CASE h.kind = "none" \/ (h.first = Absent /\ h.last = Absent) -> Ignored
      [] h.kind # "none" /\ h.first = Absent /\ h.last # Absent ->
            IF h.last = Bad THEN Ignored
            ELSE IF h.last.n <= 0 \/ size = 0 THEN RangeNotSatisfiable
            ELSE SuffixRange(h.last.n, size)
      [] OTHER ->
            IF h.first = Bad THEN Ignored
            ELSE IF size = 0 \/ h.first.n >= size THEN RangeNotSatisfiable
            ELSE IF h.last = Absent THEN ByteRange(h.first.n, size - 1)
            ELSE IF h.last = Bad \/ h.last.n < h.first.n THEN Ignored
            ELSE ByteRange(h.first.n, Least(h.last.n, size - 1))

----------------------------------------------------------------------------
(* The handler.                                                            *)

\* What happens meanwhile: the bytes of the file when its size is taken and
\* when it is read, whether it is still there for the one and for the other,
\* and after how many bytes of the response the client is gone (-1: before
\* the headers).
Bytes(n) == [i \in 1..n |-> i]
Worlds == [was : {Bytes(n) : n \in 0..MaxSize}, now : {Bytes(n) : n \in 0..MaxSize},
           stats : BOOLEAN, opens : BOOLEAN, patience : (-1)..(MaxSize + 1)]

\* status and length as sent, the bytes that follow, what the access log
\* says, and whether an error page was sent into the body.
Response(status, length, body, logged, outcome, page) ==
    [status |-> status, length |-> length, body |-> body, logged |-> logged,
     outcome |-> outcome, page |-> page]
Plainly(status, outcome) == Response(status, 0, <<>>, status, outcome, FALSE)

\* The loop that copies the file: read on from start until length bytes are
\* sent or the file is at its end.
Copied(w, start, length) == SubSeq(w.now, start + 1, Least(start + length, Len(w.now)))

Body(w, status, start, length) ==
    LET body == Copied(w, start, length)
    IN  CASE ~w.opens -> Response(status, length, <<>>, 500, "error", TRUE)
          [] w.opens /\ Len(body) > w.patience ->
                Response(status, length, SubSeq(body, 1, w.patience), status,
                         "client_disconnected", FALSE)
          [] OTHER -> Response(status, length, body, status, "ok", FALSE)

\* _handle of a GET or a HEAD request.  Writing the headers to a client that
\* is gone is an OSError like any other.
_handle(path, h, get, w) ==
    LET node   == resolve_within_root(path)
        size   == Len(w.was)
        range  == parse_range_header(h, size)
        start  == IF range.is = "range" THEN range.start ELSE 0
        end    == IF range.is = "range" THEN range.end ELSE size - 1
        status == IF range.is = "range" THEN 206 ELSE 200
    IN  CASE w.patience < 0 -> Response(0, 0, <<>>, 500, "error", FALSE)
          [] w.patience >= 0 /\ node = Nowhere -> Plainly(404, "blocked_traversal")
          [] w.patience >= 0 /\ node # Nowhere /\ (node \notin Regular \/ ~w.stats) ->
                Plainly(404, "not_found")
          [] w.patience >= 0 /\ node \in Regular /\ w.stats /\ range.is = "unsatisfiable" ->
                Plainly(416, "range_not_satisfiable")
          [] OTHER -> IF get THEN Body(w, status, start, end - start + 1)
                      ELSE Response(status, end - start + 1, <<>>, status, "ok", FALSE)

----------------------------------------------------------------------------
(* The self-test of a daemon that has just bound its port.                 *)

Paths == UNION {[1..n -> Segments] : n \in 0..MaxDepth}

\* A walk down from the root that follows no link and takes none for a file
\* ends at one of these; which one comes first does not matter.
_find_probe_file ==
    {path \in Paths :
        /\ \A i \in DOMAIN path :
              <<Resolve(SubSeq(path, 1, i - 1)).node, path[i]>> \in DOMAIN Tree \ Links
        /\ Resolve(path).node \in Regular}

_SELF_TEST_EMPTY_ROOT_PROBE_PATH == <<"missing">>

\* Does the answer to a GET of this path prove that the daemon serves?
\* `expected` has been read from the file itself.
_run_self_test(path, expected, w) ==
    LET r == _handle(path, NoRange, TRUE, w)
    IN  IF _find_probe_file # {} THEN r.status = 200 /\ r.body = expected
        ELSE r.status = 404

\* A path it may ask for, and a file that nobody touches meanwhile.
ProbePaths ==
    IF _find_probe_file # {} THEN _find_probe_file ELSE {_SELF_TEST_EMPTY_ROOT_PROBE_PATH}
Undisturbed == {w \in Worlds : w.was = w.now /\ w.stats /\ w.opens /\ w.patience > MaxSize}

----------------------------------------------------------------------------
(* Properties.                                                             *)

\* The bytes a single range asks for, by their numbers.
Wanted(h, size) ==
    {i \in 0..(size - 1) :
        IF h.first = Absent THEN i >= size - h.last.n
        ELSE i >= h.first.n /\ (h.last # Absent => i <= h.last.n)}

\* first-last, first- or -last, with numbers; "2-1" is no range.
WellFormed(h) ==
    /\ h.kind = "bytes" /\ h.first # Bad /\ h.last # Bad
    /\ h.first # Absent \/ h.last # Absent
    /\ h.first # Absent /\ h.last # Absent => h.first.n <= h.last.n

\* A path that serves the regular file f: it goes down from the root, from
\* name to name, and f itself is inside the root.
Names(path, f) ==
    /\ ~Contains(path, "..")
    /\ Resolve(SelectSeq(path, LAMBDA s : s \notin {"", "."})) = [node |-> f, whole |-> TRUE]
    /\ ServedRoot \in Ancestors(f)

\* Is there a handler thread that may get such a request?
Handling == \E p \in Pids : conn[p] # {}

RangesExact ==
    \A size \in 0..MaxSize, h \in Headers :
        LET r == parse_range_header(h, size)
        IN  IF WellFormed(h)
            THEN /\ r.is = "unsatisfiable" <=> Wanted(h, size) = {}
                 /\ r.is = "range" => r.start..r.end = Wanted(h, size)
                 /\ r.is # "ignored"
            ELSE r.is # "range" /\ (r.is = "unsatisfiable" => h.first.is = "number" /\ h.first.n >= size)

\* parse_range_header: a well-formed range selects exactly the bytes it names
\* that the file has, and is refused exactly when there are none; anything
\* else is ignored, unless its first byte is already past the end.
RangeExact == Handling => RangesExact

\* Exactly the regular files inside the root, by the paths that lead there.
Confined ==
    /\ validate_root(ServedRoot)
    /\ \A path \in Paths, f \in Regular : resolve_within_root(path) = f <=> Names(path, f)

\* The response against the file as it was and as it is read.
ResponsesExact ==
    LET path == CHOOSE p \in Paths : resolve_within_root(p) \in Regular
    IN  \A h \in Headers, w \in Worlds, get \in BOOLEAN :
            LET r == _handle(path, h, get, w)
                part == IF r.status = 206 THEN parse_range_header(h, Len(w.was))
                        ELSE ByteRange(0, Len(w.was) - 1)
            IN  /\ r.status \in {200, 206} =>
                      /\ r.length = part.end - part.start + 1
                      /\ IsPrefix(r.body, Copied(w, part.start, r.length))
                /\ r.status \in {200, 206} /\ get /\ r.outcome = "ok" /\ w.now = w.was =>
                      r.body = SubSeq(w.was, part.start + 1, part.end + 1) /\ Len(r.body) = r.length
                /\ r.status = 206 => WellFormed(h)
                /\ r.logged \in {200, 206} => r.status = r.logged
                /\ r.body # <<>> => get

\* A daemon that answers as it should passes its own test, whatever links the
\* root has in it.
SelfTestPasses ==
    \A path \in ProbePaths, w \in Undisturbed : _run_self_test(path, w.now, w)

\* resolve_within_root serves exactly the regular files inside the root, links
\* between them included.  _handle: while the file is left alone and the
\* client stays, the body is what the status and the range promise, to the
\* byte, and as long as Content-Length says.  Whatever happens, what is sent
\* is the beginning of that part of the file as it is read, and no success is
\* logged that was not sent.  _find_probe_file never picks a file that the
\* daemon rightly refuses to serve, so a sound daemon does not fail its test.
ServedExactly == Handling => Confined /\ ResponsesExact /\ SelfTestPasses

----------------------------------------------------------------------------
(* What the documentation says and the code does not do.                   *)

\* parse_range_header: "Returns None when ... malformed syntax"; a last byte
\* that is not a number, or before the first, is 416 when the first is past
\* the end.
MalformedIgnored ==
    Handling =>
    \A size \in 0..MaxSize, h \in Headers : ~WellFormed(h) => parse_range_header(h, size) = Ignored
=============================================================================
