------------------------------ MODULE TraceLog ------------------------------
(***************************************************************************)
(* read_trace_summary of plugins/module_utils/media_session.py: what a     *)
(* status call makes of the READ trace an IusbSession has written, in a    *)
(* file that grows while it is read and may end in a line that was cut     *)
(* off.  A line is an entry, blank, cut off, or JSON that is no object.    *)
(***************************************************************************)
EXTENDS IusbSession

CONSTANTS
    MaxLines,  \* bound: lines of the file
    MaxLimit   \* bound: head_limit and tail_limit

ASSUME TraceAssumption == MaxLines \in Nat /\ MaxLimit \in Nat

LineKinds == {"entry", "blank", "torn", "other"}

\* collections.deque(maxlen): the oldest goes.
DequeAppend(deque, x, maxlen) ==
    LET longer == Append(deque, x)
    IN  SubSeq(longer, Len(longer) - (IF Len(longer) < maxlen THEN Len(longer) ELSE maxlen) + 1, Len(longer))

\* Mutant: every line counts, whether it parses or not.
TakeLine_Torn(acc, i, kind, head_limit, tail_limit) ==
    IF acc.total + 1 <= head_limit
    THEN [acc EXCEPT !.total = @ + 1, !.head = Append(@, i)]
    ELSE [acc EXCEPT !.total = @ + 1, !.tail = DequeAppend(@, i, tail_limit)]

\* One line of the file.
TakeLine(acc, i, kind, head_limit, tail_limit) ==
    IF kind # "entry" THEN acc
    ELSE IF acc.total + 1 <= head_limit
    THEN [acc EXCEPT !.total = @ + 1, !.head = Append(@, i)]
    ELSE [acc EXCEPT !.total = @ + 1, !.tail = DequeAppend(@, i, tail_limit)]

\* Entries are named by the number of their line.
read_trace_summary(lines, head_limit, tail_limit) ==
    LET acc == FoldLeft(LAMBDA a, i : TakeLine(a, i, lines[i], head_limit, tail_limit),
                        [head |-> <<>>, tail |-> <<>>, total |-> 0],
                        [i \in 1..Len(lines) |-> i])
    IN  [head |-> acc.head, tail |-> acc.tail,
         dropped |-> IF acc.total > head_limit + tail_limit
                     THEN acc.total - head_limit - tail_limit ELSE 0]

----------------------------------------------------------------------------

\* The sidecar of this session, with the line that was being written when
\* the daemon died.
Sidecar(torn) == [i \in 1..Len(traced) |-> "entry"] \o (IF torn THEN <<"torn">> ELSE <<>>)

EntriesOf(lines) == SelectSeq([i \in 1..Len(lines) |-> i], LAMBDA i : lines[i] = "entry")

\* head and tail are the two ends of the entries, without overlap, and the
\* gap between them is as long as `dropped` says.
Exact(lines, head_limit, tail_limit) ==
    LET s == read_trace_summary(lines, head_limit, tail_limit)
        e == EntriesOf(lines)
    IN  /\ Len(s.head) <= head_limit /\ Len(s.tail) <= tail_limit
        /\ IsPrefix(s.head, e) /\ IsSuffix(s.tail, e)
        /\ Len(s.head) + s.dropped + Len(s.tail) = Len(e)
        /\ s.dropped > 0 => Len(s.head) = head_limit /\ Len(s.tail) = tail_limit

Limits == (0..MaxLimit) \X (0..MaxLimit)

SummariesExact ==
    \A n \in 0..MaxLines : \A lines \in [1..n -> LineKinds], l \in Limits : Exact(lines, l[1], l[2])

\* Whatever the file holds, a summary shows the earliest and the latest
\* READs, none twice, and says exactly how many are missing in between; and
\* so it does for the READs of this session, however it ends.
TraceSummaryExact ==
    /\ open => SummariesExact
    /\ \A torn \in BOOLEAN, l \in Limits : Exact(Sidecar(torn), l[1], l[2])
=============================================================================
