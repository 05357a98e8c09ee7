----------------------------- MODULE ImageCache -----------------------------
(***************************************************************************)
(* The virtual CD-ROM of plugins/module_utils/iusb.py: the commands of     *)
(* CDROMDevice, and how READ gets at the image: _read over Cache (aligned  *)
(* windows, least recently used one evicted, the lock dropped while a      *)
(* window is fetched) over FileReader, whose threads would share one file  *)
(* position.  The media daemon reads from one thread.                      *)
(***************************************************************************)
EXTENDS Naturals, Sequences, SequencesExt

CONSTANTS
    Readers, Size, CD_BLOCK_SIZE, Lbas, Counts, Allocs, None,  \* as in Medium
    WINDOW_SIZE,         \* units of a window
    DEFAULT_MAX_WINDOWS  \* windows the cache holds

\* READ(10) and READ(12) differ in the width of their fields.  A CDB too short
\* for an allocation length is one with 0.  TEST UNIT READY, START STOP UNIT,
\* the control opcodes and those that are not known get a status only.
Commands ==
    [op : {"read"}, lba : Lbas, blocks : Counts]
    \cup [op : {"toc"}, alloc : Allocs] \cup [op : {"capacity", "status"}]

ASSUME CacheAssumption ==
    /\ Size \in Nat /\ CD_BLOCK_SIZE \in Nat \ {0} /\ WINDOW_SIZE \in Nat \ {0}
    /\ DEFAULT_MAX_WINDOWS \in Nat \ {0} /\ Lbas \subseteq Nat /\ Counts \subseteq Nat
    /\ Allocs \subseteq Nat /\ None \notin Commands

VARIABLES
    length,   \* units the file has now
    position, \* of FileReader._f, which all readers share
    windows,  \* Cache._windows, the most recently used one last
    used,     \* history: starts of all windows used so far, by their last use
    request,  \* the command each reader is at, or None
    answer,   \* the units or bytes it has just returned
    pc,       \* where it is in read_at and _window
    out,      \* read_at's out
    fetched   \* the window it has read from the file

cache == <<windows, used>>
vars == <<length, position, cache, request, answer, pc, out, fetched>>

Init ==
    /\ length = Size /\ position = 0 /\ windows = <<>> /\ used = <<>>
    /\ request = [r \in Readers |-> None] /\ answer = [r \in Readers |-> <<>>]
    /\ pc = [r \in Readers |-> "idle"] /\ out = [r \in Readers |-> <<>>]
    /\ fetched = [r \in Readers |-> <<>>]

\* The file is truncated in place while it is attached.
Truncate ==
    /\ \E n \in 0..Size : n < length /\ length' = n
    /\ UNCHANGED <<position, cache, request, answer, pc, out, fetched>>

\* The read of FileReader.read_at: up to n units from the position on, of those
\* that the file still has.  Unit p of the image is the number p + 1.
read_file(n) ==
    [i \in 1..(IF position + n <= length THEN n
               ELSE IF position <= length THEN length - position ELSE 0) |-> position + i]

----------------------------------------------------------------------------
(* The commands that need no data of the image.                            *)

last_lba == LET n == Size \div CD_BLOCK_SIZE IN IF n > 0 THEN n - 1 ELSE 0

to_bytes(n, width) == [i \in 1..width |-> (n \div 256^(width - i)) % 256]

_read_capacity == <<last_lba, CD_BLOCK_SIZE>>

\* Control 0x14, the number of the track, its first block.
track(no, lba) == <<0, 20, no, 0>> \o to_bytes(lba, 4)

\* The whole table, or as much of it as was allocated.
_read_toc(alloc) ==
    LET body == track(1, 0) \o track(170, last_lba + 1)
        toc  == to_bytes(Len(body) + 2, 2) \o <<1, 1>> \o body
    IN  IF alloc # 0 /\ alloc < Len(toc) THEN SubSeq(toc, 1, alloc) ELSE toc

----------------------------------------------------------------------------
(* READ.                                                                   *)

offset(r) == request[r].lba * CD_BLOCK_SIZE
wanted(r) == request[r].blocks * CD_BLOCK_SIZE
end(r)    == IF offset(r) + wanted(r) <= Size THEN offset(r) + wanted(r) ELSE Size
pos(r)    == offset(r) + Len(out[r])

\* Windows begin at multiples of WINDOW_SIZE.
win_start(r) == pos(r) - (pos(r) % WINDOW_SIZE)

At(r, label) == pc' = [pc EXCEPT ![r] = label]

\* Mutant: a window's data is copied to its end, whatever was asked for.
Copy_All(r, data) ==
    LET in_win == pos(r) - win_start(r)
    IN  /\ IF in_win >= Len(data)
           THEN At(r, "short") /\ UNCHANGED out
           ELSE /\ At(r, "loop")
                /\ out' = [out EXCEPT ![r] = @ \o SubSeq(data, in_win + 1, Len(data))]
        /\ UNCHANGED <<length, position, request, answer>>

\* Mutant: the position does not advance.
Copy_None(r, data) ==
    /\ At(r, "loop")
    /\ UNCHANGED <<out, length, position, request, answer>>

\* The rest of one round of read_at, given the window's data: a window that
\* ends before the position stops the loop.
Copy(r, data) ==
    LET in_win == pos(r) - win_start(r)
        room   == Len(data) - in_win
        left   == end(r) - pos(r)
        chunk  == IF room <= left THEN room ELSE left
    IN  /\ IF in_win >= Len(data)
           THEN At(r, "short") /\ UNCHANGED out
           ELSE /\ At(r, "loop")
                /\ out' = [out EXCEPT ![r] = @ \o SubSeq(data, in_win + 1, in_win + chunk)]
        /\ UNCHANGED <<length, position, request, answer>>

Cached(start) == {i \in 1..Len(windows) : windows[i].start = start}

\* Mutant: a hit leaves the window where it was.
Used_InPlace(i) == windows

\* move_to_end
Used(i) == Append(RemoveAt(windows, i), windows[i])

\* The window enters the cache, and the first one makes room for it.
Entered(w) ==
    LET all == Append(windows, w)
    IN  IF Len(all) > DEFAULT_MAX_WINDOWS THEN Tail(all) ELSE all

Note(start) == used' = Append(Remove(used, start), start)

Handle(r) ==
    /\ pc[r] = "idle"
    /\ \E q \in Commands :
          /\ request' = [request EXCEPT ![r] = q]
          /\ At(r, IF q.op = "read" THEN "loop" ELSE "other")
    /\ answer' = [answer EXCEPT ![r] = <<>>]
    /\ UNCHANGED <<length, position, cache, out, fetched>>

Hit(r) ==
    /\ pc[r] = "loop" /\ pos(r) < end(r)
    /\ \E i \in Cached(win_start(r)) :
          windows' = Used(i) /\ Copy(r, windows[i].data)
    /\ Note(win_start(r))
    /\ UNCHANGED fetched

Miss(r) ==
    /\ pc[r] = "loop" /\ pos(r) < end(r) /\ Cached(win_start(r)) = {}
    /\ At(r, "seek")
    /\ UNCHANGED <<length, position, cache, request, answer, out, fetched>>

\* The seek and the read of a fetch, without the lock.
Seek(r) ==
    /\ pc[r] = "seek"
    /\ position' = win_start(r)
    /\ At(r, "read")
    /\ UNCHANGED <<length, cache, request, answer, out, fetched>>

Read(r) ==
    LET start == win_start(r)
        want  == IF start + WINDOW_SIZE > Size THEN Size - start ELSE WINDOW_SIZE
    IN  /\ pc[r] = "read"
        /\ fetched' = [fetched EXCEPT ![r] = read_file(want)]
        /\ position' = position + Len(read_file(want))
        /\ At(r, "install")
        /\ UNCHANGED <<length, cache, request, answer, out>>

\* A window that another reader has installed meanwhile is preferred; there is
\* none with a single reader.
Install(r) ==
    LET start == win_start(r)
        data  == IF Cached(start) = {} THEN fetched[r]
                 ELSE windows[CHOOSE i \in Cached(start) : TRUE].data
    IN  /\ pc[r] = "install"
        /\ windows' = IF Cached(start) = {} THEN Entered([start |-> start, data |-> data])
                      ELSE Used(CHOOSE i \in Cached(start) : TRUE)
        /\ Copy(r, data)
        /\ Note(start)
        /\ fetched' = [fetched EXCEPT ![r] = <<>>]

\* CDROMDevice._read: the short result is filled up with zeros.
Respond(r) ==
    /\ pc[r] = "short" \/ (pc[r] = "loop" /\ pos(r) >= end(r))
    /\ answer' = [answer EXCEPT ![r] =
          [i \in 1..(IF Len(out[r]) <= wanted(r) THEN wanted(r) ELSE Len(out[r]))
              |-> IF i <= Len(out[r]) THEN out[r][i] ELSE 0]]
    /\ request' = [request EXCEPT ![r] = None]
    /\ out' = [out EXCEPT ![r] = <<>>]
    /\ At(r, "idle")
    /\ UNCHANGED <<length, position, cache, fetched>>

RespondOther(r) ==
    /\ pc[r] = "other"
    /\ answer' = [answer EXCEPT ![r] =
          CASE request[r].op = "capacity" -> _read_capacity
            [] request[r].op = "toc"      -> _read_toc(request[r].alloc)
            [] request[r].op = "status"   -> <<>>]
    /\ request' = [request EXCEPT ![r] = None]
    /\ At(r, "idle")
    /\ UNCHANGED <<length, position, cache, out, fetched>>

----------------------------------------------------------------------------

Works(r) ==
    Hit(r) \/ Miss(r) \/ Seek(r) \/ Read(r) \/ Install(r) \/ Respond(r) \/ RespondOther(r)

Next == (\E r \in Readers : Handle(r) \/ Works(r)) \/ Truncate

Spec == Init /\ [][Next]_vars

\* The thread that handles a request runs on; the host may stop asking.
FairSpec == Spec /\ \A r \in Readers : WF_vars(Works(r))

----------------------------------------------------------------------------

\* However reads wander over the image, the cache holds exactly the windows
\* used last, in the order of their last use and never more than its limit: a
\* window that a read has just come back to outlives those it passed before.
LastUsedKept ==
    LET kept == IF Len(used) <= DEFAULT_MAX_WINDOWS THEN Len(used) ELSE DEFAULT_MAX_WINDOWS
    IN  [i \in 1..Len(windows) |-> windows[i].start]
            = SubSeq(used, Len(used) - kept + 1, Len(used))

M == INSTANCE Medium WITH intact <- (length = Size)

\* Cache and device implement the medium: every READ, at any address and
\* over any window boundary, is answered with exactly its part of the image and
\* zeros past the end; _read_capacity and _read_toc name the same last block,
\* the one that is whole in the image, and the table of contents is cut to the
\* allocation length but announces its full one.
IsMedium == M!Spec

\* Every command is answered: read_at's position advances in every round.
EveryReadAnswered == \A r \in Readers : request[r] # None ~> request[r] = None
=============================================================================
