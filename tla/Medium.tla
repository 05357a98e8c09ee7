------------------------------- MODULE Medium -------------------------------
(***************************************************************************)
(* What a redirected image promises the host as a CD-ROM.  A READ of some  *)
(* blocks is answered with that part of the image, filled up with zeros    *)
(* past its end.  Once the file has been cut short an answer may run into  *)
(* zeros early, but no unit ever comes from elsewhere in the image.        *)
(* READ CAPACITY and READ TOC agree on where the medium ends, and no more  *)
(* of the table of contents is sent than the host has room for.            *)
(***************************************************************************)
EXTENDS Naturals, FiniteSetsExt

CONSTANTS
    Readers,        \* threads that read the image
    Size,           \* units of the image when it was opened
    CD_BLOCK_SIZE,  \* units of a block
    Lbas,           \* block addresses the host asks for
    Counts,         \* block counts it asks for
    Allocs,         \* allocation lengths it states for a table of contents
    None            \* no request

VARIABLES
    request,  \* the command each reader is at, or None
    answer,   \* the units or bytes just sent to the host
    intact    \* is the file still as long as when it was opened?

vars == <<request, answer, intact>>

Commands ==
    [op : {"read"}, lba : Lbas, blocks : Counts]
    \cup [op : {"toc"}, alloc : Allocs] \cup [op : {"capacity", "status"}]

Start(q)  == q.lba * CD_BLOCK_SIZE
Length(q) == q.blocks * CD_BLOCK_SIZE

\* The first k units of an answer, then zeros.  Unit p of the image is the
\* number p + 1.
Cut(q, k) ==
    [i \in 1..Length(q) |-> IF i <= k /\ Start(q) + i <= Size THEN Start(q) + i ELSE 0]

\* The last block that is wholly in the image, or 0.
LastBlock ==
    LET whole == {b \in 0..Size : (b + 1) * CD_BLOCK_SIZE <= Size}
    IN  IF whole = {} THEN 0 ELSE Max(whole)

\* Byte i of a number of four bytes, the most significant one first.
Byte(n, i) == (n \div 256^(4 - i)) % 256

\* The table of contents by its offsets: the length of what follows, one data
\* track from block 0, and the lead-out after the last block.
Contents ==
    [i \in 1..20 |->
        CASE i = 2 -> 18  [] i \in {3, 4, 7} -> 1  [] i \in {6, 14} -> 20
          [] i = 15 -> 170  [] i \in 17..20 -> Byte(LastBlock + 1, i - 16)
          [] OTHER -> 0]

\* An allocation length of 0 states no limit.
Room(alloc) == IF alloc = 0 THEN 20 ELSE Min({alloc, 20})

Init ==
    /\ request = [r \in Readers |-> None]
    /\ answer = [r \in Readers |-> <<>>]
    /\ intact = TRUE

Ask(r) ==
    /\ request[r] = None
    /\ answer' = [answer EXCEPT ![r] = <<>>]
    /\ UNCHANGED intact
    /\ \E q \in Commands : request' = [request EXCEPT ![r] = q]

AnswerRead(r) ==
    /\ request[r] # None /\ request[r].op = "read"
    /\ \E k \in 0..Length(request[r]) :
          /\ intact => k = Length(request[r])
          /\ answer' = [answer EXCEPT ![r] = Cut(request[r], k)]
    /\ request' = [request EXCEPT ![r] = None]
    /\ UNCHANGED intact

AnswerOther(r) ==
    /\ request[r] # None /\ request[r].op # "read"
    /\ answer' = [answer EXCEPT ![r] =
          CASE request[r].op = "capacity" -> <<LastBlock, CD_BLOCK_SIZE>>
            [] request[r].op = "toc"      -> [i \in 1..Room(request[r].alloc) |-> Contents[i]]
            [] request[r].op = "status"   -> <<>>]
    /\ request' = [request EXCEPT ![r] = None]
    /\ UNCHANGED intact

Shorten == intact /\ intact' = FALSE /\ UNCHANGED <<request, answer>>

Next == (\E r \in Readers : Ask(r) \/ AnswerRead(r) \/ AnswerOther(r)) \/ Shorten

Spec == Init /\ [][Next]_vars
=============================================================================
