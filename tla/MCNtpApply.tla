----------------------------- MODULE MCNtpApply -----------------------------
(* Instances of NtpApply for TLC.                                           *)
EXTENDS NtpApply, TLC

CONSTANTS t1, t2, s1

\* One option, two together, and another one in check mode.
SomeOptions ==
    {[server1 |-> s1, server2 |-> None, enabled |-> None, check |-> FALSE],
     [server1 |-> None, server2 |-> s1, enabled |-> FALSE, check |-> FALSE],
     [server1 |-> None, server2 |-> None, enabled |-> TRUE, check |-> TRUE]}

\* A whole record, one without the first name, and none at all.
SomeLacking == {{}, {"server1"}, Fields}

TaskSymmetry == Permutations(Tasks)

=============================================================================
