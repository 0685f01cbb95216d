------------------------------ MODULE MCIndex ------------------------------
(* Small indexes, from the empty one to trees of three levels, built by      *)
(* inserts in ascending and in descending order. A behaviour is either about *)
(* one thread, the log and the disk, or about two writers and a scanner      *)
(* that meet at the latches of the pages.                                    *)
EXTENDS BplusTreeFile, BplusTreeLatch, TLC

VARIABLE focus

MCUserKeys == 1 .. 7
MCRids == {1, 2}
Nth(i) == MakeKey((i + 1) \div 2, 1 + ((i + 1) % 2))
Up(n) == [i \in 1 .. n |-> Nth(i)]
Down(n) == [i \in 1 .. n |-> Nth(n + 1 - i)]

MCBuilds == {<<>>, Up(5), Down(11), Up(12), Up(12) \o <<-Nth(12), -Nth(11)>>}
MCOpKeys == {Nth(i) : i \in {1, 4, 8, 11, 13}}
MCBudgets == {1, 9}
MCScanBounds == {NoBound, Bound(2, TRUE), Bound(2, FALSE), Bound(6, TRUE), Bound(6, FALSE)}

MCLatchBuilds == {<<>>, Up(1), Up(5), Up(11)}
MCLatchKeys == {Nth(1), Nth(4), Nth(5)}
\* Scans with a left bound run beside inserts, scans from the first leaf beside
\* inserts and deletes; all of it together is MCAnything.
MCBounds == {NoBound, Bound(1, FALSE), Bound(2, FALSE), Bound(3, TRUE)}
MCWorkloads == {[ops |-> {"insert", "delete"}, bounds |-> {NoBound}],
                [ops |-> {"insert"}, bounds |-> MCBounds]}
MCAnything == {[ops |-> {"insert", "delete"}, bounds |-> MCBounds]}

\* The two writers are alike.
MCSymmetry == Permutations(Writers)

FileIdle == Init /\ load = <<>>
LatchIdle == LInit /\ work.keys = <<>> /\ work.bounds = {NoBound}

MCInit ==
    \/ focus = "file" /\ Init /\ LatchIdle
    \/ focus = "latches" /\ LInit /\ FileIdle

MCNext ==
    /\ UNCHANGED focus
    /\ \/ focus = "file" /\ Next /\ UNCHANGED lvars
       \/ focus = "latches" /\ LNext /\ UNCHANGED vars

MCSpec == MCInit /\ [][MCNext]_<<focus, vars, lvars>>
=============================================================================
