------------------------------ MODULE MCPages ------------------------------
(* Pages between memory and the files: the double write buffer with two      *)
(* pages of one file and one of another, or the buffer pool with two threads *)
(* and two files that share two frames. A behaviour is about one of them.    *)
EXTENDS DoubleWriteBuffer, BufferPool, TLC

CONSTANTS t1, t2, fA, fB

VARIABLE focus

MCKeys == {<<1, 1>>, <<1, 2>>, <<2, 1>>}
FilePages == [p \in {fA, fB} |-> IF p = fA THEN 2 ELSE 1]
LastPage == {<<fA, 1>>}
Symmetry == Permutations({t1, t2})

MCInit == focus \in {"double write", "pool"} /\ DInit /\ Init

MCNext ==
    /\ UNCHANGED focus
    /\ \/ focus = "double write" /\ DNext /\ UNCHANGED vars
       \/ focus = "pool" /\ Next /\ UNCHANGED dvars

MCSpec == MCInit /\ [][MCNext]_<<focus, dvars, vars>>
=============================================================================
