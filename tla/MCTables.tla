------------------------------ MODULE MCTables ------------------------------
(* The storage of tables, one part in each behaviour: the records of a file *)
(* (three threads, at most three pages of two records), the indexes on the  *)
(* records (two indexed fields), and the schema (two tables of two columns, *)
(* two stops, at most one kind of fault).                                   *)
EXTENDS RecordFile, SchemaCatalog, HeapTable, TLC

VARIABLE focus

MCSymmetry == Permutations(Threads)
MCMaxCalls == [threads |-> 3, stops |-> 3]
MCFills == {<<>>, <<1>>, <<2, 1>>}
MCFaultSets == {{}} \union {{f} : f \in Fault}

TInit ==
    /\ RInit /\ CInit /\ HInit /\ focus \in {"records", "schema", "indexes"}
    /\ focus # "records" => mode = "threads" /\ DOMAIN Records(mem) = {}
    /\ focus # "schema" => faults = {}

TNext ==
    \/ focus = "records" /\ RNext /\ UNCHANGED <<cvars, hvars, focus>>
    \/ focus = "schema" /\ CNext /\ UNCHANGED <<rvars, hvars, focus>>
    \/ focus = "indexes" /\ HNext /\ UNCHANGED <<rvars, cvars, focus>>

TSpec == TInit /\ [][TNext]_<<rvars, cvars, hvars, focus>>
=============================================================================
