------------------------------- MODULE MCTrx -------------------------------
(* Transactions for TLC, either by themselves (three sessions and two rows, *)
(* MvccSpec) or with the log, the pages, checkpoints and crashes under them *)
(* (RSpec).                                                                 *)
EXTENDS TrxRecovery, TLC

CONSTANTS s1, s2, s3, r1, r2

TwoSessions   == {s1, s2}
ThreeSessions == {s1, s2, s3}
OneRid        == {r1}
TwoRids       == {r1, r2}
Symmetry3     == Permutations(ThreeSessions) \union Permutations(TwoRids)
Symmetry2     == Permutations(TwoSessions)

underVars == <<logVars, pages, unlogged, lsn, syncVars, histVars>>
MvccSpec == RInit /\ [][Next /\ UNCHANGED underVars]_rvars
============================================================================
