--------------------------- MODULE MCServerThreads ---------------------------
(* The two thread models of the server; the one that is not chosen is off.    *)
EXTENDS JavaThreadPool, OneThreadPerConnection

MCVars == <<serverVars, linkVars>>

MCInit == \/ JavaInit /\ LinksFrom("off")
          \/ LinksInit /\ JavaFrom("off")

MCNext == \/ JavaNext /\ UNCHANGED linkVars
          \/ LinksNext /\ UNCHANGED serverVars

MCSpec == MCInit /\ [][MCNext]_MCVars /\ JavaFairness /\ LinksFairness

\* In both thread models a connection is in one thread's hands, is deleted
\* once, when nobody can reach it any more, and is not left behind by a stop.
ConnectionsAreSafe ==
    /\ PoolTypeOK /\ OneHandlerPerConnection /\ NoUseAfterDelete
    /\ StopLeavesNothing /\ WorkersLeaveBeforeTheyGo

\* A server that is asked to stop does, in either thread model.
StopCompletes == ServerStops /\ LinksStop
==============================================================================
