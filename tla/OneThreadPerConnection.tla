----------------------- MODULE OneThreadPerConnection -----------------------
(***************************************************************************)
(* net/one_thread_per_connection_thread_handler.cpp with NetServer::serve:  *)
(* a thread for every connection, which polls its socket, handles requests  *)
(* and in the end takes itself out of thread_map_ and deletes its Worker    *)
(* and its Communicator.  lock_ guards thread_map_, except in await_stop.   *)
(***************************************************************************)
EXTENDS Integers, FiniteSets

CONSTANTS Links,      \* the connections
          Nobody

VARIABLES serving,    \* where the server's thread is
          asked,      \* shutdown() was called
          lockOwner,  \* who holds lock_
          threadMap,  \* thread_map_
          worker,     \* where each Worker's thread is
          goOn,       \* running_ of each Worker
          peer,       \* what the other side does
          freed       \* how often each Communicator was deleted

linkVars == <<serving, asked, lockOwner, threadMap, worker, goOn, peer, freed>>

Server == "server"
LockFree == lockOwner = Nobody

LinksFrom(place) ==
    /\ serving = place /\ asked = FALSE
    /\ lockOwner = Nobody
    /\ threadMap = {}
    /\ worker = [l \in Links |-> "none"]
    /\ goOn = [l \in Links |-> TRUE]
    /\ peer = [l \in Links |-> "connecting"]
    /\ freed = [l \in Links |-> 0]

LinksInit == LinksFrom("serve")

\* new_connection holds lock_ while it starts the thread.
NewConnection(l) ==
    /\ serving = "serve" /\ ~asked
    /\ peer[l] = "connecting" /\ LockFree
    /\ lockOwner' = Server
    /\ threadMap' = threadMap \cup {l}
    /\ worker' = [worker EXCEPT ![l] = "poll"]
    /\ peer' = [peer EXCEPT ![l] = "quiet"]
    /\ serving' = "unlock"
    /\ UNCHANGED <<asked, goOn, freed>>

ConnectionStarted ==
    /\ serving = "unlock"
    /\ lockOwner' = Nobody
    /\ serving' = "serve"
    /\ UNCHANGED <<asked, threadMap, worker, goOn, peer, freed>>

AskToStop ==
    /\ serving \in {"serve", "unlock"} /\ ~asked
    /\ asked' = TRUE
    /\ UNCHANGED <<serving, lockOwner, threadMap, worker, goOn, peer, freed>>

\* stop: every Worker in the map is told to end.
StopWorkers ==
    /\ serving = "serve" /\ asked /\ LockFree
    /\ goOn' = [l \in Links |-> goOn[l] /\ l \notin threadMap]
    /\ serving' = "await"
    /\ UNCHANGED <<asked, lockOwner, threadMap, worker, peer, freed>>

\* await_stop polls the map; then serve() deletes the handler and returns.
AwaitWorkers ==
    /\ serving = "await" /\ threadMap = {}
    /\ serving' = "done"
    /\ UNCHANGED <<asked, lockOwner, threadMap, worker, goOn, peer, freed>>

ServerStep ==
    \/ ConnectionStarted \/ StopWorkers \/ AwaitWorkers
    \/ \E l \in Links : NewConnection(l)
-----------------------------------------------------------------------------
\* Worker::operator().  poll() ends at once when the socket is readable and
\* after half a second otherwise; a request that has begun is waited for.

At(l, from, to) == worker[l] = from /\ worker' = [worker EXCEPT ![l] = to]

PollSocket(l) ==
    /\ \/ At(l, "poll", "handle") /\ goOn[l] /\ peer[l] \in {"sending", "sent", "gone"}
       \/ At(l, "poll", "close") /\ ~goOn[l]
    /\ UNCHANGED <<serving, asked, lockOwner, threadMap, goOn, peer, freed>>

HandleRequest(l) ==
    /\ \/ /\ peer[l] = "sent"
          /\ At(l, "handle", "poll")
          /\ peer' = [peer EXCEPT ![l] = "quiet"]
       \/ /\ peer[l] \in {"sent", "gone"}
          /\ At(l, "handle", "close")
          /\ peer' = [peer EXCEPT ![l] = "gone"]
    /\ UNCHANGED <<serving, asked, lockOwner, threadMap, goOn, freed>>

\* A mutant: the entry stays in the map.
EraseWorkerMut(l) ==
    /\ LockFree
    /\ At(l, "close", "erased")
    /\ lockOwner' = l
    /\ UNCHANGED <<serving, asked, threadMap, goOn, peer, freed>>

\* close_connection: the entry goes under lock_ ...
EraseWorker(l) ==
    /\ LockFree
    /\ At(l, "close", "erased")
    /\ lockOwner' = l
    /\ threadMap' = threadMap \ {l}
    /\ UNCHANGED <<serving, asked, goOn, peer, freed>>

\* A mutant: the lock is not given back.
UnlockWorkerMut(l) ==
    /\ At(l, "erased", "delete")
    /\ UNCHANGED <<serving, asked, lockOwner, threadMap, goOn, peer, freed>>

\* ... which is given back, and the Worker and the Communicator are deleted.
UnlockWorker(l) ==
    /\ At(l, "erased", "delete")
    /\ lockOwner' = Nobody
    /\ UNCHANGED <<serving, asked, threadMap, goOn, peer, freed>>

DeleteWorker(l) ==
    /\ At(l, "delete", "gone")
    /\ freed' = [freed EXCEPT ![l] = @ + 1]
    /\ peer' = [peer EXCEPT ![l] = "gone"]
    /\ UNCHANGED <<serving, asked, lockOwner, threadMap, goOn>>

LinkStep(l) ==
    \/ PollSocket(l) \/ HandleRequest(l)
    \/ EraseWorker(l) \/ UnlockWorker(l) \/ DeleteWorker(l)

PeerBecomes(l, from, to) ==
    /\ peer[l] = from
    /\ peer' = [peer EXCEPT ![l] = to]
    /\ UNCHANGED <<serving, asked, lockOwner, threadMap, worker, goOn, freed>>

PeerEnds(l) == PeerBecomes(l, "sending", "sent") \/ PeerBecomes(l, "sending", "gone")
PeerActs(l) == PeerBecomes(l, "quiet", "sending") \/ PeerBecomes(l, "quiet", "gone")

LinksNext ==
    \/ ServerStep \/ AskToStop
    \/ \E l \in Links : LinkStep(l) \/ PeerEnds(l) \/ PeerActs(l)

LinksFairness ==
    /\ WF_linkVars(ServerStep)
    /\ \A l \in Links : SF_linkVars(LinkStep(l)) /\ WF_linkVars(PeerEnds(l))
-----------------------------------------------------------------------------
\* A connection is deleted once, by its own thread, and only after it left the
\* map, so that stop() never writes to a Worker that is gone.
WorkersLeaveBeforeTheyGo ==
    \A l \in Links :
        /\ freed[l] <= 1
        /\ l \in threadMap => worker[l] \in {"poll", "handle", "close"} /\ freed[l] = 0

\* No thread is left inside the handler when await_stop has returned.
AwaitStopWaits ==
    serving = "done" => \A l \in Links : worker[l] \in {"none", "gone"}

\* A server that is asked to stop stops, and every connection is deleted.
LinksStop == asked ~> serving = "done" /\ \A l \in Links : worker[l] \in {"none", "gone"}
=============================================================================
