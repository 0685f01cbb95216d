--------------------------- MODULE JavaThreadPool ---------------------------
(***************************************************************************)
(* net/java_thread_pool_thread_handler.cpp with NetServer::serve: one task  *)
(* of the pool runs libevent's loop, which submits one task for a           *)
(* connection whose one-shot read event fires.  The handler adds the event  *)
(* again or closes the connection.  Connections are deleted by the handler, *)
(* and at the end by the server's thread.                                   *)
(***************************************************************************)
EXTENDS ThreadPool

CONSTANTS Conns,     \* the connections
          Loop,      \* the task that runs the event loop
          MaxRequests, \* bound: requests that clients begin
          EventFaults \* whether event_add may fail for a handler

VARIABLES main,      \* where the server's thread is
          started,   \* started_
          eventBase, \* event_base_
          eventMap,  \* event_map_
          ev,        \* the event of each connection
          deletes,   \* how often each Communicator was deleted
          client,    \* what the other side of each connection does
          requests   \* how many requests were begun

javaVars == <<main, started, eventBase, eventMap, ev, deletes, client, requests>>
serverVars == <<poolVars, javaVars>>

Main == "main"

ASSUME JavaAssumption ==
    /\ Tasks = Conns \cup {Loop} /\ Loop \notin Conns
    /\ Callers = {Main, Loop} /\ Main # Loop

JavaFrom(place) ==
    /\ PoolInit
    /\ main = place /\ started = TRUE
    /\ eventBase = "none"
    /\ eventMap = {}
    /\ ev = [c \in Conns |-> "none"]
    /\ deletes = [c \in Conns |-> 0]
    /\ client = [c \in Conns |-> "connecting"]
    /\ requests = 0

JavaInit == JavaFrom("start")

\* start: the pool, then the loop's task.
StartHandler ==
    /\ main = "start"
    /\ InitPool
    /\ BeginExecute(Main, Loop)
    /\ eventBase' = "open"
    /\ main' = "starting"
    /\ UNCHANGED <<started, eventMap, ev, deletes, client, requests>>

Serve ==
    /\ main = "starting"
    /\ submit[Main] = NotSubmitting
    /\ main' = "serve"
    /\ UNCHANGED <<started, eventBase, eventMap, ev, deletes, client, requests>>
    /\ UNCHANGED poolVars

\* accept and new_connection: nobody knows of the connection before its event
\* is added.
Accept(c) ==
    /\ main = "serve" /\ started
    /\ client[c] = "connecting"
    /\ client' = [client EXCEPT ![c] = "quiet"]
    /\ eventMap' = eventMap \cup {c}
    /\ ev' = [ev EXCEPT ![c] = "added"]
    /\ UNCHANGED <<main, started, eventBase, deletes, requests>>
    /\ UNCHANGED poolVars

\* NetServer::shutdown, called by the thread that waits for signals.
Shutdown ==
    /\ main = "serve" /\ started
    /\ started' = FALSE
    /\ UNCHANGED <<main, eventBase, eventMap, ev, deletes, client, requests>>
    /\ UNCHANGED poolVars

\* A mutant: the loop is not told to leave.
StopLoopMut ==
    /\ main = "serve" /\ ~started
    /\ main' = "stop"
    /\ UNCHANGED <<started, eventBase, eventMap, ev, deletes, client, requests>>
    /\ UNCHANGED poolVars

\* stop: event_base_loopexit, then the pool's shutdown.
StopLoop ==
    /\ main = "serve" /\ ~started
    /\ eventBase' = "exiting"
    /\ main' = "stop"
    /\ UNCHANGED <<started, eventMap, ev, deletes, client, requests>>
    /\ UNCHANGED poolVars

StopPool ==
    /\ main = "stop"
    /\ ShutdownPool
    /\ main' = "await"
    /\ UNCHANGED <<started, eventBase, eventMap, ev, deletes, client, requests>>

\* await_stop: the event base and every connection that is left are freed.
AwaitStop ==
    /\ main = "await"
    /\ threads = {}
    /\ eventBase' = "freed"
    /\ ev' = [c \in Conns |-> IF c \in eventMap THEN "freed" ELSE ev[c]]
    /\ deletes' = [c \in Conns |-> IF c \in eventMap THEN deletes[c] + 1 ELSE deletes[c]]
    /\ eventMap' = {}
    /\ main' = "done"
    /\ UNCHANGED <<started, client, requests>>
    /\ UNCHANGED poolVars

MainStep ==
    \/ StartHandler \/ Serve \/ StopLoop \/ StopPool \/ AwaitStop
    \/ \E c \in Conns : Accept(c)
-----------------------------------------------------------------------------
\* The event loop.

Readable(c) == client[c] \in {"sending", "sent", "gone"}
OtherThanAt == <<poolState, workQueue, threads, core, task, active>>

EventFires(w, c) ==
    /\ at[w] = "run" /\ task[w] = Loop
    /\ submit[Loop] = NotSubmitting
    /\ ev[c] = "added" /\ Readable(c)
    /\ ev' = [ev EXCEPT ![c] = "idle"]
    /\ BeginExecute(Loop, c)
    /\ UNCHANGED <<poolState, workQueue, threads, at, core, task, active>>
    /\ UNCHANGED <<main, started, eventBase, eventMap, deletes, client, requests>>

LoopExits(w) ==
    /\ task[w] = Loop
    /\ eventBase = "exiting"
    /\ submit[Loop] = NotSubmitting
    /\ Goes(w, "run", "ran")
    /\ UNCHANGED <<OtherThanAt, submit>>
    /\ UNCHANGED javaVars

\* A mutant: the event is added before the request is handled.
HandleEventMut(w) ==
    LET c == task[w] IN
    /\ c \in Conns
    /\ \/ /\ client[c] = "sent"
          /\ Goes(w, "run", "add")
          /\ client' = [client EXCEPT ![c] = "quiet"]
       \/ /\ client[c] \in {"sent", "gone"}
          /\ Goes(w, "run", "close")
          /\ client' = [client EXCEPT ![c] = "gone"]
    /\ UNCHANGED <<main, started, eventBase, eventMap, deletes, requests>>
    /\ ev' = [ev EXCEPT ![c] = "added"]
    /\ UNCHANGED <<OtherThanAt, submit>>

\* The handler of a request.  read_event waits for the end of a request that
\* has begun; the request is answered, or the connection is to be closed.
HandleEvent(w) ==
    LET c == task[w] IN
    /\ c \in Conns
    /\ \/ /\ client[c] = "sent"
          /\ Goes(w, "run", "add")
          /\ client' = [client EXCEPT ![c] = "quiet"]
       \/ /\ client[c] \in {"sent", "gone"}
          /\ Goes(w, "run", "close")
          /\ client' = [client EXCEPT ![c] = "gone"]
    /\ UNCHANGED <<main, started, eventBase, eventMap, ev, deletes, requests>>
    /\ UNCHANGED <<OtherThanAt, submit>>

AddEvent(w) ==
    LET c == task[w] IN
    /\ \/ Goes(w, "add", "ran") /\ ev' = [ev EXCEPT ![c] = "added"]
       \/ Goes(w, "add", "close") /\ EventFaults /\ UNCHANGED ev
    /\ UNCHANGED <<main, started, eventBase, eventMap, deletes, client, requests>>
    /\ UNCHANGED <<OtherThanAt, submit>>

\* A mutant: the connection stays in the map.
CloseConnectionMut(w) ==
    LET c == task[w] IN
    /\ Goes(w, "close", "ran")
    /\ ev' = [ev EXCEPT ![c] = "freed"]
    /\ deletes' = [deletes EXCEPT ![c] = @ + 1]
    /\ client' = [client EXCEPT ![c] = "gone"]
    /\ UNCHANGED <<main, started, eventBase, eventMap, requests>>
    /\ UNCHANGED <<OtherThanAt, submit>>

\* close_connection: out of the map under lock_, then everything is freed.
CloseConnection(w) ==
    LET c == task[w] IN
    /\ Goes(w, "close", "ran")
    /\ eventMap' = eventMap \ {c}
    /\ ev' = [ev EXCEPT ![c] = IF c \in eventMap THEN "freed" ELSE @]
    /\ deletes' = [deletes EXCEPT ![c] = IF c \in eventMap THEN @ + 1 ELSE @]
    /\ client' = [client EXCEPT ![c] = "gone"]
    /\ UNCHANGED <<main, started, eventBase, requests>>
    /\ UNCHANGED <<OtherThanAt, submit>>

TaskStep(w) ==
    \/ LoopExits(w) \/ HandleEvent(w) \/ AddEvent(w)
    \/ CloseConnection(w)
    \/ \E c \in Conns : EventFires(w, c)

\* The client begins a request, ends what it began, or goes away.
Changes(c, from, to) == client[c] = from /\ client' = [client EXCEPT ![c] = to]
OtherThanClient ==
    <<main, started, eventBase, eventMap, ev, deletes, poolVars>>

ClientBegins(c) ==
    /\ requests < MaxRequests
    /\ Changes(c, "quiet", "sending")
    /\ requests' = requests + 1
    /\ UNCHANGED OtherThanClient

ClientEnds(c) ==
    /\ Changes(c, "sending", "sent") \/ Changes(c, "sending", "gone")
    /\ UNCHANGED <<OtherThanClient, requests>>

ClientLeaves(c) ==
    /\ Changes(c, "quiet", "gone")
    /\ UNCHANGED <<OtherThanClient, requests>>

WorkerStep(w) == TaskStep(w) \/ (ThreadFunc(w) /\ UNCHANGED javaVars)
SubmitStep(c) == Execute(c) /\ UNCHANGED javaVars

JavaNext ==
    \/ MainStep \/ Shutdown
    \/ \E w \in Workers : WorkerStep(w)
    \/ \E c \in Callers : SubmitStep(c)
    \/ \E c \in Conns : ClientBegins(c) \/ ClientEnds(c) \/ ClientLeaves(c)
-----------------------------------------------------------------------------
\* The connections some step of the server still has to do with.
Busy(c) ==
    \/ c \in Range(workQueue)
    \/ \E x \in Callers : submit[x].at \in {"check", "push"} /\ submit[x].task = c
    \/ \E w \in Workers : task[w] = c /\ at[w] \in {"popped", "run", "add", "close"}

\* A connection is in the hands of one thread at a time: its event is added
\* only when nobody else will touch it, so that two requests of a connection
\* never run at once (the comment in handle_event's lambda).
OneHandlerPerConnection ==
    \A c \in Conns :
        /\ Cardinality({w \in Workers : task[w] = c /\ at[w] # "ran"})
             + Cardinality({i \in DOMAIN workQueue : workQueue[i] = c}) <= 1
        /\ ev[c] = "added" => ~Busy(c)

\* A connection is deleted once, and not while a thread, the queue or the
\* event loop can still reach it.
NoUseAfterDelete ==
    \A c \in Conns :
        /\ deletes[c] <= 1
        /\ Busy(c) \/ ev[c] = "added" \/ c \in eventMap => deletes[c] = 0

\* When the handler has stopped, every accepted connection was deleted and no
\* accepted task is left: await_termination waits for all of them.
StopLeavesNothing ==
    /\ main = "done" => workQueue = <<>> /\ \A c \in Conns : ~Busy(c)
    /\ main = "done" => \A c \in Conns : ev[c] # "none" => deletes[c] = 1

\* Threads run, and a client that has begun a request ends it or goes away:
\* read_event waits for it without a limit of time.
JavaFairness ==
    /\ WF_serverVars(MainStep)
    /\ \A w \in Workers : WF_serverVars(WorkerStep(w))
    /\ \A c \in Callers : WF_serverVars(SubmitStep(c))
    /\ \A c \in Conns : WF_serverVars(ClientEnds(c))

\* A request that a client has sent is answered, or its connection closed,
\* unless the server is asked to stop: whatever thread_pool_executor makes of
\* the moments between a pop and ++active_count_, no task waits for ever.
RequestsAreAnswered ==
    \A c \in Conns :
        client[c] = "sent" /\ c \in eventMap ~> client[c] # "sent" \/ ~started

\* A server that is asked to stop stops: the loop leaves the pool, the tasks
\* in the queue are run, and every thread leaves.
ServerStops == ~started ~> main = "done"
=============================================================================
