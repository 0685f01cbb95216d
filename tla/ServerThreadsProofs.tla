------------------------ MODULE ServerThreadsProofs ------------------------
(***************************************************************************)
(* In both thread models of the server a connection is in one thread's     *)
(* hands, is deleted once and is not left behind by a stop, for any number *)
(* of threads and of connections.                                          *)
(***************************************************************************)
EXTENDS MCServerThreads, FiniteSetTheorems, TLAPS

Places == {"none", "pop", "popped", "run", "ran", "add", "close", "leave"}
Holding == {"popped", "run", "add", "close"}

Calls == [at : {"none", "check", "push", "compare"}, task : Tasks \cup {NoTask}]

(* The types of the pool and of the handler's state *)
PoolTypes ==
    /\ workQueue \in Seq(Tasks)
    /\ at \in [Workers -> Places]
    /\ task \in [Workers -> Tasks \cup {NoTask}]
    /\ core \in [Workers -> BOOLEAN]
    /\ submit \in [Callers -> Calls]
JavaTypes ==
    /\ main \in {"off", "start", "starting", "serve", "stop", "await", "done"}
    /\ eventMap \subseteq Conns
    /\ ev \in [Conns -> {"none", "added", "idle", "freed"}]
    /\ deletes \in [Conns -> Nat]
    /\ client \in [Conns -> {"connecting", "quiet", "sending", "sent", "gone"}]

(* The pool is started before the server serves, and shut down after it. *)
Phases ==
    /\ main \in {"off", "start"} =>
          poolState = "new" /\ workQueue = <<>> /\ \A w \in Workers : at[w] = "none"
    /\ main \in {"starting", "serve", "stop"} => poolState = "running"
    /\ main \in {"await", "done"} => poolState = "terminating"
    /\ main = "done" => eventMap = {} /\ \A w \in Workers : at[w] = "none"

(* threads_ and active_count_ *)
Inside == {w \in Workers : at[w] \notin {"none", "pop", "popped", "leave"}}
PoolCounts ==
    /\ threads = {w \in Workers : at[w] # "none"}
    /\ active = Cardinality(Inside)

(* A thread has a task from the time it pops it to the time it is done with *)
(* it, and only the handler of a connection adds its event or closes it.    *)
HasTask(w) ==
    /\ at[w] \in {"none", "pop", "leave"} => task[w] = NoTask
    /\ at[w] \notin {"none", "pop", "leave"} => task[w] \in Tasks
    /\ at[w] \in {"add", "close"} => task[w] \in Conns

(* The server's thread submits the loop, and the loop connections.          *)
Submissions ==
    /\ \A x \in Callers : submit[x].at = "none" => submit[x] = NotSubmitting
    /\ submit[Main] # NotSubmitting => main = "starting" /\ submit[Main].task = Loop
    /\ submit[Loop] # NotSubmitting =>
          /\ submit[Loop].task \in Conns
          /\ \E w \in Workers : at[w] = "run" /\ task[w] = Loop

(* A task in the queue has a thread that will come for it: no core thread   *)
(* leaves a running pool, and no thread leaves one with tasks in its queue. *)
SomeoneComes ==
    /\ poolState = "running" => \A w \in CoreWorkers : core[w] /\ at[w] \notin {"none", "leave"}
    /\ workQueue # <<>> => \E w \in Workers : at[w] \notin {"none", "leave"}

(* Who has the connection: the call that submits it, a place in the queue,  *)
(* or a thread.  It is one of them at a time, and none while its event is   *)
(* added or when it is gone.                                                *)
Submits(c)  == submit[Loop].at \in {"check", "push"} /\ submit[Loop].task = c
Queued(c, i) == i \in DOMAIN workQueue /\ workQueue[i] = c
Holds(c, w) == at[w] \in Holding /\ task[w] = c
Ticket(c) ==
    /\ \A i, j \in DOMAIN workQueue : Queued(c, i) /\ Queued(c, j) => i = j
    /\ \A w, v \in Workers : Holds(c, w) /\ Holds(c, v) => w = v
    /\ \A i \in DOMAIN workQueue : Queued(c, i) => ~Submits(c) /\ ev[c] = "idle"
    /\ \A w \in Workers : Holds(c, w) => ~Submits(c) /\ ev[c] = "idle"
    /\ \A w \in Workers, i \in DOMAIN workQueue : ~(Holds(c, w) /\ Queued(c, i))
    /\ Submits(c) => ev[c] = "idle"

(* What the map and the deletions say of a connection *)
Registered(c) ==
    /\ c \in eventMap <=> ev[c] \in {"added", "idle"}
    /\ deletes[c] = IF ev[c] = "freed" THEN 1 ELSE 0
    /\ client[c] = "connecting" => ev[c] = "none"

JInv ==
    /\ PoolTypes /\ JavaTypes /\ Phases /\ PoolCounts /\ Submissions /\ SomeoneComes
    /\ \A w \in Workers : HasTask(w)
    /\ \A c \in Conns : Ticket(c) /\ Registered(c)

(* One thread per connection: a Worker is in the map until it has closed    *)
(* its connection, and is deleted at the end.                               *)
LInv ==
    /\ threadMap \subseteq Links
    /\ worker \in [Links -> {"none", "poll", "handle", "close", "erased", "delete", "gone"}]
    /\ freed \in [Links -> Nat]
    /\ peer \in [Links -> {"connecting", "quiet", "sending", "sent", "gone"}]
    /\ \A l \in Links : /\ l \in threadMap <=> worker[l] \in {"poll", "handle", "close"}
                        /\ freed[l] = IF worker[l] = "gone" THEN 1 ELSE 0
                        /\ worker[l] # "none" => peer[l] # "connecting"

-----------------------------------------------------------------------------
(* Facts that the steps share *)

LEMMA SetsOne ==
    ASSUME NEW D, NEW S, NEW f \in [D -> S], NEW k \in D, NEW x \in S, NEW g,
           g = [f EXCEPT ![k] = x]
    PROVE  g \in [D -> S] /\ g[k] = x /\ \A j \in D : j # k => g[j] = f[j]
    OBVIOUS

LEMMA InsideFacts ==
    ASSUME PoolCounts
    PROVE  /\ IsFiniteSet(Inside) /\ active \in Nat /\ active <= MaxPool
    <1>1. Inside \subseteq Workers
        BY Zenon DEF Inside
    <1>2. IsFiniteSet(Workers)
        BY PoolAssumption, Zenon
    <1> QED BY <1>1, <1>2, FS_Subset, FS_CardinalityType DEF PoolCounts, MaxPool

(* The counters when the threads are those there were, or thread w moves.   *)
LEMMA CountsSame ==
    ASSUME PoolCounts, threads' = threads, active' = active,
           \A w \in Workers : (at'[w] = "none" <=> at[w] = "none")
                               /\ (at'[w] \in {"none", "pop", "popped", "leave"}
                                     <=> at[w] \in {"none", "pop", "popped", "leave"})
    PROVE  PoolCounts'
    <1>1. Inside' = Inside
        BY DEF Inside
    <1>2. {w \in Workers : at'[w] # "none"} = {w \in Workers : at[w] # "none"}
        OBVIOUS
    <1> QED BY <1>1, <1>2, Zenon DEF PoolCounts

(* A step of thread w that leaves the pool's state and its submissions.     *)
LEMMA ThreadMoves ==
    ASSUME JInv, NEW w \in Workers, NEW p \in Places, at' = [at EXCEPT ![w] = p]
    PROVE  at' \in [Workers -> Places] /\ at'[w] = p /\ \A v \in Workers : v # w => at'[v] = at[v]
    <1>1. at \in [Workers -> Places]
        BY Zenon DEF JInv, PoolTypes
    <1> QED BY <1>1, SetsOne, Zenon

(* Nobody gets hold of the connection. *)
LEMMA TicketKept ==
    ASSUME NEW c \in Conns, Ticket(c),
           \A w \in Workers : at'[w] \in Holding /\ task'[w] = c => at[w] \in Holding /\ task[w] = c,
           \A i \in DOMAIN workQueue' : workQueue'[i] = c => i \in DOMAIN workQueue /\ workQueue[i] = c,
           submit'[Loop].at \in {"check", "push"} /\ submit'[Loop].task = c => Submits(c),
           ev'[c] = ev[c]
    PROVE  Ticket(c)'
    BY Zenon DEF Ticket, Holds, Queued, Submits

LEMMA TicketFree ==
    ASSUME NEW c \in Conns,
           \A w \in Workers : ~(at'[w] \in Holding /\ task'[w] = c),
           \A i \in DOMAIN workQueue' : workQueue'[i] # c,
           ~(submit'[Loop].at \in {"check", "push"} /\ submit'[Loop].task = c)
    PROVE  Ticket(c)'
    BY Zenon DEF Ticket, Holds, Queued, Submits

LEMMA TicketsSame ==
    ASSUME JInv, workQueue' = workQueue, at' = at, task' = task, submit' = submit, ev' = ev
    PROVE  \A c \in Conns : Ticket(c)'
    <1> SUFFICES ASSUME NEW c \in Conns PROVE Ticket(c)'
        OBVIOUS
    <1>1. Ticket(c)
        BY Zenon DEF JInv
    <1>2. submit'[Loop].at \in {"check", "push"} /\ submit'[Loop].task = c => Submits(c)
        BY Zenon DEF Submits
    <1> QED BY <1>1, <1>2, TicketKept, Zenon

(* A step that leaves the pool alone. *)
LEMMA PoolStays ==
    ASSUME JInv, UNCHANGED poolVars
    PROVE  /\ workQueue' = workQueue /\ at' = at /\ task' = task /\ submit' = submit
           /\ poolState' = poolState /\ core' = core
           /\ PoolTypes' /\ PoolCounts' /\ SomeoneComes' /\ \A w \in Workers : HasTask(w)'
    <1>1. /\ workQueue' = workQueue /\ at' = at /\ task' = task /\ submit' = submit
          /\ poolState' = poolState /\ core' = core /\ threads' = threads /\ active' = active
        BY Zenon DEF poolVars
    <1> QED BY <1>1, Zenon DEF JInv, PoolTypes, PoolCounts, Inside, SomeoneComes, HasTask

LEMMA JStutters ==
    ASSUME JInv, UNCHANGED poolVars, UNCHANGED <<main, eventMap, ev, deletes, client>>
    PROVE  JInv'
    <1>1. main' = main /\ eventMap' = eventMap /\ ev' = ev /\ deletes' = deletes /\ client' = client
        BY Zenon
    <1>2. /\ workQueue' = workQueue /\ at' = at /\ task' = task /\ submit' = submit /\ poolState' = poolState
          /\ PoolTypes' /\ PoolCounts' /\ SomeoneComes' /\ \A w \in Workers : HasTask(w)'
        BY PoolStays, Zenon
    <1>3. JavaTypes' /\ Phases' /\ Submissions' /\ \A c \in Conns : Registered(c)'
        BY <1>1, <1>2, Zenon DEF JInv, JavaTypes, Phases, Submissions, Registered
    <1>4. \A c \in Conns : Ticket(c)'
        BY <1>1, <1>2, TicketsSame, Zenon
    <1> QED BY <1>2, <1>3, <1>4, Zenon DEF JInv

-----------------------------------------------------------------------------
(* The clients and the server's thread *)

LEMMA ClientInv ==
    ASSUME JInv, NEW c \in Conns, ClientBegins(c) \/ ClientEnds(c) \/ ClientLeaves(c)
    PROVE  JInv'
    <1>1. PICK x \in {"sending", "sent", "gone"} :
             client[c] # "connecting" /\ client' = [client EXCEPT ![c] = x]
        BY Zenon DEF ClientBegins, ClientEnds, ClientLeaves, Changes
    <1>2. UNCHANGED poolVars /\ main' = main /\ eventMap' = eventMap /\ ev' = ev /\ deletes' = deletes
        BY Zenon DEF ClientBegins, ClientEnds, ClientLeaves, OtherThanClient
    <1>3. client \in [Conns -> {"connecting", "quiet", "sending", "sent", "gone"}]
        BY Zenon DEF JInv, JavaTypes
    <1>4. x \in {"connecting", "quiet", "sending", "sent", "gone"} /\ x # "connecting"
        BY <1>1, Zenon
    <1>5. /\ client' \in [Conns -> {"connecting", "quiet", "sending", "sent", "gone"}]
          /\ client'[c] = x /\ \A d \in Conns : d # c => client'[d] = client[d]
        BY <1>1, <1>3, <1>4, SetsOne, Zenon
    <1>6. JavaTypes'
        BY <1>2, <1>5, Zenon DEF JInv, JavaTypes
    <1>7. \A d \in Conns : Registered(d)'
        BY <1>2, <1>4, <1>5, Zenon DEF JInv, Registered
    <1>8. /\ workQueue' = workQueue /\ at' = at /\ task' = task /\ submit' = submit /\ poolState' = poolState
          /\ PoolTypes' /\ PoolCounts' /\ SomeoneComes' /\ \A w \in Workers : HasTask(w)'
        BY <1>2, PoolStays, Zenon
    <1>9. Phases' /\ Submissions'
        BY <1>2, <1>8, Zenon DEF JInv, Phases, Submissions
    <1>10. \A d \in Conns : Ticket(d)'
        BY <1>2, <1>8, TicketsSame, Zenon
    <1> QED BY <1>6, <1>7, <1>8, <1>9, <1>10, Zenon DEF JInv

LEMMA ServeInv ==
    ASSUME JInv, Serve \/ StopLoop \/ StopPool
    PROVE  JInv'
    <1>1. /\ UNCHANGED <<workQueue, threads, at, core, task, active, submit>>
          /\ UNCHANGED <<eventMap, ev, deletes, client>>
        BY Zenon DEF Serve, StopLoop, StopPool, ShutdownPool, poolVars
    <1>2. \/ main = "starting" /\ main' = "serve" /\ submit[Main] = NotSubmitting /\ poolState' = poolState
          \/ main = "serve" /\ main' = "stop" /\ poolState' = poolState
          \/ main = "stop" /\ main' = "await" /\ poolState' = IF poolState = "running" THEN "terminating" ELSE poolState
        BY Zenon DEF Serve, StopLoop, StopPool, ShutdownPool, poolVars
    <1>3. poolState = "running"
        BY <1>2, Zenon DEF JInv, Phases
    <1>4. submit[Main] = NotSubmitting
        BY <1>2, Zenon DEF JInv, Submissions
    <1>5. JavaTypes'
        BY <1>1, <1>2, Zenon DEF JInv, JavaTypes
    <1>6. Phases'
        BY <1>1, <1>2, <1>3, Zenon DEF Phases
    <1>7. Submissions'
        BY <1>1, <1>4, Zenon DEF JInv, Submissions
    <1>8. SomeoneComes'
        BY <1>1, <1>3, Zenon DEF JInv, SomeoneComes
    <1>9. PoolTypes' /\ PoolCounts' /\ \A w \in Workers : HasTask(w)'
        BY <1>1, Zenon DEF JInv, PoolTypes, PoolCounts, Inside, HasTask
    <1>10. \A c \in Conns : Ticket(c)' /\ Registered(c)'
        <2>1. \A c \in Conns : Ticket(c)'
            BY <1>1, TicketsSame, Zenon
        <2> QED BY <1>1, <2>1, Zenon DEF JInv, Registered
    <1> QED BY <1>5, <1>6, <1>7, <1>8, <1>9, <1>10, Zenon DEF JInv

LEMMA AwaitStopInv ==
    ASSUME JInv, AwaitStop
    PROVE  JInv'
    <1>1. /\ UNCHANGED poolVars /\ client' = client /\ main = "await" /\ main' = "done" /\ threads = {}
          /\ ev' = [c \in Conns |-> IF c \in eventMap THEN "freed" ELSE ev[c]]
          /\ deletes' = [c \in Conns |-> IF c \in eventMap THEN deletes[c] + 1 ELSE deletes[c]]
          /\ eventMap' = {}
        BY Zenon DEF AwaitStop
    <1>2. /\ workQueue' = workQueue /\ at' = at /\ task' = task /\ submit' = submit /\ poolState' = poolState
          /\ core' = core /\ threads' = threads /\ active' = active
        BY <1>1, Zenon DEF poolVars
    <1>3. \A w \in Workers : at[w] = "none"
        BY <1>1 DEF JInv, PoolCounts
    <1>4. submit[Loop] = NotSubmitting /\ submit[Main] = NotSubmitting /\ workQueue = <<>>
        BY <1>1, <1>3, Zenon DEF JInv, Submissions, SomeoneComes
    <1>5. \A c \in Conns : ev[c] \in {"none", "added", "idle", "freed"} /\ deletes[c] \in Nat
        BY Zenon DEF JInv, JavaTypes
    <1>6. JavaTypes'
        <2>1. \A c \in Conns : /\ ev'[c] \in {"none", "added", "idle", "freed"} /\ deletes'[c] \in Nat
            BY ONLY <1>1, <1>5
        <2>2. ev' \in [Conns -> {"none", "added", "idle", "freed"}] /\ deletes' \in [Conns -> Nat]
            BY ONLY <1>1, <2>1
        <2> QED BY <1>1, <2>2, Zenon DEF JInv, JavaTypes
    <1>7. ASSUME NEW c \in Conns PROVE Registered(c)' /\ Ticket(c)'
        <2>1. Registered(c)
            BY Zenon DEF JInv
        <2>2. ev'[c] = (IF c \in eventMap THEN "freed" ELSE ev[c])
              /\ deletes'[c] = (IF c \in eventMap THEN deletes[c] + 1 ELSE deletes[c])
            BY <1>1, Zenon
        <2>3. Registered(c)'
            BY ONLY <1>1, <1>5, <2>1, <2>2, c \in Conns DEF Registered
        <2>4. submit[Loop].at \notin {"check", "push"}
            BY <1>4 DEF NotSubmitting
        <2>5. \A i \in DOMAIN workQueue : FALSE
            BY <1>4
        <2>6. Ticket(c)'
            BY <1>2, <1>3, <2>4, <2>5, TicketFree, Zenon DEF Holding
        <2> QED BY <2>3, <2>6, Zenon
    <1>8. Phases'
        BY <1>1, <1>2, <1>3, Zenon DEF JInv, Phases
    <1>9. Submissions' /\ SomeoneComes'
        BY <1>2, <1>4, Zenon DEF JInv, Submissions, SomeoneComes
    <1>10. PoolTypes' /\ PoolCounts' /\ \A w \in Workers : HasTask(w)'
        BY <1>2, Zenon DEF JInv, PoolTypes, PoolCounts, Inside, HasTask
    <1> QED BY <1>6, <1>7, <1>8, <1>9, <1>10, Zenon DEF JInv

LEMMA AcceptInv ==
    ASSUME JInv, NEW c \in Conns, Accept(c)
    PROVE  JInv'
    <1>1. /\ UNCHANGED poolVars /\ main' = main /\ deletes' = deletes /\ eventMap' = eventMap \cup {c}
          /\ client[c] = "connecting" /\ client' = [client EXCEPT ![c] = "quiet"] /\ main = "serve"
          /\ ev' = [ev EXCEPT ![c] = "added"]
        BY Zenon DEF Accept
    <1>2. /\ workQueue' = workQueue /\ at' = at /\ task' = task /\ submit' = submit /\ poolState' = poolState
          /\ PoolTypes' /\ PoolCounts' /\ SomeoneComes' /\ \A w \in Workers : HasTask(w)'
        BY <1>1, PoolStays, Zenon
    <1>3. /\ client' \in [Conns -> {"connecting", "quiet", "sending", "sent", "gone"}]
          /\ client'[c] = "quiet" /\ \A d \in Conns : d # c => client'[d] = client[d]
        <2>1. client \in [Conns -> {"connecting", "quiet", "sending", "sent", "gone"}]
              /\ "quiet" \in {"connecting", "quiet", "sending", "sent", "gone"}
            BY Zenon DEF JInv, JavaTypes
        <2> QED BY <1>1, <2>1, SetsOne, Zenon
    <1>4. /\ ev' \in [Conns -> {"none", "added", "idle", "freed"}]
          /\ ev'[c] = "added" /\ \A d \in Conns : d # c => ev'[d] = ev[d]
        <2>1. ev \in [Conns -> {"none", "added", "idle", "freed"}]
              /\ "added" \in {"none", "added", "idle", "freed"}
            BY Zenon DEF JInv, JavaTypes
        <2> QED BY <1>1, <2>1, SetsOne, Zenon
    <1>5. JavaTypes'
        BY <1>1, <1>3, <1>4, Zenon DEF JInv, JavaTypes
    <1>6. ev[c] = "none" /\ Registered(c) /\ Ticket(c)
        BY <1>1, Zenon DEF JInv, Registered
    <1>7. \A d \in Conns : Registered(d)'
        <2>1. Registered(c)'
            BY <1>1, <1>3, <1>4, <1>6 DEF Registered
        <2>2. ASSUME NEW d \in Conns, d # c PROVE Registered(d)'
            <3>1. Registered(d)
                BY Zenon DEF JInv
            <3>2. ev'[d] = ev[d] /\ client'[d] = client[d] /\ (d \in eventMap' <=> d \in eventMap)
                BY <1>1, <1>3, <1>4, <2>2, Zenon
            <3> QED BY <1>1, <3>1, <3>2, Zenon DEF Registered
        <2> QED BY <2>1, <2>2, Zenon
    <1>8. \A d \in Conns : Ticket(d)'
        <2>1. Ticket(c)'
            <3>1. ~Submits(c) /\ (\A w \in Workers : ~Holds(c, w)) /\ \A i \in DOMAIN workQueue : ~Queued(c, i)
                BY <1>6, Zenon DEF Ticket
            <3> QED BY <1>2, <3>1, TicketFree, Zenon DEF Holds, Queued, Submits
        <2>2. ASSUME NEW d \in Conns, d # c PROVE Ticket(d)'
            <3>1. Ticket(d)
                BY Zenon DEF JInv
            <3>2. submit'[Loop].at \in {"check", "push"} /\ submit'[Loop].task = d => Submits(d)
                BY <1>2, Zenon DEF Submits
            <3>3. ev'[d] = ev[d]
                BY <1>4, <2>2, Zenon
            <3> QED BY <1>2, <3>1, <3>2, <3>3, TicketKept, Zenon
        <2> QED BY <2>1, <2>2, Zenon
    <1>9. Phases' /\ Submissions'
        BY <1>1, <1>2, Zenon DEF JInv, Phases, Submissions
    <1> QED BY <1>2, <1>5, <1>7, <1>8, <1>9, Zenon DEF JInv

LEMMA StartHandlerInv ==
    ASSUME JInv, StartHandler
    PROVE  JInv'
    <1>1. /\ main = "start" /\ main' = "starting" /\ poolState' = "running" /\ threads' = CoreWorkers
          /\ core' = [w \in Workers |-> w \in CoreWorkers]
          /\ at' = [w \in Workers |-> IF w \in CoreWorkers THEN "pop" ELSE "none"]
          /\ submit' = [submit EXCEPT ![Main] = [at |-> "check", task |-> Loop]]
          /\ workQueue' = workQueue /\ task' = task /\ active' = active
          /\ eventMap' = eventMap /\ ev' = ev /\ deletes' = deletes /\ client' = client
        BY Zenon DEF StartHandler, InitPool, BeginExecute
    <1>2. workQueue = <<>> /\ \A w \in Workers : at[w] = "none"
        BY <1>1, Zenon DEF JInv, Phases
    <1>3. CoreWorkers \subseteq Workers /\ CoreWorkers # {} /\ Main \in Callers /\ Loop \in Callers
          /\ Main # Loop /\ Loop \in Tasks
        BY PoolAssumption, JavaAssumption, Zenon
    <1>4. \A w \in Workers : at'[w] = IF w \in CoreWorkers THEN "pop" ELSE "none"
        BY <1>1, Zenon
    <1>5. at' \in [Workers -> Places] /\ core' \in [Workers -> BOOLEAN]
        BY <1>1 DEF Places
    <1>6. /\ submit' \in [Callers -> Calls]
          /\ submit'[Main] = [at |-> "check", task |-> Loop] /\ submit'[Loop] = submit[Loop]
        <2>1. submit \in [Callers -> Calls]
            BY Zenon DEF JInv, PoolTypes
        <2>2. [at |-> "check", task |-> Loop] \in Calls
            BY <1>3 DEF Calls
        <2> QED BY <1>1, <1>3, <2>1, <2>2, SetsOne, Zenon
    <1>7. PoolTypes'
        BY <1>1, <1>5, <1>6, Zenon DEF JInv, PoolTypes
    <1>8. JavaTypes' /\ \A c \in Conns : Registered(c)'
        BY <1>1, Zenon DEF JInv, JavaTypes, Registered
    <1>9. Phases'
        BY <1>1, Zenon DEF Phases
    <1>10. PoolCounts'
        <2>1. Inside' = {} /\ Inside = {}
            BY <1>2, <1>4 DEF Inside
        <2>2. threads' = {w \in Workers : at'[w] # "none"}
            BY <1>1, <1>3, <1>4
        <2> QED BY <1>1, <2>1, <2>2, Zenon DEF JInv, PoolCounts
    <1>11. submit[Loop] = NotSubmitting
        BY <1>2, Zenon DEF JInv, Submissions
    <1>12. Submissions'
        <2>1. submit'[Main].at = "check" /\ submit'[Main].task = Loop
            BY <1>6
        <2>2. \A x \in Callers : x = Main \/ x = Loop
            BY JavaAssumption, Zenon
        <2>3. submit'[Loop] = NotSubmitting
            BY <1>6, <1>11, Zenon
        <2> QED BY <1>1, <2>1, <2>2, <2>3, Zenon DEF Submissions
    <1>13. SomeoneComes'
        BY <1>1, <1>2, <1>3, <1>4 DEF SomeoneComes
    <1>14. \A w \in Workers : HasTask(w)'
        BY <1>1, <1>2, <1>4, Zenon DEF JInv, HasTask
    <1>15. ASSUME NEW c \in Conns PROVE Ticket(c)'
        <2>1. submit'[Loop].at = "none"
            BY <1>6, <1>11 DEF NotSubmitting
        <2>2. \A w \in Workers : at'[w] \notin Holding
            BY <1>4 DEF Holding
        <2>3. \A i \in DOMAIN workQueue' : FALSE
            BY <1>1, <1>2
        <2> QED BY <2>1, <2>2, <2>3, TicketFree, Zenon
    <1> QED BY <1>7, <1>8, <1>9, <1>10, <1>12, <1>13, <1>14, <1>15, Zenon DEF JInv

-----------------------------------------------------------------------------
(* A thread of the pool runs a task *)

(* What does not depend on the task when a thread that stays moves.         *)
LEMMA ThreadStays ==
    ASSUME JInv, NEW w \in Workers, NEW p \in Places,
           at' = [at EXCEPT ![w] = p], at[w] \notin {"none", "leave"}, p \notin {"none", "leave"},
           workQueue' = workQueue, submit' = submit, poolState' = poolState, core' = core, main' = main,
           task' \in [Workers -> Tasks \cup {NoTask}], \A v \in Workers : v # w => task'[v] = task[v],
           at[w] = "run" /\ task[w] = Loop => submit[Loop] = NotSubmitting
    PROVE  PoolTypes' /\ Phases' /\ Submissions' /\ SomeoneComes'
    <1>1. at' \in [Workers -> Places] /\ at'[w] = p /\ \A v \in Workers : v # w => at'[v] = at[v]
        BY ThreadMoves, Zenon
    <1>2. PoolTypes'
        BY <1>1, Zenon DEF JInv, PoolTypes
    <1>3. main \notin {"off", "start", "done"}
        BY Zenon DEF JInv, Phases
    <1>4. Phases'
        BY <1>3, Zenon DEF JInv, Phases
    <1>5. Submissions'
        <2>1. ASSUME submit[Loop] # NotSubmitting
              PROVE  \E v \in Workers : at'[v] = "run" /\ task'[v] = Loop
            <3>1. PICK v \in Workers : at[v] = "run" /\ task[v] = Loop
                BY <2>1, Zenon DEF JInv, Submissions
            <3>2. v # w
                BY <2>1, <3>1, Zenon
            <3> QED BY <1>1, <3>1, <3>2, Zenon
        <2> QED BY <2>1, Zenon DEF JInv, Submissions
    <1>6. SomeoneComes'
        <2>1. \A v \in Workers : at[v] \notin {"none", "leave"} => at'[v] \notin {"none", "leave"}
            BY <1>1, Zenon
        <2>2. CoreWorkers \subseteq Workers
            BY PoolAssumption, Zenon
        <2> QED BY <2>1, <2>2, Zenon DEF JInv, SomeoneComes
    <1> QED BY <1>2, <1>4, <1>5, <1>6, Zenon

(* A thread within its task *)
LEMMA RunsInside ==
    ASSUME JInv, NEW w \in Workers, NEW p \in {"ran", "add", "close"},
           at' = [at EXCEPT ![w] = p], at[w] \in {"run", "add", "close"},
           task[w] = Loop => submit[Loop] = NotSubmitting /\ p = "ran",
           UNCHANGED <<OtherThanAt, submit>>, main' = main
    PROVE  /\ PoolTypes' /\ Phases' /\ Submissions' /\ SomeoneComes' /\ PoolCounts'
           /\ \A v \in Workers : HasTask(v)'
           /\ workQueue' = workQueue /\ task' = task /\ submit' = submit
           /\ at'[w] = p /\ \A v \in Workers : v # w => at'[v] = at[v]
    <1>1. /\ workQueue' = workQueue /\ task' = task /\ submit' = submit /\ poolState' = poolState
          /\ core' = core /\ threads' = threads /\ active' = active
        BY Zenon DEF OtherThanAt
    <1>2. p \in Places /\ p \notin {"none", "leave"} /\ at[w] \notin {"none", "leave"}
        BY Zenon DEF Places
    <1>3. at'[w] = p /\ \A v \in Workers : v # w => at'[v] = at[v]
        BY <1>2, ThreadMoves, Zenon
    <1>4. task' \in [Workers -> Tasks \cup {NoTask}]
        BY <1>1, Zenon DEF JInv, PoolTypes
    <1>5. PoolTypes' /\ Phases' /\ Submissions' /\ SomeoneComes'
        BY <1>1, <1>2, <1>4, ThreadStays, Zenon
    <1>6. PoolCounts'
        <2>1. \A v \in Workers : (at'[v] = "none" <=> at[v] = "none")
                               /\ (at'[v] \in {"none", "pop", "popped", "leave"}
                                     <=> at[v] \in {"none", "pop", "popped", "leave"})
            BY <1>3, Zenon
        <2> QED BY <1>1, <2>1, CountsSame, Zenon DEF JInv
    <1>7. task[w] \in Tasks /\ (task[w] # Loop => task[w] \in Conns)
        BY JavaAssumption, Zenon DEF JInv, HasTask
    <1>8. HasTask(w)'
        BY <1>1, <1>2, <1>3, <1>7, Zenon DEF HasTask
    <1>9. \A v \in Workers : v # w => HasTask(v)'
        BY <1>1, <1>3, Zenon DEF JInv, HasTask
    <1> QED BY <1>1, <1>3, <1>5, <1>6, <1>8, <1>9, Zenon

(* ... that lets go of its connection at most, and leaves the others'.      *)
LEMMA LetsGo ==
    ASSUME JInv, NEW w \in Workers, workQueue' = workQueue, task' = task, submit' = submit,
           at[w] \in Holding, \A v \in Workers : v # w => at'[v] = at[v],
           \A d \in Conns : d # task[w] => ev'[d] = ev[d],
           ev'[task[w]] = ev[task[w]] \/ at'[w] \notin Holding
    PROVE  \A c \in Conns : Ticket(c)'
    <1> SUFFICES ASSUME NEW c \in Conns PROVE Ticket(c)'
        OBVIOUS
    <1>1. Ticket(c)
        BY Zenon DEF JInv
    <1>2. submit'[Loop].at \in {"check", "push"} /\ submit'[Loop].task = c => Submits(c)
        BY Zenon DEF Submits
    <1>3. \A v \in Workers : at'[v] \in Holding /\ task'[v] = c => at[v] \in Holding /\ task[v] = c
        BY Zenon
    <1>4. CASE ev'[c] = ev[c]
        BY <1>1, <1>2, <1>3, <1>4, TicketKept, Zenon
    <1>5. CASE ev'[c] # ev[c]
        <2>1. c = task[w] /\ at'[w] \notin Holding
            BY <1>5, Zenon
        <2>2. Holds(c, w)
            BY <2>1, Zenon DEF Holds
        <2>3. ~Submits(c) /\ (\A i \in DOMAIN workQueue : ~Queued(c, i))
              /\ \A v \in Workers : Holds(c, v) => v = w
            BY <1>1, <2>2, Zenon DEF Ticket
        <2>4. \A v \in Workers : ~(at'[v] \in Holding /\ task'[v] = c)
            BY <1>3, <2>1, <2>3, Zenon DEF Holds
        <2> QED BY <2>3, <2>4, TicketFree, Zenon DEF Queued, Submits
    <1> QED BY <1>4, <1>5, Zenon

LEMMA LoopExitsInv ==
    ASSUME JInv, NEW w \in Workers, LoopExits(w)
    PROVE  JInv'
    <1>1. /\ at[w] = "run" /\ at' = [at EXCEPT ![w] = "ran"] /\ submit[Loop] = NotSubmitting
          /\ UNCHANGED <<OtherThanAt, submit>> /\ task[w] = Loop
          /\ main' = main /\ eventMap' = eventMap /\ ev' = ev /\ deletes' = deletes /\ client' = client
        BY Zenon DEF LoopExits, Goes, javaVars
    <1>2. "ran" \in {"ran", "add", "close"} /\ at[w] \in {"run", "add", "close"} /\ at[w] \in Holding
        BY <1>1, Zenon DEF Holding
    <1>3. /\ PoolTypes' /\ Phases' /\ Submissions' /\ SomeoneComes' /\ PoolCounts'
          /\ \A v \in Workers : HasTask(v)'
          /\ workQueue' = workQueue /\ task' = task /\ submit' = submit
          /\ at'[w] = "ran" /\ \A v \in Workers : v # w => at'[v] = at[v]
        BY <1>1, <1>2, RunsInside, Zenon
    <1>4. \A c \in Conns : Ticket(c)'
        BY <1>1, <1>2, <1>3, LetsGo, Zenon
    <1>5. JavaTypes' /\ \A c \in Conns : Registered(c)'
        BY <1>1, Zenon DEF JInv, JavaTypes, Registered
    <1> QED BY <1>3, <1>4, <1>5, Zenon DEF JInv

LEMMA HandleEventInv ==
    ASSUME JInv, NEW w \in Workers, HandleEvent(w)
    PROVE  JInv'
    <1>1. PICK p \in {"add", "close"}, x \in {"quiet", "gone"} :
             /\ at[w] = "run" /\ at' = [at EXCEPT ![w] = p] /\ task[w] \in Conns
             /\ client[task[w]] # "connecting" /\ client' = [client EXCEPT ![task[w]] = x]
        BY Zenon DEF HandleEvent, Goes
    <1>2. /\ UNCHANGED <<OtherThanAt, submit>>
          /\ main' = main /\ eventMap' = eventMap /\ ev' = ev /\ deletes' = deletes
        BY Zenon DEF HandleEvent
    <1>3. p \in {"ran", "add", "close"} /\ at[w] \in {"run", "add", "close"} /\ at[w] \in Holding /\ task[w] # Loop
        BY <1>1, JavaAssumption, Zenon DEF Holding
    <1>4. /\ PoolTypes' /\ Phases' /\ Submissions' /\ SomeoneComes' /\ PoolCounts'
          /\ \A v \in Workers : HasTask(v)'
          /\ workQueue' = workQueue /\ task' = task /\ submit' = submit
          /\ at'[w] = p /\ \A v \in Workers : v # w => at'[v] = at[v]
        BY <1>1, <1>2, <1>3, RunsInside, Zenon
    <1>5. \A c \in Conns : Ticket(c)'
        BY <1>2, <1>3, <1>4, LetsGo, Zenon
    <1>6. /\ client' \in [Conns -> {"connecting", "quiet", "sending", "sent", "gone"}]
          /\ client'[task[w]] = x /\ \A d \in Conns : d # task[w] => client'[d] = client[d]
        <2>1. client \in [Conns -> {"connecting", "quiet", "sending", "sent", "gone"}]
              /\ x \in {"connecting", "quiet", "sending", "sent", "gone"}
            BY Zenon DEF JInv, JavaTypes
        <2> QED BY <1>1, <2>1, SetsOne, Zenon
    <1>7. JavaTypes'
        BY <1>2, <1>6, Zenon DEF JInv, JavaTypes
    <1>8. x # "connecting"
        BY Zenon
    <1>9. \A c \in Conns : Registered(c)'
        BY <1>1, <1>2, <1>6, <1>8, Zenon DEF JInv, Registered
    <1> QED BY <1>4, <1>5, <1>7, <1>9, Zenon DEF JInv

(* A connection in a thread's hands has an idle event and is in the map.    *)
LEMMA HeldIsIdle ==
    ASSUME JInv, NEW w \in Workers, at[w] \in {"add", "close"}
    PROVE  /\ at[w] \in Holding /\ task[w] \in Conns /\ task[w] # Loop
           /\ ev[task[w]] = "idle" /\ task[w] \in eventMap /\ deletes[task[w]] = 0
           /\ client[task[w]] # "connecting"
    <1>1. task[w] \in Conns /\ at[w] \in Holding
        BY Zenon DEF JInv, HasTask, Holding
    <1>2. Ticket(task[w]) /\ Registered(task[w]) /\ Holds(task[w], w)
        BY <1>1, Zenon DEF JInv, Holds
    <1>3. ev[task[w]] = "idle"
        BY <1>2, Zenon DEF Ticket
    <1> QED BY <1>1, <1>2, <1>3, JavaAssumption, Zenon DEF Registered

LEMMA AddEventInv ==
    ASSUME JInv, NEW w \in Workers, AddEvent(w)
    PROVE  JInv'
    <1>1. PICK p \in {"ran", "close"} :
             /\ at[w] = "add" /\ at' = [at EXCEPT ![w] = p]
             /\ IF p = "ran" THEN ev' = [ev EXCEPT ![task[w]] = "added"] ELSE ev' = ev
        <2>1. "close" # "ran" /\ "ran" \in {"ran", "close"} /\ "close" \in {"ran", "close"}
            BY Zenon
        <2> QED BY <2>1, Zenon DEF AddEvent, Goes
    <1>2. /\ UNCHANGED <<OtherThanAt, submit>>
          /\ main' = main /\ eventMap' = eventMap /\ client' = client /\ deletes' = deletes
        BY Zenon DEF AddEvent
    <1>3. /\ p \in {"ran", "add", "close"} /\ at[w] \in {"run", "add", "close"}
          /\ at[w] \in {"add", "close"} /\ "ran" \notin Holding
        BY <1>1, Zenon DEF Holding
    <1>4. /\ at[w] \in Holding /\ task[w] \in Conns /\ task[w] # Loop
          /\ ev[task[w]] = "idle" /\ task[w] \in eventMap /\ deletes[task[w]] = 0
          /\ client[task[w]] # "connecting"
        BY <1>3, HeldIsIdle, Zenon
    <1>5. /\ PoolTypes' /\ Phases' /\ Submissions' /\ SomeoneComes' /\ PoolCounts'
          /\ \A v \in Workers : HasTask(v)'
          /\ workQueue' = workQueue /\ task' = task /\ submit' = submit
          /\ at'[w] = p /\ \A v \in Workers : v # w => at'[v] = at[v]
        BY <1>1, <1>2, <1>3, <1>4, RunsInside, Zenon
    <1>6. /\ ev' \in [Conns -> {"none", "added", "idle", "freed"}]
          /\ ev'[task[w]] = (IF p = "ran" THEN "added" ELSE ev[task[w]])
          /\ \A d \in Conns : d # task[w] => ev'[d] = ev[d]
        <2>1. ev \in [Conns -> {"none", "added", "idle", "freed"}]
              /\ "added" \in {"none", "added", "idle", "freed"}
            BY Zenon DEF JInv, JavaTypes
        <2>2. CASE p = "ran"
            <3>1. ev' = [ev EXCEPT ![task[w]] = "added"]
                BY <1>1, <2>2, Zenon
            <3> QED BY <1>4, <2>1, <2>2, <3>1, SetsOne, Zenon
        <2>3. CASE p # "ran"
            BY <1>1, <2>1, <2>3, Zenon
        <2> QED BY <2>2, <2>3, Zenon
    <1>7. \A c \in Conns : Ticket(c)'
        <2>1. ev'[task[w]] = ev[task[w]] \/ at'[w] \notin Holding
            BY <1>3, <1>5, <1>6, Zenon
        <2> QED BY <1>4, <1>5, <1>6, <2>1, LetsGo, Zenon
    <1>8. JavaTypes'
        BY <1>2, <1>6, Zenon DEF JInv, JavaTypes
    <1>9. ASSUME NEW c \in Conns PROVE Registered(c)'
        <2>1. Registered(c)
            BY Zenon DEF JInv
        <2>2. CASE c = task[w]
            <3>1. ev'[c] \in {"added", "idle"} /\ ev'[c] # "freed" /\ ev[c] # "freed"
                BY <1>4, <1>6, <2>2, Zenon
            <3> QED BY <1>2, <1>4, <2>1, <2>2, <3>1, Zenon DEF Registered
        <2>3. CASE c # task[w]
            BY <1>2, <1>6, <2>1, <2>3, Zenon DEF Registered
        <2> QED BY <2>2, <2>3, Zenon
    <1> QED BY <1>5, <1>7, <1>8, <1>9, Zenon DEF JInv

LEMMA CloseConnectionInv ==
    ASSUME JInv, NEW w \in Workers, CloseConnection(w)
    PROVE  JInv'
    <1>1. /\ at[w] = "close" /\ at' = [at EXCEPT ![w] = "ran"] /\ UNCHANGED <<OtherThanAt, submit>>
          /\ main' = main /\ eventMap' = eventMap \ {task[w]}
          /\ client' = [client EXCEPT ![task[w]] = "gone"]
        BY Zenon DEF CloseConnection, Goes
    <1>2. /\ "ran" \in {"ran", "add", "close"} /\ at[w] \in {"run", "add", "close"}
          /\ at[w] \in {"add", "close"} /\ "ran" \notin Holding
        BY <1>1, Zenon DEF Holding
    <1>3. /\ at[w] \in Holding /\ task[w] \in Conns /\ task[w] # Loop
          /\ ev[task[w]] = "idle" /\ task[w] \in eventMap /\ deletes[task[w]] = 0
          /\ client[task[w]] # "connecting"
        BY <1>2, HeldIsIdle, Zenon
    <1>4. /\ PoolTypes' /\ Phases' /\ Submissions' /\ SomeoneComes' /\ PoolCounts'
          /\ \A v \in Workers : HasTask(v)'
          /\ workQueue' = workQueue /\ task' = task /\ submit' = submit
          /\ at'[w] = "ran" /\ \A v \in Workers : v # w => at'[v] = at[v]
        BY <1>1, <1>2, <1>3, RunsInside, Zenon
    <1>5. /\ ev \in [Conns -> {"none", "added", "idle", "freed"}] /\ deletes \in [Conns -> Nat]
          /\ client \in [Conns -> {"connecting", "quiet", "sending", "sent", "gone"}]
          /\ eventMap \subseteq Conns
        BY Zenon DEF JInv, JavaTypes
    <1>6. /\ ev' = [ev EXCEPT ![task[w]] = "freed"]
          /\ deletes' = [deletes EXCEPT ![task[w]] = 1]
        <2>1. /\ ev' = [ev EXCEPT ![task[w]] = IF task[w] \in eventMap THEN "freed" ELSE @]
              /\ deletes' = [deletes EXCEPT ![task[w]] = IF task[w] \in eventMap THEN @ + 1 ELSE @]
            BY Zenon DEF CloseConnection
        <2> QED BY ONLY <1>3, <1>5, <2>1
    <1>7. /\ ev' \in [Conns -> {"none", "added", "idle", "freed"}]
          /\ ev'[task[w]] = "freed" /\ \A d \in Conns : d # task[w] => ev'[d] = ev[d]
        <2>1. "freed" \in {"none", "added", "idle", "freed"}
            BY Zenon
        <2> QED BY <1>3, <1>5, <1>6, <2>1, SetsOne, Zenon
    <1>8. /\ deletes' \in [Conns -> Nat]
          /\ deletes'[task[w]] = 1 /\ \A d \in Conns : d # task[w] => deletes'[d] = deletes[d]
        <2>1. 1 \in Nat
            BY ONLY TRUE
        <2> QED BY <1>3, <1>5, <1>6, <2>1, SetsOne, Zenon
    <1>9. /\ client' \in [Conns -> {"connecting", "quiet", "sending", "sent", "gone"}]
          /\ client'[task[w]] = "gone" /\ \A d \in Conns : d # task[w] => client'[d] = client[d]
        <2>1. "gone" \in {"connecting", "quiet", "sending", "sent", "gone"}
            BY Zenon
        <2> QED BY <1>1, <1>3, <1>5, <2>1, SetsOne, Zenon
    <1>10. JavaTypes'
        BY <1>1, <1>5, <1>7, <1>8, <1>9, Zenon DEF JInv, JavaTypes
    <1>11. \A c \in Conns : Ticket(c)'
        BY <1>2, <1>3, <1>4, <1>7, LetsGo, Zenon
    <1>12. ASSUME NEW c \in Conns PROVE Registered(c)'
        <2>1. Registered(c)
            BY Zenon DEF JInv
        <2>2. CASE c = task[w]
            BY <1>1, <1>7, <1>8, <1>9, <2>2, Zenon DEF Registered
        <2>3. CASE c # task[w]
            BY <1>1, <1>7, <1>8, <1>9, <2>1, <2>3, Zenon DEF Registered
        <2> QED BY <2>2, <2>3, Zenon
    <1> QED BY <1>4, <1>10, <1>11, <1>12, Zenon DEF JInv

LEMMA EventFiresInv ==
    ASSUME JInv, NEW w \in Workers, NEW c \in Conns, EventFires(w, c)
    PROVE  JInv'
    <1>1. /\ at[w] = "run" /\ task[w] = Loop /\ submit[Loop] = NotSubmitting /\ ev[c] = "added"
          /\ ev' = [ev EXCEPT ![c] = "idle"]
          /\ submit' = [submit EXCEPT ![Loop] = [at |-> "check", task |-> c]]
          /\ poolState' = poolState /\ workQueue' = workQueue /\ threads' = threads /\ at' = at
          /\ core' = core /\ task' = task /\ active' = active
          /\ main' = main /\ eventMap' = eventMap /\ deletes' = deletes /\ client' = client
        BY Zenon DEF EventFires, BeginExecute
    <1>2. Main \in Callers /\ Loop \in Callers /\ Main # Loop /\ c \in Tasks /\ \A x \in Callers : x \in {Main, Loop}
        BY JavaAssumption, Zenon
    <1>3. /\ submit' \in [Callers -> Calls]
          /\ submit'[Loop] = [at |-> "check", task |-> c] /\ submit'[Main] = submit[Main]
        <2>1. submit \in [Callers -> Calls]
            BY Zenon DEF JInv, PoolTypes
        <2>2. [at |-> "check", task |-> c] \in Calls
            BY <1>2 DEF Calls
        <2> QED BY <1>1, <1>2, <2>1, <2>2, SetsOne, Zenon
    <1>4. submit'[Loop].at = "check" /\ submit'[Loop].task = c
        BY <1>3
    <1>5. /\ ev' \in [Conns -> {"none", "added", "idle", "freed"}]
          /\ ev'[c] = "idle" /\ \A d \in Conns : d # c => ev'[d] = ev[d]
        <2>1. ev \in [Conns -> {"none", "added", "idle", "freed"}]
              /\ "idle" \in {"none", "added", "idle", "freed"}
            BY Zenon DEF JInv, JavaTypes
        <2> QED BY <1>1, <2>1, SetsOne, Zenon
    <1>6. PoolTypes' /\ JavaTypes'
        BY <1>1, <1>3, <1>5, Zenon DEF JInv, PoolTypes, JavaTypes
    <1>7. Phases' /\ PoolCounts' /\ SomeoneComes' /\ \A v \in Workers : HasTask(v)'
        BY <1>1, Zenon DEF JInv, Phases, PoolCounts, Inside, SomeoneComes, HasTask
    <1>8. Submissions'
        BY <1>1, <1>2, <1>3, <1>4, Zenon DEF JInv, Submissions
    <1>9. \A d \in Conns : Registered(d)'
        BY <1>1, <1>5, Zenon DEF JInv, Registered
    <1>10. Ticket(c)'
        <2>1. (\A v \in Workers : ~Holds(c, v)) /\ \A i \in DOMAIN workQueue : ~Queued(c, i)
            BY <1>1, Zenon DEF JInv, Ticket
        <2> QED BY <1>1, <1>5, <2>1, Zenon DEF Ticket, Holds, Queued
    <1>11. ASSUME NEW d \in Conns, d # c PROVE Ticket(d)'
        <2>1. Ticket(d) /\ ev'[d] = ev[d]
            BY <1>5, <1>11, Zenon DEF JInv
        <2>2. ~(submit'[Loop].at \in {"check", "push"} /\ submit'[Loop].task = d)
            BY <1>4, <1>11, Zenon
        <2> QED BY <1>1, <2>1, <2>2, TicketKept, Zenon
    <1> QED BY <1>6, <1>7, <1>8, <1>9, <1>10, <1>11, Zenon DEF JInv

-----------------------------------------------------------------------------
(* thread_func *)

(* What a step of the pool leaves alone when no connection changes hands.   *)
LEMMA JavaStays ==
    ASSUME JInv, UNCHANGED javaVars
    PROVE  /\ main' = main /\ ev' = ev /\ eventMap' = eventMap
           /\ JavaTypes' /\ \A c \in Conns : Registered(c)'
    <1>1. main' = main /\ eventMap' = eventMap /\ ev' = ev /\ deletes' = deletes /\ client' = client
        BY Zenon DEF javaVars
    <1> QED BY <1>1, Zenon DEF JInv, JavaTypes, Registered

LEMMA HoldersStay ==
    ASSUME JInv, workQueue' = workQueue, submit' = submit, ev' = ev,
           \A v \in Workers : at'[v] \in Holding => at[v] \in Holding /\ task'[v] = task[v]
    PROVE  \A c \in Conns : Ticket(c)'
    <1> SUFFICES ASSUME NEW c \in Conns PROVE Ticket(c)'
        OBVIOUS
    <1>1. Ticket(c)
        BY Zenon DEF JInv
    <1>2. submit'[Loop].at \in {"check", "push"} /\ submit'[Loop].task = c => Submits(c)
        BY Zenon DEF Submits
    <1> QED BY <1>1, <1>2, TicketKept, Zenon

LEMMA StartTaskInv ==
    ASSUME JInv, NEW w \in Workers, StartTask(w), UNCHANGED javaVars
    PROVE  JInv'
    <1>1. /\ at[w] = "popped" /\ at' = [at EXCEPT ![w] = "run"] /\ active' = active + 1
          /\ poolState' = poolState /\ workQueue' = workQueue /\ threads' = threads /\ core' = core
          /\ task' = task /\ submit' = submit
        BY Zenon DEF StartTask, Goes
    <1>2. main' = main /\ ev' = ev /\ JavaTypes' /\ \A c \in Conns : Registered(c)'
        BY JavaStays, Zenon
    <1>3. "run" \in Places /\ "run" \notin {"none", "leave"} /\ at[w] \notin {"none", "leave"} /\ at[w] \in Holding
        BY <1>1, Zenon DEF Places, Holding
    <1>4. at'[w] = "run" /\ \A v \in Workers : v # w => at'[v] = at[v]
        BY <1>1, <1>3, ThreadMoves, Zenon
    <1>5. PoolTypes' /\ Phases' /\ Submissions' /\ SomeoneComes'
        <2>1. task' \in [Workers -> Tasks \cup {NoTask}] /\ at[w] # "run"
            BY <1>1, Zenon DEF JInv, PoolTypes
        <2> QED BY <1>1, <1>2, <1>3, <2>1, ThreadStays, Zenon
    <1>6. PoolCounts'
        <2>1. Inside' = Inside \cup {w} /\ w \notin Inside
            BY <1>1, <1>4 DEF Inside
        <2>2. IsFiniteSet(Inside)
            BY InsideFacts, Zenon DEF JInv
        <2>3. Cardinality(Inside') = Cardinality(Inside) + 1
            BY <2>1, <2>2, FS_AddElement
        <2>4. {v \in Workers : at'[v] # "none"} = {v \in Workers : at[v] # "none"}
            BY <1>1, <1>4
        <2> QED BY <1>1, <2>3, <2>4, Zenon DEF JInv, PoolCounts
    <1>7. \A v \in Workers : HasTask(v)'
        <2>1. HasTask(w)'
            BY <1>1, <1>4, Zenon DEF JInv, HasTask
        <2> QED BY <1>1, <1>4, <2>1, Zenon DEF JInv, HasTask
    <1>8. \A c \in Conns : Ticket(c)'
        BY <1>1, <1>2, <1>3, <1>4, HoldersStay, Zenon
    <1> QED BY <1>2, <1>5, <1>6, <1>7, <1>8, Zenon DEF JInv

LEMMA TaskDoneInv ==
    ASSUME JInv, NEW w \in Workers, TaskDone(w), UNCHANGED javaVars
    PROVE  JInv'
    <1>1. /\ at[w] = "ran" /\ at' = [at EXCEPT ![w] = "pop"] /\ active' = active - 1
          /\ task' = [task EXCEPT ![w] = NoTask]
          /\ poolState' = poolState /\ workQueue' = workQueue /\ threads' = threads /\ core' = core
          /\ submit' = submit
        BY Zenon DEF TaskDone, Goes
    <1>2. main' = main /\ ev' = ev /\ JavaTypes' /\ \A c \in Conns : Registered(c)'
        BY JavaStays, Zenon
    <1>3. "pop" \in Places /\ "pop" \notin {"none", "leave"} /\ at[w] \notin {"none", "leave"} /\ "pop" \notin Holding
        BY <1>1, Zenon DEF Places, Holding
    <1>4. at'[w] = "pop" /\ \A v \in Workers : v # w => at'[v] = at[v]
        BY <1>1, <1>3, ThreadMoves, Zenon
    <1>5. /\ task' \in [Workers -> Tasks \cup {NoTask}]
          /\ task'[w] = NoTask /\ \A v \in Workers : v # w => task'[v] = task[v]
        <2>1. task \in [Workers -> Tasks \cup {NoTask}] /\ NoTask \in Tasks \cup {NoTask}
            BY Zenon DEF JInv, PoolTypes
        <2> QED BY <1>1, <2>1, SetsOne, Zenon
    <1>6. PoolTypes' /\ Phases' /\ Submissions' /\ SomeoneComes'
        <2>1. at[w] # "run"
            BY <1>1, Zenon
        <2> QED BY <1>1, <1>2, <1>3, <1>5, <2>1, ThreadStays, Zenon
    <1>7. PoolCounts'
        <2>1. Inside' = Inside \ {w} /\ w \in Inside
            BY <1>1, <1>4 DEF Inside
        <2>2. IsFiniteSet(Inside)
            BY InsideFacts, Zenon DEF JInv
        <2>3. Cardinality(Inside') = Cardinality(Inside) - 1
            BY <2>1, <2>2, FS_RemoveElement
        <2>4. {v \in Workers : at'[v] # "none"} = {v \in Workers : at[v] # "none"}
            BY <1>1, <1>4
        <2> QED BY <1>1, <2>3, <2>4, Zenon DEF JInv, PoolCounts
    <1>8. \A v \in Workers : HasTask(v)'
        <2>1. HasTask(w)'
            BY <1>4, <1>5, Zenon DEF HasTask
        <2> QED BY <1>4, <1>5, <2>1, Zenon DEF JInv, HasTask
    <1>9. \A c \in Conns : Ticket(c)'
        BY <1>1, <1>2, <1>3, <1>4, <1>5, HoldersStay, Zenon
    <1> QED BY <1>2, <1>6, <1>7, <1>8, <1>9, Zenon DEF JInv

(* Before a thread exists and after the last has gone nothing is submitted. *)
LEMMA ThreadsAreWithin ==
    ASSUME JInv, \E w \in Workers : at[w] # "none"
    PROVE  main \notin {"off", "start", "done"}
    BY Zenon DEF JInv, Phases

LEMMA FindNoTaskInv ==
    ASSUME JInv, NEW w \in Workers, FindNoTask(w), UNCHANGED javaVars
    PROVE  JInv'
    <1>1. /\ at[w] = "pop" /\ at' = [at EXCEPT ![w] = "leave"] /\ workQueue = <<>>
          /\ poolState # "running" \/ ~core[w]
          /\ poolState' = poolState /\ workQueue' = workQueue /\ threads' = threads /\ core' = core
          /\ task' = task /\ submit' = submit /\ active' = active
        BY Zenon DEF FindNoTask, Goes
    <1>2. main' = main /\ ev' = ev /\ JavaTypes' /\ \A c \in Conns : Registered(c)'
        BY JavaStays, Zenon
    <1>3. "leave" \in Places /\ "leave" \notin Holding /\ at[w] # "none" /\ at[w] # "run"
        BY <1>1, Zenon DEF Places, Holding
    <1>4. at' \in [Workers -> Places] /\ at'[w] = "leave" /\ \A v \in Workers : v # w => at'[v] = at[v]
        BY <1>1, <1>3, ThreadMoves, Zenon
    <1>5. PoolTypes'
        BY <1>1, <1>4, Zenon DEF JInv, PoolTypes
    <1>6. Phases'
        BY <1>1, <1>2, <1>3, ThreadsAreWithin, Zenon DEF JInv, Phases
    <1>7. Submissions'
        <2>1. \A v \in Workers : at[v] = "run" => at'[v] = "run"
            BY <1>3, <1>4, Zenon
        <2> QED BY <1>1, <1>2, <2>1, Zenon DEF JInv, Submissions
    <1>8. SomeoneComes'
        <2>1. poolState = "running" => w \notin CoreWorkers
            BY <1>1, Zenon DEF JInv, SomeoneComes
        <2>2. CoreWorkers \subseteq Workers
            BY PoolAssumption, Zenon
        <2> QED BY <1>1, <1>4, <2>1, <2>2, Zenon DEF JInv, SomeoneComes
    <1>9. PoolCounts'
        <2>1. \A v \in Workers : (at'[v] = "none" <=> at[v] = "none")
                               /\ (at'[v] \in {"none", "pop", "popped", "leave"}
                                     <=> at[v] \in {"none", "pop", "popped", "leave"})
            BY <1>1, <1>4, Zenon
        <2> QED BY <1>1, <2>1, CountsSame, Zenon DEF JInv
    <1>10. \A v \in Workers : HasTask(v)'
        <2>1. HasTask(w)'
            BY <1>1, <1>4, Zenon DEF JInv, HasTask
        <2> QED BY <1>1, <1>4, <2>1, Zenon DEF JInv, HasTask
    <1>11. \A c \in Conns : Ticket(c)'
        BY <1>1, <1>2, <1>3, <1>4, HoldersStay, Zenon
    <1> QED BY <1>2, <1>5, <1>6, <1>7, <1>8, <1>9, <1>10, <1>11, Zenon DEF JInv

LEMMA EraseThreadInv ==
    ASSUME JInv, NEW w \in Workers, EraseThread(w), UNCHANGED javaVars
    PROVE  JInv'
    <1>1. /\ at[w] = "leave" /\ at' = [at EXCEPT ![w] = "none"] /\ threads' = threads \ {w}
          /\ poolState' = poolState /\ workQueue' = workQueue /\ core' = core
          /\ task' = task /\ submit' = submit /\ active' = active
        BY Zenon DEF EraseThread, Goes
    <1>2. main' = main /\ ev' = ev /\ JavaTypes' /\ \A c \in Conns : Registered(c)'
        BY JavaStays, Zenon
    <1>3. "none" \in Places /\ "none" \notin Holding /\ at[w] # "none" /\ at[w] # "run"
        BY <1>1, Zenon DEF Places, Holding
    <1>4. at' \in [Workers -> Places] /\ at'[w] = "none" /\ \A v \in Workers : v # w => at'[v] = at[v]
        BY <1>1, <1>3, ThreadMoves, Zenon
    <1>5. PoolTypes'
        BY <1>1, <1>4, Zenon DEF JInv, PoolTypes
    <1>6. Phases'
        BY <1>1, <1>2, <1>3, ThreadsAreWithin, Zenon DEF JInv, Phases
    <1>7. Submissions'
        <2>1. \A v \in Workers : at[v] = "run" => at'[v] = "run"
            BY <1>3, <1>4, Zenon
        <2> QED BY <1>1, <1>2, <2>1, Zenon DEF JInv, Submissions
    <1>8. SomeoneComes'
        <2>1. \A v \in Workers : at[v] \notin {"none", "leave"} => at'[v] = at[v]
            BY <1>1, <1>4, Zenon
        <2>2. CoreWorkers \subseteq Workers
            BY PoolAssumption, Zenon
        <2> QED BY <1>1, <2>1, <2>2, Zenon DEF JInv, SomeoneComes
    <1>9. PoolCounts'
        <2>1. Inside' = Inside
            BY <1>1, <1>4 DEF Inside
        <2>2. {v \in Workers : at'[v] # "none"} = {v \in Workers : at[v] # "none"} \ {w}
            BY <1>4
        <2> QED BY <1>1, <2>1, <2>2, Zenon DEF JInv, PoolCounts
    <1>10. \A v \in Workers : HasTask(v)'
        <2>1. HasTask(w)'
            BY <1>1, <1>4, Zenon DEF JInv, HasTask
        <2> QED BY <1>1, <1>4, <2>1, Zenon DEF JInv, HasTask
    <1>11. \A c \in Conns : Ticket(c)'
        BY <1>1, <1>2, <1>3, <1>4, HoldersStay, Zenon
    <1> QED BY <1>2, <1>5, <1>6, <1>7, <1>8, <1>9, <1>10, <1>11, Zenon DEF JInv

LEMMA HeadAndTail ==
    ASSUME NEW T, NEW s \in Seq(T), s # <<>>, NEW r, r = Tail(s)
    PROVE  /\ Head(s) \in T /\ 1 \in DOMAIN s /\ s[1] = Head(s) /\ r \in Seq(T)
           /\ \A i \in DOMAIN r : i + 1 \in DOMAIN s /\ r[i] = s[i + 1] /\ i + 1 # 1
           /\ \A i, j \in DOMAIN r : i + 1 = j + 1 => i = j
    OBVIOUS

LEMMA PopTaskInv ==
    ASSUME JInv, NEW w \in Workers, PopTask(w), UNCHANGED javaVars
    PROVE  JInv'
    <1>1. /\ at[w] = "pop" /\ at' = [at EXCEPT ![w] = "popped"] /\ workQueue # <<>>
          /\ task' = [task EXCEPT ![w] = Head(workQueue)] /\ workQueue' = Tail(workQueue)
          /\ poolState' = poolState /\ threads' = threads /\ core' = core
          /\ submit' = submit /\ active' = active
        BY Zenon DEF PopTask, Goes
    <1>2. main' = main /\ ev' = ev /\ JavaTypes' /\ \A c \in Conns : Registered(c)'
        BY JavaStays, Zenon
    <1>3. "popped" \in Places /\ "popped" \in Holding /\ at[w] # "none" /\ at[w] # "run"
        BY <1>1, Zenon DEF Places, Holding
    <1>4. at' \in [Workers -> Places] /\ at'[w] = "popped" /\ \A v \in Workers : v # w => at'[v] = at[v]
        BY <1>1, <1>3, ThreadMoves, Zenon
    <1>5. /\ Head(workQueue) \in Tasks /\ 1 \in DOMAIN workQueue /\ workQueue[1] = Head(workQueue)
          /\ workQueue' \in Seq(Tasks)
          /\ \A i \in DOMAIN workQueue' : i + 1 \in DOMAIN workQueue /\ workQueue'[i] = workQueue[i + 1] /\ i + 1 # 1
          /\ \A i, j \in DOMAIN workQueue' : i + 1 = j + 1 => i = j
        <2>1. workQueue \in Seq(Tasks)
            BY Zenon DEF JInv, PoolTypes
        <2> DEFINE r == workQueue'
        <2>2. workQueue # <<>> /\ r = Tail(workQueue)
            BY <1>1, Zenon
        <2> HIDE DEF r
        <2>3. /\ Head(workQueue) \in Tasks /\ 1 \in DOMAIN workQueue /\ workQueue[1] = Head(workQueue)
              /\ r \in Seq(Tasks)
              /\ \A i \in DOMAIN r : i + 1 \in DOMAIN workQueue /\ r[i] = workQueue[i + 1] /\ i + 1 # 1
              /\ \A i, j \in DOMAIN r : i + 1 = j + 1 => i = j
            BY ONLY <2>1, <2>2, HeadAndTail
        <2> QED BY <2>3, Zenon DEF r
    <1>6. /\ task' \in [Workers -> Tasks \cup {NoTask}]
          /\ task'[w] = Head(workQueue) /\ \A v \in Workers : v # w => task'[v] = task[v]
        <2>1. task \in [Workers -> Tasks \cup {NoTask}] /\ Head(workQueue) \in Tasks \cup {NoTask}
            BY <1>5, Zenon DEF JInv, PoolTypes
        <2> QED BY <1>1, <2>1, SetsOne, Zenon
    <1>7. PoolTypes'
        BY <1>1, <1>4, <1>5, <1>6, Zenon DEF JInv, PoolTypes
    <1>8. Phases'
        BY <1>1, <1>2, <1>3, ThreadsAreWithin, Zenon DEF JInv, Phases
    <1>9. Submissions'
        <2>1. \A v \in Workers : at[v] = "run" => at'[v] = "run" /\ task'[v] = task[v]
            BY <1>3, <1>4, <1>6, Zenon
        <2> QED BY <1>1, <1>2, <2>1, Zenon DEF JInv, Submissions
    <1>10. SomeoneComes'
        <2>1. \A v \in Workers : at[v] \notin {"none", "leave"} => at'[v] \notin {"none", "leave"}
            BY <1>4, Zenon
        <2>2. CoreWorkers \subseteq Workers
            BY PoolAssumption, Zenon
        <2> QED BY <1>1, <2>1, <2>2, Zenon DEF JInv, SomeoneComes
    <1>11. PoolCounts'
        <2>1. \A v \in Workers : (at'[v] = "none" <=> at[v] = "none")
                               /\ (at'[v] \in {"none", "pop", "popped", "leave"}
                                     <=> at[v] \in {"none", "pop", "popped", "leave"})
            BY <1>1, <1>4, Zenon
        <2> QED BY <1>1, <2>1, CountsSame, Zenon DEF JInv
    <1>12. \A v \in Workers : HasTask(v)'
        <2>1. HasTask(w)'
            BY <1>4, <1>5, <1>6, Zenon DEF HasTask
        <2> QED BY <1>4, <1>6, <2>1, Zenon DEF JInv, HasTask
    <1>13. ASSUME NEW c \in Conns PROVE Ticket(c)'
        <2>1. Ticket(c)
            BY Zenon DEF JInv
        <2>2. \A v \in Workers : v # w => (Holds(c, v)' <=> Holds(c, v))
            BY <1>4, <1>6, Zenon DEF Holds
        <2>3. ~Holds(c, w) /\ (Holds(c, w)' <=> Queued(c, 1))
            BY <1>1, <1>3, <1>4, <1>5, <1>6, Zenon DEF Holds, Queued, Holding
        <2>4. \A i \in DOMAIN workQueue' : Queued(c, i)' => Queued(c, i + 1) /\ i + 1 # 1 /\ i + 1 \in DOMAIN workQueue
            BY <1>5, Zenon DEF Queued
        <2>5. Submits(c)' => Submits(c)
            BY <1>1, Zenon DEF Submits
        <2>6. \A i, j \in DOMAIN workQueue' : Queued(c, i)' /\ Queued(c, j)' => i = j
            BY <1>5, <2>1, <2>4, Zenon DEF Ticket
        <2>7. \A v, u \in Workers : Holds(c, v)' /\ Holds(c, u)' => v = u
            BY <1>5, <2>1, <2>2, <2>3, Zenon DEF Ticket
        <2>8. \A i \in DOMAIN workQueue' : Queued(c, i)' => ~Submits(c)' /\ ev'[c] = "idle"
            BY <1>2, <2>1, <2>4, <2>5, Zenon DEF Ticket
        <2>9. \A v \in Workers : Holds(c, v)' => ~Submits(c)' /\ ev'[c] = "idle"
            BY <1>2, <1>5, <2>1, <2>2, <2>3, <2>5, Zenon DEF Ticket
        <2>10. \A v \in Workers, i \in DOMAIN workQueue' : ~(Holds(c, v)' /\ Queued(c, i)')
            BY <1>5, <2>1, <2>2, <2>3, <2>4, Zenon DEF Ticket
        <2>11. Submits(c)' => ev'[c] = "idle"
            BY <1>2, <2>1, <2>5, Zenon DEF Ticket
        <2> QED BY <2>6, <2>7, <2>8, <2>9, <2>10, <2>11, Zenon DEF Ticket
    <1> QED BY <1>2, <1>7, <1>8, <1>9, <1>10, <1>11, <1>12, <1>13, Zenon DEF JInv

-----------------------------------------------------------------------------
(* execute *)

(* A call that is on its way *)
LEMMA CallFacts ==
    ASSUME JInv, NEW x \in Callers, submit[x].at # "none"
    PROVE  /\ submit \in [Callers -> Calls] /\ submit[x] # NotSubmitting
           /\ x \in {Main, Loop} /\ Main \in Callers /\ Loop \in Callers /\ Main # Loop
           /\ submit[x].task \in Tasks
           /\ x = Main => main = "starting" /\ submit[x].task = Loop
           /\ x = Loop => submit[x].task \in Conns /\ \E w \in Workers : at[w] = "run" /\ task[w] = Loop
           /\ main \notin {"off", "start", "done"}
           /\ \E w \in Workers : at[w] \notin {"none", "leave"}
    <1>1. submit \in [Callers -> Calls]
        BY Zenon DEF JInv, PoolTypes, Calls
    <1>2. submit[x] # NotSubmitting
        BY DEF NotSubmitting
    <1>3. x \in {Main, Loop} /\ Main \in Callers /\ Loop \in Callers /\ Main # Loop
        BY JavaAssumption, Zenon
    <1>4. x = Main => main = "starting" /\ submit[x].task = Loop
        BY <1>2, Zenon DEF JInv, Submissions
    <1>5. x = Loop => submit[x].task \in Conns /\ \E w \in Workers : at[w] = "run" /\ task[w] = Loop
        BY <1>2, Zenon DEF JInv, Submissions
    <1>6. submit[x].task \in Tasks
        BY <1>3, <1>4, <1>5, JavaAssumption, Zenon
    <1>7. \E w \in Workers : at[w] \notin {"none", "leave"}
        <2>1. CASE x = Main
            <3>1. poolState = "running"
                BY <1>4, <2>1, Zenon DEF JInv, Phases
            <3> QED BY <3>1, PoolAssumption, Zenon DEF JInv, SomeoneComes
        <2>2. CASE x = Loop
            BY <1>5, <2>2, Zenon
        <2> QED BY <1>3, <2>1, <2>2, Zenon
    <1>8. main \notin {"off", "start", "done"}
        BY <1>7, ThreadsAreWithin, Zenon
    <1> QED BY <1>1, <1>2, <1>3, <1>4, <1>5, <1>6, <1>7, <1>8, Zenon

(* The call goes on, with the task it has, or ends. *)
LEMMA CallMoves ==
    ASSUME JInv, NEW x \in Callers, submit[x].at # "none", NEW p \in {"push", "compare"}, NEW r,
           r = [at |-> p, task |-> submit[x].task] \/ r = NotSubmitting,
           submit' = [submit EXCEPT ![x] = r],
           main' = main, \A w \in Workers : at[w] = "run" => at'[w] = "run" /\ task'[w] = task[w]
    PROVE  submit' \in [Callers -> Calls] /\ submit'[x] = r /\ Submissions'
           /\ \A y \in Callers : y # x => submit'[y] = submit[y]
    <1>1. /\ submit \in [Callers -> Calls] /\ submit[x] # NotSubmitting
          /\ x \in {Main, Loop} /\ Main \in Callers /\ Loop \in Callers /\ Main # Loop
          /\ submit[x].task \in Tasks
          /\ x = Main => main = "starting" /\ submit[x].task = Loop
          /\ x = Loop => submit[x].task \in Conns /\ \E w \in Workers : at[w] = "run" /\ task[w] = Loop
        BY CallFacts, Zenon
    <1>2. r \in Calls /\ (r = NotSubmitting \/ (r.at = p /\ r.task = submit[x].task))
        BY <1>1 DEF Calls, NotSubmitting
    <1>3. submit' \in [Callers -> Calls] /\ submit'[x] = r /\ \A y \in Callers : y # x => submit'[y] = submit[y]
        BY <1>1, <1>2, SetsOne, Zenon
    <1>4. \A y \in Callers : submit'[y].at = "none" => submit'[y] = NotSubmitting
        BY <1>2, <1>3, Zenon DEF JInv, Submissions
    <1>5. submit'[Main] # NotSubmitting => main' = "starting" /\ submit'[Main].task = Loop
        BY <1>1, <1>2, <1>3, Zenon DEF JInv, Submissions
    <1>6. submit'[Loop] # NotSubmitting =>
             submit'[Loop].task \in Conns /\ \E w \in Workers : at'[w] = "run" /\ task'[w] = Loop
        BY <1>1, <1>2, <1>3, Zenon DEF JInv, Submissions
    <1> QED BY <1>3, <1>4, <1>5, <1>6, Zenon DEF Submissions

LEMMA CheckStateInv ==
    ASSUME JInv, NEW x \in Callers, CheckState(x), UNCHANGED javaVars
    PROVE  JInv'
    <1>1. /\ submit[x].at = "check"
          /\ submit' = [submit EXCEPT ![x] = IF poolState = "running"
                                             THEN [@ EXCEPT !.at = "push"] ELSE NotSubmitting]
          /\ poolState' = poolState /\ threads' = threads /\ core' = core
          /\ workQueue' = workQueue /\ at' = at /\ task' = task /\ active' = active
        BY Zenon DEF CheckState, Submitting
    <1>2. main' = main /\ ev' = ev /\ JavaTypes' /\ \A c \in Conns : Registered(c)'
        BY JavaStays, Zenon
    <1>3. submit[x].at # "none" /\ "push" \in {"push", "compare"}
        BY <1>1, Zenon
    <1>4. submit \in [Callers -> Calls] /\ Loop \in Callers
        BY <1>3, CallFacts, Zenon
    <1> DEFINE r == IF poolState = "running" THEN [at |-> "push", task |-> submit[x].task] ELSE NotSubmitting
    <1>5. r = [at |-> "push", task |-> submit[x].task] \/ r = NotSubmitting
        BY Zenon
    <1>6. submit' = [submit EXCEPT ![x] = r]
        <2>1. [submit[x] EXCEPT !.at = "push"] = [at |-> "push", task |-> submit[x].task]
            BY <1>4 DEF Calls
        <2> QED BY <1>1, <2>1, Zenon
    <1> HIDE DEF r
    <1>7. /\ submit' \in [Callers -> Calls] /\ submit'[x] = r /\ Submissions'
          /\ \A y \in Callers : y # x => submit'[y] = submit[y]
        BY <1>1, <1>2, <1>3, <1>5, <1>6, CallMoves, Zenon
    <1>8. PoolTypes'
        BY <1>1, <1>7, Zenon DEF JInv, PoolTypes, Calls
    <1>9. Phases' /\ PoolCounts' /\ SomeoneComes' /\ \A v \in Workers : HasTask(v)'
        <2>1. eventMap' = eventMap
            BY JavaStays, Zenon
        <2> QED BY <1>1, <1>2, <2>1, Zenon DEF JInv, Phases, PoolCounts, Inside, SomeoneComes, HasTask
    <1>10. ASSUME NEW c \in Conns PROVE Ticket(c)'
        <2>1. Ticket(c)
            BY Zenon DEF JInv
        <2>2. submit'[Loop].at \in {"check", "push"} /\ submit'[Loop].task = c => Submits(c)
            <3>1. CASE x = Loop
                <4>1. r = NotSubmitting => r.at = "none"
                    BY DEF NotSubmitting
                <4>2. r # NotSubmitting => r.task = submit[x].task
                    BY <1>5
                <4> QED BY <1>1, <1>7, <3>1, <4>1, <4>2, Zenon DEF Submits
            <3>2. CASE x # Loop
                BY <1>4, <1>7, <3>2, Zenon DEF Submits
            <3> QED BY <3>1, <3>2, Zenon
        <2> QED BY <1>1, <1>2, <2>1, <2>2, TicketKept, Zenon
    <1> QED BY <1>2, <1>7, <1>8, <1>9, <1>10, Zenon DEF JInv

LEMMA ExtendThreadInv ==
    ASSUME JInv, NEW x \in Callers, ExtendThread(x), UNCHANGED javaVars
    PROVE  JInv'
    <1>1. /\ submit[x].at = "compare" /\ submit' = [submit EXCEPT ![x] = NotSubmitting]
          /\ poolState' = poolState /\ workQueue' = workQueue /\ task' = task /\ active' = active
        BY Zenon DEF ExtendThread, Submitting
    <1>2. main' = main /\ ev' = ev /\ eventMap' = eventMap /\ JavaTypes' /\ \A c \in Conns : Registered(c)'
        BY JavaStays, Zenon
    <1>3. submit[x].at # "none" /\ "push" \in {"push", "compare"}
        BY <1>1, Zenon
    <1>4. submit \in [Callers -> Calls] /\ Loop \in Callers /\ main \notin {"off", "start", "done"}
        BY <1>3, CallFacts, Zenon
    <1>5. \/ threads' = threads /\ at' = at /\ core' = core
          \/ \E w \in Workers : /\ at[w] = "none" /\ threads' = threads \cup {w}
                                /\ at' = [at EXCEPT ![w] = "pop"] /\ core' = [core EXCEPT ![w] = FALSE]
        BY Zenon DEF ExtendThread
    (* The thread is new, or there is none: what the rest needs of the step. *)
    <1>6. /\ at' \in [Workers -> Places] /\ core' \in [Workers -> BOOLEAN]
          /\ \A v \in Workers : at'[v] = at[v] \/ (at[v] = "none" /\ at'[v] = "pop")
          /\ \A v \in Workers : at[v] # "none" => core'[v] = core[v]
          /\ threads' = {v \in Workers : at'[v] # "none"}
        <2>1. at \in [Workers -> Places] /\ core \in [Workers -> BOOLEAN]
              /\ threads = {v \in Workers : at[v] # "none"}
            BY Zenon DEF JInv, PoolTypes, PoolCounts
        <2>2. CASE threads' = threads /\ at' = at /\ core' = core
            BY <2>1, <2>2, Zenon
        <2>3. CASE \E w \in Workers : /\ at[w] = "none" /\ threads' = threads \cup {w}
                                      /\ at' = [at EXCEPT ![w] = "pop"] /\ core' = [core EXCEPT ![w] = FALSE]
            <3>1. PICK w \in Workers : /\ at[w] = "none" /\ threads' = threads \cup {w}
                                       /\ at' = [at EXCEPT ![w] = "pop"] /\ core' = [core EXCEPT ![w] = FALSE]
                BY <2>3, Zenon
            <3>2. "pop" \in Places /\ "pop" # "none" /\ FALSE \in BOOLEAN
                BY Zenon DEF Places
            <3>3. at' \in [Workers -> Places] /\ at'[w] = "pop" /\ \A v \in Workers : v # w => at'[v] = at[v]
                BY <2>1, <3>1, <3>2, SetsOne, Zenon
            <3>4. core' \in [Workers -> BOOLEAN] /\ \A v \in Workers : v # w => core'[v] = core[v]
                BY <2>1, <3>1, <3>2, SetsOne, Zenon
            <3>5. threads' = {v \in Workers : at'[v] # "none"}
                BY ONLY <2>1, <3>1, <3>2, <3>3
            <3> QED BY <3>1, <3>3, <3>4, <3>5, Zenon
        <2> QED BY <1>5, <2>2, <2>3, Zenon
    <1>7. /\ submit' \in [Callers -> Calls] /\ submit'[x] = NotSubmitting /\ Submissions'
          /\ \A y \in Callers : y # x => submit'[y] = submit[y]
        <2>1. \A v \in Workers : at[v] = "run" => at'[v] = "run" /\ task'[v] = task[v]
            BY <1>1, <1>6, Zenon
        <2> QED BY <1>1, <1>2, <1>3, <2>1, CallMoves, Zenon
    <1>8. PoolTypes'
        BY <1>1, <1>6, <1>7, Zenon DEF JInv, PoolTypes, Calls
    <1>9. Phases'
        BY <1>1, <1>2, <1>4, Zenon DEF JInv, Phases
    <1>10. PoolCounts'
        <2>1. Inside' = Inside
            BY <1>6 DEF Inside
        <2> QED BY <1>1, <1>6, <2>1, Zenon DEF JInv, PoolCounts
    <1>11. SomeoneComes'
        <2>1. \A v \in Workers : at[v] \notin {"none", "leave"} => at'[v] \notin {"none", "leave"} /\ core'[v] = core[v]
            BY <1>6, Zenon
        <2>2. CoreWorkers \subseteq Workers
            BY PoolAssumption, Zenon
        <2> QED BY <1>1, <2>1, <2>2, Zenon DEF JInv, SomeoneComes
    <1>12. \A v \in Workers : HasTask(v)'
        BY <1>1, <1>6, Zenon DEF JInv, HasTask
    <1>13. ASSUME NEW c \in Conns PROVE Ticket(c)'
        <2>1. Ticket(c)
            BY Zenon DEF JInv
        <2>2. NotSubmitting.at = "none"
            BY DEF NotSubmitting
        <2>3. submit'[Loop].at \in {"check", "push"} /\ submit'[Loop].task = c => Submits(c)
            BY <1>4, <1>7, <2>2, Zenon DEF Submits
        <2>4. \A v \in Workers : at'[v] \in Holding /\ task'[v] = c => at[v] \in Holding /\ task[v] = c
            BY <1>1, <1>6, Zenon DEF Holding
        <2> QED BY <1>1, <1>2, <2>1, <2>3, <2>4, TicketKept, Zenon
    <1> QED BY <1>2, <1>7, <1>8, <1>9, <1>10, <1>11, <1>12, <1>13, Zenon DEF JInv

LEMMA AtTheEnd ==
    ASSUME NEW T, NEW s \in Seq(T), NEW x \in T, NEW r, r = Append(s, x)
    PROVE  /\ r \in Seq(T) /\ r # <<>>
           /\ \A i \in DOMAIN r : \/ i \in DOMAIN s /\ r[i] = s[i]
                                  \/ i = Len(s) + 1 /\ r[i] = x
    OBVIOUS

LEMMA PushTaskInv ==
    ASSUME JInv, NEW x \in Callers, PushTask(x), UNCHANGED javaVars
    PROVE  JInv'
    <1>1. /\ submit[x].at = "push" /\ submit' = [submit EXCEPT ![x].at = "compare"]
          /\ workQueue' = Append(workQueue, submit[x].task)
          /\ poolState' = poolState /\ threads' = threads /\ core' = core
          /\ at' = at /\ task' = task /\ active' = active
        BY Zenon DEF PushTask, Submitting
    <1>2. main' = main /\ ev' = ev /\ eventMap' = eventMap /\ JavaTypes' /\ \A c \in Conns : Registered(c)'
        BY JavaStays, Zenon
    <1>3. submit[x].at # "none" /\ "compare" \in {"push", "compare"}
        BY <1>1, Zenon
    <1>4. /\ submit \in [Callers -> Calls] /\ x \in {Main, Loop} /\ Loop \in Callers /\ Main # Loop
          /\ submit[x].task \in Tasks /\ main \notin {"off", "start", "done"}
          /\ x = Main => submit[x].task = Loop
          /\ \E w \in Workers : at[w] \notin {"none", "leave"}
        BY <1>3, CallFacts, Zenon
    <1> DEFINE r == [at |-> "compare", task |-> submit[x].task]
    <1>5. submit' = [submit EXCEPT ![x] = r] /\ r.at = "compare"
        <2>1. [submit[x] EXCEPT !.at = "compare"] = r
            BY <1>4 DEF Calls
        <2>2. submit' = [submit EXCEPT ![x] = [submit[x] EXCEPT !.at = "compare"]]
            BY <1>1, Zenon
        <2>3. r.at = "compare"
            OBVIOUS
        <2> QED BY <2>1, <2>2, <2>3, Zenon
    <1>6. /\ submit' \in [Callers -> Calls] /\ submit'[x] = r /\ Submissions'
          /\ \A y \in Callers : y # x => submit'[y] = submit[y]
        BY <1>1, <1>2, <1>3, <1>5, CallMoves, Zenon
    <1> HIDE DEF r
    <1>7. /\ workQueue' \in Seq(Tasks) /\ workQueue' # <<>>
          /\ \A i \in DOMAIN workQueue' : \/ i \in DOMAIN workQueue /\ workQueue'[i] = workQueue[i]
                                          \/ i = Len(workQueue) + 1 /\ workQueue'[i] = submit[x].task
        <2>1. workQueue \in Seq(Tasks)
            BY Zenon DEF JInv, PoolTypes
        <2> DEFINE q == workQueue'
                   u == submit[x].task
        <2>2. q = Append(workQueue, u) /\ u \in Tasks
            BY <1>1, <1>4, Zenon
        <2> HIDE DEF q, u
        <2>3. /\ q \in Seq(Tasks) /\ q # <<>>
              /\ \A i \in DOMAIN q : \/ i \in DOMAIN workQueue /\ q[i] = workQueue[i]
                                     \/ i = Len(workQueue) + 1 /\ q[i] = u
            BY ONLY <2>1, <2>2, AtTheEnd
        <2> QED BY <2>3, Zenon DEF q, u
    <1>8. PoolTypes'
        BY <1>1, <1>6, <1>7, Zenon DEF JInv, PoolTypes, Calls
    <1>9. Phases'
        BY <1>1, <1>2, <1>4, Zenon DEF JInv, Phases
    <1>10. PoolCounts' /\ \A v \in Workers : HasTask(v)'
        BY <1>1, Zenon DEF JInv, PoolCounts, Inside, HasTask
    <1>11. SomeoneComes'
        BY <1>1, <1>4, Zenon DEF JInv, SomeoneComes
    <1>12. ASSUME NEW c \in Conns PROVE Ticket(c)'
        <2>1. Ticket(c)
            BY Zenon DEF JInv
        <2>2. CASE x = Loop /\ submit[x].task = c
            <3>1. Submits(c) /\ ~Submits(c)'
                BY <1>1, <1>5, <1>6, <2>2, Zenon DEF Submits
            <3>2. /\ \A i \in DOMAIN workQueue : ~Queued(c, i)
                  /\ \A v \in Workers : ~Holds(c, v)
                  /\ ev[c] = "idle"
                BY <2>1, <3>1, Zenon DEF Ticket
            <3>3. \A i \in DOMAIN workQueue' : Queued(c, i)' => i = Len(workQueue) + 1
                BY <1>7, <3>2, Zenon DEF Queued
            <3>4. \A v \in Workers : ~Holds(c, v)'
                BY <1>1, <3>2, Zenon DEF Holds
            <3> QED BY <1>2, <3>1, <3>2, <3>3, <3>4, Zenon DEF Ticket
        <2>3. CASE ~(x = Loop /\ submit[x].task = c)
            <3>1. submit[x].task # c
                BY <1>4, <2>3, JavaAssumption, Zenon
            <3>2. submit'[Loop].at \in {"check", "push"} /\ submit'[Loop].task = c => Submits(c)
                BY <1>4, <1>5, <1>6, Zenon DEF Submits
            <3>3. \A i \in DOMAIN workQueue' : workQueue'[i] = c => i \in DOMAIN workQueue /\ workQueue[i] = c
                BY <1>7, <3>1, Zenon
            <3> QED BY <1>1, <1>2, <2>1, <3>2, <3>3, TicketKept, Zenon
        <2> QED BY <2>2, <2>3, Zenon
    <1> QED BY <1>2, <1>6, <1>8, <1>9, <1>10, <1>11, <1>12, Zenon DEF JInv

-----------------------------------------------------------------------------
(* The pool's invariant *)

LEMMA JStep ==
    ASSUME JInv, JavaNext
    PROVE  JInv'
    <1>1. CASE MainStep
        BY <1>1, StartHandlerInv, ServeInv, AwaitStopInv, AcceptInv, Zenon DEF MainStep
    <1>2. CASE Shutdown
        <2>1. UNCHANGED poolVars /\ UNCHANGED <<main, eventMap, ev, deletes, client>>
            BY <1>2, Zenon DEF Shutdown
        <2> QED BY <2>1, JStutters, Zenon
    <1>3. CASE \E w \in Workers : WorkerStep(w)
        BY <1>3, LoopExitsInv, HandleEventInv, AddEventInv, CloseConnectionInv, EventFiresInv, PopTaskInv,
           StartTaskInv, TaskDoneInv, FindNoTaskInv, EraseThreadInv, Zenon DEF WorkerStep, TaskStep, ThreadFunc
    <1>4. CASE \E x \in Callers : SubmitStep(x)
        BY <1>4, CheckStateInv, PushTaskInv, ExtendThreadInv, Zenon DEF SubmitStep, Execute
    <1>5. CASE \E c \in Conns : ClientBegins(c) \/ ClientEnds(c) \/ ClientLeaves(c)
        BY <1>5, ClientInv, Zenon
    <1> QED BY <1>1, <1>2, <1>3, <1>4, <1>5, Zenon DEF JavaNext

-----------------------------------------------------------------------------
(* One thread per connection *)

(* The Worker of l goes on, and its connection with it. *)
LEMMA WorkerGoes ==
    ASSUME LInv, NEW l \in Links,
           NEW y \in {"none", "poll", "handle", "close", "erased", "delete", "gone"},
           NEW z \in {"connecting", "quiet", "sending", "sent", "gone"},
           worker' = [worker EXCEPT ![l] = y], peer' = [peer EXCEPT ![l] = z],
           threadMap' \subseteq Links, freed' \in [Links -> Nat],
           \A m \in Links : m # l => (m \in threadMap' <=> m \in threadMap) /\ freed'[m] = freed[m],
           l \in threadMap' <=> y \in {"poll", "handle", "close"},
           freed'[l] = IF y = "gone" THEN 1 ELSE 0,
           y # "none" => z # "connecting"
    PROVE  LInv'
    <1>1. /\ worker' \in [Links -> {"none", "poll", "handle", "close", "erased", "delete", "gone"}]
          /\ worker'[l] = y /\ \A m \in Links : m # l => worker'[m] = worker[m]
        <2>1. worker \in [Links -> {"none", "poll", "handle", "close", "erased", "delete", "gone"}]
            BY Zenon DEF LInv
        <2> QED BY <2>1, SetsOne, Zenon
    <1>2. /\ peer' \in [Links -> {"connecting", "quiet", "sending", "sent", "gone"}]
          /\ peer'[l] = z /\ \A m \in Links : m # l => peer'[m] = peer[m]
        <2>1. peer \in [Links -> {"connecting", "quiet", "sending", "sent", "gone"}]
            BY Zenon DEF LInv
        <2> QED BY <2>1, SetsOne, Zenon
    <1>3. ASSUME NEW m \in Links
          PROVE  /\ m \in threadMap' <=> worker'[m] \in {"poll", "handle", "close"}
                 /\ freed'[m] = IF worker'[m] = "gone" THEN 1 ELSE 0
                 /\ worker'[m] # "none" => peer'[m] # "connecting"
        <2>1. CASE m = l
            BY <1>1, <1>2, <2>1, Zenon
        <2>2. CASE m # l
            <3>1. /\ m \in threadMap <=> worker[m] \in {"poll", "handle", "close"}
                  /\ freed[m] = IF worker[m] = "gone" THEN 1 ELSE 0
                  /\ worker[m] # "none" => peer[m] # "connecting"
                BY <1>3, Zenon DEF LInv
            <3>2. /\ worker'[m] = worker[m] /\ peer'[m] = peer[m] /\ freed'[m] = freed[m]
                  /\ m \in threadMap' <=> m \in threadMap
                BY <1>1, <1>2, <1>3, <2>2, Zenon
            <3> QED BY <3>1, <3>2, Zenon
        <2> QED BY <2>1, <2>2, Zenon
    <1> QED BY <1>1, <1>2, <1>3, Zenon DEF LInv

LEMMA SameEntry ==
    ASSUME NEW D, NEW S, NEW f \in [D -> S], NEW k \in D
    PROVE  f = [f EXCEPT ![k] = f[k]]
    OBVIOUS

LEMMA LStep ==
    ASSUME LInv, LinksNext
    PROVE  LInv'
    <1>1. ASSUME threadMap' = threadMap, worker' = worker, peer' = peer, freed' = freed PROVE LInv'
        BY <1>1, Zenon DEF LInv
    <1>2. CASE ConnectionStarted \/ StopWorkers \/ AwaitWorkers \/ AskToStop
        BY <1>1, <1>2, Zenon DEF ConnectionStarted, StopWorkers, AwaitWorkers, AskToStop
    <1>3. ASSUME NEW l \in Links, NewConnection(l) \/ LinkStep(l) \/ PeerEnds(l) \/ PeerActs(l)
          PROVE  LInv'
        <2>1. /\ threadMap \subseteq Links /\ freed \in [Links -> Nat]
              /\ worker \in [Links -> {"none", "poll", "handle", "close", "erased", "delete", "gone"}]
              /\ peer \in [Links -> {"connecting", "quiet", "sending", "sent", "gone"}]
              /\ worker[l] \in {"none", "poll", "handle", "close", "erased", "delete", "gone"}
              /\ peer[l] \in {"connecting", "quiet", "sending", "sent", "gone"}
              /\ l \in threadMap <=> worker[l] \in {"poll", "handle", "close"}
              /\ freed[l] = IF worker[l] = "gone" THEN 1 ELSE 0
              /\ worker[l] # "none" => peer[l] # "connecting"
            BY <1>3, Zenon DEF LInv
        <2>2. worker = [worker EXCEPT ![l] = worker[l]] /\ peer = [peer EXCEPT ![l] = peer[l]]
            BY <2>1, SameEntry, Zenon
        <2>3. CASE NewConnection(l)
            <3>1. /\ peer[l] = "connecting" /\ threadMap' = threadMap \cup {l} /\ freed' = freed
                  /\ worker' = [worker EXCEPT ![l] = "poll"] /\ peer' = [peer EXCEPT ![l] = "quiet"]
                BY <2>3, Zenon DEF NewConnection
            <3>2. freed[l] = 0
                BY <2>1, <3>1, Zenon
            <3>3. "quiet" # "connecting" /\ "poll" # "gone"
                BY Zenon
            <3> QED BY <2>1, <3>1, <3>2, <3>3, WorkerGoes, Zenon
        <2>4. CASE PollSocket(l)
            <3>1. PICK y \in {"handle", "close"} : worker[l] = "poll" /\ worker' = [worker EXCEPT ![l] = y]
                BY <2>4, Zenon DEF PollSocket, At
            <3>2. threadMap' = threadMap /\ freed' = freed /\ peer' = peer
                BY <2>4, Zenon DEF PollSocket
            <3>3. y \in {"poll", "handle", "close"} /\ y # "gone" /\ peer' = [peer EXCEPT ![l] = peer[l]]
                BY <2>2, <3>2, Zenon
            <3>4. l \in threadMap /\ freed[l] = 0 /\ peer[l] # "connecting"
                BY <2>1, <3>1, Zenon
            <3> QED BY <2>1, <3>1, <3>2, <3>3, <3>4, WorkerGoes, Zenon
        <2>5. CASE HandleRequest(l)
            <3>1. PICK y \in {"poll", "close"}, z \in {"quiet", "gone"} :
                     worker[l] = "handle" /\ worker' = [worker EXCEPT ![l] = y] /\ peer' = [peer EXCEPT ![l] = z]
                BY <2>5, Zenon DEF HandleRequest, At
            <3>2. threadMap' = threadMap /\ freed' = freed
                BY <2>5, Zenon DEF HandleRequest
            <3>3. y \in {"poll", "handle", "close"} /\ y # "gone" /\ z # "connecting"
                BY Zenon
            <3>4. l \in threadMap /\ freed[l] = 0
                BY <2>1, <3>1, Zenon
            <3> QED BY <2>1, <3>1, <3>2, <3>3, <3>4, WorkerGoes, Zenon
        <2>6. CASE EraseWorker(l) \/ UnlockWorker(l)
            <3>1. PICK y \in {"erased", "delete"} :
                     /\ worker[l] \in {"close", "erased"} /\ worker' = [worker EXCEPT ![l] = y]
                     /\ threadMap' = threadMap \ {l}
                <4>1. CASE EraseWorker(l)
                    BY <4>1, Zenon DEF EraseWorker, At
                <4>2. CASE UnlockWorker(l)
                    <5>1. /\ worker[l] = "erased" /\ worker' = [worker EXCEPT ![l] = "delete"]
                          /\ threadMap' = threadMap
                        BY <4>2, Zenon DEF UnlockWorker, At
                    <5>2. l \notin threadMap
                        BY <2>1, <5>1, Zenon
                    <5>3. threadMap = threadMap \ {l}
                        BY <5>2, Zenon
                    <5> QED BY <5>1, <5>3, Zenon
                <4> QED BY <2>6, <4>1, <4>2, Zenon
            <3>2. freed' = freed /\ peer' = [peer EXCEPT ![l] = peer[l]]
                BY <2>2, <2>6, Zenon DEF EraseWorker, UnlockWorker
            <3>3. y \notin {"poll", "handle", "close"} /\ y # "gone"
                BY Zenon
            <3>4. freed[l] = 0 /\ peer[l] # "connecting"
                BY <2>1, <3>1, Zenon
            <3> QED BY <2>1, <3>1, <3>2, <3>3, <3>4, WorkerGoes, Zenon
        <2>7. CASE DeleteWorker(l)
            <3>1. /\ worker[l] = "delete" /\ worker' = [worker EXCEPT ![l] = "gone"]
                  /\ peer' = [peer EXCEPT ![l] = "gone"] /\ threadMap' = threadMap
                  /\ freed' = [freed EXCEPT ![l] = @ + 1]
                BY <2>7, Zenon DEF DeleteWorker, At
            <3>2. freed[l] = 0 /\ l \notin threadMap
                BY <2>1, <3>1, Zenon
            <3>3. freed' = [freed EXCEPT ![l] = 1]
                BY ONLY <2>1, <3>1, <3>2
            <3>4. 1 \in Nat
                BY ONLY TRUE
            <3>5. freed' \in [Links -> Nat] /\ freed'[l] = 1 /\ \A m \in Links : m # l => freed'[m] = freed[m]
                BY <1>3, <2>1, <3>3, <3>4, SetsOne, Zenon
            <3> QED BY <2>1, <3>1, <3>2, <3>5, WorkerGoes, Zenon
        <2>8. CASE PeerEnds(l) \/ PeerActs(l)
            <3>1. PICK z \in {"sending", "sent", "gone"} : peer' = [peer EXCEPT ![l] = z]
                BY <2>8, Zenon DEF PeerEnds, PeerActs, PeerBecomes
            <3>2. threadMap' = threadMap /\ freed' = freed /\ worker' = worker
                BY <2>8, Zenon DEF PeerEnds, PeerActs, PeerBecomes
            <3>3. z # "connecting" /\ worker' = [worker EXCEPT ![l] = worker[l]]
                BY <2>2, <3>2, Zenon
            <3> QED BY <2>1, <3>1, <3>2, <3>3, WorkerGoes, Zenon
        <2> QED BY <1>3, <2>3, <2>4, <2>5, <2>6, <2>7, <2>8, Zenon DEF LinkStep
    <1> QED BY <1>2, <1>3, Zenon DEF LinksNext, ServerStep

-----------------------------------------------------------------------------
(* What the invariants say of a connection *)

LEMMA BusyIsIdle ==
    ASSUME JInv, NEW c \in Conns, Busy(c)
    PROVE  ev[c] = "idle"
    <1>1. Ticket(c)
        BY Zenon DEF JInv
    <1>2. CASE c \in Range(workQueue)
        <2>1. PICK i \in DOMAIN workQueue : workQueue[i] = c
            BY <1>2, Zenon DEF Range
        <2> QED BY <1>1, <2>1, Zenon DEF Ticket, Queued
    <1>3. CASE \E x \in Callers : submit[x].at \in {"check", "push"} /\ submit[x].task = c
        <2>1. PICK x \in Callers : submit[x].at \in {"check", "push"} /\ submit[x].task = c
            BY <1>3, Zenon
        <2>2. submit[x].at # "none"
            BY <2>1, Zenon
        <2>3. x \in {Main, Loop} /\ (x = Main => submit[x].task = Loop)
            BY <2>2, CallFacts, Zenon
        <2>4. x = Loop
            BY <2>1, <2>3, JavaAssumption, Zenon
        <2> QED BY <1>1, <2>1, <2>4, Zenon DEF Ticket, Submits
    <1>4. CASE \E w \in Workers : task[w] = c /\ at[w] \in {"popped", "run", "add", "close"}
        BY <1>1, <1>4, Zenon DEF Ticket, Holds, Holding
    <1> QED BY <1>2, <1>3, <1>4, Zenon DEF Busy

LEMMA AtMostOne ==
    ASSUME NEW S, \A x, y \in S : x = y
    PROVE  Cardinality(S) = IF S = {} THEN 0 ELSE 1
    <1>1. CASE S = {}
        BY <1>1, FS_EmptySet
    <1>2. CASE S # {}
        <2>1. PICK x : x \in S
            BY <1>2
        <2>2. S = {x}
            BY <2>1
        <2>3. Cardinality({x}) = 1
            BY FS_Singleton
        <2> QED BY <1>2, <2>2, <2>3
    <1> QED BY <1>1, <1>2

LEMMA OneHandler ==
    ASSUME JInv, NEW c \in Conns
    PROVE  /\ Cardinality({w \in Workers : task[w] = c /\ at[w] # "ran"})
                + Cardinality({i \in DOMAIN workQueue : workQueue[i] = c}) <= 1
           /\ ev[c] = "added" => ~Busy(c)
    <1> DEFINE H == {w \in Workers : task[w] = c /\ at[w] # "ran"}
               Q == {i \in DOMAIN workQueue : workQueue[i] = c}
    <1>1. Ticket(c)
        BY Zenon DEF JInv
    <1>2. \A w \in H : w \in Workers /\ Holds(c, w)
        <2> SUFFICES ASSUME NEW w \in Workers, task[w] = c, at[w] # "ran" PROVE Holds(c, w)
            BY Zenon
        <2>1. at[w] \in Places /\ c # NoTask
            BY PoolAssumption, JavaAssumption, Zenon DEF JInv, PoolTypes
        <2>2. at[w] \notin {"none", "pop", "leave"}
            BY <2>1, Zenon DEF JInv, HasTask
        <2> QED BY <2>1, <2>2, Zenon DEF Holds, Holding, Places
    <1>3. \A i \in Q : i \in DOMAIN workQueue /\ Queued(c, i)
        BY Zenon DEF Queued
    <1> HIDE DEF H, Q
    <1>4. (\A x, y \in H : x = y) /\ (\A x, y \in Q : x = y) /\ (H = {} \/ Q = {})
        BY <1>1, <1>2, <1>3, Zenon DEF Ticket
    <1>5. Cardinality(H) = (IF H = {} THEN 0 ELSE 1) /\ Cardinality(Q) = (IF Q = {} THEN 0 ELSE 1)
        BY <1>4, AtMostOne, Zenon
    <1>6. Cardinality(H) + Cardinality(Q) <= 1
        BY ONLY <1>4, <1>5
    <1>7. ev[c] = "added" => ~Busy(c)
        BY BusyIsIdle, Zenon
    <1> QED BY <1>6, <1>7, Zenon DEF H, Q

LEMMA InvariantsAreSafe ==
    ASSUME JInv, LInv
    PROVE  ConnectionsAreSafe
    <1>1. PoolTypeOK
        <2>1. poolState \in {"new", "running", "terminating"}
            BY Zenon DEF JInv, JavaTypes, Phases
        <2>2. Range(workQueue) \subseteq Tasks
            <3>1. workQueue \in Seq(Tasks)
                BY Zenon DEF JInv, PoolTypes
            <3>2. \A i \in DOMAIN workQueue : workQueue[i] \in Tasks
                BY ONLY <3>1
            <3> QED BY <3>2, Zenon DEF Range
        <2>3. threads = {w \in Workers : at[w] # "none"} /\ active = Cardinality(Inside)
            BY Zenon DEF JInv, PoolCounts
        <2>4. active \in 0 .. MaxPool
            <3>1. active \in Nat /\ active <= MaxPool
                BY InsideFacts, Zenon DEF JInv
            <3>2. MaxPool \in Nat
                BY PoolAssumption, FS_CardinalityType DEF MaxPool
            <3> QED BY ONLY <3>1, <3>2
        <2> QED BY <2>1, <2>2, <2>3, <2>4, Zenon DEF PoolTypeOK, Inside
    <1>2. OneHandlerPerConnection
        BY OneHandler, Zenon DEF OneHandlerPerConnection
    <1>3. NoUseAfterDelete
        <2> SUFFICES ASSUME NEW c \in Conns
                     PROVE  deletes[c] <= 1 /\ (Busy(c) \/ ev[c] = "added" \/ c \in eventMap => deletes[c] = 0)
            BY Zenon DEF NoUseAfterDelete
        <2>1. Registered(c)
            BY Zenon DEF JInv
        <2>2. deletes[c] = 0 \/ deletes[c] = 1
            BY <2>1, Zenon DEF Registered
        <2>3. deletes[c] <= 1
            BY ONLY <2>2
        <2>4. Busy(c) \/ ev[c] = "added" \/ c \in eventMap => ev[c] # "freed"
            BY <2>1, BusyIsIdle, Zenon DEF Registered
        <2> QED BY <2>1, <2>3, <2>4, Zenon DEF Registered
    <1>4. StopLeavesNothing
        <2> SUFFICES ASSUME main = "done"
                     PROVE  /\ workQueue = <<>> /\ \A c \in Conns : ~Busy(c)
                            /\ \A c \in Conns : ev[c] # "none" => deletes[c] = 1
            BY Zenon DEF StopLeavesNothing
        <2>1. eventMap = {} /\ \A w \in Workers : at[w] = "none"
            BY Zenon DEF JInv, Phases
        <2>2. workQueue = <<>>
            BY <2>1, Zenon DEF JInv, SomeoneComes
        <2>3. \A c \in Conns : ev[c] \notin {"added", "idle"}
            BY <2>1, Zenon DEF JInv, Registered
        <2>4. \A c \in Conns : ~Busy(c)
            BY <2>3, BusyIsIdle, Zenon
        <2>5. \A c \in Conns : ev[c] # "none" => ev[c] = "freed"
            BY <2>3, Zenon DEF JInv, JavaTypes
        <2> QED BY <2>2, <2>4, <2>5, Zenon DEF JInv, Registered
    <1>5. WorkersLeaveBeforeTheyGo
        <2> SUFFICES ASSUME NEW l \in Links
                     PROVE  freed[l] <= 1 /\ (l \in threadMap => worker[l] \in {"poll", "handle", "close"} /\ freed[l] = 0)
            BY Zenon DEF WorkersLeaveBeforeTheyGo
        <2>1. /\ l \in threadMap <=> worker[l] \in {"poll", "handle", "close"}
              /\ freed[l] = IF worker[l] = "gone" THEN 1 ELSE 0
            BY Zenon DEF LInv
        <2>2. freed[l] = 0 \/ freed[l] = 1
            BY <2>1, Zenon
        <2>3. freed[l] <= 1
            BY ONLY <2>2
        <2> QED BY <2>1, <2>3, Zenon
    <1> QED BY <1>1, <1>2, <1>3, <1>4, <1>5, Zenon DEF ConnectionsAreSafe

LEMMA InvariantsHoldFirst ==
    ASSUME MCInit
    PROVE  JInv /\ LInv
    <1>1. PICK place \in {"off", "start"} : JavaFrom(place)
        BY Zenon DEF MCInit, JavaInit
    <1>2. PICK from : LinksFrom(from)
        BY Zenon DEF MCInit, LinksInit
    <1>3. /\ poolState = "new" /\ workQueue = <<>> /\ threads = {} /\ active = 0
          /\ at = [w \in Workers |-> "none"] /\ core = [w \in Workers |-> FALSE]
          /\ task = [w \in Workers |-> NoTask] /\ submit = [x \in Callers |-> NotSubmitting]
          /\ main = place /\ eventMap = {} /\ ev = [c \in Conns |-> "none"]
          /\ deletes = [c \in Conns |-> 0] /\ client = [c \in Conns |-> "connecting"]
        BY <1>1, Zenon DEF JavaFrom, PoolInit
    <1>4. NotSubmitting \in Calls /\ NotSubmitting.at = "none" /\ NotSubmitting.task = NoTask
        BY DEF NotSubmitting, Calls
    <1>5. Main \in Callers /\ Loop \in Callers
        BY JavaAssumption, Zenon
    <1>6. PoolTypes
        <2>1. workQueue \in Seq(Tasks)
            BY <1>3
        <2>2. at \in [Workers -> Places] /\ task \in [Workers -> Tasks \cup {NoTask}] /\ core \in [Workers -> BOOLEAN]
            BY ONLY <1>3 DEF Places
        <2>3. submit \in [Callers -> Calls]
            BY ONLY <1>3, <1>4
        <2> QED BY <2>1, <2>2, <2>3, Zenon DEF PoolTypes
    <1>7. JavaTypes
        <2>1. main \in {"off", "start", "starting", "serve", "stop", "await", "done"}
            BY <1>3, Zenon
        <2>2. /\ eventMap \subseteq Conns /\ ev \in [Conns -> {"none", "added", "idle", "freed"}]
              /\ deletes \in [Conns -> Nat]
              /\ client \in [Conns -> {"connecting", "quiet", "sending", "sent", "gone"}]
            BY ONLY <1>3
        <2> QED BY <2>1, <2>2, Zenon DEF JavaTypes
    <1>8. \A w \in Workers : at[w] = "none" /\ task[w] = NoTask
        BY <1>3, Zenon
    <1>9. submit[Main] = NotSubmitting /\ submit[Loop] = NotSubmitting
        BY <1>3, <1>5, Zenon
    <1>10. Phases
        BY <1>3, <1>8, Zenon DEF Phases
    <1>11. PoolCounts
        <2>1. Inside = {} /\ {w \in Workers : at[w] # "none"} = {}
            BY <1>8 DEF Inside
        <2>2. Cardinality({}) = 0
            BY FS_EmptySet
        <2> QED BY <1>3, <2>1, <2>2, Zenon DEF PoolCounts
    <1>12. Submissions
        BY <1>3, <1>9, Zenon DEF Submissions
    <1>13. SomeoneComes
        BY <1>3, Zenon DEF SomeoneComes
    <1>14. \A w \in Workers : HasTask(w)
        BY <1>8, Zenon DEF HasTask
    <1>15. ASSUME NEW c \in Conns PROVE Ticket(c) /\ Registered(c)
        <2>1. (\A w \in Workers : ~Holds(c, w)) /\ ~Submits(c)
            BY <1>4, <1>8, <1>9, Zenon DEF Holds, Holding, Submits
        <2>2. \A i \in DOMAIN workQueue : FALSE
            BY <1>3
        <2>3. ev[c] = "none" /\ deletes[c] = 0 /\ c \notin eventMap
            BY <1>3, Zenon
        <2> QED BY <2>1, <2>2, <2>3, Zenon DEF Ticket, Registered
    <1>16. LInv
        <2>1. /\ threadMap = {} /\ worker = [l \in Links |-> "none"] /\ peer = [l \in Links |-> "connecting"]
              /\ freed = [l \in Links |-> 0]
            BY <1>2, Zenon DEF LinksFrom
        <2>2. /\ threadMap \subseteq Links /\ freed \in [Links -> Nat]
              /\ worker \in [Links -> {"none", "poll", "handle", "close", "erased", "delete", "gone"}]
              /\ peer \in [Links -> {"connecting", "quiet", "sending", "sent", "gone"}]
            BY ONLY <2>1
        <2>3. \A l \in Links : worker[l] = "none" /\ l \notin threadMap /\ freed[l] = 0
            BY <2>1, Zenon
        <2> QED BY <2>2, <2>3, Zenon DEF LInv
    <1> QED BY <1>6, <1>7, <1>10, <1>11, <1>12, <1>13, <1>14, <1>15, <1>16, Zenon DEF JInv

(* The counters of the pool are right; a connection is in the hands of one  *)
(* thread, place in the queue or call, and in none while its event is added *)
(* (handle_event); it is deleted once, when nobody can reach it; a stop     *)
(* leaves no connection and no task behind (await_stop); and the other      *)
(* thread model's Workers are out of thread_map_ before they are deleted    *)
(* (close_connection).  For any number of threads, connections and          *)
(* requests.                                                                *)
THEOREM ServerThreadsSafe == MCSpec => []ConnectionsAreSafe
    <1>1. MCInit => JInv /\ LInv
        BY InvariantsHoldFirst, Zenon
    <1>2. JInv /\ LInv /\ [MCNext]_MCVars => (JInv /\ LInv)'
        <2> SUFFICES ASSUME JInv, LInv, [MCNext]_MCVars PROVE JInv' /\ LInv'
            OBVIOUS
        <2>1. ASSUME UNCHANGED serverVars PROVE JInv'
            <3>1. UNCHANGED poolVars /\ UNCHANGED <<main, eventMap, ev, deletes, client>>
                BY <2>1, Zenon DEF serverVars, javaVars
            <3> QED BY <3>1, JStutters, Zenon
        <2>2. ASSUME UNCHANGED linkVars PROVE LInv'
            BY <2>2, Zenon DEF linkVars, LInv
        <2>3. CASE JavaNext /\ UNCHANGED linkVars
            BY <2>2, <2>3, JStep, Zenon
        <2>4. CASE LinksNext /\ UNCHANGED serverVars
            BY <2>1, <2>4, LStep, Zenon
        <2>5. CASE UNCHANGED MCVars
            BY <2>1, <2>2, <2>5, Zenon DEF MCVars
        <2> QED BY <2>3, <2>4, <2>5, Zenon DEF MCNext
    <1>3. JInv /\ LInv => ConnectionsAreSafe
        BY InvariantsAreSafe, Zenon
    <1> QED BY <1>1, <1>2, <1>3, PTL DEF MCSpec
=============================================================================
