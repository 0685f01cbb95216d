---------------------------- MODULE ModelClient ----------------------------
(* LlamaCompletionClient, shared by every session through the one completion *)
(* engine of the process, and ModelCompletionProvider::complete, which asks  *)
(* it twice whether the model server can be reached and then for a           *)
(* continuation. The two fields of the health cache are plain members, so    *)
(* each read and each write of them is a step. Times are kept as ages, which *)
(* Tick advances, and a running poll as the time it has left.                *)
EXTENDS Integers, FiniteSets

CONSTANTS Askers,    \* threads with a completion request
          Timeout,    \* model_http_timeout_ms
          HealthTtl,  \* the 2000 ms a verdict of the health check is kept
          Parts,      \* sends a request takes
          Pieces,     \* receives a complete answer takes
          MaxCalls,   \* bound on the requests of a caller
          MaxToggles, \* bound on the times the server comes or goes
          MaxWaits    \* bound on the interrupted polls of a call

VARIABLES check_age,  \* time since last_health_check_ms_, up to HealthTtl
          last_health_ok,
          up,         \* the model server accepts connections
          toggles,
          sockets,    \* descriptors open in the process
          judged_age, \* time since last_health_ok_ was written, up to HealthTtl
          call,       \* per caller: where it is and what it has seen
          calls       \* per caller: the requests it has begun
modelVars == <<check_age, last_health_ok, judged_age, up, toggles, sockets, call, calls>>
healthVars == <<check_age, last_health_ok, judged_age>>

Idle == [pc |-> "idle", by |-> "none", now_age |-> 0, left |-> 0, reading |-> 0, sent |-> 0, got |-> 0,
         waits |-> 0, stale |-> FALSE]
\* where a descriptor is open and a poll is running
Polling == {"probe", "connect", "send", "recv"}

ModelInit ==
    /\ check_age = HealthTtl /\ last_health_ok = FALSE /\ judged_age = HealthTtl
    /\ up \in BOOLEAN /\ toggles = 0 /\ sockets = 0
    /\ call = [c \in Askers |-> Idle] /\ calls = [c \in Askers |-> 0]

GoTo(c, pc) == call' = [call EXCEPT ![c].pc = pc]
Poll(c, pc) == call' = [call EXCEPT ![c].pc = pc, ![c].left = Timeout]
Return(c) == call' = [call EXCEPT ![c] = Idle]
TimedOut(c) == call[c].left = 0
Unchanged == UNCHANGED <<up, toggles, calls>>

\* ModelCompletionProvider::complete: available(), then infill()
Begin(c) ==
    /\ call[c].pc = "idle" /\ calls[c] < MaxCalls
    /\ call' = [call EXCEPT ![c] = [Idle EXCEPT !.pc = "check", !.by = "available"]]
    /\ calls' = [calls EXCEPT ![c] = @ + 1]
    /\ UNCHANGED <<healthVars, up, toggles, sockets>>

\* health() said yes: available() goes on to infill(), which asks again
Passed(c, stale) ==
    call' = [call EXCEPT ![c].stale = stale, ![c].by = "infill", ![c].left = 0, ![c].now_age = 0,
                         ![c].pc = IF call[c].by = "available" THEN "check" ELSE "open"]

Judging == {c \in Askers : call[c].pc \in {"resolve", "probe"}}

\* the mutant renews the time of the check whenever the cache is used
CheckHealthMut(c) ==
    /\ call[c].pc = "check"
    /\ IF check_age < HealthTtl
         THEN IF last_health_ok THEN Passed(c, judged_age >= HealthTtl /\ Judging = {}) ELSE Return(c)
         ELSE call' = [call EXCEPT ![c].pc = "mark", ![c].now_age = 0]
    /\ check_age' = IF check_age < HealthTtl THEN 0 ELSE check_age
    /\ UNCHANGED <<last_health_ok, judged_age, sockets>> /\ Unchanged
CheckHealth(c) ==
    /\ call[c].pc = "check"
    /\ IF check_age < HealthTtl
         THEN IF last_health_ok THEN Passed(c, judged_age >= HealthTtl /\ Judging = {}) ELSE Return(c)
         ELSE call' = [call EXCEPT ![c].pc = "mark", ![c].now_age = 0]
    /\ UNCHANGED <<healthVars, sockets>> /\ Unchanged

MarkHealth(c) ==
    /\ call[c].pc = "mark" /\ check_age' = call[c].now_age
    /\ GoTo(c, "resolve") /\ UNCHANGED <<last_health_ok, judged_age, sockets>> /\ Unchanged

Judge(ok) == last_health_ok' = ok /\ judged_age' = 0 /\ UNCHANGED check_age

\* no address or no descriptor, or a connection begins
ResolveProbe(c) ==
    /\ call[c].pc = "resolve"
    /\ \/ Judge(FALSE) /\ Return(c) /\ UNCHANGED sockets
       \/ Poll(c, "probe") /\ sockets' = sockets + 1 /\ UNCHANGED healthVars
    /\ Unchanged

\* the server is reached and GET /health leaves in one send; its answer is not read
ProbeEnds(c) ==
    /\ call[c].pc = "probe"
    /\ \/ up /\ Judge(TRUE) /\ Passed(c, FALSE)
       \/ (~up \/ TimedOut(c)) /\ Judge(FALSE) /\ Return(c)
    /\ sockets' = sockets - 1 /\ Unchanged

OpenInfill(c) ==
    /\ call[c].pc = "open"
    /\ \/ Return(c) /\ UNCHANGED sockets
       \/ Poll(c, "connect") /\ sockets' = sockets + 1
    /\ UNCHANGED healthVars /\ Unchanged

Connect(c) ==
    /\ call[c].pc = "connect"
    /\ \/ up /\ Poll(c, "send") /\ UNCHANGED sockets
       \/ (~up \/ TimedOut(c)) /\ Return(c) /\ sockets' = sockets - 1
    /\ UNCHANGED healthVars /\ Unchanged

\* the mutant leaves the descriptor open when the request cannot be sent
SendMut(c) ==
    /\ call[c].pc = "send"
    /\ \/ call' = [call EXCEPT ![c].sent = @ + 1, ![c].left = Timeout,
                               ![c].pc = IF call[c].sent + 1 = Parts THEN "recv" ELSE "send"]
       \/ (~up \/ TimedOut(c)) /\ Return(c)
    /\ UNCHANGED <<sockets, healthVars>> /\ Unchanged
\* each part of the request waits for its own poll
Send(c) ==
    /\ call[c].pc = "send"
    /\ \/ /\ up /\ UNCHANGED sockets
          /\ call' = [call EXCEPT ![c].sent = @ + 1, ![c].left = Timeout,
                                  ![c].pc = IF call[c].sent + 1 = Parts THEN "recv" ELSE "send"]
       \/ (~up \/ TimedOut(c)) /\ Return(c) /\ sockets' = sockets - 1
    /\ UNCHANGED healthVars /\ Unchanged

\* a piece of the answer arrives and the next one is waited for in full
Arrive(c) ==
    /\ call[c].pc = "recv" /\ up /\ call[c].got < Pieces
    /\ call' = [call EXCEPT ![c].got = @ + 1, ![c].left = Timeout]
    /\ UNCHANGED <<sockets, healthVars>> /\ Unchanged

\* the mutant waits for the end of the stream without a timeout
ReceiveMut(c) ==
    /\ call[c].pc = "recv" /\ (~up \/ call[c].got = Pieces)
    /\ Return(c) /\ sockets' = sockets - 1 /\ UNCHANGED healthVars /\ Unchanged
\* the loop ends at a timeout or at the end of the stream, and what has come is
\* parsed; an interrupted poll begins again
Receive(c) ==
    /\ call[c].pc = "recv"
    /\ \/ /\ call[c].waits < MaxWaits
          /\ call' = [call EXCEPT ![c].waits = @ + 1, ![c].left = Timeout] /\ UNCHANGED sockets
       \/ (~up \/ call[c].got = Pieces \/ TimedOut(c)) /\ Return(c) /\ sockets' = sockets - 1
    /\ UNCHANGED healthVars /\ Unchanged

CallerStep(c) ==
    \/ CheckHealth(c) \/ MarkHealth(c) \/ ResolveProbe(c) \/ ProbeEnds(c)
    \/ OpenInfill(c) \/ Connect(c) \/ Send(c) \/ Receive(c)

\* the model server is external: it comes and goes
Toggle ==
    /\ toggles < MaxToggles /\ toggles' = toggles + 1 /\ up' = ~up
    /\ UNCHANGED <<healthVars, sockets, call, calls>>

\* time passes, but not past the end of a poll
Older(age, limit) == IF age < limit THEN age + 1 ELSE limit
Tick ==
    /\ \A c \in Askers : call[c].pc \in Polling => call[c].left > 0
    /\ check_age' = Older(check_age, HealthTtl) /\ judged_age' = Older(judged_age, HealthTtl)
    /\ call' = [c \in Askers |->
          CASE call[c].pc = "recv"   -> [call[c] EXCEPT !.left = @ - 1, !.reading = Older(@, Timeout + 1)]
            [] call[c].pc \in Polling \ {"recv"} -> [call[c] EXCEPT !.left = @ - 1]
            [] call[c].pc = "mark"   -> [call[c] EXCEPT !.now_age = Older(@, HealthTtl)]
            [] OTHER                 -> call[c]]
    /\ UNCHANGED <<last_health_ok, up, toggles, sockets, calls>>

ModelNext == Toggle \/ Tick \/ \E c \in Askers : Begin(c) \/ Arrive(c) \/ CallerStep(c)

(* A session's thread runs on and time passes; the server owes nothing.      *)
ModelFairness == WF_modelVars(Tick) /\ \A c \in Askers : WF_modelVars(CallerStep(c))

----------------------------------------------------------------------------
(* No way out of a probe or of a request leaves its descriptor open.         *)
SocketsAreClosed == sockets = Cardinality({c \in Askers : call[c].pc \in Polling})

(* The server is taken to be reachable on the word of a probe younger than   *)
(* the cache's two seconds, unless another session is probing at that very   *)
(* moment: it has written the time of its check before the verdict           *)
(* (llama_completion_client.cpp:109), and the old verdict passes for new.    *)
VerdictIsFresh == \A c \in Askers : ~call[c].stale

(* A request for a continuation comes back, whatever the server does: it may *)
(* refuse, stop answering in the middle or never close the connection.       *)
EveryCallReturns == \A c \in Askers : call[c].pc # "idle" ~> call[c].pc = "idle"

(* An answer is read within the timeout of the request, as the comment on    *)
(* infill says (llama_completion_client.h:87): whoever still reads has been  *)
(* at it no longer than that.                                                *)
AnswerWithinTimeout == \A c \in Askers : call[c].pc = "recv" => call[c].reading <= Timeout

(* However sessions share the client, its sockets are closed and the verdict *)
(* they go by is fresh.                                                      *)
ClientIsSound == SocketsAreClosed /\ VerdictIsFresh
============================================================================
