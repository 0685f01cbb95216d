--------------------------- MODULE ClientSessions ---------------------------
(***************************************************************************)
(* One connection of the server, from read_event to the end of the reply:   *)
(* DatabaseService::handle_event, the stages of SqlTaskHandler, the         *)
(* transaction of the session, SqlResult, and the three communicators with  *)
(* their own order of open, rows, close and answer.  Statements are told    *)
(* apart by their number; what a statement writes is that number, and a     *)
(* transaction is the set of statements whose writes it holds.              *)
(***************************************************************************)
EXTENDS Integers, Sequences, FiniteSets, SequencesExt

CONSTANTS MaxStatements, \* bound: requests of the connection
          MaxRows,       \* bound: rows of a result
          Columns,       \* columns of a result
          SeqModulus,    \* packet numbers wrap (at 256 in the code)
          SessionFaults  \* the sets of faults a behaviour may have

VARIABLES proto,      \* the communicator: plain, mysql or native
          place,      \* where the handler is
          stmt,       \* what it executes
          count,      \* the number of the statement
          multi,      \* trx_multi_operation_mode_
          trx,        \* trx_: none, or started
          pending,    \* statements whose writes the transaction holds
          committed,
          rolledBack,
          lost,       \* left behind by a transaction that was destroyed
          autos,      \* statements that ran outside BEGIN
          said,       \* what the client was told of each statement
          packets,    \* the reply of the current statement
          seqId,      \* sequence_id_
          rows,       \* rows the statement has still to return
          wire,       \* requests in the socket
          dropped,    \* requests that were read and thrown away
          seFaults

seVars == <<proto, place, stmt, count, multi, trx, pending, committed, rolledBack,
            lost, autos, said, packets, seqId, rows, wire, dropped, seFaults>>

Fault(f) == f \in seFaults
Statements == 1 .. MaxStatements
Kinds == {"select", "write", "begin", "commit", "rollback", "use", "bad"}

SessionInit ==
    /\ proto \in {"plain", "mysql", "native"}
    /\ place = "idle" /\ stmt = "none" /\ count = 0
    /\ multi = FALSE /\ trx = "none"
    /\ pending = {} /\ committed = {} /\ rolledBack = {} /\ lost = {} /\ autos = {}
    /\ said = [n \in Statements |-> "nothing"]
    /\ packets = <<>> /\ seqId = 0 /\ rows = 0
    /\ wire = 0 /\ dropped = 0
    /\ seFaults \in SessionFaults

trxVars == <<multi, trx, pending, committed, rolledBack, lost>>
wireVars == <<wire, dropped, seFaults, proto>>
-----------------------------------------------------------------------------
\* The client writes a request, and normally waits for its answer.
Send ==
    /\ place # "closed"
    /\ count + wire + dropped < MaxStatements
    /\ wire < 2
    /\ Fault("pipeline") \/ (wire = 0 /\ place = "idle")
    /\ wire' = wire + 1
    /\ UNCHANGED <<proto, place, stmt, count, trxVars, autos, said, packets, seqId,
                   rows, dropped, seFaults>>

\* The plain and native communicators read what there is and drop what
\* follows the end of the first request; the MySQL one reads a header and as
\* many bytes as it says.
PlainTakes == 1 .. wire
NativeTakes == 1 .. wire
MysqlTakesMut == 1 .. wire
MysqlTakes == {1}
Takes == CASE proto = "plain" -> PlainTakes
           [] proto = "native" -> NativeTakes
           [] proto = "mysql" -> MysqlTakes

\* handle_event begins: one request, whose reply is numbered from its number.
ReadEvent ==
    /\ place = "idle" /\ wire > 0
    /\ \E taken \in Takes : wire' = wire - taken /\ dropped' = dropped + taken - 1
    /\ \E k \in Kinds : stmt' = k
    /\ count' = count + 1
    /\ packets' = <<>> /\ seqId' = 1
    /\ place' = "execute"
    /\ autos' = IF multi THEN autos ELSE autos \cup {count'}
    /\ UNCHANGED <<proto, trxVars, said, rows, seFaults>>

\* The socket is closed: the communicator and its session are deleted, and
\* the transaction is destroyed as it is.
Disconnected ==
    /\ place' = "closed"
    /\ lost' = lost \cup pending /\ pending' = {} /\ trx' = "none"

ClientLeaves ==
    /\ place = "idle" /\ wire = 0
    /\ Disconnected
    /\ UNCHANGED <<proto, stmt, count, multi, committed, rolledBack, autos, said, packets,
                   seqId, rows, wireVars>>
-----------------------------------------------------------------------------
\* Session and SqlResult.

Commit == /\ committed' = committed \cup pending
          /\ pending' = {} /\ trx' = "none"
          /\ UNCHANGED <<rolledBack, lost>>
Rollback == /\ rolledBack' = rolledBack \cup pending
            /\ pending' = {} /\ trx' = "none"
            /\ UNCHANGED <<committed, lost>>
\* destroy_trx, and a commit that fails before it is destroyed.
Destroy == /\ lost' = lost \cup pending
           /\ pending' = {} /\ trx' = "none"
           /\ UNCHANGED <<committed, rolledBack>>

\* A mutant: the transaction is committed whatever the mode.
CloseResultMut(ok) == Commit /\ ok /\ UNCHANGED multi

\* Another: the end of the transaction is forgotten.
CloseResultForgets(ok) == ok /\ UNCHANGED <<multi, trx, pending, committed, rolledBack, lost>>

\* SqlResult::close: outside BEGIN the transaction ends here.
CloseResult(ok) ==
    /\ UNCHANGED multi
    /\ IF multi THEN ok /\ UNCHANGED <<trx, pending, committed, rolledBack, lost>>
       ELSE \/ ok /\ Commit
            \/ ~ok /\ Fault("commit") /\ Destroy

\* Packets carry the next number.
Packet(kind, i) == [kind |-> kind, seq |-> i % SeqModulus]
SendPacket(kind) ==
    /\ packets' = Append(packets, Packet(kind, seqId))
    /\ seqId' = (seqId + 1) % SeqModulus
Tell(word) == said' = [said EXCEPT ![count] = word]

\* write_state of the plain communicator with the end of its message, that of
\* the MySQL one, and the reply of the native one: a word and its meaning.
PlainState(ok) ==
    packets' = Append(packets, Packet(IF ok THEN "SUCCESS" ELSE "FAILURE", 0)) /\ UNCHANGED seqId
MysqlState(ok) == SendPacket(IF ok THEN "ok" ELSE "error")
NativeState(ok) ==
    packets' = <<Packet(IF ok THEN "success" ELSE "error", 0)>> /\ UNCHANGED seqId
State(ok) ==
    /\ CASE proto = "plain" -> PlainState(ok)
         [] proto = "mysql" -> MysqlState(ok)
         [] proto = "native" -> NativeState(ok)
    /\ Tell(IF ok THEN "done" ELSE "failed")
    /\ place' = "idle"

NoReply == UNCHANGED <<packets, seqId, said>>
-----------------------------------------------------------------------------
\* The commands: BEGIN, COMMIT, ROLLBACK, USE and what does not compile.

EndTrx(ok) ==
    /\ multi' = FALSE
    /\ \/ stmt = "commit" /\ ok /\ Commit
       \/ stmt = "commit" /\ ~ok /\ Fault("commit") /\ Destroy
       \/ stmt = "rollback" /\ ok /\ Rollback

ExecuteCommand ==
    /\ place = "execute"
    /\ \/ /\ stmt = "begin"
          /\ multi' = TRUE /\ trx' = "started"
          /\ State(TRUE)
          /\ UNCHANGED <<pending, committed, rolledBack, lost>>
       \/ \E ok \in BOOLEAN : EndTrx(ok) /\ State(ok)
       \/ stmt = "use" /\ Destroy /\ State(TRUE) /\ UNCHANGED multi
       \/ stmt = "bad" /\ State(FALSE) /\ UNCHANGED trxVars
    /\ UNCHANGED <<stmt, count, autos, rows, wireVars>>

\* set_operator, and SqlResult::open with all that an INSERT, an UPDATE or a
\* DELETE does.
OpenResult ==
    /\ place = "execute" /\ stmt \in {"select", "write"}
    /\ trx' = "started"
    /\ pending' = pending \cup (IF stmt = "write" THEN {count} ELSE {})
    /\ \E n \in 0 .. MaxRows : rows' = IF stmt = "select" THEN n ELSE 0
    /\ place' = IF stmt = "select" THEN "header" ELSE "rows"
    /\ NoReply
    /\ UNCHANGED <<stmt, count, multi, committed, rolledBack, lost, autos, wireVars>>

\* A mutant: what a failed write has done is not taken back.
OpenFailsMut ==
    /\ place = "execute" /\ stmt \in {"select", "write"}
    /\ trx' = "started"
    /\ pending' = pending \cup {count}
    /\ place' = "open failed"
    /\ NoReply
    /\ UNCHANGED <<stmt, count, multi, committed, rolledBack, lost, autos, rows, wireVars>>

\* It fails before it has written anything, or when some of it is done.
OpenFails ==
    /\ place = "execute" /\ stmt \in {"select", "write"}
    /\ trx' = "started"
    /\ \/ UNCHANGED pending
       \/ stmt = "write" /\ Fault("midway") /\ pending' = pending \cup {count}
    /\ place' = "open failed"
    /\ NoReply
    /\ UNCHANGED <<stmt, count, multi, committed, rolledBack, lost, autos, rows, wireVars>>

\* Only the plain communicator closes the result it could not open.
AnswerFailedOpen ==
    /\ place = "open failed"
    /\ IF proto = "plain" THEN \E ok \in BOOLEAN : CloseResult(ok) ELSE UNCHANGED trxVars
    /\ State(FALSE)
    /\ UNCHANGED <<stmt, count, autos, rows, wireVars>>
-----------------------------------------------------------------------------
\* Results.  For MySQL the number of columns, their definitions and an EOF
\* come before the rows; the native protocol collects everything first.

\* A mutant: the EOF after the definitions has the number of the one before.
SendHeaderMut ==
    /\ place = "header"
    /\ packets' = [i \in 1 .. Columns + 2 |->
           Packet(IF i = 1 THEN "columns" ELSE IF i < Columns + 2 THEN "definition" ELSE "eof",
                  IF i = Columns + 2 THEN i - 1 ELSE i)]
    /\ seqId' = (Columns + 2) % SeqModulus
    /\ place' = "rows"
    /\ UNCHANGED <<stmt, count, trxVars, autos, said, rows, wireVars>>

SendHeader ==
    /\ place = "header"
    /\ IF proto = "mysql"
       THEN /\ packets' = [i \in 1 .. Columns + 2 |->
                   Packet(IF i = 1 THEN "columns"
                          ELSE IF i < Columns + 2 THEN "definition" ELSE "eof",
                          seqId + i - 1)]
            /\ seqId' = (seqId + Columns + 2) % SeqModulus
       ELSE UNCHANGED <<packets, seqId>>
    /\ place' = "rows"
    /\ UNCHANGED <<stmt, count, trxVars, autos, said, rows, wireVars>>

\* A row is written line by line, packet by packet, or collected.
PlainRow == packets' = Append(packets, Packet("line", 0)) /\ UNCHANGED seqId
MysqlRow == SendPacket("row")
NativeRow == UNCHANGED <<packets, seqId>>

SendRow ==
    /\ place = "rows" /\ rows > 0
    /\ rows' = rows - 1
    /\ \/ proto = "plain" /\ PlainRow
       \/ proto = "mysql" /\ MysqlRow
       \/ proto = "native" /\ NativeRow
    /\ UNCHANGED <<place, stmt, count, trxVars, autos, said, wireVars>>

\* The end of the rows, or the failure of next(), is followed by close and
\* answer in an order of their own.
PlainEndOfMessage == packets' = Append(packets, Packet("end", 0)) /\ UNCHANGED seqId

PlainEnds ==
    /\ proto = "plain" /\ rows = 0
    /\ \E ok \in BOOLEAN :
           /\ CloseResult(ok)
           /\ IF stmt = "write" THEN State(ok)
              ELSE /\ PlainEndOfMessage /\ Tell("done")
                   /\ place' = IF ok THEN "idle" ELSE "close"

\* A mutant: the reply does not wait for the result to be closed.
NativeEndsMut ==
    /\ proto = "native" /\ rows = 0
    /\ State(TRUE)
    /\ \E ok \in BOOLEAN : CloseResult(ok)

NativeEnds ==
    /\ proto = "native" /\ rows = 0
    /\ \E ok \in BOOLEAN : CloseResult(ok) /\ State(ok)

MysqlEnds ==
    /\ proto = "mysql" /\ rows = 0
    /\ SendPacket(IF stmt = "write" THEN "ok" ELSE "eof") /\ Tell("done")
    /\ \E ok \in BOOLEAN : CloseResult(ok) /\ place' = IF ok THEN "idle" ELSE "close"

EndResult ==
    /\ place = "rows"
    /\ PlainEnds \/ NativeEnds \/ MysqlEnds
    /\ UNCHANGED <<stmt, count, autos, rows, wireVars>>

\* A row cannot be read.  The plain communicator gives the connection up
\* without closing the result, the native one closes it and tells, and the
\* MySQL one ends the reply as if the rows were all there.
NextFails ==
    /\ place = "rows" /\ rows > 0 /\ Fault("next")
    /\ rows' = 0
    /\ \/ /\ proto = "plain"
          /\ Tell("failed") /\ Disconnected
          /\ UNCHANGED <<multi, committed, rolledBack, packets, seqId>>
       \/ /\ proto = "native"
          /\ \E ok \in BOOLEAN : CloseResult(ok)
          /\ State(FALSE)
       \/ /\ proto = "mysql"
          /\ SendPacket("eof") /\ Tell("truncated")
          /\ \E ok \in BOOLEAN : CloseResult(ok) /\ place' = IF ok THEN "idle" ELSE "close"
    /\ UNCHANGED <<stmt, count, autos, wireVars>>

\* The socket fails while rows are sent: the result is closed, and the
\* connection.
WriteFails ==
    /\ place \in {"header", "rows"} /\ Fault("socket") /\ proto # "native"
    /\ \E ok \in BOOLEAN : CloseResult(ok)
    /\ place' = "close" /\ NoReply
    /\ UNCHANGED <<stmt, count, autos, rows, wireVars>>

CloseSocket ==
    /\ place = "close"
    /\ Disconnected
    /\ NoReply
    /\ UNCHANGED <<stmt, count, multi, committed, rolledBack, autos, rows, wireVars>>

SessionNext ==
    \/ Send \/ ReadEvent \/ ClientLeaves
    \/ ExecuteCommand \/ OpenResult \/ OpenFails \/ AnswerFailedOpen
    \/ SendHeader \/ SendRow \/ EndResult \/ NextFails \/ WriteFails \/ CloseSocket
-----------------------------------------------------------------------------
\* A write that ran outside BEGIN and was reported as done is committed.
\* (The MySQL communicator reports it before the commit, which may fail.)
ReportedDoneIsCommitted ==
    ~(proto = "mysql" /\ Fault("commit")) =>
        \A n \in autos : said[n] = "done" /\ n \in lost \cup pending \cup rolledBack
                             => n = count /\ place # "idle"

\* A statement that was reported as failed has no committed effect.  (A write
\* that fails when some of it is done is committed by the plain communicator
\* at once and by the others with the next statement: Fault("midway").)
ReportedFailedIsNotCommitted ==
    ~Fault("midway") => \A n \in committed : said[n] # "failed"

\* Between requests a session outside BEGIN holds no writes: whatever the
\* error path, none waits for a later statement to commit it.
NothingWaitsOutsideBegin ==
    ~Fault("midway") => (place = "idle" /\ ~multi => pending = {})

\* Writes of a transaction that BEGIN opened become permanent in a COMMIT, and
\* otherwise a step commits no statement but its own.
CommitsAreAskedFor ==
    [][committed' # committed /\ ~Fault("midway") =>
           \/ stmt = "commit"
           \/ ~multi /\ committed' \ committed = {count}]_seVars

\* Every reply of the MySQL communicator is an OK or an ERR, or the column
\* count, the definitions, an EOF, rows and an EOF, with consecutive numbers.
Kind(i) == packets[i].kind
WellFormed ==
    LET n == Len(packets) IN
    \/ n = 1 /\ Kind(1) \in {"ok", "error"}
    \/ /\ n >= Columns + 3 /\ Kind(1) = "columns"
       /\ \A i \in 2 .. Columns + 1 : Kind(i) = "definition"
       /\ Kind(Columns + 2) = "eof" /\ Kind(n) = "eof"
       /\ \A i \in Columns + 3 .. n - 1 : Kind(i) = "row"
MysqlRepliesAreWellFormed ==
    proto = "mysql" =>
        /\ \A i \in DOMAIN packets : packets[i].seq = i % SeqModulus
        /\ place = "idle" /\ count > 0 => WellFormed

\* No request is lost, unless a client of the plain or native protocol sends
\* one before the last was answered.
NoRequestIsDropped == (Fault("pipeline") /\ proto # "mysql") \/ dropped = 0

\* In each of the three protocols a client can rely on the reply: done is
\* committed and failed is not, nothing waits for a later statement to commit
\* it, packets are well formed, and no request is dropped.
RepliesAreTrue ==
    /\ [](/\ ReportedDoneIsCommitted
          /\ ReportedFailedIsNotCommitted
          /\ NothingWaitsOutsideBegin
          /\ MysqlRepliesAreWellFormed
          /\ NoRequestIsDropped)
    /\ CommitsAreAskedFor
=============================================================================
