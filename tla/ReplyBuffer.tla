---------------------------- MODULE ReplyBuffer ----------------------------
(***************************************************************************)
(* net/buffered_writer.cpp over net/ring_buffer.cpp: replies go into a ring *)
(* whose read position is derived from the write position and the size, and *)
(* leave it for the socket in contiguous pieces, which the system may take  *)
(* in part.  Bytes are numbered by the order in which they were written.    *)
(***************************************************************************)
EXTENDS Integers, Sequences, SequencesExt

CONSTANTS Capacity,   \* of the ring
          MaxPiece,   \* bound: bytes of one writen
          MaxBytes    \* bound: bytes of a behaviour

VARIABLES ring,       \* buffer_
          writePos,   \* write_pos_
          dataSize,   \* data_size_
          call,       \* the call in progress: what is still to be written,
                      \* and to be flushed before that
          sentBytes,  \* what the socket took
          given,      \* bytes callers have handed over
          fdOpen      \* fd_ >= 0 and no error of the socket so far

rbVars == <<ring, writePos, dataSize, call, sentBytes, given, fdOpen>>

NoCall == [at |-> "none", left |-> <<>>, flush |-> 0]

ReplyInit ==
    /\ ring = [i \in 0 .. Capacity - 1 |-> 0]
    /\ writePos = 0 /\ dataSize = 0
    /\ call = NoCall
    /\ sentBytes = <<>> /\ given = 0 /\ fdOpen = TRUE

Remain == Capacity - dataSize
ReadPos == (writePos - dataSize + Capacity) % Capacity

\* buffer(): the contiguous piece at the read position.
PieceSize ==
    IF dataSize = 0 THEN 0
    ELSE IF ReadPos < writePos THEN writePos - ReadPos ELSE Capacity - ReadPos

\* RingBuffer::write, one contiguous copy at a time until the data or the room
\* is used up: the outcome is one copy of as much as there is room for.
RingWrite(data) ==
    \E n \in {IF Len(data) < Remain THEN Len(data) ELSE Remain} :
        /\ ring' = [i \in DOMAIN ring |->
               LET offset == (i - writePos + Capacity) % Capacity
               IN  IF offset < n THEN data[offset + 1] ELSE ring[i]]
        /\ writePos' = (writePos + n) % Capacity
        /\ dataSize' = dataSize + n
        /\ call' = [call EXCEPT !.left = SubSeq(data, n + 1, Len(data))]

\* writen(data, size) begins.
Writen(n) ==
    /\ call = NoCall /\ fdOpen
    /\ given + n <= MaxBytes
    /\ call' = [at |-> "write", left |-> [i \in 1 .. n |-> given + i], flush |-> 0]
    /\ given' = given + n
    /\ UNCHANGED <<ring, writePos, dataSize, sentBytes, fdOpen>>

\* write(): room is made only when there is none.
WriteSome ==
    /\ call.at = "write" /\ call.left # <<>>
    /\ IF Remain = 0
       THEN /\ call' = [call EXCEPT !.at = "flush", !.flush = Len(call.left)]
            /\ UNCHANGED <<ring, writePos, dataSize>>
       ELSE RingWrite(call.left)
    /\ UNCHANGED <<sentBytes, given, fdOpen>>

EndWriten ==
    /\ call.at = "write" /\ call.left = <<>>
    /\ call' = NoCall
    /\ UNCHANGED <<ring, writePos, dataSize, sentBytes, given, fdOpen>>

\* A mutant: only the first piece is flushed.
FlushMut ==
    /\ call = NoCall /\ fdOpen /\ dataSize > 0
    /\ call' = [at |-> "flush", left |-> <<>>, flush |-> PieceSize]
    /\ UNCHANGED <<ring, writePos, dataSize, sentBytes, given, fdOpen>>

\* flush(): everything.
Flush ==
    /\ call = NoCall /\ fdOpen /\ dataSize > 0
    /\ call' = [at |-> "flush", left |-> <<>>, flush |-> dataSize]
    /\ UNCHANGED <<ring, writePos, dataSize, sentBytes, given, fdOpen>>

\* A mutant: a piece counts as taken when the socket took a part of it.
SocketTakesMut ==
    /\ call.at = "flush" /\ call.flush > 0 /\ dataSize > 0
    /\ \E n \in 1 .. PieceSize :
           /\ sentBytes' = sentBytes \o [i \in 1 .. n |-> ring[(ReadPos + i - 1) % Capacity]]
           /\ dataSize' = dataSize - PieceSize
           /\ call' = [call EXCEPT !.flush = @ - n]
    /\ UNCHANGED <<ring, writePos, given, fdOpen>>

\* flush_internal: the socket takes some of a piece, EAGAIN and EINTR are
\* tried again.
SocketTakes ==
    /\ call.at = "flush" /\ call.flush > 0 /\ dataSize > 0
    /\ \E n \in 1 .. PieceSize :
           /\ sentBytes' = sentBytes \o [i \in 1 .. n |-> ring[(ReadPos + i - 1) % Capacity]]
           /\ dataSize' = dataSize - n
           /\ call' = [call EXCEPT !.flush = @ - n]
    /\ UNCHANGED <<ring, writePos, given, fdOpen>>

FlushEnds ==
    /\ call.at = "flush" /\ (call.flush <= 0 \/ dataSize = 0)
    /\ call' = IF call.left = <<>> THEN NoCall ELSE [call EXCEPT !.at = "write"]
    /\ UNCHANGED <<ring, writePos, dataSize, sentBytes, given, fdOpen>>

\* Any other error: the caller gives the connection up.
SocketFails ==
    /\ call.at = "flush" /\ fdOpen
    /\ fdOpen' = FALSE /\ call' = NoCall
    /\ UNCHANGED <<ring, writePos, dataSize, sentBytes, given>>

ReplyNext ==
    \/ \E n \in 1 .. MaxPiece : Writen(n)
    \/ WriteSome \/ EndWriten \/ Flush \/ SocketTakes \/ FlushEnds \/ SocketFails
-----------------------------------------------------------------------------
Held == [i \in 1 .. dataSize |-> ring[(ReadPos + i - 1) % Capacity]]

\* What the socket has taken, what is in the ring and what the call in
\* progress has still to write are all the bytes that callers gave, in order:
\* none is lost, doubled or overtaken however the ring wraps and the socket
\* takes them.  After a flush that succeeded nothing is left in the ring.
RepliesArriveInOrder ==
    /\ [](fdOpen => sentBytes \o Held \o call.left = [i \in 1 .. given |-> i])
    /\ [][call.at = "flush" /\ call.left = <<>> /\ call'.at = "none" /\ fdOpen'
              => dataSize' = 0]_rbVars
=============================================================================
