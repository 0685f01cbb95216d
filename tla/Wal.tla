-------------------------------- MODULE Wal --------------------------------
(***************************************************************************)
(* What the redo log (storage/clog) promises its users, without buffers,   *)
(* threads or files: entries are numbered 1, 2, 3, ... as they are         *)
(* appended, they become durable in that order, an entry is acknowledged   *)
(* (wait_lsn returns SUCCESS) only once it is durable, and a crash loses   *)
(* exactly the entries that are not durable yet.                           *)
(***************************************************************************)
EXTENDS Naturals

VARIABLES
  tail,      \* the largest LSN handed out
  durable,   \* entries 1..durable survive a crash
  acked      \* the LSNs whose waiters were told SUCCESS

vars == <<tail, durable, acked>>

Init == tail = 0 /\ durable = 0 /\ acked = {}

Append == tail' = tail + 1 /\ UNCHANGED <<durable, acked>>

Flush == durable < tail /\ durable' = durable + 1 /\ UNCHANGED <<tail, acked>>

Ack == /\ \E lsn \in 1..durable : acked' = acked \union {lsn}
       /\ UNCHANGED <<tail, durable>>

Crash == tail' = durable /\ UNCHANGED <<durable, acked>>

Next == Append \/ Flush \/ Ack \/ Crash

Spec == Init /\ [][Next]_vars
=============================================================================
