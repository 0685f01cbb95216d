------------------------------ MODULE DiskLog ------------------------------
(***************************************************************************)
(* The redo log of CSUDB: LogEntryBuffer (log_buffer.cpp), LogFileWriter,  *)
(* LogFileReader and LogFileManager (log_file.cpp) and DiskLogHandler with *)
(* its flush thread (disk_log_handler.cpp).                                *)
(*                                                                         *)
(* Processes: the appenders (any thread that calls LogHandler::append and  *)
(* then wait_lsn), the flush thread, the thread that stops the handler,    *)
(* and the environment, which may fail an I/O call or crash the process.   *)
(***************************************************************************)
EXTENDS Integers, Sequences, FiniteSetsExt

CONSTANTS
  Appenders,     \* threads that append and wait
  Sizes,         \* payload sizes of the entries
  HeaderSize,    \* LogHeader::SIZE
  MaxBytes,      \* LogEntryBuffer::max_bytes_
  N,             \* max_entry_number_per_file_
  MaxLsn,        \* bound: no append starts once this LSN was handed out
  MaxFaults,     \* bound: number of failing I/O calls
  TornFaults     \* whether a failing write may leave a part of the entry

ASSUME DiskLogAssumption ==
  /\ Sizes \subseteq Nat \ {0} /\ Sizes # {}
  /\ HeaderSize \in Nat \ {0}
  /\ MaxBytes \in Nat \ {0}
  /\ N \in Nat \ {0}
  /\ MaxLsn \in Nat
  /\ MaxFaults \in Nat
  /\ TornFaults \in BOOLEAN

VARIABLES
  mode,          \* "up", "stopped" (joined), "down", "broken" (replay failed)
  running,       \* DiskLogHandler::running_
  fpc,           \* where the flush thread is
  rc,            \* the flush thread's rc
  entries,       \* LogEntryBuffer::entries_
  inflight,      \* the entry flush() moved out of entries_, at most one
  bytes,         \* LogEntryBuffer::bytes_
  current_lsn,   \* LogEntryBuffer::current_lsn_
  flushed_lsn,   \* LogEntryBuffer::flushed_lsn_
  writer,        \* the flush thread's LogFileWriter
  log_files,     \* LogFileManager::log_files_, the first LSN of each file
  dir,           \* the files that exist on disk
  disk,          \* what the files hold, in file order and then in file offset
  cpc,           \* where each appender is
  clsn,          \* the LSN each appender got
  csize,         \* the payload size each appender appends
  acked,         \* history: the LSNs wait_lsn returned SUCCESS for
  late,          \* history: an entry was pushed after stop()
  faults         \* number of failed I/O calls so far

bufVars    == <<entries, inflight, bytes, current_lsn, flushed_lsn>>
fileVars   == <<writer, log_files, dir, disk>>
flushVars  == <<fpc, rc>>
clientVars == <<cpc, clsn, csize>>
histVars   == <<acked, late>>
vars == <<mode, running, flushVars, bufVars, fileVars, clientVars, histVars, faults>>

Entry == [lsn : Nat, size : Sizes]

(* How much of an entry is in the file: all of it, its whole header but    *)
(* not its whole payload, or only a part of its header.                    *)
Kinds  == {"full", "head", "part"}
Record == [lsn : Nat, file : Nat, kind : Kinds]

-----------------------------------------------------------------------------
(* Reading the log. *)

(* LogFileReader::iterate stops at the first entry that is not whole. *)
Torn == {i \in DOMAIN disk : disk[i].kind # "full"}
Readable == IF Torn = {} THEN Len(disk) ELSE Min(Torn) - 1

(* A header cut off by the end of the file reads as the end of the file;   *)
(* a missing payload, and bytes that follow a cut-off entry, as an error.  *)
ReplayOk == \A i \in Torn : i = Len(disk) /\ disk[i].kind = "part"

(* Mutant: skip_to also skips the entry of the checkpoint itself. *)
ReplayedMut(start) ==
  {i \in 1..Readable : disk[i].file + N - 1 >= start /\ disk[i].lsn > start}

(* LogFileManager::list_files keeps the files that may hold start or more, *)
(* skip_to the entries from start on.                                      *)
Replayed(start) ==
  {i \in 1..Readable : disk[i].file + N - 1 >= start /\ disk[i].lsn >= start}

(* Mutant: max_lsn starts from -1. *)
ReplayedMaxLsnMut(start) == Max({disk[i].lsn : i \in Replayed(start)} \union {-1})

ReplayedMaxLsn(start) == Max({disk[i].lsn : i \in Replayed(start)} \union {0})

-----------------------------------------------------------------------------
(* The appenders: DiskLogHandler::_append, LogEntryBuffer::append, wait_lsn *)

AppendCheck(a, s) ==
  /\ mode = "up" /\ cpc[a] = "idle"
  /\ running
  /\ current_lsn < MaxLsn
  /\ cpc' = [cpc EXCEPT ![a] = "throttle"]
  /\ csize' = [csize EXCEPT ![a] = s]
  /\ UNCHANGED <<mode, running, flushVars, bufVars, fileVars, clsn, histVars, faults>>

AppendPass(a) ==
  /\ cpc[a] = "throttle"
  /\ bytes < MaxBytes
  /\ cpc' = [cpc EXCEPT ![a] = "push"]
  /\ UNCHANGED <<mode, running, flushVars, bufVars, fileVars, clsn, csize, histVars, faults>>

(* total_size() is taken after std::move(entry): the moved-from entry has  *)
(* no payload left, so only the header is counted.                         *)
AppendPush(a) ==
  /\ cpc[a] = "push"
  /\ current_lsn' = current_lsn + 1
  /\ entries' = Append(entries, [lsn |-> current_lsn + 1, size |-> csize[a]])
  /\ bytes' = bytes + HeaderSize
  /\ clsn' = [clsn EXCEPT ![a] = current_lsn + 1]
  /\ cpc' = [cpc EXCEPT ![a] = "appended"]
  /\ late' = (late \/ ~running)
  /\ UNCHANGED <<mode, running, flushVars, inflight, flushed_lsn, fileVars, csize, acked, faults>>

(* Records, pages and index changes do not wait for their entry. *)
Return(a) ==
  /\ cpc[a] = "appended"
  /\ cpc' = [cpc EXCEPT ![a] = "idle"]
  /\ UNCHANGED <<mode, running, flushVars, bufVars, fileVars, clsn, csize, histVars, faults>>

WaitBegin(a) ==
  /\ cpc[a] = "appended"
  /\ cpc' = [cpc EXCEPT ![a] = "wait"]
  /\ UNCHANGED <<mode, running, flushVars, bufVars, fileVars, clsn, csize, histVars, faults>>

(* Mutant: the loop does not look at running_. *)
WaitExitMut(a) ==
  /\ cpc[a] = "wait"
  /\ flushed_lsn >= clsn[a]
  /\ cpc' = [cpc EXCEPT ![a] = "check"]
  /\ UNCHANGED <<mode, running, flushVars, bufVars, fileVars, clsn, csize, histVars, faults>>

WaitExit(a) ==
  /\ cpc[a] = "wait"
  /\ ~running \/ flushed_lsn >= clsn[a]
  /\ cpc' = [cpc EXCEPT ![a] = "check"]
  /\ UNCHANGED <<mode, running, flushVars, bufVars, fileVars, clsn, csize, histVars, faults>>

(* Mutant: success is decided by the LSN handed out, not the flushed one. *)
WaitCheckMut(a) ==
  /\ cpc[a] = "check"
  /\ cpc' = [cpc EXCEPT ![a] = "idle"]
  /\ acked' = IF current_lsn >= clsn[a] THEN acked \union {clsn[a]} ELSE acked
  /\ UNCHANGED <<mode, running, flushVars, bufVars, fileVars, clsn, csize, late, faults>>

WaitCheck(a) ==
  /\ cpc[a] = "check"
  /\ cpc' = [cpc EXCEPT ![a] = "idle"]
  /\ acked' = IF flushed_lsn >= clsn[a] THEN acked \union {clsn[a]} ELSE acked
  /\ UNCHANGED <<mode, running, flushVars, bufVars, fileVars, clsn, csize, late, faults>>

-----------------------------------------------------------------------------
(* The flush thread: DiskLogHandler::thread_func, LogEntryBuffer::flush,   *)
(* LogFileManager::last_file and next_file, LogFileWriter::write.          *)

(* Mutant: the thread ends as soon as running_ is false. *)
FlusherExitMut ==
  /\ fpc = "loop"
  /\ ~running
  /\ fpc' = "exited"
  /\ UNCHANGED <<mode, running, rc, bufVars, fileVars, clientVars, histVars, faults>>

(* Mutant: the thread ends when bytes_ is back to zero. *)
FlusherExitBytesMut ==
  /\ fpc = "loop"
  /\ ~running /\ bytes = 0
  /\ fpc' = "exited"
  /\ UNCHANGED <<mode, running, rc, bufVars, fileVars, clientVars, histVars, faults>>

FlusherExit ==
  /\ fpc = "loop"
  /\ ~running /\ entries = <<>>
  /\ fpc' = "exited"
  /\ UNCHANGED <<mode, running, rc, bufVars, fileVars, clientVars, histVars, faults>>

MustOpen == ~writer.open \/ rc = "LOG_FILE_FULL"

LastFile == Max(log_files)

(* next_file when the current file is full or there is none. *)
FileToOpen ==
  IF log_files = {} THEN 0
  ELSE IF rc = "LOG_FILE_FULL" THEN LastFile + N ELSE LastFile

FlusherLoops == fpc = "loop" /\ (running \/ entries # <<>>)

(* Mutant: the file is opened with O_TRUNC. *)
FlusherOpenMut ==
  /\ FlusherLoops /\ MustOpen
  /\ writer' = [writer EXCEPT !.open = TRUE, !.file = FileToOpen]
  /\ log_files' = log_files \union {FileToOpen}
  /\ dir' = dir \union {FileToOpen}
  /\ disk' = SelectSeq(disk, LAMBDA r : r.file # FileToOpen)
  /\ rc' = "SUCCESS"
  /\ fpc' = "flush"
  /\ UNCHANGED <<mode, running, bufVars, clientVars, histVars, faults>>

FlusherOpen ==
  /\ FlusherLoops /\ MustOpen
  /\ writer' = [writer EXCEPT !.open = TRUE, !.file = FileToOpen]
  /\ log_files' = log_files \union {FileToOpen}
  /\ dir' = dir \union {FileToOpen}
  /\ rc' = "SUCCESS"
  /\ fpc' = "flush"
  /\ UNCHANGED <<mode, running, bufVars, disk, clientVars, histVars, faults>>

(* open(2) fails: the file stays listed in log_files_, the writer closed. *)
FlusherOpenFails ==
  /\ FlusherLoops /\ MustOpen
  /\ faults < MaxFaults
  /\ faults' = faults + 1
  /\ writer' = [writer EXCEPT !.open = FALSE]
  /\ log_files' = log_files \union {FileToOpen}
  /\ rc' = "FILE_OPEN"
  /\ UNCHANGED <<mode, running, fpc, bufVars, dir, disk, clientVars, histVars>>

FlusherEnter ==
  /\ FlusherLoops /\ ~MustOpen
  /\ fpc' = "flush"
  /\ UNCHANGED <<mode, running, rc, bufVars, fileVars, clientVars, histVars, faults>>

FlushDone ==
  /\ fpc = "flush" /\ entries = <<>>
  /\ rc' = "SUCCESS"
  /\ fpc' = "loop"
  /\ UNCHANGED <<mode, running, bufVars, fileVars, clientVars, histVars, faults>>

FlushPop ==
  /\ fpc = "flush" /\ entries # <<>>
  /\ inflight' = <<Head(entries)>>
  /\ entries' = Tail(entries)
  /\ bytes' = bytes - (HeaderSize + Head(entries).size)
  /\ fpc' = "header"
  /\ UNCHANGED <<mode, running, rc, current_lsn, flushed_lsn, fileVars, clientVars, histVars, faults>>

(* Mutant: the entry goes to the back of the buffer. *)
PutBackMut(code) ==
  /\ entries' = entries \o inflight
  /\ inflight' = <<>>
  /\ rc' = code
  /\ fpc' = "loop"
  /\ UNCHANGED <<bytes, current_lsn, flushed_lsn>>

(* Any failure of write(): the entry goes back to the front of the buffer, *)
(* without adding its size to bytes_ again.                                *)
PutBack(code) ==
  /\ entries' = inflight \o entries
  /\ inflight' = <<>>
  /\ rc' = code
  /\ fpc' = "loop"
  /\ UNCHANGED <<bytes, current_lsn, flushed_lsn>>

(* Mutant: one entry too many per file. *)
EndLsnMut == writer.file + N

EndLsn == writer.file + N - 1

WriteFull ==
  /\ fpc = "header" /\ inflight[1].lsn > EndLsn
  /\ PutBack("LOG_FILE_FULL")
  /\ UNCHANGED <<mode, running, fileVars, clientVars, histVars, faults>>

OnDisk(kind) == [lsn |-> inflight[1].lsn, file |-> writer.file, kind |-> kind]

WriteHeader ==
  /\ fpc = "header" /\ inflight[1].lsn <= EndLsn
  /\ inflight[1].lsn > writer.last
  /\ disk' = Append(disk, OnDisk("head"))
  /\ fpc' = "payload"
  /\ UNCHANGED <<mode, running, rc, bufVars, writer, log_files, dir, clientVars, histVars, faults>>

(* The header is refused (the LSN is not beyond the last one written) or   *)
(* its write fails, possibly after a part of it was written.               *)
WriteHeaderFails ==
  /\ fpc = "header" /\ inflight[1].lsn <= EndLsn
  /\ IF inflight[1].lsn <= writer.last
     THEN UNCHANGED <<disk, faults>>
     ELSE /\ faults < MaxFaults
          /\ faults' = faults + 1
          /\ disk' \in {disk} \union (IF TornFaults THEN {Append(disk, OnDisk("part"))} ELSE {})
  /\ PutBack("FAIL")
  /\ UNCHANGED <<mode, running, writer, log_files, dir, clientVars, histVars>>

WritePayload ==
  /\ fpc = "payload"
  /\ disk' = [disk EXCEPT ![Len(disk)].kind = "full"]
  /\ writer' = [writer EXCEPT !.last = inflight[1].lsn]
  /\ fpc' = "written"
  /\ UNCHANGED <<mode, running, rc, bufVars, log_files, dir, clientVars, histVars, faults>>

(* The payload write fails: the header stays in the file. *)
WritePayloadFails ==
  /\ fpc = "payload" /\ TornFaults
  /\ faults < MaxFaults
  /\ faults' = faults + 1
  /\ PutBack("FAIL")
  /\ UNCHANGED <<mode, running, fileVars, clientVars, histVars>>

FlushAdvance ==
  /\ fpc = "written"
  /\ flushed_lsn' = inflight[1].lsn
  /\ inflight' = <<>>
  /\ fpc' = "flush"
  /\ UNCHANGED <<mode, running, rc, entries, bytes, current_lsn, fileVars, clientVars, histVars, faults>>

-----------------------------------------------------------------------------
(* Starting, stopping and crashing *)

Stop ==
  /\ mode = "up" /\ running
  /\ running' = FALSE
  /\ UNCHANGED <<mode, flushVars, bufVars, fileVars, clientVars, histVars, faults>>

AwaitTermination ==
  /\ mode = "up" /\ ~running /\ fpc = "exited"
  /\ mode' = "stopped"
  /\ UNCHANGED <<running, flushVars, bufVars, fileVars, clientVars, histVars, faults>>

NewWriter == [open |-> FALSE, file |-> 0, last |-> 0]

(* The process ends, by exit or by crash: everything in memory is lost. *)
(* A crash during the header's write may leave a part of it.            *)
Crash ==
  /\ mode \in {"up", "stopped"}
  /\ mode' = "down"
  /\ running' = FALSE
  /\ fpc' = "none" /\ rc' = "SUCCESS"
  /\ entries' = <<>> /\ inflight' = <<>> /\ bytes' = 0
  /\ current_lsn' = 0 /\ flushed_lsn' = 0
  /\ writer' = NewWriter /\ log_files' = {}
  /\ disk' \in {disk} \union
       (IF TornFaults /\ fpc = "header" THEN {Append(disk, OnDisk("part"))} ELSE {})
  /\ cpc' = [a \in Appenders |-> "idle"]
  /\ clsn' = [a \in Appenders |-> 0]
  /\ late' = FALSE
  /\ UNCHANGED <<dir, csize, acked, faults>>

(* LogFileManager::init lists the files, replay reads them from the        *)
(* checkpoint (0, or an LSN Db::sync waited for), start() starts the flush *)
(* thread. When replay fails the database is not opened.                   *)
Restart(start) ==
  /\ mode \in {"down", "broken"}
  /\ IF ReplayOk
     THEN /\ mode' = "up"
          /\ running' = TRUE
          /\ fpc' = "loop"
          /\ current_lsn' = ReplayedMaxLsn(start)
          /\ flushed_lsn' = ReplayedMaxLsn(start)
          /\ log_files' = dir
     ELSE /\ mode' = "broken"
          /\ UNCHANGED <<running, fpc, current_lsn, flushed_lsn, log_files>>
  /\ UNCHANGED <<rc, entries, inflight, bytes, writer, dir, disk, clientVars, histVars, faults>>

-----------------------------------------------------------------------------
Init ==
  /\ mode = "down" /\ running = FALSE
  /\ fpc = "none" /\ rc = "SUCCESS"
  /\ entries = <<>> /\ inflight = <<>> /\ bytes = 0
  /\ current_lsn = 0 /\ flushed_lsn = 0
  /\ writer = NewWriter /\ log_files = {} /\ dir = {} /\ disk = <<>>
  /\ cpc = [a \in Appenders |-> "idle"]
  /\ clsn = [a \in Appenders |-> 0]
  /\ csize = [a \in Appenders |-> CHOOSE s \in Sizes : TRUE]
  /\ acked = {} /\ late = FALSE
  /\ faults = 0

AppenderStep(a) ==
  AppendPass(a) \/ AppendPush(a) \/ Return(a) \/ WaitBegin(a) \/ WaitExit(a) \/ WaitCheck(a)

FlusherStep ==
  \/ FlusherExit \/ FlusherOpen \/ FlusherOpenFails \/ FlusherEnter
  \/ FlushDone \/ FlushPop \/ WriteFull \/ WriteHeader \/ WriteHeaderFails
  \/ WritePayload \/ WritePayloadFails \/ FlushAdvance

Next ==
  \/ \E a \in Appenders : AppenderStep(a) \/ \E s \in Sizes : AppendCheck(a, s)
  \/ FlusherStep
  \/ Stop \/ AwaitTermination \/ Crash
  \/ \E start \in {0} \union acked : Restart(start)

Spec == Init /\ [][Next]_vars

(* Every thread is scheduled: the loops poll with sleep_for. Nothing makes *)
(* a client call append, or anyone stop or restart the handler.            *)
Fairness ==
  /\ \A a \in Appenders : WF_vars(AppenderStep(a))
  /\ WF_vars(FlusherStep)

FairSpec == Spec /\ Fairness

-----------------------------------------------------------------------------
(* Properties *)

(* The types of the members of LogEntryBuffer, LogFileWriter,              *)
(* LogFileManager and DiskLogHandler.                                      *)
TypeOK ==
  /\ mode \in {"up", "stopped", "down", "broken"}
  /\ running \in BOOLEAN
  /\ fpc \in {"none", "loop", "flush", "header", "payload", "written", "exited"}
  /\ rc \in {"SUCCESS", "LOG_FILE_FULL", "FILE_OPEN", "FAIL"}
  /\ entries \in Seq(Entry)
  /\ inflight \in Seq(Entry)
  /\ bytes \in Int
  /\ current_lsn \in Nat /\ flushed_lsn \in Nat
  /\ writer \in [open : BOOLEAN, file : Nat, last : Nat]
  /\ log_files \subseteq Nat /\ dir \subseteq Nat
  /\ disk \in Seq(Record)
  /\ cpc \in [Appenders -> {"idle", "throttle", "push", "appended", "wait", "check"}]
  /\ clsn \in [Appenders -> Nat]
  /\ csize \in [Appenders -> Sizes]
  /\ acked \subseteq Nat
  /\ late \in BOOLEAN
  /\ faults \in Nat

Alive == mode \in {"up", "stopped"}

(* What append put in the buffer and the flush thread did not yet report   *)
(* flushed is exactly the entries flushed_lsn_ + 1 .. current_lsn_, in     *)
(* order: neither a file change nor a failed write, after which flush()    *)
(* puts the entry back, loses, duplicates or reorders an entry.            *)
NothingLost ==
  Alive => LET pending == inflight \o entries IN
    /\ Len(pending) = current_lsn - flushed_lsn
    /\ \A i \in DOMAIN pending : pending[i].lsn = flushed_lsn + i

(* The readable part of the log holds the entries 1, 2, 3, ... in order,   *)
(* each in the file whose name covers its LSN, across file changes,        *)
(* failed opens, crashes and restarts from any checkpoint.                 *)
LogIsContiguous ==
  \A i \in 1..Readable :
    /\ disk[i].lsn = i
    /\ disk[i].file <= i /\ i <= disk[i].file + N - 1

(* The inductive invariant behind the properties below, for writes that    *)
(* fail without leaving a part of the entry (TornFaults = FALSE).          *)

(* The flush thread holds an entry exactly while it writes it. *)
InflightInv ==
  /\ fpc \in {"header", "payload", "written"} => Len(inflight) = 1
  /\ fpc \notin {"header", "payload", "written"} => inflight = <<>>

BufferInv ==
  Alive =>
    /\ current_lsn = flushed_lsn + Len(inflight) + Len(entries)
    /\ \A i \in 1..Len(inflight) : inflight[i].lsn = flushed_lsn + i
    /\ \A i \in 1..Len(entries) : entries[i].lsn = flushed_lsn + Len(inflight) + i

(* Only the last entry in the files may lack its payload. *)
DiskInv ==
  \A i \in 1..Len(disk) :
    /\ disk[i].lsn = i
    /\ disk[i].file <= i /\ i <= disk[i].file + N - 1
    /\ i < Len(disk) => disk[i].kind = "full"
    /\ disk[i].kind # "part"

Whole == IF disk = <<>> \/ disk[Len(disk)].kind = "full" THEN Len(disk) ELSE Len(disk) - 1

FlushedInv ==
  Alive => IF fpc \in {"payload", "written"}
           THEN /\ Len(disk) = flushed_lsn + 1
                /\ disk[Len(disk)].kind = IF fpc = "payload" THEN "head" ELSE "full"
           ELSE Len(disk) = flushed_lsn /\ Whole = Len(disk)

ModeInv ==
  /\ ~Alive => fpc = "none" /\ entries = <<>> /\ writer = NewWriter
  /\ ~Alive => \A a \in Appenders : cpc[a] = "idle"
  /\ Alive => fpc # "none"
  /\ rc = "LOG_FILE_FULL" => Alive

AckInv ==
  /\ \A lsn \in acked : 1 <= lsn /\ lsn <= Whole
  /\ \A a \in Appenders : cpc[a] \in {"appended", "wait", "check"} => clsn[a] >= 1

(* The largest of a set of files, if it has any, exists. *)
HasLast(files) == files = {} \/ \E m \in files : \A f \in files : f <= m

(* No file starts beyond the next LSN, and the open one is the last. *)
FileInv ==
  /\ HasLast(log_files) /\ HasLast(dir)
  /\ \A f \in dir : f <= Whole + 1
  /\ Alive => \A f \in log_files : f <= Whole + 1
  /\ writer.open => writer.file \in log_files /\ \A f \in log_files : f <= writer.file
  /\ fpc \in {"flush", "header", "payload", "written"} => writer.open
  /\ rc = "LOG_FILE_FULL" /\ fpc = "loop" =>
       writer.open /\ entries # <<>> /\ entries[1].lsn >= writer.file + N

(* After the flush thread ended only a late append fills the buffer. *)
ExitInv ==
  /\ mode = "stopped" => fpc = "exited"
  /\ fpc = "exited" => ~running
  /\ fpc = "exited" /\ ~late => entries = <<>>

IInv == /\ TypeOK /\ InflightInv /\ BufferInv /\ DiskInv /\ FlushedInv
        /\ ModeInv /\ AckInv /\ FileInv

(* A restarted handler never hands out an LSN that is already on disk, and *)
(* flushed_lsn_ never runs ahead of the disk.                              *)
LsnsAgree == Alive => flushed_lsn <= Readable /\ Readable <= current_lsn

(* An entry that wait_lsn reported flushed can be read back ever after,    *)
(* whatever crashes and restarts follow.                                   *)
AckedDurable == \A lsn \in acked : lsn \in 1..Readable

(* await_termination leaves nothing in the buffer when no append raced     *)
(* with stop(), i.e. passed the running_ test before stop() and pushed its *)
(* entry after it.                                                         *)
DrainedUnlessRaced == mode = "stopped" /\ ~late => Readable = current_lsn

(* Half-written entries are handled: a restart after a crash can always    *)
(* replay the log (the WARNING in LogFileWriter::write).                   *)
ReplaySucceeds == mode # "broken"

(* What append took in is kept, in order and once: on its way from the     *)
(* buffer to the files (NothingLost), in them (LogIsContiguous), in the    *)
(* counters that a restart sets again (LsnsAgree) and through stop()       *)
(* (DrainedUnlessRaced).                                                   *)
EntriesAreKept == NothingLost /\ LogIsContiguous /\ LsnsAgree /\ DrainedUnlessRaced

(* A thread that waits for its entry is answered, also across file         *)
(* changes, failed writes (finitely many) and stop().                      *)
WaitReturns == \A a \in Appenders : (cpc[a] = "wait") ~> (cpc[a] = "idle")

(* An appended entry gets to the disk unless the process ends first or the *)
(* entry came in after stop().                                             *)
EntriesGetFlushed ==
  \A lsn \in 1..MaxLsn :
    (Alive /\ current_lsn >= lsn) ~> (flushed_lsn >= lsn \/ ~Alive \/ late)

(* After stop() the flush thread empties the buffer and ends. *)
FlusherTerminates == (mode = "up" /\ ~running) ~> (fpc = "exited" \/ mode = "down")

(* The handler makes progress: entries get to the disk, waiters are        *)
(* answered, and the flush thread ends once it is told to.                 *)
LogMakesProgress == EntriesGetFlushed /\ WaitReturns /\ FlusherTerminates

(* The handler implements the abstract log of module Wal: its durable      *)
(* entries are the readable ones, its tail is current_lsn_ while it lives. *)
WalLog == INSTANCE Wal WITH
  tail <- IF Alive THEN current_lsn ELSE Readable, durable <- Readable

ImplementsWal == WalLog!Spec
=============================================================================
