--------------------------- MODULE DiskLogProofs ----------------------------
(***************************************************************************)
(* The inductive invariant IInv of module DiskLog holds in every reachable *)
(* state of the redo log when a failing write leaves nothing in the file   *)
(* (one lemma per action; the theorem Invariance puts them together), and  *)
(* what follows from it: the safety properties, and that DiskLog implements*)
(* Wal.                                                                    *)
(***************************************************************************)
EXTENDS DiskLog, TLAPS

(* Sequences: concatenation, taking the first entry, replacing one entry. *)
LEMMA ConcatFacts ==
  ASSUME NEW S, NEW s \in Seq(S), NEW t \in Seq(S)
  PROVE  /\ s \o t \in Seq(S)
         /\ Len(s \o t) = Len(s) + Len(t)
         /\ \A i \in 1..Len(s) + Len(t) :
              (s \o t)[i] = IF i <= Len(s) THEN s[i] ELSE t[i - Len(s)]
OBVIOUS

LEMMA HeadTailFacts ==
  ASSUME NEW S, NEW s \in Seq(S), s # <<>>
  PROVE  /\ Head(s) \in S /\ Head(s) = s[1]
         /\ Tail(s) \in Seq(S) /\ Len(Tail(s)) = Len(s) - 1
         /\ \A i \in 1..Len(Tail(s)) : Tail(s)[i] = s[i + 1]
OBVIOUS

LEMMA ExceptFacts ==
  ASSUME NEW S, NEW s \in Seq(S), NEW n \in 1..Len(s), NEW e \in S
  PROVE  /\ [s EXCEPT ![n] = e] \in Seq(S)
         /\ Len([s EXCEPT ![n] = e]) = Len(s)
         /\ \A i \in 1..Len(s) : [s EXCEPT ![n] = e][i] = IF i = n THEN e ELSE s[i]
OBVIOUS

(* LogFileManager::log_files_.rbegin() is the largest file. *)
LEMMA MaxIsLast ==
  ASSUME NEW S \in SUBSET Nat, S # {}, HasLast(S)
  PROVE  Max(S) \in S /\ \A f \in S : f <= Max(S)
BY Zenon DEF Max, HasLast

(* The entry the flush thread holds is the one after flushed_lsn_. *)
LEMMA HeldEntry ==
  ASSUME IInv, fpc \in {"header", "payload", "written"}
  PROVE  /\ Alive /\ writer.open
         /\ Len(inflight) = 1
         /\ inflight[1] \in Entry
         /\ inflight[1].lsn = flushed_lsn + 1
         /\ fpc = "header" => Len(disk) = flushed_lsn /\ Whole = Len(disk)
<1>1. Alive /\ writer.open
  BY Zenon DEF IInv, ModeInv, FileInv
<1>2. Len(inflight) = 1 /\ inflight \in Seq(Entry)
  BY Zenon DEF IInv, InflightInv, TypeOK
<1>3. inflight[1] \in Entry
  BY <1>2
<1>4. inflight[1].lsn = flushed_lsn + 1
  BY <1>1, <1>2 DEF IInv, BufferInv
<1>5. fpc = "header" => Len(disk) = flushed_lsn /\ Whole = Len(disk)
  BY <1>1, Zenon DEF IInv, FlushedInv
<1> QED BY <1>1, <1>2, <1>3, <1>4, <1>5, Zenon

(* A step that leaves the buffer, the files and the acknowledgements alone, *)
(* and the flush thread outside a write, keeps the parts about them.        *)
LEMMA FrameInv ==
  ASSUME IInv, UNCHANGED <<bufVars, fileVars, acked>>,
         mode' = mode \/ (Alive /\ Alive'),
         \/ UNCHANGED flushVars
         \/ /\ {fpc, fpc'} \subseteq {"loop", "flush", "exited"}
            /\ fpc' = "flush" => writer.open
            /\ rc' \in {rc, "SUCCESS"}
            /\ fpc' = "loop" => rc' = "SUCCESS"
  PROVE  InflightInv' /\ BufferInv' /\ DiskInv' /\ FlushedInv' /\ FileInv'
<1> USE DEF IInv, bufVars, fileVars, flushVars, Alive
<1>1. InflightInv'
  BY Zenon DEF InflightInv
<1>2. BufferInv'
  BY Zenon DEF BufferInv
<1>3. DiskInv'
  BY Zenon DEF DiskInv
<1>4. FlushedInv'
  BY Zenon DEF FlushedInv, Whole
<1>5. FileInv'
  BY DEF FileInv, Whole, HasLast
<1> QED BY <1>1, <1>2, <1>3, <1>4, <1>5, Zenon

(* The steps of an appender up to its push and of a waiter up to its test. *)
LEMMA AppenderQuietInv ==
  ASSUME IInv, NEW a \in Appenders,
         \/ \E s \in Sizes : AppendCheck(a, s)
         \/ AppendPass(a) \/ Return(a) \/ WaitBegin(a) \/ WaitExit(a)
  PROVE  IInv'
<1>1. /\ UNCHANGED <<mode, running, flushVars, bufVars, fileVars, clsn, histVars, faults>>
      /\ csize' = csize \/ \E s \in Sizes : csize' = [csize EXCEPT ![a] = s]
      /\ \E c \in {"throttle", "push", "idle", "wait", "check"} :
           /\ cpc' = [cpc EXCEPT ![a] = c]
           /\ c \in {"wait", "check"} => cpc[a] \in {"appended", "wait"}
      /\ Alive
  BY Zenon DEF AppendCheck, AppendPass, Return, WaitBegin, WaitExit, IInv, ModeInv, Alive
<1>2. TypeOK'
  <2>1. csize' \in [Appenders -> Sizes]
    BY <1>1, Zenon DEF IInv, TypeOK
  <2>2. cpc' \in [Appenders -> {"idle", "throttle", "push", "appended", "wait", "check"}]
    BY <1>1, Zenon DEF IInv, TypeOK
  <2> QED BY <1>1, <2>1, <2>2 DEF IInv, TypeOK, bufVars, fileVars, flushVars, histVars
<1>3. InflightInv' /\ BufferInv' /\ DiskInv' /\ FlushedInv' /\ FileInv'
  BY <1>1, FrameInv, Zenon DEF histVars
<1>4. ModeInv'
  BY <1>1, Zenon DEF IInv, ModeInv, Alive, flushVars
<1>5. AckInv'
  BY <1>1, Zenon DEF IInv, AckInv, TypeOK, Whole, histVars, fileVars
<1> QED BY <1>2, <1>3, <1>4, <1>5, Zenon DEF IInv

(* The steps of the flush thread between writes, and stopping. *)
LEMMA FlusherQuietInv ==
  ASSUME IInv,
         FlusherExit \/ FlusherEnter \/ FlushDone \/ Stop \/ AwaitTermination \/ UNCHANGED vars
  PROVE  IInv'
<1>1. /\ UNCHANGED <<bufVars, fileVars, clientVars, histVars, faults>>
      /\ mode' = mode \/ (mode' = "stopped" /\ Alive)
      /\ running' \in {running, FALSE}
      /\ \/ UNCHANGED flushVars
         \/ /\ fpc \in {"loop", "flush"} /\ fpc' \in {"loop", "flush", "exited"}
            /\ fpc' = "flush" => writer.open
            /\ rc' \in {rc, "SUCCESS"}
            /\ fpc' = "loop" => rc' = "SUCCESS"
  BY Zenon DEF FlusherExit, FlusherEnter, FlushDone, Stop, AwaitTermination, FlusherLoops, MustOpen,
         vars, flushVars, Alive
<1>2. TypeOK'
  <2>1. mode' \in {"up", "stopped", "down", "broken"}
    BY <1>1, Zenon DEF IInv, TypeOK
  <2>2. running' \in BOOLEAN
    BY <1>1, Zenon DEF IInv, TypeOK
  <2>3. /\ fpc' \in {"none", "loop", "flush", "header", "payload", "written", "exited"}
        /\ rc' \in {"SUCCESS", "LOG_FILE_FULL", "FILE_OPEN", "FAIL"}
    BY <1>1, Zenon DEF IInv, TypeOK, flushVars
  <2> QED BY <1>1, <2>1, <2>2, <2>3, Zenon DEF IInv, TypeOK, bufVars, fileVars, clientVars, histVars
<1>3. InflightInv' /\ BufferInv' /\ DiskInv' /\ FlushedInv' /\ FileInv'
  BY <1>1, FrameInv, Zenon DEF histVars, Alive
<1>4. ModeInv'
  BY <1>1, Zenon DEF IInv, ModeInv, Alive, flushVars, bufVars, fileVars, clientVars
<1>5. AckInv'
  BY <1>1, Zenon DEF IInv, AckInv, Whole, histVars, fileVars, clientVars
<1> QED BY <1>2, <1>3, <1>4, <1>5, Zenon DEF IInv

LEMMA AppendPushInv ==
  ASSUME IInv, NEW a \in Appenders, AppendPush(a)
  PROVE  IInv'
<1> DEFINE e == [lsn |-> current_lsn + 1, size |-> csize[a]]
<1> USE DEF AppendPush, fileVars, flushVars
<1>1. Alive /\ Alive'
  BY Zenon DEF IInv, ModeInv, Alive
<1>2. /\ entries \in Seq(Entry) /\ e \in Entry /\ csize[a] \in Sizes
      /\ current_lsn \in Nat /\ entries' = Append(entries, e)
  BY DEF IInv, TypeOK, Entry
<1>3. /\ Len(entries') = Len(entries) + 1
      /\ entries' \in Seq(Entry)
      /\ \A i \in 1..Len(entries) : entries'[i] = entries[i]
      /\ entries'[Len(entries) + 1] = e
  BY <1>2
<1>4. TypeOK'
  BY <1>2, <1>3, DiskLogAssumption DEF IInv, TypeOK
<1>5. InflightInv' /\ DiskInv' /\ FlushedInv'
  BY Zenon DEF IInv, InflightInv, DiskInv, FlushedInv, Alive, Whole
<1>6. BufferInv'
  <2>1. /\ current_lsn = flushed_lsn + Len(inflight) + Len(entries)
        /\ \A i \in 1..Len(inflight) : inflight[i].lsn = flushed_lsn + i
        /\ \A i \in 1..Len(entries) : entries[i].lsn = flushed_lsn + Len(inflight) + i
        /\ Len(entries) \in Nat /\ Len(inflight) \in Nat /\ flushed_lsn \in Nat
    <3>1. Len(entries) \in Nat /\ Len(inflight) \in Nat /\ flushed_lsn \in Nat
      <4>1. inflight \in Seq(Entry) /\ flushed_lsn \in Nat
        BY Zenon DEF IInv, TypeOK
      <4> QED BY ONLY <1>2, <4>1
    <3> QED BY <1>1, <3>1, Zenon DEF IInv, BufferInv
  <2>2. ASSUME NEW i \in 1..Len(entries')
        PROVE  entries'[i].lsn = flushed_lsn + Len(inflight) + i
    <3>1. CASE i \in 1..Len(entries)
      BY <1>3, <2>1, <3>1, Zenon
    <3>2. CASE i = Len(entries) + 1
      <4>1. entries'[i].lsn = current_lsn + 1
        BY <1>3, <3>2
      <4> QED BY <2>1, <3>2, <4>1
    <3>3. i \in 1..Len(entries) + 1
      BY <1>3, Zenon
    <3> QED BY ONLY <2>1, <3>1, <3>2, <3>3
  <2>3. current_lsn' = current_lsn + 1 /\ UNCHANGED <<inflight, flushed_lsn>>
    BY Zenon
  <2>4. current_lsn' = flushed_lsn + Len(inflight) + Len(entries')
    BY ONLY <1>3, <2>1, <2>3
  <2> QED BY ONLY <2>1, <2>2, <2>3, <2>4, Zenon DEF BufferInv
<1>7. ModeInv' /\ AckInv'
  BY <1>1, <1>2 DEF IInv, ModeInv, AckInv, TypeOK, Whole, Alive
<1>8. FileInv'
  <2>1. FileInv /\ UNCHANGED <<disk, dir, log_files, writer, fpc, rc>>
    BY Zenon DEF IInv
  <2>2. Whole' = Whole
    BY <2>1, Zenon DEF Whole
  <2>3. entries # <<>> => entries' # <<>> /\ entries'[1] = entries[1]
    BY ONLY <1>2, <1>3
  <2> QED BY ONLY <1>1, <2>1, <2>2, <2>3, Zenon DEF FileInv, HasLast
<1> QED BY <1>4, <1>5, <1>6, <1>7, <1>8, Zenon DEF IInv

LEMMA WaitCheckInv ==
  ASSUME IInv, NEW a \in Appenders, WaitCheck(a)
  PROVE  IInv'
<1> USE DEF WaitCheck, fileVars, flushVars, bufVars
<1>1. Alive /\ clsn[a] \in Nat /\ clsn[a] >= 1
  BY Zenon DEF IInv, ModeInv, AckInv, TypeOK
<1>2. flushed_lsn <= Whole /\ Whole \in Nat /\ flushed_lsn \in Nat
  BY <1>1 DEF IInv, FlushedInv, Whole, TypeOK
<1>3. acked' \subseteq Nat /\ \A lsn \in acked' : 1 <= lsn /\ lsn <= Whole
  <2>1. acked \subseteq Nat /\ \A lsn \in acked : 1 <= lsn /\ lsn <= Whole
    BY Zenon DEF IInv, AckInv, TypeOK
  <2>2. CASE flushed_lsn >= clsn[a]
    <3>1. acked' = acked \union {clsn[a]}
      BY <2>2, Zenon
    <3>2. clsn[a] <= Whole
      BY <1>1, <1>2, <2>2
    <3> HIDE DEF WaitCheck
    <3> QED BY <1>1, <2>1, <3>1, <3>2, Zenon
  <2>3. CASE ~(flushed_lsn >= clsn[a])
    BY <2>1, <2>3, Zenon
  <2> QED BY <2>2, <2>3, Zenon
<1>4. TypeOK'
  BY <1>3 DEF IInv, TypeOK
<1>5. AckInv'
  BY <1>3, Zenon DEF IInv, AckInv, Whole, TypeOK
<1>6. InflightInv' /\ DiskInv' /\ FlushedInv' /\ BufferInv' /\ ModeInv' /\ FileInv'
  BY Zenon DEF IInv, TypeOK, InflightInv, DiskInv, FlushedInv, BufferInv, ModeInv, FileInv, Whole, Alive, HasLast
<1> QED BY <1>4, <1>5, <1>6, Zenon DEF IInv

(* Opening the last file, or the next one when the last one is full. *)
LEMMA FileToOpenIsLast ==
  ASSUME IInv, FlusherLoops, MustOpen
  PROVE  /\ Alive /\ FileToOpen \in Nat
         /\ FileToOpen <= Whole + 1
         /\ \A f \in log_files : f <= FileToOpen
         /\ \A f \in dir \union {FileToOpen} : f <= Whole + 1
         /\ HasLast(log_files \union {FileToOpen})
         /\ HasLast(dir \union {FileToOpen})
<1>1. /\ Alive /\ log_files \in SUBSET Nat /\ dir \in SUBSET Nat
      /\ HasLast(log_files) /\ HasLast(dir) /\ N \in Nat \ {0} /\ Whole \in Nat
  BY DiskLogAssumption DEF IInv, ModeInv, FlusherLoops, FileInv, TypeOK, Whole
<1>2. CASE log_files = {}
  <2>1. FileToOpen = 0
    BY <1>2, Zenon DEF FileToOpen
  <2>2. HasLast(dir \union {0})
    BY <1>1 DEF HasLast
  <2> QED BY <1>1, <1>2, <2>1, <2>2 DEF HasLast, IInv, FileInv
<1>3. CASE log_files # {}
  <2>1. /\ LastFile \in log_files /\ \A f \in log_files : f <= LastFile
        /\ LastFile \in Nat
    BY <1>1, <1>3, MaxIsLast, Zenon DEF LastFile
  <2>2. CASE rc = "LOG_FILE_FULL"
    <3>1. /\ writer.file = LastFile /\ entries # <<>>
          /\ entries[1].lsn >= writer.file + N
      BY <2>1, <2>2, <1>1 DEF IInv, FileInv, FlusherLoops, TypeOK
    <3>2. entries[1].lsn = flushed_lsn + 1 /\ Whole = flushed_lsn
      BY <1>1, <3>1 DEF IInv, BufferInv, FlushedInv, InflightInv, FlusherLoops, TypeOK
    <3>3. FileToOpen = LastFile + N
      BY <1>3, <2>2, Zenon DEF FileToOpen
    <3>4. FileToOpen <= Whole + 1 /\ FileToOpen \in Nat /\ LastFile <= FileToOpen
      BY <1>1, <2>1, <3>1, <3>2, <3>3
    <3>5. \A f \in log_files : f <= FileToOpen
      BY <1>1, <2>1, <3>4
    <3>6. \A f \in dir : f <= Whole + 1
      BY Zenon DEF IInv, FileInv
    <3> QED BY <1>1, <3>4, <3>5, <3>6 DEF HasLast
  <2>3. CASE rc # "LOG_FILE_FULL"
    <3>1. FileToOpen = LastFile
      BY <1>3, <2>3, Zenon DEF FileToOpen
    <3>2. LastFile <= Whole + 1
      BY <1>1, <2>1, Zenon DEF IInv, FileInv
    <3> QED BY <1>1, <2>1, <3>1, <3>2 DEF HasLast, IInv, FileInv
  <2> QED BY <2>2, <2>3, Zenon
<1> QED BY <1>2, <1>3, Zenon

LEMMA FlusherOpenInv ==
  ASSUME IInv, FlusherOpen \/ FlusherOpenFails
  PROVE  IInv'
<1>1. FlusherLoops /\ MustOpen
  BY Zenon DEF FlusherOpen, FlusherOpenFails
<1> DEFINE F == FileToOpen
<1>2. /\ Alive /\ F \in Nat /\ F <= Whole + 1
      /\ \A f \in log_files : f <= F
      /\ \A f \in dir \union {F} : f <= Whole + 1
      /\ HasLast(log_files \union {F}) /\ HasLast(dir \union {F})
  BY <1>1, FileToOpenIsLast, Zenon
<1> HIDE DEF F
<1>3. /\ log_files' = log_files \union {F} /\ dir' \in {dir, dir \union {F}}
      /\ \/ writer' = [writer EXCEPT !.open = TRUE, !.file = F] /\ rc' = "SUCCESS" /\ fpc' = "flush"
         \/ writer' = [writer EXCEPT !.open = FALSE] /\ rc' = "FILE_OPEN" /\ fpc' = "loop"
      /\ fpc = "loop" /\ faults' \in {faults, faults + 1}
      /\ UNCHANGED <<mode, running, bufVars, disk, clientVars, histVars>>
  BY <1>1, Zenon DEF FlusherOpen, FlusherOpenFails, F, FlusherLoops
<1> USE DEF bufVars, clientVars, histVars
<1>4. TypeOK'
  <2>1. writer' \in [open : BOOLEAN, file : Nat, last : Nat]
    BY <1>2, <1>3, Zenon DEF IInv, TypeOK
  <2>2. log_files' \subseteq Nat /\ dir' \subseteq Nat /\ faults' \in Nat
    BY <1>2, <1>3 DEF IInv, TypeOK
  <2>3. TypeOK
    BY Zenon DEF IInv
  <2> QED BY ONLY <1>3, <2>1, <2>2, <2>3, Zenon DEF TypeOK, bufVars, clientVars, histVars
<1>5. InflightInv' /\ BufferInv' /\ DiskInv' /\ FlushedInv' /\ ModeInv' /\ AckInv'
  <2>1. InflightInv' /\ BufferInv'
    BY <1>2, <1>3, Zenon DEF IInv, InflightInv, BufferInv, Alive
  <2>2. DiskInv' /\ FlushedInv'
    BY <1>2, <1>3, Zenon DEF IInv, DiskInv, FlushedInv, Alive, Whole
  <2>3. ModeInv'
    BY <1>2, <1>3, Zenon DEF IInv, ModeInv, Alive
  <2>4. AckInv'
    <3>1. AckInv /\ UNCHANGED <<disk, acked, cpc, clsn>>
      BY <1>3, Zenon DEF IInv
    <3> QED BY ONLY <3>1, Zenon DEF AckInv, Whole
  <2> QED BY ONLY <2>1, <2>2, <2>3, <2>4, Zenon
<1>6. FileInv'
  <2>1. Whole' = Whole /\ Whole \in Nat
    BY <1>3 DEF Whole, IInv, TypeOK
  <2>2. HasLast(log_files)' /\ HasLast(dir)'
    BY <1>2, <1>3, Zenon DEF HasLast, IInv, FileInv
  <2>3. \A f \in log_files' : f <= Whole + 1
    BY <1>2, <1>3, Zenon DEF IInv, FileInv
  <2>4. \A f \in dir' : f <= Whole + 1
    BY <1>2, <1>3, Zenon
  <2>5. writer'.open => writer'.file = F
    BY <1>3, Zenon DEF IInv, TypeOK
  <2>6. writer'.open => writer'.file \in log_files' /\ \A f \in log_files' : f <= writer'.file
    BY <1>2, <1>3, <2>5
  <2>7. fpc' = "flush" => writer'.open
    BY <1>3, Zenon DEF IInv, TypeOK
  <2> QED BY <1>3, <2>1, <2>2, <2>3, <2>4, <2>6, <2>7 DEF FileInv
<1> QED BY <1>4, <1>5, <1>6, Zenon DEF IInv

LEMMA FlushPopInv ==
  ASSUME IInv, FlushPop
  PROVE  IInv'
<1> USE DEF FlushPop, fileVars, clientVars, histVars
<1>1. /\ entries \in Seq(Entry) /\ entries # <<>> /\ inflight = <<>>
      /\ Alive /\ flushed_lsn \in Nat
  BY Zenon DEF IInv, TypeOK, InflightInv, ModeInv
<1>2. /\ Head(entries) \in Entry /\ Head(entries) = entries[1]
      /\ entries' \in Seq(Entry)
      /\ Len(entries') = Len(entries) - 1 /\ Len(entries) \in Nat
      /\ \A i \in 1..Len(entries') : entries'[i] = entries[i + 1]
  BY <1>1, HeadTailFacts
<1>3. inflight' \in Seq(Entry) /\ Len(inflight') = 1 /\ inflight'[1] = entries[1]
  BY <1>2
<1>4. TypeOK'
  <2>1. bytes' \in Int
    BY <1>2, DiskLogAssumption DEF IInv, TypeOK, Entry
  <2> QED BY <1>2, <1>3, <2>1 DEF IInv, TypeOK
<1>5. InflightInv'
  BY <1>3, Zenon DEF InflightInv
<1>6. BufferInv'
  <2>1. /\ current_lsn = flushed_lsn + Len(entries)
        /\ \A i \in 1..Len(entries) : entries[i].lsn = flushed_lsn + i
    BY <1>1 DEF IInv, BufferInv
  <2>2. current_lsn = flushed_lsn + Len(inflight') + Len(entries')
    BY <1>1, <1>2, <1>3, <2>1
  <2>3. \A i \in 1..Len(inflight') : inflight'[i].lsn = flushed_lsn + i
    BY <1>1, <1>2, <1>3, <2>1
  <2>4. \A i \in 1..Len(entries') : entries'[i].lsn = flushed_lsn + Len(inflight') + i
    BY <1>1, <1>2, <1>3, <2>1
  <2> QED BY <2>2, <2>3, <2>4, Zenon DEF BufferInv
<1>7. DiskInv' /\ FlushedInv' /\ ModeInv' /\ AckInv'
  BY Zenon DEF IInv, DiskInv, FlushedInv, ModeInv, AckInv, Whole, Alive
<1>8. FileInv'
  BY Zenon DEF IInv, FileInv, Whole, Alive, HasLast
<1> QED BY <1>4, <1>5, <1>6, <1>7, <1>8, Zenon DEF IInv

(* A failed write leaves the buffer as it was before the entry was taken. *)
LEMMA PutBackInv ==
  ASSUME IInv, fpc = "header", NEW code, PutBack(code)
  PROVE  /\ entries' \in Seq(Entry) /\ entries' # <<>> /\ inflight' = <<>>
         /\ entries'[1] = inflight[1]
         /\ current_lsn = flushed_lsn + Len(entries')
         /\ \A i \in 1..Len(entries') : entries'[i].lsn = flushed_lsn + i
<1> USE DEF PutBack
<1>1. /\ inflight \in Seq(Entry) /\ entries \in Seq(Entry) /\ Len(inflight) = 1
      /\ flushed_lsn \in Nat /\ inflight[1].lsn = flushed_lsn + 1 /\ Alive
      /\ current_lsn = flushed_lsn + 1 + Len(entries)
      /\ \A i \in 1..Len(entries) : entries[i].lsn = flushed_lsn + 1 + i
      /\ Len(entries) \in Nat
  <2>1. Alive /\ Len(inflight) = 1 /\ inflight[1].lsn = flushed_lsn + 1
    BY HeldEntry, Zenon
  <2>2. inflight \in Seq(Entry) /\ entries \in Seq(Entry) /\ flushed_lsn \in Nat
    BY Zenon DEF IInv, TypeOK
  <2>3. BufferInv
    BY Zenon DEF IInv
  <2>4. Len(entries) \in Nat
    BY <2>2
  <2> QED BY ONLY <2>1, <2>2, <2>3, <2>4, Zenon DEF BufferInv
<1>2. /\ entries' \in Seq(Entry)
      /\ Len(entries') = 1 + Len(entries)
      /\ \A i \in 1..1 + Len(entries) :
           entries'[i] = IF i <= 1 THEN inflight[i] ELSE entries[i - 1]
  <2>1. /\ inflight \o entries \in Seq(Entry)
        /\ Len(inflight \o entries) = Len(inflight) + Len(entries)
        /\ \A i \in 1..Len(inflight) + Len(entries) : (inflight \o entries)[i] =
             IF i <= Len(inflight) THEN inflight[i] ELSE entries[i - Len(inflight)]
    <3> HIDE DEF PutBack
    <3>1. inflight \in Seq(Entry) /\ entries \in Seq(Entry)
      BY <1>1, Zenon
    <3> QED BY ONLY <3>1, ConcatFacts, Zenon
  <2> QED BY <1>1, <2>1, Zenon
<1>3. entries' # <<>> /\ entries'[1] = inflight[1]
  BY <1>1, <1>2
<1>4. ASSUME NEW i \in 1..Len(entries') PROVE entries'[i].lsn = flushed_lsn + i
  <2>1. CASE i = 1
    BY <1>1, <1>3, <2>1, Zenon
  <2>2. CASE i # 1
    <3>1. i - 1 \in 1..Len(entries) /\ entries'[i] = entries[i - 1]
      BY <1>1, <1>2, <2>2
    <3> QED BY <1>1, <3>1
  <2> QED BY <2>1, <2>2, Zenon
<1> QED BY <1>1, <1>2, <1>3, <1>4

LEMMA WriteRefusedInv ==
  ASSUME ~TornFaults, IInv, WriteFull \/ WriteHeaderFails
  PROVE  IInv'
<1>1. /\ fpc = "header" /\ fpc' = "loop" /\ inflight' = <<>>
      /\ UNCHANGED <<mode, running, fileVars, clientVars, histVars, bytes, current_lsn, flushed_lsn>>
      /\ faults' \in {faults, faults + 1}
      /\ \E code \in {"LOG_FILE_FULL", "FAIL"} :
           /\ PutBack(code) /\ rc' = code
           /\ code = "LOG_FILE_FULL" => inflight[1].lsn > EndLsn
  BY Zenon DEF WriteFull, WriteHeaderFails, PutBack, fileVars
<1>2. /\ entries' \in Seq(Entry) /\ entries' # <<>>
      /\ entries'[1] = inflight[1]
      /\ current_lsn = flushed_lsn + Len(entries')
      /\ \A i \in 1..Len(entries') : entries'[i].lsn = flushed_lsn + i
  BY <1>1, PutBackInv, Zenon
<1>3. /\ Alive /\ Alive' /\ writer.open /\ Len(disk) = flushed_lsn /\ Whole = Len(disk)
      /\ inflight[1] \in Entry /\ Whole' = Whole
  BY <1>1, HeldEntry, Zenon DEF Alive, Whole, fileVars
<1> USE DEF fileVars, clientVars, histVars
<1>4. TypeOK'
  <2>1. TypeOK /\ UNCHANGED <<mode, running, fileVars, clientVars, histVars>>
    BY <1>1, Zenon DEF IInv
  <2>2. inflight' \in Seq(Entry) /\ faults' \in Nat /\ fpc' = "loop"
        /\ rc' \in {"LOG_FILE_FULL", "FAIL"} /\ UNCHANGED <<bytes, current_lsn, flushed_lsn>>
    BY <1>1 DEF IInv, TypeOK
  <2> QED BY ONLY <1>2, <2>1, <2>2, ZenonT(30) DEF TypeOK, fileVars, clientVars, histVars
<1>5. InflightInv' /\ FlushedInv' /\ DiskInv'
  BY <1>1, <1>3, Zenon DEF IInv, InflightInv, FlushedInv, DiskInv
<1>6. BufferInv'
  BY <1>1, <1>2 DEF BufferInv, IInv, TypeOK
<1>7. ModeInv' /\ AckInv'
  BY <1>1, <1>3, Zenon DEF IInv, ModeInv, AckInv
<1>8. FileInv'
  <2>1. rc' = "LOG_FILE_FULL" => entries'[1].lsn >= writer.file + N
    <3>1. writer.file \in Nat /\ N \in Nat /\ inflight[1].lsn \in Nat
      BY <1>3, DiskLogAssumption, Zenon DEF IInv, TypeOK, Entry
    <3>2. rc' = "LOG_FILE_FULL" => inflight[1].lsn > EndLsn
      BY ONLY <1>1, Zenon
    <3> QED BY ONLY <1>2, <3>1, <3>2 DEF EndLsn
  <2>2. FileInv /\ UNCHANGED <<dir, log_files, writer>> /\ fpc' = "loop"
    BY <1>1, Zenon DEF IInv
  <2> QED BY ONLY <1>2, <1>3, <2>1, <2>2 DEF FileInv, HasLast
<1> QED BY <1>4, <1>5, <1>6, <1>7, <1>8, Zenon DEF IInv

LEMMA WriteHeaderInv ==
  ASSUME IInv, WriteHeader
  PROVE  IInv'
<1> DEFINE r == OnDisk("head")
<1> USE DEF WriteHeader, bufVars, clientVars, histVars
<1>1. /\ Alive /\ writer.open /\ Len(inflight) = 1
      /\ inflight[1] \in Entry /\ inflight[1].lsn = flushed_lsn + 1
      /\ Len(disk) = flushed_lsn /\ Whole = Len(disk)
  BY HeldEntry, Zenon
<1>2. /\ disk \in Seq(Record) /\ flushed_lsn \in Nat /\ writer.file \in Nat
      /\ writer.file \in log_files /\ N \in Nat \ {0}
  BY <1>1, DiskLogAssumption DEF IInv, TypeOK, FileInv
<1>3. /\ r \in Record /\ r.lsn = Len(disk) + 1 /\ r.kind = "head"
      /\ r.file = writer.file /\ r.file <= r.lsn /\ r.lsn <= r.file + N - 1
  BY <1>1, <1>2 DEF OnDisk, Record, Kinds, Entry, IInv, FileInv, EndLsn
<1>4. /\ disk' \in Seq(Record) /\ Len(disk') = Len(disk) + 1
      /\ \A i \in 1..Len(disk) : disk'[i] = disk[i]
      /\ disk'[Len(disk) + 1] = r /\ Len(disk) \in Nat
  BY <1>2, <1>3
<1> HIDE DEF r
<1>5. Whole' = Whole
  BY <1>1, <1>3, <1>4 DEF Whole
<1>6. TypeOK'
  <2>1. TypeOK /\ fpc' = "payload" /\ disk' \in Seq(Record)
        /\ UNCHANGED <<mode, running, entries, inflight, bytes, current_lsn, flushed_lsn,
                      dir, log_files, writer, rc, cpc, clsn, csize, acked, late, faults>>
    BY <1>4, Zenon DEF IInv
  <2> QED BY ONLY <2>1 DEF TypeOK
<1>7. DiskInv'
  <2> SUFFICES ASSUME NEW i \in 1..Len(disk')
               PROVE  /\ disk'[i].lsn = i
                      /\ disk'[i].file <= i /\ i <= disk'[i].file + N - 1
                      /\ i < Len(disk') => disk'[i].kind = "full"
                      /\ disk'[i].kind # "part"
    BY Zenon DEF DiskInv
  <2>1. CASE i = Len(disk) + 1
    BY <1>3, <1>4, <2>1
  <2>2. CASE i \in 1..Len(disk)
    <3>1. disk[i].kind = "full"
      BY <1>1, <1>4, <2>2 DEF Whole, IInv, DiskInv
    <3> QED BY <1>4, <2>2, <3>1, Zenon DEF IInv, DiskInv
  <2>3. i = Len(disk) + 1 \/ i \in 1..Len(disk)
    BY ONLY <1>4, SMTT(30)
  <2> QED BY ONLY <2>1, <2>2, <2>3, Zenon
<1>8. FlushedInv'
  BY <1>1, <1>3, <1>4, Zenon DEF FlushedInv
<1>9. InflightInv' /\ BufferInv' /\ ModeInv'
  BY <1>1, Zenon DEF IInv, InflightInv, BufferInv, ModeInv, Alive
<1>10. AckInv' /\ FileInv'
  BY <1>1, <1>5, Zenon DEF IInv, AckInv, FileInv, Alive, HasLast
<1> QED BY <1>6, <1>7, <1>8, <1>9, <1>10, SMTT(30) DEF IInv

LEMMA WritePayloadInv ==
  ASSUME IInv, WritePayload
  PROVE  IInv'
<1> USE DEF WritePayload, bufVars, clientVars, histVars
<1>1. /\ Alive /\ writer.open /\ Len(inflight) = 1 /\ inflight[1] \in Entry
  BY HeldEntry, Zenon
<1>2. /\ disk \in Seq(Record) /\ flushed_lsn \in Nat
      /\ Len(disk) = flushed_lsn + 1 /\ disk[Len(disk)].kind = "head"
      /\ disk[Len(disk)] \in Record
  <2>1. disk \in Seq(Record) /\ flushed_lsn \in Nat
    BY Zenon DEF IInv, TypeOK
  <2>2. Len(disk) = flushed_lsn + 1 /\ disk[Len(disk)].kind = "head"
    BY <1>1, Zenon DEF IInv, FlushedInv
  <2> QED BY <2>1, <2>2
<1> DEFINE L == Len(disk)
           r == [disk[L] EXCEPT !.kind = "full"]
<1>3. /\ r \in Record /\ r.kind = "full" /\ r.lsn = disk[L].lsn /\ r.file = disk[L].file
  BY <1>2, Zenon DEF Record, Kinds
<1>4. L \in 1..Len(disk) /\ disk' = [disk EXCEPT ![L] = r]
  BY <1>2
<1>5. /\ disk' \in Seq(Record) /\ Len(disk') = L
      /\ \A i \in 1..L : disk'[i] = IF i = L THEN r ELSE disk[i]
  BY <1>2, <1>3, <1>4, ExceptFacts
<1> HIDE DEF r
<1>6. Whole' = L /\ Whole = L - 1
  BY ONLY <1>2, <1>3, <1>4, <1>5 DEF Whole
<1>7. TypeOK'
  <2>1. writer' \in [open : BOOLEAN, file : Nat, last : Nat]
    BY <1>1, Zenon DEF IInv, TypeOK, Entry
  <2>2. TypeOK /\ fpc' = "written" /\ disk' \in Seq(Record)
        /\ UNCHANGED <<mode, running, entries, inflight, bytes, current_lsn, flushed_lsn,
                      dir, log_files, rc, cpc, clsn, csize, acked, late, faults>>
    BY <1>5, Zenon DEF IInv
  <2> QED BY ONLY <2>1, <2>2, Zenon DEF TypeOK
<1>8. DiskInv'
  <2> SUFFICES ASSUME NEW i \in 1..L
               PROVE  /\ disk'[i].lsn = i
                      /\ disk'[i].file <= i /\ i <= disk'[i].file + N - 1
                      /\ i < L => disk'[i].kind = "full"
                      /\ disk'[i].kind # "part"
    BY <1>5, Zenon DEF DiskInv
  <2>1. /\ disk[i].lsn = i /\ disk[i].file <= i /\ i <= disk[i].file + N - 1
        /\ i < L => disk[i].kind = "full"
        /\ disk[i].kind # "part"
    BY Zenon DEF IInv, DiskInv
  <2> QED BY <1>3, <1>5, <2>1, Zenon
<1>9. FlushedInv'
  BY <1>2, <1>3, <1>4, <1>5, Zenon DEF FlushedInv
<1>10. InflightInv' /\ BufferInv' /\ ModeInv'
  <2>1. BufferInv /\ ModeInv /\ fpc' = "written"
        /\ UNCHANGED <<mode, entries, inflight, current_lsn, flushed_lsn, rc, cpc>>
    BY Zenon DEF IInv
  <2> QED BY ONLY <1>1, <2>1, Zenon DEF InflightInv, BufferInv, ModeInv, Alive
<1>11. AckInv'
  <2>1. AckInv /\ acked \subseteq Nat /\ UNCHANGED <<acked, cpc, clsn>>
    BY Zenon DEF IInv, TypeOK
  <2> QED BY ONLY <1>2, <1>6, <2>1 DEF AckInv
<1>12. FileInv'
  <2>1. writer'.open = writer.open /\ writer'.file = writer.file
    BY Zenon DEF IInv, TypeOK
  <2>2. \A f \in log_files \union dir : f \in Nat /\ f <= L + 1
    <3>1. FileInv /\ log_files \subseteq Nat /\ dir \subseteq Nat
      BY Zenon DEF IInv, TypeOK
    <3> QED BY ONLY <1>1, <1>2, <1>6, <3>1 DEF FileInv
  <2>3. FileInv /\ L \in Nat /\ UNCHANGED <<dir, log_files, rc, entries>> /\ fpc' = "written"
    BY <1>2 DEF IInv
  <2> QED BY ONLY <1>1, <1>6, <2>1, <2>2, <2>3 DEF FileInv, HasLast
<1> QED BY <1>7, <1>8, <1>9, <1>10, <1>11, <1>12, Zenon DEF IInv

LEMMA FlushAdvanceInv ==
  ASSUME IInv, FlushAdvance
  PROVE  IInv'
<1> USE DEF FlushAdvance, fileVars, clientVars, histVars
<1>1. /\ Alive /\ writer.open /\ Len(inflight) = 1 /\ inflight[1].lsn = flushed_lsn + 1
  BY HeldEntry, Zenon
<1>2. flushed_lsn \in Nat /\ flushed_lsn' = flushed_lsn + 1 /\ inflight' = <<>>
  BY <1>1, Zenon DEF IInv, TypeOK
<1>3. Len(disk) = flushed_lsn + 1 /\ disk[Len(disk)].kind = "full"
  BY <1>1, Zenon DEF IInv, FlushedInv
<1>4. TypeOK'
  BY <1>2 DEF IInv, TypeOK
<1>5. InflightInv'
  BY <1>2, Zenon DEF InflightInv
<1>6. BufferInv'
  BY <1>1, <1>2 DEF IInv, BufferInv, TypeOK
<1>7. FlushedInv'
  BY <1>2, <1>3, Zenon DEF FlushedInv, Whole
<1>8. DiskInv' /\ ModeInv' /\ AckInv'
  BY Zenon DEF IInv, DiskInv, ModeInv, AckInv, Whole, Alive
<1>9. FileInv'
  BY <1>1, Zenon DEF IInv, FileInv, Whole, Alive, HasLast
<1> QED BY <1>4, <1>5, <1>6, <1>7, <1>8, <1>9, Zenon DEF IInv

LEMMA CrashInv ==
  ASSUME ~TornFaults, IInv, Crash
  PROVE  IInv'
<1> USE DEF Crash, NewWriter
<1>1. disk' = disk /\ ~Alive'
  BY Zenon DEF Alive
<1>2. TypeOK'
  <2>1. /\ cpc' \in [Appenders -> {"idle", "throttle", "push", "appended", "wait", "check"}]
        /\ clsn' \in [Appenders -> Nat]
    BY Zenon
  <2>2. writer' \in [open : BOOLEAN, file : Nat, last : Nat]
    BY Zenon
  <2>3. entries' \in Seq(Entry) /\ inflight' \in Seq(Entry)
    OBVIOUS
  <2>4. fpc' = "none" /\ rc' = "SUCCESS" /\ mode' = "down" /\ running' \in BOOLEAN /\ late' \in BOOLEAN
    BY Zenon
  <2>5. current_lsn' = 0 /\ flushed_lsn' = 0 /\ bytes' = 0 /\ log_files' = {}
    BY Zenon
  <2>6. UNCHANGED <<dir, csize, acked, faults>>
    BY Zenon
  <2> HIDE DEF Crash
  <2>7. TypeOK
    BY Zenon DEF IInv
  <2> QED BY ONLY <1>1, <2>1, <2>2, <2>3, <2>4, <2>5, <2>6, <2>7 DEF TypeOK
<1>3. InflightInv' /\ BufferInv' /\ DiskInv' /\ FlushedInv' /\ ModeInv'
  <2>1. DiskInv' /\ FlushedInv' /\ BufferInv'
    BY <1>1, Zenon DEF IInv, BufferInv, DiskInv, FlushedInv
  <2>2. InflightInv'
    BY Zenon DEF InflightInv
  <2>3. ModeInv'
    BY <1>1, Zenon DEF ModeInv
  <2> QED BY ONLY <2>1, <2>2, <2>3, Zenon
<1>4. AckInv' /\ FileInv'
  <2>1. AckInv'
    BY <1>1, Zenon DEF IInv, AckInv, Whole
  <2>2. FileInv'
    BY <1>1, Zenon DEF IInv, FileInv, Whole, HasLast
  <2> QED BY ONLY <2>1, <2>2, Zenon
<1> QED BY <1>2, <1>3, <1>4, Zenon DEF IInv

(* What is readable is everything but an unfinished last entry. *)
LEMMA ReadableIsWhole ==
  ASSUME IInv
  PROVE  /\ Readable = Whole /\ Whole \in Nat
         /\ ReplayOk => Whole = Len(disk)
<1>1. disk \in Seq(Record) /\ Len(disk) \in Nat /\ DOMAIN disk = 1..Len(disk)
  BY DEF IInv, TypeOK
<1>2. Torn = {i \in 1..Len(disk) : disk[i].kind # "full"}
  BY <1>1, Zenon DEF Torn
<1>3. \A i \in 1..Len(disk) : i < Len(disk) => disk[i].kind = "full"
  BY Zenon DEF IInv, DiskInv
<1>4. CASE disk = <<>> \/ disk[Len(disk)].kind = "full"
  <2>1. Torn = {}
    BY <1>1, <1>2, <1>3, <1>4
  <2> QED BY <1>1, <1>4, <2>1, Zenon DEF Readable, Whole
<1>5. CASE ~(disk = <<>> \/ disk[Len(disk)].kind = "full")
  <2>1. Len(disk) \in 1..Len(disk)
    BY <1>1, <1>5
  <2>2. Torn = {Len(disk)}
    BY <1>1, <1>2, <1>3, <1>5, <2>1
  <2>3. Min(Torn) = Len(disk)
    BY <1>1, <2>2 DEF Min
  <2>4. Readable = Len(disk) - 1 /\ Whole = Len(disk) - 1
    BY <1>5, <2>2, <2>3, Zenon DEF Readable, Whole
  <2>5. ~ReplayOk
    BY <2>1, <2>2, Zenon DEF ReplayOk, IInv, DiskInv
  <2> QED BY <2>1, <2>4, <2>5
<1> QED BY <1>4, <1>5, Zenon

(* Replay from any checkpoint finds the last LSN in the files. *)
LEMMA ReplayFindsLast ==
  ASSUME IInv, ReplayOk, NEW start \in {0} \union acked
  PROVE  ReplayedMaxLsn(start) = Len(disk)
<1>1. /\ Readable = Len(disk) /\ Len(disk) \in Nat /\ start \in Nat /\ start <= Len(disk)
  BY ReadableIsWhole DEF IInv, AckInv, TypeOK
<1> DEFINE S == {disk[i].lsn : i \in Replayed(start)} \union {0}
<1>2. \A i \in Replayed(start) : i \in 1..Len(disk) /\ disk[i].lsn = i
  BY <1>1, Zenon DEF Replayed, IInv, DiskInv
<1>3. Len(disk) # 0 => Len(disk) \in Replayed(start) /\ disk[Len(disk)].lsn = Len(disk)
  <2> SUFFICES ASSUME Len(disk) # 0 PROVE Len(disk) \in Replayed(start) /\ disk[Len(disk)].lsn = Len(disk)
    BY Zenon
  <2>1. /\ Len(disk) \in 1..Len(disk) /\ disk[Len(disk)].lsn = Len(disk)
        /\ Len(disk) <= disk[Len(disk)].file + N - 1 /\ disk[Len(disk)] \in Record
    BY <1>1 DEF IInv, DiskInv, TypeOK
  <2> QED BY <1>1, <2>1, DiskLogAssumption DEF Replayed, Record
<1>4. Len(disk) \in S /\ \A x \in S : x \in Nat /\ x <= Len(disk)
  BY <1>1, <1>2, <1>3
<1>5. Max(S) = Len(disk)
  BY <1>1, <1>4 DEF Max
<1> QED BY <1>5, Zenon DEF ReplayedMaxLsn

LEMMA RestartInv ==
  ASSUME IInv, NEW start \in {0} \union acked, Restart(start)
  PROVE  IInv'
<1> USE DEF Restart, clientVars, histVars
<1>1. /\ ~Alive /\ fpc = "none" /\ entries = <<>> /\ inflight = <<>> /\ writer = NewWriter
      /\ rc # "LOG_FILE_FULL" /\ Len(disk) \in Nat
  BY DEF IInv, ModeInv, InflightInv, Alive, TypeOK
<1>2. CASE ReplayOk
  <2>1. /\ mode' = "up" /\ Alive' /\ running' = TRUE /\ fpc' = "loop"
        /\ current_lsn' = Len(disk) /\ flushed_lsn' = Len(disk)
        /\ log_files' = dir
    BY <1>2, ReplayFindsLast, Zenon DEF Alive
  <2>2. Whole' = Whole /\ Whole = Len(disk)
    BY <1>2, ReadableIsWhole, Zenon DEF Whole
  <2>3. TypeOK'
    <3>1. TypeOK /\ UNCHANGED <<bytes, dir, disk, entries, inflight, writer, rc, cpc, clsn, csize,
                               acked, late, faults>>
      BY <1>2, Zenon DEF IInv
    <3>2. dir \subseteq Nat
      BY Zenon DEF IInv, TypeOK
    <3> QED BY ONLY <1>1, <2>1, <3>1, <3>2, Zenon DEF TypeOK
  <2>4. UNCHANGED <<entries, inflight, disk, writer, rc, cpc>>
    BY Zenon
  <2>5. InflightInv' /\ DiskInv' /\ ModeInv'
    <3>1. InflightInv' /\ ModeInv'
      BY ONLY <1>1, <2>1, <2>4, Zenon DEF InflightInv, ModeInv
    <3>2. DiskInv'
      BY <2>4 DEF IInv, DiskInv
    <3> QED BY ONLY <3>1, <3>2, Zenon
  <2>6. BufferInv' /\ FlushedInv'
    BY ONLY <1>1, <2>1, <2>2, <2>4, SMTT(30) DEF BufferInv, FlushedInv
  <2>7. AckInv' /\ FileInv'
    BY <1>1, <2>1, <2>2 DEF IInv, AckInv, FileInv, HasLast, NewWriter
  <2> QED BY <2>3, <2>5, <2>6, <2>7, Zenon DEF IInv
<1>3. CASE ~ReplayOk
  <2>1. mode' = "broken" /\ UNCHANGED <<running, fpc, current_lsn, flushed_lsn, log_files>> /\ ~Alive'
    BY <1>3, SMTT(30) DEF Alive
  <2>2. TypeOK'
    BY <2>1, SMTT(30) DEF IInv, TypeOK
  <2>3. UNCHANGED <<entries, inflight, disk, writer, rc, cpc, clsn, acked, dir>>
    BY Zenon
  <2>4. InflightInv' /\ BufferInv' /\ FlushedInv' /\ ModeInv'
    <3>1. ModeInv
      BY Zenon DEF IInv
    <3> QED BY ONLY <1>1, <2>1, <2>3, <3>1, Zenon DEF InflightInv, BufferInv, FlushedInv, ModeInv
  <2>5. DiskInv' /\ AckInv'
    <3>1. DiskInv /\ AckInv
      BY Zenon DEF IInv
    <3> QED BY ONLY <2>3, <3>1, Zenon DEF DiskInv, AckInv, Whole
  <2>6. FileInv'
    <3>1. FileInv
      BY Zenon DEF IInv
    <3> QED BY ONLY <1>1, <2>1, <2>3, <3>1, Zenon DEF FileInv, HasLast, NewWriter, Whole
  <2> QED BY <2>2, <2>4, <2>5, <2>6 DEF IInv
<1> QED BY <1>2, <1>3, Zenon

LEMMA InitInv ==
  ASSUME Init
  PROVE  IInv
<1> USE DEF Init, NewWriter
<1>1. TypeOK
  <2>1. ASSUME NEW a \in Appenders PROVE csize[a] \in Sizes
    <3>1. Sizes # {}
      BY DiskLogAssumption, Zenon
    <3> QED BY <3>1, Zenon
  <2>2. csize \in [Appenders -> Sizes]
    BY <2>1, Zenon
  <2>3. /\ cpc \in [Appenders -> {"idle", "throttle", "push", "appended", "wait", "check"}]
        /\ clsn \in [Appenders -> Nat]
    BY Zenon
  <2>4. running \in BOOLEAN /\ late \in BOOLEAN
    BY Zenon
  <2> QED BY <2>2, <2>3, <2>4 DEF TypeOK
<1>2. InflightInv /\ BufferInv /\ DiskInv /\ FlushedInv /\ ModeInv
  BY DEF InflightInv, BufferInv, DiskInv, FlushedInv, ModeInv, Alive
<1>3. AckInv /\ FileInv
  BY Zenon DEF AckInv, FileInv, HasLast, Alive
<1> QED BY <1>1, <1>2, <1>3, Zenon DEF IInv

LEMMA NextInv ==
  ASSUME ~TornFaults, IInv, [Next]_vars
  PROVE  IInv'
<1>1. ASSUME NEW a \in Appenders, AppenderStep(a) \/ \E s \in Sizes : AppendCheck(a, s)
      PROVE  IInv'
  BY <1>1, AppenderQuietInv, AppendPushInv, WaitCheckInv, Zenon DEF AppenderStep
<1>2. CASE FlusherStep
  <2>1. CASE WritePayloadFails
    BY <2>1, Zenon DEF WritePayloadFails
  <2> QED BY Zenon, <1>2, <2>1, FlusherQuietInv, FlusherOpenInv, FlushPopInv, WriteRefusedInv,
             WriteHeaderInv, WritePayloadInv, FlushAdvanceInv DEF FlusherStep
<1>3. CASE Stop \/ AwaitTermination \/ UNCHANGED vars
  BY <1>3, FlusherQuietInv, Zenon
<1>4. CASE Crash
  BY <1>4, CrashInv, Zenon
<1>5. ASSUME NEW start \in {0} \union acked, Restart(start)
      PROVE  IInv'
  BY <1>5, RestartInv, Zenon
<1> QED BY <1>1, <1>2, <1>3, <1>4, <1>5, Zenon DEF Next

(* IInv holds in every reachable state, for any number of appenders, file  *)
(* size, number of entries and number of failing I/O calls, when a failing *)
(* write leaves nothing in the file.                                       *)
THEOREM Invariance ==
  ASSUME ~TornFaults
  PROVE  Spec => []IInv
<1>1. Init => IInv
  BY InitInv, Zenon
<1>2. IInv /\ [Next]_vars => IInv'
  BY NextInv, Zenon
<1> QED BY <1>1, <1>2, PTL DEF Spec

(* An entry wait_lsn reported flushed is readable ever after. *)
THEOREM AckedDurableHolds ==
  ASSUME ~TornFaults
  PROVE  Spec => []AckedDurable
<1>1. IInv => AckedDurable
  BY ReadableIsWhole DEF IInv, AckInv, AckedDurable, TypeOK
<1> QED BY <1>1, Invariance, PTL

(* The readable log holds 1, 2, 3, ... each in the file named for it. *)
THEOREM LogIsContiguousHolds ==
  ASSUME ~TornFaults
  PROVE  Spec => []LogIsContiguous
<1>1. IInv => LogIsContiguous
  <2> SUFFICES ASSUME IInv, NEW i \in 1..Readable
               PROVE  disk[i].lsn = i /\ disk[i].file <= i /\ i <= disk[i].file + N - 1
    BY Zenon DEF LogIsContiguous
  <2>1. i \in 1..Len(disk)
    BY ReadableIsWhole DEF Whole, IInv, TypeOK
  <2> QED BY <2>1, Zenon DEF IInv, DiskInv
<1> QED BY <1>1, Invariance, PTL

(* flushed_lsn_ is not ahead of the disk, nor the disk of current_lsn_. *)
THEOREM LsnsAgreeHolds ==
  ASSUME ~TornFaults
  PROVE  Spec => []LsnsAgree
<1>1. IInv => LsnsAgree
  <2> SUFFICES ASSUME IInv, Alive PROVE flushed_lsn <= Readable /\ Readable <= current_lsn
    BY Zenon DEF LsnsAgree
  <2>1. Readable = Whole /\ Whole \in Nat
    BY ReadableIsWhole, Zenon
  <2>2. /\ flushed_lsn \in Nat /\ Len(entries) \in Nat /\ Len(inflight) \in Nat
        /\ current_lsn = flushed_lsn + Len(inflight) + Len(entries)
    BY DEF IInv, TypeOK, BufferInv
  <2>3. CASE fpc \in {"payload", "written"}
    <3>1. Len(inflight) = 1
      BY <2>3, Zenon DEF IInv, InflightInv
    <3>2. Whole \in {flushed_lsn, flushed_lsn + 1}
      BY <2>2, <2>3 DEF IInv, FlushedInv, Whole
    <3> QED BY <2>1, <2>2, <3>1, <3>2
  <2>4. CASE fpc \notin {"payload", "written"}
    BY <2>1, <2>2, <2>4 DEF IInv, FlushedInv
  <2> QED BY <2>3, <2>4, Zenon
<1> QED BY <1>1, Invariance, PTL

(* The buffer holds exactly the entries flushed_lsn_ + 1 .. current_lsn_. *)
THEOREM NothingLostHolds ==
  ASSUME ~TornFaults
  PROVE  Spec => []NothingLost
<1>1. IInv => NothingLost
  <2> SUFFICES ASSUME IInv, Alive
               PROVE  /\ Len(inflight \o entries) = current_lsn - flushed_lsn
                      /\ \A i \in DOMAIN (inflight \o entries) :
                           (inflight \o entries)[i].lsn = flushed_lsn + i
    BY Zenon DEF NothingLost
  <2> DEFINE p == inflight \o entries
  <2>1. inflight \in Seq(Entry) /\ entries \in Seq(Entry) /\ flushed_lsn \in Nat
    BY Zenon DEF IInv, TypeOK
  <2>2. /\ p \in Seq(Entry) /\ Len(p) = Len(inflight) + Len(entries)
        /\ \A i \in 1..Len(inflight) + Len(entries) : p[i] =
             IF i <= Len(inflight) THEN inflight[i] ELSE entries[i - Len(inflight)]
    BY ONLY <2>1, ConcatFacts, Zenon
  <2> HIDE DEF p
  <2>3. /\ current_lsn = flushed_lsn + Len(inflight) + Len(entries)
        /\ \A i \in 1..Len(inflight) : inflight[i].lsn = flushed_lsn + i
        /\ \A i \in 1..Len(entries) : entries[i].lsn = flushed_lsn + Len(inflight) + i
        /\ Len(inflight) \in Nat /\ Len(entries) \in Nat
    BY <2>1 DEF IInv, BufferInv
  <2>4. ASSUME NEW i \in 1..Len(p) PROVE p[i].lsn = flushed_lsn + i
    <3>1. CASE i <= Len(inflight)
      BY <2>2, <2>3, <3>1
    <3>2. CASE ~(i <= Len(inflight))
      <4>1. i - Len(inflight) \in 1..Len(entries) /\ p[i] = entries[i - Len(inflight)]
        BY <2>2, <2>3, <3>2
      <4> QED BY <2>1, <2>3, <4>1
    <3> QED BY <3>1, <3>2, Zenon
  <2>5. Len(p) = current_lsn - flushed_lsn /\ DOMAIN p = 1..Len(p)
    BY <2>1, <2>2, <2>3
  <2> QED BY <2>4, <2>5, Zenon DEF p
<1> QED BY <1>1, Invariance, PTL

LEMMA ExitInvStep ==
  ASSUME ~TornFaults, IInv, ExitInv, [Next]_vars
  PROVE  ExitInv'
<1> USE DEF ExitInv, bufVars, flushVars, clientVars, histVars
<1>1. ASSUME NEW a \in Appenders, AppenderStep(a) \/ \E s \in Sizes : AppendCheck(a, s)
      PROVE  ExitInv'
  <2>1. CASE AppendPush(a)
    BY <2>1, Zenon DEF AppendPush, IInv, TypeOK
  <2>2. CASE ~AppendPush(a)
    <3>1. UNCHANGED <<mode, fpc, running, entries, late>>
      BY <1>1, <2>2, Zenon DEF AppenderStep, AppendCheck, AppendPass, Return, WaitBegin, WaitExit, WaitCheck
    <3> QED BY <3>1, Zenon
  <2> QED BY <2>1, <2>2, Zenon
<1>2. CASE FlusherStep
  <2>1. mode # "stopped" /\ mode' = mode
    BY <1>2, Zenon DEF FlusherStep, FlusherExit, FlusherOpen, FlusherOpenFails, FlusherEnter, FlushDone,
                FlushPop, WriteFull, WriteHeader, WriteHeaderFails, WritePayload,
                WritePayloadFails, FlushAdvance, FlusherLoops
  <2>2. CASE FlusherExit
    BY <2>1, <2>2, Zenon DEF FlusherExit
  <2>3. CASE ~FlusherExit
    <3>1. fpc' # "exited"
      BY <1>2, <2>3 DEF FlusherStep, FlusherOpen, FlusherOpenFails, FlusherEnter, FlushDone,
                FlushPop, WriteFull, WriteHeader, WriteHeaderFails, WritePayload,
                WritePayloadFails, FlushAdvance, FlusherLoops, PutBack
    <3> QED BY <2>1, <3>1, Zenon
  <2> QED BY <2>2, <2>3, Zenon
<1>3. CASE Stop \/ AwaitTermination \/ UNCHANGED vars
  BY <1>3 DEF Stop, AwaitTermination, vars
<1>4. CASE Crash
  BY <1>4, Zenon DEF Crash
<1>5. ASSUME NEW start \in {0} \union acked, Restart(start)
      PROVE  ExitInv'
  <2>1. fpc' # "exited" /\ mode' # "stopped"
    BY <1>5, Zenon DEF Restart, IInv, ModeInv, Alive
  <2> QED BY <2>1, Zenon
<1> QED BY <1>1, <1>2, <1>3, <1>4, <1>5, Zenon DEF Next

(* await_termination leaves nothing unwritten unless an append raced with  *)
(* stop().                                                                 *)
THEOREM DrainedUnlessRacedHolds ==
  ASSUME ~TornFaults
  PROVE  Spec => []DrainedUnlessRaced
<1>1. Init => ExitInv
  BY Zenon DEF Init, ExitInv
<1>2. IInv /\ ExitInv /\ [Next]_vars => ExitInv'
  BY ExitInvStep, Zenon
<1>3. IInv /\ ExitInv => DrainedUnlessRaced
  <2> SUFFICES ASSUME IInv, ExitInv, mode = "stopped", ~late PROVE Readable = current_lsn
    BY Zenon DEF DrainedUnlessRaced
  <2>1. fpc = "exited" /\ entries = <<>> /\ inflight = <<>> /\ Alive
    BY Zenon DEF ExitInv, IInv, InflightInv, Alive
  <2>2. current_lsn = flushed_lsn /\ Whole = flushed_lsn
    <3>1. BufferInv /\ FlushedInv /\ flushed_lsn \in Nat
      BY Zenon DEF IInv, TypeOK
    <3> QED BY ONLY <2>1, <3>1 DEF BufferInv, FlushedInv
  <2> QED BY <2>2, ReadableIsWhole, Zenon
<1> QED BY <1>1, <1>2, <1>3, Invariance, PTL DEF Spec

-----------------------------------------------------------------------------
(* DiskLog implements Wal. *)

LEMMA ReadableIsWholeAlways == IInv => Readable = Whole /\ Whole \in Nat
BY ReadableIsWhole, Zenon

(* ReadableIsWhole before and after a step. *)
LEMMA ReadableIsWholeTwice ==
  ASSUME IInv, IInv'
  PROVE  /\ Readable = Whole /\ Whole \in Nat
         /\ Readable' = Whole' /\ Whole' \in Nat
<1>1. IInv => Readable = Whole /\ Whole \in Nat
  BY ReadableIsWhole, Zenon
<1>2. (IInv => Readable = Whole /\ Whole \in Nat)'
  BY ReadableIsWholeAlways, PTL
<1> QED BY <1>1, <1>2, Zenon

(* A step that changes neither LSNs nor acknowledgements nor the readable  *)
(* part of the files is a stuttering step of Wal.                          *)
LEMMA WalStutters ==
  ASSUME IInv, IInv', Alive' = Alive, current_lsn' = current_lsn, acked' = acked, Whole' = Whole
  PROVE  UNCHANGED WalLog!vars
<1>1. Readable' = Readable
  BY ReadableIsWholeTwice, Zenon
<1> QED BY <1>1, Zenon DEF WalLog!vars

(* A header without its payload is not readable yet; the payload makes the *)
(* entry readable.                                                         *)
LEMMA WholeAfterHeader ==
  ASSUME IInv, WriteHeader
  PROVE  Whole' = Whole
<1>1. inflight[1] \in Entry /\ Whole = Len(disk) /\ disk \in Seq(Record) /\ writer.file \in Nat
  BY HeldEntry, Zenon DEF WriteHeader, IInv, TypeOK
<1>2. /\ OnDisk("head") \in Record /\ OnDisk("head").kind = "head"
      /\ disk' = Append(disk, OnDisk("head"))
  BY <1>1, Zenon DEF OnDisk, Record, Kinds, Entry, WriteHeader
<1>3. Len(disk') = Len(disk) + 1 /\ disk'[Len(disk) + 1].kind = "head" /\ Len(disk) \in Nat
  BY <1>1, <1>2
<1> QED BY <1>1, <1>3, SMTT(30) DEF Whole

LEMMA WholeAfterPayload ==
  ASSUME IInv, WritePayload
  PROVE  Whole' = Whole + 1 /\ Whole < current_lsn
<1>1. Alive /\ Len(inflight) = 1
  BY HeldEntry DEF WritePayload
<1>2. disk \in Seq(Record) /\ flushed_lsn \in Nat /\ Len(entries) \in Nat
  BY DEF IInv, TypeOK
<1>3. Len(disk) = flushed_lsn + 1 /\ disk[Len(disk)].kind = "head" /\ disk[Len(disk)] \in Record
  BY <1>1, <1>2 DEF WritePayload, IInv, FlushedInv
<1>4. current_lsn = flushed_lsn + 1 + Len(entries)
  BY <1>1, Zenon DEF IInv, BufferInv
<1>5. Len(disk') = Len(disk) /\ disk'[Len(disk)].kind = "full"
  BY <1>2, <1>3 DEF WritePayload, Record
<1>6. disk # <<>> /\ disk' # <<>>
  BY <1>2, <1>3, <1>5
<1> QED BY <1>2, <1>3, <1>4, <1>5, <1>6 DEF Whole

LEMMA WalStep ==
  ASSUME ~TornFaults, IInv, [Next]_vars
  PROVE  [WalLog!Next]_(WalLog!vars)
<1> USE DEF bufVars, fileVars, flushVars, clientVars, histVars
<1>1. IInv' /\ Readable = Whole /\ Whole \in Nat /\ Readable' = Whole' /\ Whole' \in Nat
  BY NextInv, ReadableIsWholeTwice, Zenon
<1>2. ASSUME NEW a \in Appenders, AppendPush(a)
      PROVE  WalLog!Append
  <2>1. Alive /\ Alive' /\ disk' = disk /\ acked' = acked /\ current_lsn' = current_lsn + 1
    BY <1>2, Zenon DEF AppendPush, IInv, ModeInv, Alive
  <2> QED BY <1>1, <2>1, Zenon DEF WalLog!Append, Whole
<1>3. ASSUME NEW a \in Appenders, WaitCheck(a)
      PROVE  [WalLog!Next]_(WalLog!vars)
  <2>1. /\ Alive' = Alive /\ disk' = disk /\ current_lsn' = current_lsn
        /\ Alive /\ clsn[a] \in Nat /\ clsn[a] >= 1
    BY <1>3, Zenon DEF WaitCheck, Alive, IInv, ModeInv, AckInv, TypeOK
  <2>2. Whole' = Whole
    BY <2>1, Zenon DEF Whole
  <2>3. CASE flushed_lsn >= clsn[a]
    <3>1. flushed_lsn <= Whole /\ flushed_lsn \in Nat
      <4>1. FlushedInv /\ flushed_lsn \in Nat /\ Len(disk) \in Nat
        BY SMTT(30) DEF IInv, TypeOK
      <4> QED BY ONLY <2>1, <4>1, SMTT(30) DEF FlushedInv, Whole
    <3>2. clsn[a] \in 1..Readable /\ acked' = acked \union {clsn[a]}
      <4>1. acked' = acked \union {clsn[a]}
        BY ONLY <1>3, <2>3, Zenon DEF WaitCheck
      <4> QED BY ONLY <1>1, <2>1, <2>3, <3>1, <4>1, SMTT(30)
    <3>3. WalLog!Ack
      BY <1>1, <2>1, <2>2, <3>2, Zenon DEF WalLog!Ack
    <3> QED BY <3>3, Zenon DEF WalLog!Next
  <2>4. CASE ~(flushed_lsn >= clsn[a])
    BY <1>1, <1>3, <2>1, <2>2, <2>4, WalStutters, Zenon DEF WaitCheck
  <2> QED BY <2>3, <2>4, Zenon
<1>4. ASSUME NEW a \in Appenders, ~AppendPush(a), ~WaitCheck(a),
             AppenderStep(a) \/ \E s \in Sizes : AppendCheck(a, s)
      PROVE  UNCHANGED WalLog!vars
  <2>1. UNCHANGED <<mode, current_lsn, acked, disk>>
    BY <1>4, Zenon DEF AppenderStep, AppendCheck, AppendPass, Return, WaitBegin, WaitExit
  <2> QED BY <1>1, <2>1, WalStutters, Zenon DEF Alive, Whole
<1>5. CASE WritePayload
  <2>1. UNCHANGED <<mode, current_lsn, acked>> /\ Alive
    BY <1>5, HeldEntry, Zenon DEF WritePayload
  <2>2. WalLog!Flush
    BY <1>1, <1>5, <2>1, WholeAfterPayload, Zenon DEF WalLog!Flush, Alive
  <2> QED BY <2>2, Zenon DEF WalLog!Next
<1>6. CASE FlusherStep /\ ~WritePayload
  <2>1. UNCHANGED <<mode, current_lsn, acked>>
    BY <1>6, Zenon DEF FlusherStep, FlusherExit, FlusherOpen, FlusherOpenFails, FlusherEnter, FlushDone,
                FlushPop, WriteFull, WriteHeader, WriteHeaderFails, WritePayloadFails,
                FlushAdvance, PutBack
  <2>2. CASE WriteHeader
    BY <1>1, <2>1, <2>2, WholeAfterHeader, WalStutters, SMTT(30) DEF Alive
  <2>3. CASE ~WriteHeader
    <3>1. disk' = disk
      BY <1>6, <2>3, Zenon DEF FlusherStep, FlusherExit, FlusherOpen, FlusherOpenFails, FlusherEnter,
                FlushDone, FlushPop, WriteFull, WriteHeaderFails, WritePayloadFails, FlushAdvance
    <3> QED BY <1>1, <2>1, <3>1, WalStutters DEF Alive, Whole
  <2> QED BY <2>2, <2>3, Zenon
<1>7. CASE Stop \/ AwaitTermination \/ UNCHANGED vars
  <2>1. UNCHANGED <<current_lsn, acked, disk>> /\ Alive' = Alive
    BY ONLY <1>7 DEF Stop, AwaitTermination, vars, Alive, bufVars, fileVars, histVars
  <2> QED BY <1>1, <2>1, WalStutters, Zenon DEF Whole
<1>8. CASE Crash
  <2>1. disk' = disk /\ acked' = acked /\ ~Alive' /\ Alive
    BY <1>8, Zenon DEF Crash, Alive
  <2>2. WalLog!Crash
    BY <1>1, <2>1, Zenon DEF WalLog!Crash, Whole
  <2> QED BY <2>2, Zenon DEF WalLog!Next
<1>9. ASSUME NEW start \in {0} \union acked, Restart(start)
      PROVE  UNCHANGED WalLog!vars
  <2>1. disk' = disk /\ acked' = acked /\ ~Alive
    BY <1>9, Zenon DEF Restart, Alive
  <2>2. Alive' => current_lsn' = Whole
    BY <1>9, ReplayFindsLast, ReadableIsWhole, Zenon DEF Restart, Alive
  <2>3. Whole' = Whole
    BY <2>1, Zenon DEF Whole
  <2> QED BY <1>1, <2>1, <2>2, <2>3, Zenon DEF WalLog!vars
<1> QED
  BY <1>2, <1>3, <1>4, <1>5, <1>6, <1>7, <1>8, <1>9, Zenon DEF Next, WalLog!Next

(* The buffered, multi-file, crash-prone log implements the abstract one:  *)
(* every step of DiskLog is a step of Wal or changes nothing of it.        *)
THEOREM ImplementsWalHolds ==
  ASSUME ~TornFaults
  PROVE  Spec => ImplementsWal
<1>1. Init => WalLog!Init
  <2> SUFFICES ASSUME Init PROVE WalLog!Init
    BY Zenon
  <2>1. ~Alive /\ Readable = 0 /\ acked = {}
    BY InitInv, ReadableIsWhole, Zenon DEF Init, Alive, Whole
  <2> QED BY <2>1, Zenon DEF WalLog!Init
<1>2. IInv /\ [Next]_vars => [WalLog!Next]_(WalLog!vars)
  BY WalStep, Zenon
<1> QED BY <1>1, <1>2, Invariance, PTL DEF Spec, ImplementsWal, WalLog!Spec

(* What append took in is kept, in order and once, from the buffer to the  *)
(* files, across file changes, failed writes, crashes and restarts.        *)
THEOREM EntriesAreKeptHolds ==
  ASSUME ~TornFaults
  PROVE  Spec => []EntriesAreKept
<1>1. NothingLost /\ LogIsContiguous /\ LsnsAgree /\ DrainedUnlessRaced => EntriesAreKept
  BY Zenon DEF EntriesAreKept
<1> QED
  BY <1>1, NothingLostHolds, LogIsContiguousHolds, LsnsAgreeHolds, DrainedUnlessRacedHolds, PTL
=============================================================================
