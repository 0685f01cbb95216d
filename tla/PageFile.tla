------------------------------- MODULE PageFile -------------------------------
(***************************************************************************)
(* The allocation of pages in one file of the buffer pool, and its replay. *)
(* A file f is a record with at least the fields                           *)
(*   alloc    the pages whose bit of the bitmap is set,                    *)
(*   count    page_count,                                                  *)
(*   lsn      the LSN of every page,                                       *)
(*   refused  whether a replay over the file has failed.                   *)
(* Page 0 holds the bitmap.                                                *)
(***************************************************************************)
EXTENDS Integers, FiniteSets, FiniteSetsExt, Sequences, SequencesExt

BitmapPage == 0

\* The first page whose bit is clear, or the page that extends the file.
FreeBits(f) == {p \in 0 .. f.count - 1 : p \notin f.alloc}
PageToAllocate(f) == IF FreeBits(f) # {} THEN Min(FreeBits(f)) ELSE f.count

Refuse(f) == [f EXCEPT !.refused = TRUE]

RedoAllocateMut(f, lsn, p) ==
  IF f.lsn[BitmapPage] >= lsn \/ p \in f.alloc \/ p >= f.count THEN f
  ELSE [f EXCEPT !.alloc = @ \union {p}]
\* DiskBufferPool::redo_allocate_page and redo_deallocate_page; a refusal ends the
\* replay of the whole log.
RedoAllocate(f, lsn, p) ==
  IF f.lsn[BitmapPage] >= lsn \/ p \in f.alloc THEN f
  ELSE IF p > f.count THEN Refuse(f)
  ELSE IF p < f.count THEN [f EXCEPT !.alloc = @ \union {p}]
  ELSE [f EXCEPT !.alloc = @ \union {p}, !.count = @ + 1, !.lsn[BitmapPage] = lsn]
RedoDeallocate(f, lsn, p) ==
  IF f.lsn[BitmapPage] >= lsn THEN f
  ELSE IF p >= f.count \/ p \notin f.alloc THEN Refuse(f)
  ELSE [f EXCEPT !.alloc = @ \ {p}, !.lsn[BitmapPage] = lsn]
=============================================================================
