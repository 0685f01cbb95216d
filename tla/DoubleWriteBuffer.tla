------------------------- MODULE DoubleWriteBuffer -------------------------
(***************************************************************************)
(* DiskDoubleWriteBuffer: a page that the buffer pool writes back goes to  *)
(* a slot of a shared file first and to its data file later, in batches,   *)
(* so that one whole copy of it exists at any time.                        *)
(*                                                                         *)
(* The content of a page is a version number. A write of a page passes     *)
(* through Torn, so that a crash may leave half a page; the slots carry a  *)
(* checksum, the data files are read without checking it.                  *)
(***************************************************************************)
EXTENDS Integers, FiniteSets, FiniteSetsExt, Functions

CONSTANTS
  Keys,        \* the pages: pairs of a buffer pool and a page number
  MaxDwbPages,    \* max_pages_
  MaxDwbVer,      \* bound: versions of a page
  MaxCrashes,  \* bound: crashes
  QuietClose   \* whether no crash happens while pools are being closed

ASSUME DoubleWriteBufferAssumption ==
  /\ MaxDwbPages \in Nat \ {0} /\ MaxDwbVer \in Nat /\ MaxCrashes \in Nat
  /\ QuietClose \in BOOLEAN /\ IsFiniteSet(Keys)

Torn  == -1
Ver   == 0..MaxDwbVer
SlotNums == 0..MaxDwbPages - 1
DwbPools == {k[1] : k \in Keys}
DoubleWritePage == [key : Keys, page_index : SlotNums, valid : BOOLEAN, ver : Ver]
NoPage == [ver |-> Torn]  \* a slot whose checksum does not match

VARIABLES
  dblwr_pages, \* the pages in memory, by key
  page_cnt,    \* header_.page_cnt
  file_cnt,    \* page_cnt in the header of the shared file
  slots,       \* the slots of the shared file
  data,        \* the pages in the data files
  opened,      \* the open buffer pools
  add,         \* what add_page is doing
  flush,       \* what flush_page or clear_pages is doing
  crashes,
  last,        \* history: the version last added
  wrote        \* history: the last version completely written to a data file

mem  == <<dblwr_pages, page_cnt, opened>>
disk == <<file_cnt, slots, data>>
dvars == <<mem, disk, add, flush, crashes, last, wrote>>

NoMap   == [k \in {} |-> {}]
AddIdle == [pc |-> "idle", page |-> NoPage]
FlushIdle    == [pc |-> "idle", caller |-> "none", batch |-> NoMap, key |-> <<>>]
Quiet   == add = AddIdle /\ flush = FlushIdle

Size == Cardinality(DOMAIN dblwr_pages)
With(f, k, v) == [j \in DOMAIN f \union {k} |-> IF j = k THEN v ELSE f[j]]
WithoutKeys(f, K) == Restrict(f, DOMAIN f \ K)

-----------------------------------------------------------------------------
(* add_page *)

NewVer(k) == last[k] + 1

(* Mutant: a page that is already buffered keeps its old content. *)
PageForMut(k) ==
  IF k \in DOMAIN dblwr_pages
  THEN dblwr_pages[k]
  ELSE [key |-> k, page_index |-> Size, valid |-> TRUE, ver |-> NewVer(k)]

(* The page object that add_page finds or creates for k. *)
PageFor(k) ==
  IF k \in DOMAIN dblwr_pages
  THEN [dblwr_pages[k] EXCEPT !.ver = NewVer(k)]
  ELSE [key |-> k, page_index |-> Size, valid |-> TRUE, ver |-> NewVer(k)]

(* The page is put into the map and the write of its slot begins. *)
AddPage(k) ==
  /\ Quiet /\ k[1] \in opened /\ last[k] < MaxDwbVer
  /\ dblwr_pages' = With(dblwr_pages, k, PageFor(k))
  /\ slots' = [slots EXCEPT ![PageFor(k).page_index] = NoPage]
  /\ add' = [pc |-> IF k \in DOMAIN dblwr_pages THEN "hit" ELSE "new", page |-> PageFor(k)]
  /\ last' = [last EXCEPT ![k] = NewVer(k)]
  /\ UNCHANGED <<page_cnt, file_cnt, data, opened, flush, crashes, wrote>>

(* Mutant: a buffered page is updated in memory only. *)
WriteSlotMut ==
  /\ add.pc \in {"hit", "new"}
  /\ slots' = [slots EXCEPT ![add.page.page_index] =
                  IF add.pc = "hit" THEN [add.page EXCEPT !.ver = @ - 1] ELSE add.page]
  /\ add' = IF add.pc = "hit" THEN AddIdle ELSE [add EXCEPT !.pc = "header"]
  /\ UNCHANGED <<mem, file_cnt, data, flush, crashes, last, wrote>>

(* write_page_internal in add_page; a page that was buffered is done. *)
WriteSlot ==
  /\ add.pc \in {"hit", "new"}
  /\ slots' = [slots EXCEPT ![add.page.page_index] = add.page]
  /\ add' = IF add.pc = "hit" THEN AddIdle ELSE [add EXCEPT !.pc = "header"]
  /\ UNCHANGED <<mem, file_cnt, data, flush, crashes, last, wrote>>

FlushFrom(caller, batch) ==
  flush' = [pc |-> "next", caller |-> caller, batch |-> batch, key |-> <<>>]

(* Mutant: the new number of pages is not written to the file. *)
AddEndMut ==
  /\ add.pc = "header"
  /\ page_cnt' = Max({page_cnt, add.page.page_index + 1}) /\ UNCHANGED file_cnt
  /\ add' = AddIdle
  /\ IF Size >= MaxDwbPages THEN FlushFrom("full", dblwr_pages) ELSE UNCHANGED flush
  /\ UNCHANGED <<dblwr_pages, opened, slots, data, crashes, last, wrote>>

(* Mutant: the buffer is not flushed when it is full. *)
AddEndFullMut ==
  /\ add.pc = "header"
  /\ page_cnt' = Max({page_cnt, add.page.page_index + 1})
  /\ file_cnt' = IF add.page.page_index + 1 > page_cnt THEN page_cnt' ELSE file_cnt
  /\ add' = AddIdle
  /\ UNCHANGED <<dblwr_pages, opened, slots, data, flush, crashes, last, wrote>>

(* The header is rewritten when it counts fewer pages, and a full buffer   *)
(* is flushed.                                                             *)
AddEnd ==
  /\ add.pc = "header"
  /\ page_cnt' = Max({page_cnt, add.page.page_index + 1})
  /\ file_cnt' = IF add.page.page_index + 1 > page_cnt THEN page_cnt' ELSE file_cnt
  /\ add' = AddIdle
  /\ IF Size >= MaxDwbPages THEN FlushFrom("full", dblwr_pages) ELSE UNCHANGED flush
  /\ UNCHANGED <<dblwr_pages, opened, slots, data, crashes, last, wrote>>

-----------------------------------------------------------------------------
(* flush_page and clear_pages *)

SyncFlush ==
  /\ Quiet /\ opened = DwbPools
  /\ FlushFrom("sync", dblwr_pages)
  /\ UNCHANGED <<mem, disk, add, crashes, last, wrote>>

(* clear_pages takes the pages of the pool out of the map, writes them to  *)
(* the data file and leaves the header alone.                              *)
ClosePool(pool) ==
  /\ Quiet /\ pool \in opened
  /\ LET mine == {k \in DOMAIN dblwr_pages : k[1] = pool}
     IN  /\ dblwr_pages' = WithoutKeys(dblwr_pages, mine)
         /\ FlushFrom("clear", Restrict(dblwr_pages, mine))
  /\ opened' = opened \ {pool}
  /\ UNCHANGED <<page_cnt, disk, add, crashes, last, wrote>>

(* The next page: any of the map, the smallest page number in clear_pages. *)
MayWrite(k) ==
  /\ k \in DOMAIN flush.batch
  /\ flush.caller = "clear" => \A j \in DOMAIN flush.batch : k[2] <= j[2]

(* The write of a valid page to its data file begins; flush_page skips an  *)
(* invalid one.                                                            *)
WriteBegin(k) ==
  /\ flush.pc = "next" /\ MayWrite(k)
  /\ IF flush.batch[k].valid
     THEN /\ data' = [data EXCEPT ![k] = Torn]
          /\ flush' = [flush EXCEPT !.pc = "data", !.key = k]
     ELSE flush' = [flush EXCEPT !.pc = "mark", !.key = k] /\ UNCHANGED data
  /\ UNCHANGED <<mem, file_cnt, slots, add, crashes, last, wrote>>

WriteData ==
  /\ flush.pc = "data"
  /\ data' = [data EXCEPT ![flush.key] = flush.batch[flush.key].ver]
  /\ wrote' = [wrote EXCEPT ![flush.key] = flush.batch[flush.key].ver]
  /\ flush' = [flush EXCEPT !.pc = "mark"]
  /\ UNCHANGED <<mem, file_cnt, slots, add, crashes, last>>

(* The page is marked invalid in its slot, whose content stays the same.   *)
MarkInvalid ==
  /\ flush.pc = "mark"
  /\ LET p == flush.batch[flush.key]
     IN  slots' = [slots EXCEPT ![p.page_index] = [p EXCEPT !.valid = FALSE]]
  /\ flush' = [flush EXCEPT !.pc = "next", !.key = <<>>, !.batch = WithoutKeys(@, {flush.key})]
  /\ UNCHANGED <<mem, file_cnt, data, add, crashes, last, wrote>>

(* flush_page empties the map and forgets the count; the file keeps its.   *)
FlushEnd ==
  /\ flush.pc = "next" /\ DOMAIN flush.batch = {}
  /\ IF flush.caller = "clear"
     THEN UNCHANGED <<dblwr_pages, page_cnt>>
     ELSE dblwr_pages' = NoMap /\ page_cnt' = 0
  /\ flush' = FlushIdle
  /\ UNCHANGED <<opened, disk, add, crashes, last, wrote>>

-----------------------------------------------------------------------------
(* Crash and restart *)

(* load_pages: the slots with a matching checksum, the valid and the       *)
(* invalid ones; the first slot of a page counts.                          *)
Loaded(s, cnt) ==
  LET whole == {i \in SlotNums : i < cnt /\ s[i].ver # Torn}
      keys  == {s[i].key : i \in whole}
  IN  [k \in keys |-> s[Min({i \in whole : s[i].key = k})]]

(* What a read of the page gives: load_page asks read_page first. *)
ReadPage(pages, files, k) == IF k \in DOMAIN pages THEN pages[k].ver ELSE files[k]

(* What the data file holds once recover() has written the valid pages. *)
Restored(pages, files, k) ==
  IF k \in DOMAIN pages /\ pages[k].valid THEN pages[k].ver ELSE files[k]

(* The process ends, and Db::init opens the shared file and the tables.    *)
Crash ==
  /\ crashes < MaxCrashes
  /\ crashes' = crashes + 1
  /\ QuietClose => opened = DwbPools \/ (opened = {} /\ Quiet)
  /\ dblwr_pages' = Loaded(slots, file_cnt)
  /\ page_cnt' = file_cnt
  /\ opened' = DwbPools
  /\ add' = AddIdle
  /\ flush' = [FlushIdle EXCEPT !.pc = "open"]
  /\ last' = [k \in Keys |-> IF Restored(dblwr_pages', data, k) = Torn
                             THEN wrote[k] ELSE Restored(dblwr_pages', data, k)]
  /\ UNCHANGED <<disk, wrote>>

(* Db::init_dblwr_buffer, after the tables were opened. *)
Recover ==
  /\ flush.pc = "open"
  /\ FlushFrom("recover", dblwr_pages)
  /\ UNCHANGED <<mem, disk, add, crashes, last, wrote>>

DInit ==
  /\ dblwr_pages = NoMap /\ page_cnt = 0 /\ opened = DwbPools
  /\ file_cnt = 0 /\ slots = [i \in SlotNums |-> NoPage] /\ data = [k \in Keys |-> 0]
  /\ add = AddIdle /\ flush = FlushIdle /\ crashes = 0
  /\ last = [k \in Keys |-> 0] /\ wrote = [k \in Keys |-> 0]

DNext ==
  \/ \E k \in Keys : AddPage(k) \/ WriteBegin(k)
  \/ WriteSlot \/ AddEnd
  \/ SyncFlush \/ \E pool \in DwbPools : ClosePool(pool)
  \/ WriteData \/ MarkInvalid \/ FlushEnd
  \/ Crash \/ Recover

DSpec == DInit /\ [][DNext]_dvars

-----------------------------------------------------------------------------
(* Properties *)

Pages == UNION {[K -> DoubleWritePage] : K \in SUBSET Keys}

(* The types of the state; the buffer is never full between two calls.     *)
DTypeOK ==
  /\ dblwr_pages \in Pages
  /\ \A k \in DOMAIN dblwr_pages : dblwr_pages[k].key = k
  /\ Quiet => Size < MaxDwbPages
  /\ page_cnt \in 0..MaxDwbPages /\ file_cnt \in 0..MaxDwbPages
  /\ \A i \in SlotNums : slots[i] = NoPage \/ slots[i] \in DoubleWritePage
  /\ data \in [Keys -> Ver \union {Torn}]
  /\ opened \subseteq DwbPools
  /\ add.pc \in {"idle", "hit", "new", "header"}
  /\ flush.pc \in {"open", "idle", "next", "data", "mark"}
  /\ last \in [Keys -> Ver] /\ wrote \in [Keys -> Ver]

(* What load_page gives is the version that was written back last, or the  *)
(* one the last recovery restored, however often the buffer was flushed    *)
(* and pools were closed.                                                  *)
ReadsLatest ==
  Quiet => \A k \in Keys : ReadPage(dblwr_pages, data, k) = last[k]

(* After a crash at any point, also during the recovery from an earlier    *)
(* crash, every page can be read whole, and after recover() none is older  *)
(* than what its data file had already: a half-written page has its whole  *)
(* copy in the shared file.                                                *)
RestartWhole ==
  \A k \in Keys :
    /\ Quiet => ReadPage(dblwr_pages, data, k) >= wrote[k]
    /\ flush.pc = "open" => ReadPage(dblwr_pages, data, k) # Torn

(* What the tables read when they are opened after the first crash, which  *)
(* is before recover() runs, is what the data files hold after it. (After  *)
(* a second crash read_page may return the copy of an earlier round.)      *)
OpenLatest ==
  flush.pc = "open" /\ crashes = 1 => \A k \in Keys : ReadPage(dblwr_pages, data, k) = last[k]

(* While all pools are open every buffered page is in the shared file with *)
(* its latest content, in a slot of its own that load_pages reads.         *)
FileLatest ==
  Quiet /\ opened = DwbPools => \A k \in DOMAIN dblwr_pages :
    /\ slots[dblwr_pages[k].page_index] = dblwr_pages[k]
    /\ dblwr_pages[k].page_index < file_cnt

(* What the buffer pool wrote back stays readable, whole and up to date,   *)
(* through flushes, closed pools, and crashes anywhere in them.            *)
WrittenPagesSurvive == DTypeOK /\ ReadsLatest /\ RestartWhole /\ OpenLatest /\ FileLatest
=============================================================================
