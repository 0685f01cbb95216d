---------------------- MODULE DoubleWriteBufferProofs ----------------------
(***************************************************************************)
(* What the buffer pool wrote back survives flushes, closed pools and      *)
(* crashes, for every set of pages, every size of the buffer and every     *)
(* number of crashes, when no crash happens while pools are being closed.  *)
(***************************************************************************)
EXTENDS DoubleWriteBuffer, FiniteSetTheorems, TLAPS

(* From the restart to the end of recover() the map is what load_pages     *)
(* found.                                                                  *)
Recovering == flush.pc = "open" \/ flush.caller = "recover"

(* flush_page works on the whole map; clear_pages takes its pages out.     *)
WholeMap == flush.caller \in {"full", "sync", "recover"}

(* The pages that are not in their data file yet, and their content.       *)
ToWrite == IF WholeMap THEN DOMAIN flush.batch
           ELSE DOMAIN dblwr_pages \cup DOMAIN flush.batch
Copy(k) == IF k \in DOMAIN flush.batch THEN flush.batch[k] ELSE dblwr_pages[k]

(* What load_pages would find now.                                         *)
OnFile == Loaded(slots, file_cnt)

(* add_page is at this page, and at one that has no slot yet.              *)
Adding(k) == add.pc # "idle" /\ add.page.key = k
Appending(k) == Adding(k) /\ add.pc # "hit"

-----------------------------------------------------------------------------
(* The inductive invariant *)

PageMap(f) ==
  /\ f = [k \in DOMAIN f |-> f[k]]
  /\ DOMAIN f \subseteq Keys
  /\ \A k \in DOMAIN f : f[k] \in DoubleWritePage /\ f[k].key = k

Shapes ==
  /\ PageMap(dblwr_pages)
  /\ page_cnt \in 0..MaxDwbPages /\ file_cnt \in 0..MaxDwbPages
  /\ slots \in [SlotNums -> DoubleWritePage \cup {NoPage}]
  /\ data \in [Keys -> Ver \cup {Torn}]
  /\ opened \subseteq DwbPools
  /\ crashes \in Nat
  /\ last \in [Keys -> Ver] /\ wrote \in [Keys -> Ver]

(* What add_page is at is in the map.                                      *)
AddShape ==
  /\ add \in [pc : {"idle", "hit", "new", "header"}, page : DoubleWritePage \cup {NoPage}]
  /\ add.pc = "idle" => add = AddIdle
  /\ add.pc # "idle" =>
       /\ flush = FlushIdle
       /\ add.page \in DoubleWritePage
       /\ add.page.key \in DOMAIN dblwr_pages
       /\ dblwr_pages[add.page.key] = add.page
  /\ add.pc = "header" => slots[add.page.page_index] = add.page

FlushShape ==
  /\ flush = [pc |-> flush.pc, caller |-> flush.caller, batch |-> flush.batch, key |-> flush.key]
  /\ flush.pc \in {"open", "idle", "next", "data", "mark"}
  /\ PageMap(flush.batch)
  /\ flush.pc = "idle" => flush = FlushIdle
  /\ flush.pc = "open" => flush.caller = "none" /\ DOMAIN flush.batch = {}
  /\ flush.pc \in {"next", "data", "mark"} => flush.caller \in {"full", "sync", "recover", "clear"}
  /\ flush.pc \in {"data", "mark"} => flush.key \in DOMAIN flush.batch
  /\ flush.pc = "data" => flush.batch[flush.key].valid

(* The pages of a flush are those of the map, the pages of a pool that is  *)
(* being closed are not, and recovery begins with all pools.               *)
Pooled ==
  /\ WholeMap => \A k \in DOMAIN flush.batch : k \in DOMAIN dblwr_pages /\ flush.batch[k] = dblwr_pages[k]
  /\ flush.caller = "clear" => \A k \in DOMAIN flush.batch : k[1] \notin opened
  /\ \A k \in DOMAIN dblwr_pages : k[1] \in opened
  /\ Recovering => opened = DwbPools
  /\ ~Recovering => \A k \in ToWrite : Copy(k).valid

(* How many pages and slots there are.                                     *)
Counted ==
  /\ page_cnt = 0 \/ page_cnt = file_cnt
  /\ ~Recovering /\ add.pc \in {"idle", "hit"} => Size <= page_cnt
  /\ add.pc \in {"new", "header"} => add.page.page_index <= page_cnt /\ Size = add.page.page_index + 1
  /\ ~Recovering /\ ~WholeMap /\ add.pc \in {"idle", "hit"} => Size < MaxDwbPages
  /\ \A k \in ToWrite : ~Appending(k) => Copy(k).page_index < page_cnt

(* While all pools are open every page has a slot of its own, and what is  *)
(* in a slot that counts is the page that has it.                          *)
OwnSlots ==
  /\ \A i \in SlotNums : slots[i] = NoPage \/ slots[i].page_index = i
  /\ opened = DwbPools =>
       /\ \A j, k \in DOMAIN dblwr_pages : dblwr_pages[j].page_index = dblwr_pages[k].page_index => j = k
       /\ \A k \in ToWrite : (Adding(k) /\ add.pc # "header") \/ slots[Copy(k).page_index] = Copy(k)
  /\ opened = DwbPools /\ ~Recovering =>
       /\ \A k \in DOMAIN dblwr_pages : dblwr_pages[k].page_index < Size
       /\ \A i \in SlotNums : i < page_cnt =>
            \/ slots[i] = NoPage
            \/ slots[i].key \in DOMAIN dblwr_pages /\ dblwr_pages[slots[i].key].page_index = i
  /\ Recovering => \A k \in DOMAIN dblwr_pages : \A i \in SlotNums :
       i < dblwr_pages[k].page_index => slots[i] = NoPage \/ slots[i].key # k

(* A valid page in a slot that counts is still to be written.              *)
ValidLive ==
  \A i \in SlotNums : \A k \in Keys :
    i < file_cnt /\ slots[i] # NoPage /\ slots[i].valid /\ slots[i].key = k =>
      k \in ToWrite /\ Copy(k) = slots[i]

(* Where the last content of a page is.                                    *)
Latest ==
  /\ \A k \in Keys : IF k \in ToWrite /\ Copy(k).valid THEN Copy(k).ver = last[k] ELSE data[k] = last[k]
  /\ flush.pc = "mark" => data[flush.key] = last[flush.key]
  /\ \A k \in Keys : data[k] = Torn \/ data[k] = wrote[k]
  /\ \A k \in Keys : last[k] >= wrote[k]
  /\ ~Recovering => \A k \in Keys : data[k] = Torn => flush.pc = "data" /\ k = flush.key

(* Before the first crash a copy that is marked invalid is what the data   *)
(* file has, and not of a page that is to be written.                      *)
FirstCrash ==
  /\ crashes = 0 => ~Recovering
  /\ crashes = 0 => \A i \in SlotNums : i < file_cnt /\ slots[i] # NoPage /\ ~slots[i].valid =>
       /\ slots[i].ver = data[slots[i].key]
       /\ page_cnt # 0 => /\ slots[i].key \notin ToWrite
                          /\ slots[i].key[1] \notin opened \/ flush.caller \in {"full", "sync"}
  /\ OpenLatest

DInv == Shapes /\ AddShape /\ FlushShape /\ Pooled /\ Counted /\ OwnSlots /\ ValidLive /\ Latest /\ FirstCrash

-----------------------------------------------------------------------------
(* Pages, maps of pages and numbers *)

LEMMA PageFields ==
  ASSUME NEW p \in DoubleWritePage
  PROVE  /\ p.key \in Keys /\ p.page_index \in SlotNums /\ p.valid \in BOOLEAN
         /\ p.ver \in Ver /\ p.ver # Torn /\ p # NoPage
  <1>1. p.ver \in Ver /\ p.key \in Keys /\ p.page_index \in SlotNums /\ p.valid \in BOOLEAN
    BY SMT DEF DoubleWritePage
  <1>2. p.ver # -1
    BY <1>1, DoubleWriteBufferAssumption, SMT DEF Ver
  <1>3. NoPage.ver = -1
    BY SMT DEF NoPage, Torn
  <1> QED BY <1>1, <1>2, <1>3, Zenon DEF Torn

LEMMA NoPageIsTorn == NoPage.ver = Torn
  BY SMT DEF NoPage

LEMMA SlotIndex == \A i \in SlotNums : i \in Nat /\ i < MaxDwbPages /\ i + 1 \in 0..MaxDwbPages
  BY DoubleWriteBufferAssumption, SMT DEF SlotNums

LEMMA VerNat == Ver \subseteq Nat /\ Torn \notin Ver
  BY DoubleWriteBufferAssumption, SMT DEF Ver, Torn

LEMMA MaxOfTwo ==
  ASSUME NEW a \in Int, NEW b \in Int
  PROVE  Max({a, b}) = IF a >= b THEN a ELSE b
  BY SMT DEF Max

LEMMA LeastNumber ==
  ASSUME NEW T, T \subseteq Nat, T # {}
  PROVE  Min(T) \in T /\ \A y \in T : Min(T) <= y
  <1>1. \E x \in T : \A y \in T : ~(<<y, x>> \in OpToRel(<, Nat))
    BY NatLessThanWellFounded, WFMin, Zenon
  <1>2. ASSUME NEW x \in Nat, NEW y \in Nat, ~(<<y, x>> \in OpToRel(<, Nat)) PROVE x <= y
    BY <1>2 DEF OpToRel
  <1>3. \E x \in T : \A y \in T : x <= y
    BY <1>1, <1>2, Zenon
  <1> QED BY <1>3, Zenon DEF Min

(* The number of pages in the map *)
LEMMA SizeFacts ==
  ASSUME NEW D, D \subseteq Keys
  PROVE  /\ IsFiniteSet(D) /\ Cardinality(D) \in Nat
         /\ \A k : k \notin D => Cardinality(D \cup {k}) = Cardinality(D) + 1
         /\ \A E : E \subseteq D => Cardinality(E) <= Cardinality(D)
  <1>1. IsFiniteSet(D)
    BY DoubleWriteBufferAssumption, FS_Subset, Zenon
  <1> QED BY <1>1, FS_CardinalityType, FS_AddElement, FS_Subset, Zenon

LEMMA EmptyMap == PageMap(NoMap) /\ DOMAIN NoMap = {} /\ Cardinality(DOMAIN NoMap) = 0
  <1>1. DOMAIN NoMap = {}
    BY SMT DEF NoMap
  <1>2. NoMap = [k \in DOMAIN NoMap |-> NoMap[k]]
    BY SMT DEF NoMap
  <1>3. PageMap(NoMap)
    BY <1>1, <1>2, Zenon DEF PageMap
  <1> QED BY <1>1, <1>3, FS_EmptySet, Zenon

LEMMA WithMap ==
  ASSUME NEW f, PageMap(f), NEW p \in DoubleWritePage, NEW k, p.key = k, k \in Keys
  PROVE  /\ PageMap(With(f, k, p)) /\ DOMAIN With(f, k, p) = DOMAIN f \cup {k}
         /\ With(f, k, p)[k] = p /\ \A j \in DOMAIN f : j # k => With(f, k, p)[j] = f[j]
  <1> DEFINE g == With(f, k, p)
  <1>1. g = [j \in DOMAIN f \cup {k} |-> IF j = k THEN p ELSE f[j]]
    BY Zenon DEF With
  <1>2. DOMAIN g = DOMAIN f \cup {k}
    BY <1>1, Zenon
  <1>3. g = [j \in DOMAIN g |-> g[j]]
    BY <1>1, SMT
  <1>4. g[k] = p
    BY <1>1, Zenon
  <1>5. \A j \in DOMAIN f : j # k => g[j] = f[j]
    BY <1>1, Zenon
  <1>6. \A j \in DOMAIN g : g[j] \in DoubleWritePage /\ g[j].key = j
    BY <1>2, <1>4, <1>5, Zenon DEF PageMap
  <1>7. PageMap(g)
    BY <1>2, <1>3, <1>6, Zenon DEF PageMap
  <1> QED BY <1>2, <1>4, <1>5, <1>7, Zenon

LEMMA PartOfMap ==
  ASSUME NEW f, PageMap(f), NEW D, D \subseteq DOMAIN f
  PROVE  /\ PageMap(Restrict(f, D)) /\ DOMAIN Restrict(f, D) = D
         /\ \A j \in D : Restrict(f, D)[j] = f[j]
  <1> DEFINE g == Restrict(f, D)
  <1>1. g = [j \in D |-> f[j]]
    BY Zenon DEF Restrict
  <1>2. DOMAIN g = D
    BY <1>1, Zenon
  <1>3. g = [j \in DOMAIN g |-> g[j]]
    BY <1>1, SMT
  <1>4. \A j \in D : g[j] = f[j]
    BY <1>1, Zenon
  <1>5. PageMap(g)
    BY <1>2, <1>3, <1>4, Zenon DEF PageMap
  <1> QED BY <1>2, <1>4, <1>5, Zenon

LEMMA MapIsPages ==
  ASSUME NEW f, PageMap(f)
  PROVE  f \in Pages
  <1>1. f \in [DOMAIN f -> DoubleWritePage] /\ DOMAIN f \in SUBSET Keys
    BY SMT DEF PageMap
  <1> QED BY <1>1, Zenon DEF Pages

-----------------------------------------------------------------------------
(* The pages to write when nothing is flushed *)

LEMMA FlushIdleFields ==
  /\ FlushIdle.pc = "idle" /\ FlushIdle.caller = "none" /\ FlushIdle.batch = NoMap
  /\ DOMAIN FlushIdle.batch = {}
  /\ FlushIdle = [pc |-> FlushIdle.pc, caller |-> FlushIdle.caller,
                  batch |-> FlushIdle.batch, key |-> FlushIdle.key]
  <1>1. FlushIdle.batch = NoMap
    BY Zenon DEF FlushIdle
  <1>2. DOMAIN FlushIdle.batch = {}
    BY <1>1, EmptyMap, Zenon
  <1> QED BY <1>1, <1>2, Zenon DEF FlushIdle

LEMMA AddIdleFields == AddIdle.pc = "idle"
  BY Zenon DEF AddIdle

LEMMA NothingFlushed ==
  ASSUME flush = FlushIdle
  PROVE  /\ ~Recovering /\ ~WholeMap /\ ToWrite = DOMAIN dblwr_pages
         /\ \A k : Copy(k) = dblwr_pages[k]
  BY FlushIdleFields, Zenon DEF Recovering, WholeMap, ToWrite, Copy

LEMMA NothingFlushedNext ==
  ASSUME flush' = FlushIdle
  PROVE  /\ ~Recovering' /\ ~WholeMap' /\ ToWrite' = DOMAIN dblwr_pages'
         /\ \A k : Copy(k)' = dblwr_pages'[k]
  BY FlushIdleFields, Zenon DEF Recovering, WholeMap, ToWrite, Copy

LEMMA IdleFlushShape ==
  ASSUME flush' = FlushIdle
  PROVE  FlushShape'
  <1>1. PageMap(FlushIdle.batch)
    BY EmptyMap, FlushIdleFields, Zenon
  <1>2. FlushIdle.pc \notin {"open", "next", "data", "mark"}
    BY FlushIdleFields
  <1>3. flush'.pc = "idle" /\ PageMap(flush'.batch)
    BY <1>1, FlushIdleFields, Zenon
  <1>4. flush'.pc \in {"open", "idle", "next", "data", "mark"}
    BY <1>3, Zenon
  <1>5. flush' = [pc |-> flush'.pc, caller |-> flush'.caller, batch |-> flush'.batch, key |-> flush'.key]
    BY FlushIdleFields, Zenon
  <1> QED BY <1>2, <1>3, <1>4, <1>5, Zenon DEF FlushShape, PageMap

(* A new shared file: nothing is buffered, counted or written.             *)
THEOREM DInvInit == DInit => DInv
  <1> SUFFICES ASSUME DInit PROVE DInv
    OBVIOUS
  <1> USE DEF DInit
  <1>1. /\ ~Recovering /\ ~WholeMap /\ ToWrite = {} /\ add.pc = "idle" /\ flush.pc = "idle"
        /\ flush.caller = "none" /\ DOMAIN flush.batch = {} /\ DOMAIN dblwr_pages = {}
        /\ Size = 0
    BY NothingFlushed, EmptyMap, FlushIdleFields, AddIdleFields, Zenon DEF Size
  <1>2. Shapes
    <2>1. 0 \in Ver /\ 0 \in 0..MaxDwbPages /\ 0 \in Nat
      BY DoubleWriteBufferAssumption, SMT DEF Ver
    <2>2. slots \in [SlotNums -> DoubleWritePage \cup {NoPage}]
      BY SMT
    <2>3. last \in [Keys -> Ver] /\ wrote \in [Keys -> Ver] /\ data \in [Keys -> Ver \cup {Torn}]
      BY <2>1, SMT
    <2> QED BY <2>1, <2>2, <2>3, EmptyMap, Zenon DEF Shapes
  <1>3. AddShape
    <2>1. add \in [pc : {"idle", "hit", "new", "header"}, page : DoubleWritePage \cup {NoPage}]
      BY SMT DEF AddIdle
    <2> QED BY <1>1, <2>1, Zenon DEF AddShape
  <1>4. FlushShape
    <2>1. flush = [pc |-> flush.pc, caller |-> flush.caller, batch |-> flush.batch, key |-> flush.key]
      BY FlushIdleFields, Zenon
    <2>2. PageMap(flush.batch)
      BY FlushIdleFields, EmptyMap, Zenon
    <2> QED BY <1>1, <2>1, <2>2 DEF FlushShape
  <1>5. Pooled
    BY <1>1 DEF Pooled
  <1>6. Counted
    <2>1. 0 <= page_cnt /\ 0 < MaxDwbPages
      BY DoubleWriteBufferAssumption, SMT
    <2> QED BY <1>1, <2>1, Zenon DEF Counted
  <1>7. OwnSlots
    <2>1. \A i \in SlotNums : slots[i] = NoPage
      BY Zenon
    <2> QED BY <1>1, <2>1, Zenon DEF OwnSlots
  <1>8. ValidLive
    BY Zenon DEF ValidLive
  <1>9. Latest
    <2>1. \A k \in Keys : data[k] = 0 /\ last[k] = 0 /\ wrote[k] = 0
      BY Zenon
    <2>2. 0 >= 0 /\ 0 # Torn
      BY SMT DEF Torn
    <2> QED BY <1>1, <2>1, <2>2, Zenon DEF Latest
  <1>10. FirstCrash
    <2>1. \A i \in SlotNums : slots[i] = NoPage
      BY Zenon
    <2> QED BY <1>1, <2>1, Zenon DEF FirstCrash, OpenLatest
  <1> QED BY <1>2, <1>3, <1>4, <1>5, <1>6, <1>7, <1>8, <1>9, <1>10, Zenon DEF DInv

-----------------------------------------------------------------------------
(* add_page *)

(* What an invariant says of pages that are whole in their slots *)
LEMMA SlotTypes ==
  ASSUME Shapes, NEW i \in SlotNums
  PROVE  slots[i] = NoPage \/ slots[i] \in DoubleWritePage
  BY Zenon DEF Shapes

(* A page is put into the map; its slot is torn until it is written.       *)
LEMMA AddPageKeeps ==
  ASSUME DInv, NEW k \in Keys, AddPage(k)
  PROVE  DInv'
  <1> DEFINE p == PageFor(k)
             hit == k \in DOMAIN dblwr_pages
  <1> USE DEF DInv
  <1>q. add = AddIdle /\ flush = FlushIdle /\ flush' = FlushIdle /\ k[1] \in opened
    BY Zenon DEF AddPage, Quiet
  <1>f. /\ ~Recovering /\ ~WholeMap /\ ToWrite = DOMAIN dblwr_pages
        /\ \A j : Copy(j) = dblwr_pages[j]
    BY <1>q, NothingFlushed, Zenon
  <1>g. /\ ~Recovering' /\ ~WholeMap' /\ ToWrite' = DOMAIN dblwr_pages'
        /\ \A j : Copy(j)' = dblwr_pages'[j]
    BY <1>q, NothingFlushedNext, Zenon
  <1>i. add.pc = "idle" /\ flush.pc = "idle" /\ flush.caller = "none"
        /\ flush'.pc = "idle" /\ flush'.caller = "none"
    BY <1>q, AddIdleFields, FlushIdleFields, Zenon
  <1>m. PageMap(dblwr_pages) /\ DOMAIN dblwr_pages \subseteq Keys
    BY Zenon DEF Shapes, PageMap
  <1>s. Size \in Nat /\ Size <= page_cnt /\ Size < MaxDwbPages /\ Size \in SlotNums
    <2>1. Size \in Nat
      BY <1>m, SizeFacts, Zenon DEF Size
    <2>2. Size <= page_cnt /\ Size < MaxDwbPages
      BY <1>f, <1>i, Zenon DEF Counted
    <2> QED BY <2>1, <2>2, DoubleWriteBufferAssumption, SMT DEF SlotNums
  <1>v. last[k] \in Ver /\ NewVer(k) \in Ver /\ NewVer(k) = last[k] + 1
    <2>1. last[k] \in Ver /\ last[k] < MaxDwbVer
      BY Zenon DEF Shapes, AddPage
    <2> QED BY <2>1, DoubleWriteBufferAssumption, SMT DEF Ver, NewVer
  <1>p. /\ p \in DoubleWritePage /\ p.key = k /\ p.ver = NewVer(k) /\ p.valid = TRUE
        /\ p.page_index = IF hit THEN dblwr_pages[k].page_index ELSE Size
    <2>1. CASE hit
      <3>1. dblwr_pages[k] \in DoubleWritePage /\ dblwr_pages[k].key = k
        BY <2>1, <1>m, Zenon DEF PageMap
      <3>2. dblwr_pages[k].valid
        BY <2>1, <1>f, Zenon DEF Pooled
      <3>3. p = [dblwr_pages[k] EXCEPT !.ver = NewVer(k)]
        BY <2>1, Zenon DEF PageFor
      <3> HIDE DEF p
      <3>4. /\ p \in DoubleWritePage /\ p.key = dblwr_pages[k].key /\ p.ver = NewVer(k)
            /\ p.valid = dblwr_pages[k].valid /\ p.page_index = dblwr_pages[k].page_index
        BY <3>1, <3>3, <1>v, SMT DEF DoubleWritePage
      <3> QED BY <2>1, <3>1, <3>2, <3>4, PageFields, Zenon
    <2>2. CASE ~hit
      <3>1. p = [key |-> k, page_index |-> Size, valid |-> TRUE, ver |-> NewVer(k)]
        BY <2>2, Zenon DEF PageFor
      <3> HIDE DEF p
      <3> QED BY <2>2, <3>1, <1>v, <1>s, SMT DEF DoubleWritePage
    <2> QED BY <2>1, <2>2, Zenon
  <1>a. /\ dblwr_pages' = With(dblwr_pages, k, p)
        /\ slots' = [slots EXCEPT ![p.page_index] = NoPage]
        /\ add' = [pc |-> IF hit THEN "hit" ELSE "new", page |-> p]
        /\ last' = [last EXCEPT ![k] = NewVer(k)]
        /\ UNCHANGED <<page_cnt, file_cnt, data, opened, flush, crashes, wrote>>
    BY Zenon DEF AddPage
  <1> HIDE DEF p
  <1>d. /\ PageMap(dblwr_pages') /\ DOMAIN dblwr_pages' = DOMAIN dblwr_pages \cup {k}
        /\ dblwr_pages'[k] = p /\ \A j \in DOMAIN dblwr_pages : j # k => dblwr_pages'[j] = dblwr_pages[j]
    <2> DEFINE m == With(dblwr_pages, k, p)
    <2>1. /\ PageMap(m) /\ DOMAIN m = DOMAIN dblwr_pages \cup {k}
          /\ m[k] = p /\ \A j \in DOMAIN dblwr_pages : j # k => m[j] = dblwr_pages[j]
      <3>1. p \in DoubleWritePage /\ p.key = k /\ PageMap(dblwr_pages)
        BY <1>p, <1>m, Zenon
      <3> QED BY ONLY <3>1, WithMap, k \in Keys, SMT
    <2>2. dblwr_pages' = m
      BY <1>a, Zenon
    <2> HIDE DEF m
    <2> QED BY <2>1, <2>2, Zenon
  <1>t. p.page_index \in SlotNums
    BY <1>p, PageFields, Zenon
  <1>l. /\ slots' \in [SlotNums -> DoubleWritePage \cup {NoPage}]
        /\ slots'[p.page_index] = NoPage
        /\ \A i \in SlotNums : slots'[i] = NoPage \/ (i # p.page_index /\ slots'[i] = slots[i])
    BY <1>a, <1>t, Zenon DEF Shapes
  <1>z. Size' = IF hit THEN Size ELSE Size + 1
    <2>1. hit => DOMAIN dblwr_pages' = DOMAIN dblwr_pages
      BY <1>d, Zenon
    <2> QED BY <2>1, <1>d, <1>m, SizeFacts, Zenon DEF Size
  <1>e. /\ add'.page = p /\ add'.pc = IF hit THEN "hit" ELSE "new"
    BY <1>a, Zenon
  <1>1. Shapes'
    <2>1. last' \in [Keys -> Ver]
      BY <1>a, <1>v, Zenon DEF Shapes
    <2> QED BY <2>1, <1>d, <1>l, <1>a, Zenon DEF Shapes
  <1>2. AddShape'
    <2>1. add' \in [pc : {"idle", "hit", "new", "header"}, page : DoubleWritePage \cup {NoPage}]
      BY <1>a, <1>p, SMT
    <2>2. add'.pc # "idle" /\ add'.pc # "header"
      BY <1>e
    <2> QED BY <2>1, <2>2, <1>e, <1>p, <1>d, <1>q, Zenon DEF AddShape
  <1>3. FlushShape'
    BY <1>q, IdleFlushShape, Zenon
  <1>4. Pooled'
    <2>1. \A j \in DOMAIN dblwr_pages' : j[1] \in opened'
      BY <1>d, <1>a, <1>q, Zenon DEF Pooled
    <2>2. \A j \in ToWrite' : Copy(j)'.valid
      BY <1>d, <1>f, <1>g, <1>p, Zenon DEF Pooled
    <2>3. flush'.caller # "clear"
      BY <1>i
    <2> QED BY <2>1, <2>2, <2>3, <1>g, Zenon DEF Pooled
  <1>5. Counted'
    <2>1. add'.pc \in {"idle", "hit"} => Size' <= page_cnt' /\ Size' < MaxDwbPages
      BY <1>e, <1>z, <1>s, <1>a, Zenon
    <2>2. add'.pc \in {"new", "header"} => add'.page.page_index <= page_cnt' /\ Size' = add'.page.page_index + 1
      BY <1>e, <1>z, <1>s, <1>p, <1>a, Zenon
    <2>3. ASSUME NEW j \in ToWrite', ~Appending(j)' PROVE Copy(j)'.page_index < page_cnt'
      <3>1. CASE j # k
        <4>1. j \in ToWrite /\ Copy(j)' = Copy(j)
          BY <3>1, <1>d, <1>f, <1>g, Zenon
        <4>2. ~Appending(j)
          BY <1>i, Zenon DEF Appending, Adding
        <4> QED BY <4>1, <4>2, <1>a, Zenon DEF Counted
      <3>2. CASE j = k
        <4>1. hit
          BY <3>2, <2>3, <1>e, <1>p, Zenon DEF Appending, Adding
        <4>2. Copy(k).page_index < page_cnt
          BY <4>1, <1>f, <1>i, Zenon DEF Counted, Appending, Adding
        <4> QED BY <3>2, <4>1, <4>2, <1>f, <1>g, <1>d, <1>p, <1>a, Zenon
      <3> QED BY <3>1, <3>2, Zenon
    <2> QED BY <2>1, <2>2, <2>3, <1>a, Zenon DEF Counted
  <1>6. OwnSlots'
    <2>1. \A i \in SlotNums : slots'[i] = NoPage \/ slots'[i].page_index = i
      BY <1>l, Zenon DEF OwnSlots
    <2>2. ASSUME opened' = DwbPools
          PROVE  /\ \A j \in DOMAIN dblwr_pages : j # k => dblwr_pages[j].page_index # p.page_index
                 /\ \A j \in DOMAIN dblwr_pages : dblwr_pages[j].page_index < Size
      <3>1. \A j \in DOMAIN dblwr_pages : dblwr_pages[j].page_index < Size
        BY <2>2, <1>a, <1>f, Zenon DEF OwnSlots
      <3>2. CASE hit
        <4>1. p.page_index = dblwr_pages[k].page_index
          BY <3>2, <1>p, Zenon
        <4>2. opened = DwbPools
          BY <2>2, <1>a, Zenon
        <4> QED BY <3>1, <3>2, <4>1, <4>2, Zenon DEF OwnSlots
      <3>3. CASE ~hit
        BY <3>1, <3>3, <1>p, <1>s, SMT
      <3> QED BY <3>1, <3>2, <3>3, Zenon
    <2>3. ASSUME opened' = DwbPools, NEW j \in DOMAIN dblwr_pages', NEW n \in DOMAIN dblwr_pages',
                 dblwr_pages'[j].page_index = dblwr_pages'[n].page_index
          PROVE  j = n
      <3>1. /\ \A x \in DOMAIN dblwr_pages : x # k => dblwr_pages[x].page_index # p.page_index
            /\ opened = DwbPools
        BY <2>2, <2>3, <1>a, Zenon
      <3>2. CASE j = k \/ n = k
        BY <2>3, <3>1, <3>2, <1>d, Zenon
      <3>3. CASE j # k /\ n # k
        BY <2>3, <3>1, <3>3, <1>d, Zenon DEF OwnSlots
      <3> QED BY <3>2, <3>3, Zenon
    <2>4. ASSUME opened' = DwbPools, NEW j \in ToWrite'
          PROVE  (Adding(j)' /\ add'.pc # "header") \/ slots'[Copy(j)'.page_index] = Copy(j)'
      <3>1. CASE j = k
        <4>1. add'.pc # "header" /\ add'.pc # "idle"
          BY <1>e
        <4> QED BY <3>1, <4>1, <1>e, <1>p, Zenon DEF Adding
      <3>2. CASE j # k
        <4>1. j \in DOMAIN dblwr_pages /\ Copy(j)' = dblwr_pages[j] /\ j \in ToWrite /\ Copy(j) = dblwr_pages[j]
          BY <3>2, <1>d, <1>g, <1>f, Zenon
        <4>2. slots[dblwr_pages[j].page_index] = dblwr_pages[j]
          BY <4>1, <2>4, <1>a, <1>i, Zenon DEF OwnSlots, Adding
        <4>3. dblwr_pages[j].page_index # p.page_index
          BY <4>1, <3>2, <2>2, <2>4, Zenon
        <4>4. slots'[dblwr_pages[j].page_index] = slots[dblwr_pages[j].page_index]
          <5>1. dblwr_pages[j].page_index \in SlotNums
            BY <4>1, <1>m, PageFields, Zenon DEF PageMap
          <5> QED BY <5>1, <4>3, <1>a, Zenon DEF Shapes
        <4> QED BY <4>1, <4>2, <4>4, Zenon
      <3> QED BY <3>1, <3>2, Zenon
    <2>5. ASSUME opened' = DwbPools, NEW j \in DOMAIN dblwr_pages'
          PROVE  dblwr_pages'[j].page_index < Size'
      <3>1. \A x \in DOMAIN dblwr_pages : dblwr_pages[x].page_index \in SlotNums
        BY <1>m, PageFields, Zenon DEF PageMap
      <3>2. p.page_index < Size'
        <4>1. CASE hit
          BY <4>1, <2>2, <2>5, <1>z, <1>p, Zenon
        <4>2. CASE ~hit
          <5>1. Size < Size + 1
            BY <1>s, SMT
          <5> QED BY <4>2, <5>1, <1>z, <1>p, Zenon
        <4> QED BY <4>1, <4>2, Zenon
      <3>3. CASE j = k
        BY <3>2, <3>3, <1>d, Zenon
      <3>4. CASE j # k
        <4>1. j \in DOMAIN dblwr_pages /\ dblwr_pages'[j] = dblwr_pages[j] /\ dblwr_pages[j].page_index < Size
          BY <3>4, <1>d, <2>2, <2>5, Zenon
        <4>2. \A x \in SlotNums : x < Size => x < Size + 1
          BY <1>s, SlotIndex, SMT
        <4> QED BY <4>1, <4>2, <3>1, <1>z, Zenon
      <3> QED BY <3>3, <3>4, Zenon
    <2>6. ASSUME opened' = DwbPools, NEW i \in SlotNums, i < page_cnt', slots'[i] # NoPage
          PROVE  slots'[i].key \in DOMAIN dblwr_pages' /\ dblwr_pages'[slots'[i].key].page_index = i
      <3>1. i # p.page_index /\ slots'[i] = slots[i] /\ slots[i] # NoPage
        BY <2>6, <1>l, Zenon
      <3>2. slots[i].key \in DOMAIN dblwr_pages /\ dblwr_pages[slots[i].key].page_index = i
        BY <3>1, <2>6, <1>a, <1>f, Zenon DEF OwnSlots
      <3>3. CASE slots[i].key = k
        BY <3>1, <3>2, <3>3, <1>p, Zenon
      <3>4. CASE slots[i].key # k
        BY <3>1, <3>2, <3>4, <1>d, Zenon
      <3> QED BY <3>3, <3>4, Zenon
    <2> QED BY <2>1, <2>3, <2>4, <2>5, <2>6, <1>g, Zenon DEF OwnSlots
  <1>7. ValidLive'
    <2> SUFFICES ASSUME NEW i \in SlotNums, NEW x \in Keys,
                        i < file_cnt', slots'[i] # NoPage, slots'[i].valid, slots'[i].key = x
                 PROVE  x \in ToWrite' /\ Copy(x)' = slots'[i]
      BY Zenon DEF ValidLive
    <2>1. i # p.page_index /\ slots'[i] = slots[i]
      BY <1>l, Zenon
    <2>2. x \in DOMAIN dblwr_pages /\ dblwr_pages[x] = slots[i]
      BY <2>1, <1>a, <1>f, Zenon DEF ValidLive
    <2>3. slots[i].page_index = i
      BY <2>1, Zenon DEF OwnSlots
    <2>4. x # k
      <3>1. ASSUME x = k PROVE FALSE
        <4>1. p.page_index = dblwr_pages[k].page_index
          BY <3>1, <2>2, <1>p, Zenon
        <4> QED BY <3>1, <4>1, <2>1, <2>2, <2>3, Zenon
      <3> QED BY <3>1, Zenon
    <2> QED BY <2>1, <2>2, <2>4, <1>d, <1>g, Zenon
  <1>8. Latest'
    <2>1. ASSUME NEW j \in Keys
          PROVE  IF j \in ToWrite' /\ Copy(j)'.valid THEN Copy(j)'.ver = last'[j] ELSE data'[j] = last'[j]
      <3>1. CASE j = k
        BY <3>1, <1>d, <1>g, <1>p, <1>a, Zenon DEF Shapes
      <3>2. CASE j # k
        <4>1. last'[j] = last[j] /\ data'[j] = data[j]
          BY <3>2, <1>a, Zenon DEF Shapes
        <4>2. (j \in ToWrite' <=> j \in ToWrite) /\ (j \in ToWrite => Copy(j)' = Copy(j))
          BY <3>2, <1>d, <1>g, <1>f, Zenon
        <4> QED BY <4>1, <4>2, Zenon DEF Latest
      <3> QED BY <3>1, <3>2, Zenon
    <2>2. \A j \in Keys : last'[j] >= wrote'[j]
      <3>1. \A j \in Keys : last[j] \in Nat /\ wrote[j] \in Nat /\ last[j] >= wrote[j]
        BY VerNat, Zenon DEF Shapes, Latest
      <3>2. last[k] + 1 >= wrote[k]
        BY <3>1, SMT
      <3> QED BY <3>1, <3>2, <1>a, <1>v, Zenon DEF Shapes
    <2>3. flush'.pc # "mark"
      BY <1>i
    <2> QED BY <2>1, <2>2, <2>3, <1>a, <1>f, Zenon DEF Latest
  <1>9. FirstCrash'
    <2>1. flush'.pc # "open"
      BY <1>i
    <2>2. ASSUME crashes' = 0, NEW i \in SlotNums, i < file_cnt', slots'[i] # NoPage, ~slots'[i].valid
          PROVE  /\ slots'[i].ver = data'[slots'[i].key]
                 /\ page_cnt' # 0 => /\ slots'[i].key \notin ToWrite'
                                     /\ slots'[i].key[1] \notin opened' \/ flush'.caller \in {"full", "sync"}
      <3>1. slots'[i] = slots[i]
        BY <2>2, <1>l, Zenon
      <3>2. /\ slots[i].ver = data[slots[i].key]
            /\ page_cnt # 0 => slots[i].key \notin ToWrite
            /\ page_cnt # 0 => slots[i].key[1] \notin opened \/ flush.caller \in {"full", "sync"}
        BY <2>2, <3>1, <1>a, Zenon DEF FirstCrash
      <3>3. flush.caller \notin {"full", "sync"}
        BY <1>i
      <3>4. page_cnt # 0 => slots[i].key # k
        BY <3>2, <3>3, <1>q, Zenon
      <3>5. page_cnt # 0 => slots[i].key \notin ToWrite'
        BY <3>2, <3>4, <1>d, <1>f, <1>g, Zenon
      <3>6. data' = data /\ opened' = opened /\ page_cnt' = page_cnt
        BY <1>a, Zenon
      <3>7. slots'[i].ver = data'[slots'[i].key]
        BY <3>1, <3>2, <3>6, Zenon
      <3>8. page_cnt' # 0 => slots'[i].key \notin ToWrite' /\ slots'[i].key[1] \notin opened'
        BY <3>1, <3>2, <3>3, <3>5, <3>6, Zenon
      <3> QED BY <3>7, <3>8, Zenon
    <2> QED BY <2>1, <2>2, <1>g, Zenon DEF FirstCrash, OpenLatest
  <1> QED BY <1>1, <1>2, <1>3, <1>4, <1>5, <1>6, <1>7, <1>8, <1>9, Zenon DEF DInv

(* The slot of the page is whole; a page found in the map is done.         *)
LEMMA WriteSlotKeeps ==
  ASSUME DInv, WriteSlot
  PROVE  DInv'
  <1> DEFINE p == add.page
  <1> USE DEF DInv
  <1>a. /\ add.pc \in {"hit", "new"}
        /\ slots' = [slots EXCEPT ![p.page_index] = p]
        /\ add' = IF add.pc = "hit" THEN AddIdle ELSE [add EXCEPT !.pc = "header"]
        /\ UNCHANGED <<dblwr_pages, page_cnt, opened, file_cnt, data, flush, crashes, last, wrote>>
    BY Zenon DEF WriteSlot, mem
  <1>b. add.pc # "idle" /\ add.pc # "header"
    BY <1>a
  <1>p. /\ flush = FlushIdle /\ flush' = FlushIdle /\ p \in DoubleWritePage
        /\ p.key \in DOMAIN dblwr_pages /\ dblwr_pages[p.key] = p
    BY <1>a, <1>b, Zenon DEF AddShape
  <1>f. /\ ~Recovering /\ ~WholeMap /\ ToWrite = DOMAIN dblwr_pages
        /\ \A j : Copy(j) = dblwr_pages[j]
    BY <1>p, NothingFlushed, Zenon
  <1>g. /\ ~Recovering' /\ ~WholeMap' /\ ToWrite' = DOMAIN dblwr_pages
        /\ \A j : Copy(j)' = dblwr_pages[j]
    BY <1>p, <1>a, NothingFlushedNext, Zenon
  <1>i. flush.pc = "idle" /\ flush.caller = "none" /\ flush'.pc = "idle" /\ flush'.caller = "none"
    BY <1>p, FlushIdleFields, Zenon
  <1>t. p.page_index \in SlotNums /\ p.key \in Keys /\ p # NoPage
    BY <1>p, PageFields, Zenon
  <1>v. p.valid
    BY <1>p, <1>f, Zenon DEF Pooled
  <1>e. \/ add.pc = "hit" /\ add' = AddIdle /\ add'.pc = "idle"
        \/ add.pc = "new" /\ add'.pc = "header" /\ add'.page = p /\ add' \in [pc : {"header"}, page : {p}]
    <2>1. CASE add.pc = "hit"
      BY <2>1, <1>a, AddIdleFields, Zenon
    <2>2. CASE add.pc = "new"
      <3>1. add' = [add EXCEPT !.pc = "header"]
        BY <1>a, <1>b, <2>2
      <3>2. add \in [pc : {"idle", "hit", "new", "header"}, page : DoubleWritePage \cup {NoPage}]
        BY Zenon DEF AddShape
      <3> QED BY <2>2, <3>1, <3>2, SMT
    <2> QED BY <1>a, <2>1, <2>2, Zenon
  <1>l. /\ slots' \in [SlotNums -> DoubleWritePage \cup {NoPage}]
        /\ slots'[p.page_index] = p
        /\ \A i \in SlotNums : i # p.page_index => slots'[i] = slots[i]
    BY <1>a, <1>t, <1>p, Zenon DEF Shapes
  <1> HIDE DEF p
  <1>z. Size' = Size
    BY <1>a, Zenon DEF Size
  <1>1. Shapes'
    BY <1>l, <1>a, Zenon DEF Shapes
  <1>2. AddShape'
    <2>1. CASE add' = AddIdle /\ add'.pc = "idle"
      <3>1. AddIdle \in [pc : {"idle", "hit", "new", "header"}, page : DoubleWritePage \cup {NoPage}]
        BY SMT DEF AddIdle
      <3>2. add'.pc # "header"
        BY <2>1
      <3> QED BY <2>1, <3>1, <3>2, Zenon DEF AddShape
    <2>2. CASE add'.pc = "header" /\ add'.page = p /\ add' \in [pc : {"header"}, page : {p}]
      <3>1. add' \in [pc : {"idle", "hit", "new", "header"}, page : DoubleWritePage \cup {NoPage}]
        BY <2>2, <1>p, SMT
      <3>2. add'.pc # "idle"
        BY <2>2
      <3> QED BY <2>2, <3>1, <3>2, <1>l, <1>p, <1>a, Zenon DEF AddShape
    <2> QED BY <1>e, <2>1, <2>2, Zenon
  <1>3. FlushShape'
    BY <1>p, IdleFlushShape, Zenon
  <1>4. Pooled'
    <2>1. \A j \in ToWrite' : Copy(j)'.valid
      BY <1>f, <1>g, Zenon DEF Pooled
    <2>2. flush'.caller # "clear"
      BY <1>i
    <2> QED BY <2>1, <2>2, <1>a, <1>g, Zenon DEF Pooled
  <1>5. Counted'
    <2>1. ASSUME NEW j \in ToWrite', ~Appending(j)' PROVE Copy(j)'.page_index < page_cnt'
      <3>1. ~Appending(j)
        <4>1. CASE add.pc = "hit"
          BY <4>1, Zenon DEF Appending
        <4>2. CASE add'.pc = "header" /\ add'.page = p
          <5>1. add'.pc # "idle" /\ add'.pc # "hit"
            BY <4>2
          <5> QED BY <4>2, <5>1, <2>1, Zenon DEF Appending, Adding, p
        <4> QED BY <4>1, <4>2, <1>e, Zenon
      <3> QED BY <2>1, <3>1, <1>a, <1>f, <1>g, Zenon DEF Counted
    <2>2. add'.pc \in {"idle", "hit"} => add.pc \in {"idle", "hit"}
      BY <1>e
    <2>3. add'.pc \in {"new", "header"} => add.pc \in {"new", "header"} /\ add'.page = add.page
      BY <1>e DEF p
    <2> QED BY <2>1, <2>2, <2>3, <1>f, <1>g, <1>z, <1>a, Zenon DEF Counted
  <1>6. OwnSlots'
    <2>1. \A i \in SlotNums : slots'[i] = NoPage \/ slots'[i].page_index = i
      <3> TAKE i \in SlotNums
      <3>1. CASE i = p.page_index
        BY <3>1, <1>l, Zenon
      <3>2. CASE i # p.page_index
        BY <3>2, <1>l, Zenon DEF OwnSlots
      <3> QED BY <3>1, <3>2, Zenon
    <2>2. ASSUME opened' = DwbPools, NEW j \in ToWrite'
          PROVE  slots'[Copy(j)'.page_index] = Copy(j)'
      <3>1. CASE j = p.key
        BY <3>1, <1>g, <1>p, <1>l, Zenon
      <3>2. CASE j # p.key
        <4>1. j \in DOMAIN dblwr_pages /\ Copy(j)' = dblwr_pages[j] /\ j \in ToWrite /\ Copy(j) = dblwr_pages[j]
          BY <1>g, <1>f, <2>2, Zenon
        <4>2. slots[dblwr_pages[j].page_index] = dblwr_pages[j]
          BY <3>2, <4>1, <2>2, <1>a, Zenon DEF OwnSlots, Adding, p
        <4>3. dblwr_pages[j].page_index # p.page_index
          <5>1. opened = DwbPools /\ dblwr_pages[p.key].page_index = p.page_index
            BY <2>2, <1>p, <1>a, Zenon
          <5> QED BY <3>2, <4>1, <5>1, <1>p, Zenon DEF OwnSlots
        <4>4. dblwr_pages[j].page_index \in SlotNums
          BY <4>1, PageFields, Zenon DEF PageMap, Shapes
        <4> QED BY <4>1, <4>2, <4>3, <4>4, <1>l, Zenon
      <3> QED BY <3>1, <3>2, Zenon
    <2>3. ASSUME opened' = DwbPools, NEW i \in SlotNums, i < page_cnt', slots'[i] # NoPage
          PROVE  slots'[i].key \in DOMAIN dblwr_pages' /\ dblwr_pages'[slots'[i].key].page_index = i
      <3>1. CASE i = p.page_index
        BY <3>1, <1>l, <1>p, <1>a, Zenon
      <3>2. CASE i # p.page_index
        <4>1. slots'[i] = slots[i]
          BY <3>2, <1>l, Zenon
        <4>2. slots[i].key \in DOMAIN dblwr_pages /\ dblwr_pages[slots[i].key].page_index = i
          BY <4>1, <2>3, <1>a, <1>f, Zenon DEF OwnSlots
        <4> QED BY <4>1, <4>2, <1>a, Zenon
      <3> QED BY <3>1, <3>2, Zenon
    <2> QED BY <2>1, <2>2, <2>3, <1>g, <1>f, <1>a, <1>z, Zenon DEF OwnSlots
  <1>7. ValidLive'
    <2> SUFFICES ASSUME NEW i \in SlotNums, NEW x \in Keys,
                        i < file_cnt', slots'[i] # NoPage, slots'[i].valid, slots'[i].key = x
                 PROVE  x \in ToWrite' /\ Copy(x)' = slots'[i]
      BY Zenon DEF ValidLive
    <2>1. CASE i = p.page_index
      BY <2>1, <1>l, <1>p, <1>g, Zenon
    <2>2. CASE i # p.page_index
      <3>1. slots'[i] = slots[i]
        BY <2>2, <1>l, Zenon
      <3>2. x \in ToWrite /\ Copy(x) = slots[i]
        BY <3>1, <1>a, Zenon DEF ValidLive
      <3> QED BY <3>1, <3>2, <1>f, <1>g, Zenon
    <2> QED BY <2>1, <2>2, Zenon
  <1>8. Latest'
    <2>1. \A j \in Keys : IF j \in ToWrite' /\ Copy(j)'.valid THEN Copy(j)'.ver = last'[j] ELSE data'[j] = last'[j]
      BY <1>a, <1>f, <1>g, Zenon DEF Latest
    <2>2. flush'.pc # "mark"
      BY <1>i
    <2> QED BY <2>1, <2>2, <1>a, <1>f, Zenon DEF Latest
  <1>9. FirstCrash'
    <2>1. flush'.pc # "open"
      BY <1>i
    <2>2. ASSUME crashes' = 0, NEW i \in SlotNums, i < file_cnt', slots'[i] # NoPage, ~slots'[i].valid
          PROVE  /\ slots'[i].ver = data'[slots'[i].key]
                 /\ page_cnt' # 0 => /\ slots'[i].key \notin ToWrite'
                                     /\ slots'[i].key[1] \notin opened' \/ flush'.caller \in {"full", "sync"}
      <3>1. slots'[i] = slots[i]
        BY <2>2, <1>l, <1>v, Zenon
      <3>2. data' = data /\ opened' = opened /\ page_cnt' = page_cnt /\ flush' = flush /\ ToWrite' = ToWrite
        BY <1>a, <1>f, <1>g, Zenon
      <3>3. /\ slots[i].ver = data[slots[i].key]
            /\ page_cnt # 0 => slots[i].key \notin ToWrite
            /\ page_cnt # 0 => slots[i].key[1] \notin opened \/ flush.caller \in {"full", "sync"}
        BY <2>2, <3>1, <1>a, Zenon DEF FirstCrash
      <3> QED BY <3>1, <3>2, <3>3, Zenon
    <2> QED BY <2>1, <2>2, <1>g, Zenon DEF FirstCrash, OpenLatest
  <1> QED BY <1>1, <1>2, <1>3, <1>4, <1>5, <1>6, <1>7, <1>8, <1>9, Zenon DEF DInv

(* A flush begins: of the whole map, or of the pages taken out of it.      *)
LEMMA FlushBegins ==
  ASSUME NEW c \in {"full", "sync", "recover", "clear"}, NEW b, PageMap(b), FlushFrom(c, b)
  PROVE  /\ FlushShape' /\ flush'.pc = "next" /\ flush'.caller = c /\ flush'.batch = b
         /\ flush'.pc # "open" /\ flush'.pc # "mark" /\ flush'.pc # "data" /\ flush'.pc # "idle"
  <1>1. flush' = [pc |-> "next", caller |-> c, batch |-> b, key |-> <<>>]
    BY Zenon DEF FlushFrom
  <1>2. flush'.pc = "next" /\ flush'.caller = c /\ flush'.batch = b /\ flush'.key = <<>>
    BY <1>1, Zenon
  <1>3. flush'.pc # "open" /\ flush'.pc # "mark" /\ flush'.pc # "data" /\ flush'.pc # "idle"
    BY <1>2
  <1>4. flush' = [pc |-> flush'.pc, caller |-> flush'.caller, batch |-> flush'.batch, key |-> flush'.key]
    BY <1>1, <1>2, Zenon
  <1>5. PageMap(flush'.batch) /\ flush'.caller \in {"full", "sync", "recover", "clear"}
    BY <1>2, Zenon
  <1>6. flush'.pc \in {"open", "idle", "next", "data", "mark"} /\ flush'.pc \notin {"data", "mark"}
    BY <1>2
  <1> QED BY <1>2, <1>3, <1>4, <1>5, <1>6, Zenon DEF FlushShape, PageMap

LEMMA WholeFlushBegins ==
  ASSUME NEW c \in {"full", "sync", "recover"}, PageMap(dblwr_pages), FlushFrom(c, dblwr_pages),
         dblwr_pages' = dblwr_pages
  PROVE  /\ FlushShape' /\ flush'.pc = "next" /\ flush'.caller = c /\ flush'.batch = dblwr_pages
         /\ flush'.pc # "open" /\ flush'.pc # "mark" /\ flush'.pc # "data" /\ flush'.pc # "idle"
         /\ WholeMap' /\ ToWrite' = DOMAIN dblwr_pages
         /\ \A k \in DOMAIN dblwr_pages : Copy(k)' = dblwr_pages[k]
         /\ c # "recover" => ~Recovering'
  <1>1. c \in {"full", "sync", "recover", "clear"}
    OBVIOUS
  <1>2. /\ FlushShape' /\ flush'.pc = "next" /\ flush'.caller = c /\ flush'.batch = dblwr_pages
        /\ flush'.pc # "open" /\ flush'.pc # "mark" /\ flush'.pc # "data" /\ flush'.pc # "idle"
    BY <1>1, FlushBegins, Zenon
  <1> QED BY <1>2, Zenon DEF WholeMap, ToWrite, Copy, Recovering

(* The slot of a new page counts, and a full buffer is flushed.            *)
LEMMA AddEndKeeps ==
  ASSUME DInv, AddEnd
  PROVE  DInv'
  <1> DEFINE p == add.page
             i0 == add.page.page_index
  <1> USE DEF DInv
  <1>a. /\ add.pc = "header" /\ add' = AddIdle
        /\ page_cnt' = Max({page_cnt, i0 + 1})
        /\ file_cnt' = IF i0 + 1 > page_cnt THEN page_cnt' ELSE file_cnt
        /\ IF Size >= MaxDwbPages THEN FlushFrom("full", dblwr_pages) ELSE UNCHANGED flush
        /\ UNCHANGED <<dblwr_pages, opened, slots, data, crashes, last, wrote>>
    BY Zenon DEF AddEnd
  <1>b. add.pc # "idle" /\ add.pc # "hit" /\ add.pc \in {"new", "header"} /\ add'.pc = "idle"
    BY <1>a, AddIdleFields
  <1>p. /\ flush = FlushIdle /\ p \in DoubleWritePage /\ slots[i0] = p
        /\ p.key \in DOMAIN dblwr_pages /\ dblwr_pages[p.key] = p
    BY <1>a, <1>b, Zenon DEF AddShape
  <1>f. /\ ~Recovering /\ ~WholeMap /\ ToWrite = DOMAIN dblwr_pages
        /\ \A j : Copy(j) = dblwr_pages[j]
    BY <1>p, NothingFlushed, Zenon
  <1>m. PageMap(dblwr_pages)
    BY Zenon DEF Shapes
  <1>i. flush.pc = "idle" /\ flush.caller = "none"
    BY <1>p, FlushIdleFields, Zenon
  <1>g. /\ FlushShape' /\ ~Recovering' /\ ToWrite' = DOMAIN dblwr_pages
        /\ \A j \in DOMAIN dblwr_pages : Copy(j)' = dblwr_pages[j]
        /\ flush'.pc # "open" /\ flush'.pc # "mark" /\ flush'.pc # "data" /\ flush'.caller # "clear"
        /\ WholeMap' => flush'.batch = dblwr_pages
        /\ ~WholeMap' => Size < MaxDwbPages
    <2>1. CASE Size >= MaxDwbPages
      <3>1. "full" \in {"full", "sync", "recover"} /\ "full" # "recover" /\ "full" # "clear"
        OBVIOUS
      <3>2. FlushFrom("full", dblwr_pages) /\ dblwr_pages' = dblwr_pages
        BY <2>1, <1>a, Zenon
      <3> QED BY <3>1, <3>2, <1>m, WholeFlushBegins, Zenon
    <2>2. CASE ~(Size >= MaxDwbPages)
      <3>1. flush' = FlushIdle
        BY <2>2, <1>a, <1>p, Zenon
      <3>2. Size \in Nat
        BY <1>m, SizeFacts, Zenon DEF Size, PageMap
      <3>3. Size < MaxDwbPages
        BY <2>2, <3>2, DoubleWriteBufferAssumption, SMT
      <3>4. flush'.pc = "idle" /\ flush'.caller = "none"
        BY <3>1, FlushIdleFields, Zenon
      <3>5. flush'.pc # "open" /\ flush'.pc # "mark" /\ flush'.pc # "data" /\ flush'.caller # "clear"
        BY <3>4
      <3>6. dblwr_pages' = dblwr_pages
        BY <1>a, Zenon
      <3> QED BY <3>1, <3>3, <3>5, <3>6, IdleFlushShape, NothingFlushedNext, Zenon
    <2> QED BY <2>1, <2>2, Zenon
  <1>t. i0 \in SlotNums /\ p # NoPage /\ p.page_index = i0
    BY <1>p, PageFields, Zenon
  <1>v. p.valid
    BY <1>p, <1>f, Zenon DEF Pooled
  <1>c. i0 <= page_cnt /\ Size = i0 + 1 /\ (page_cnt = 0 \/ page_cnt = file_cnt)
        /\ page_cnt \in 0..MaxDwbPages /\ file_cnt \in 0..MaxDwbPages
    BY <1>b, Zenon DEF Counted, Shapes
  <1>h. Max({page_cnt, i0 + 1}) = IF page_cnt >= i0 + 1 THEN page_cnt ELSE i0 + 1
    <2>1. page_cnt \in Int /\ i0 + 1 \in Int
      BY <1>c, <1>t, SlotIndex, SMT
    <2> QED BY <2>1, MaxOfTwo, Zenon
  <1>z. Size' = Size
    BY <1>a, Zenon DEF Size
  <1> HIDE DEF p, i0
  <1>n. /\ page_cnt' \in 0..MaxDwbPages /\ file_cnt' \in 0..MaxDwbPages /\ page_cnt' = file_cnt'
        /\ Size <= page_cnt' /\ i0 < page_cnt' /\ page_cnt' >= page_cnt
        /\ \A i \in SlotNums : i < page_cnt' => i < page_cnt \/ i = i0
        /\ \A i \in SlotNums : i < file_cnt' => (i < file_cnt /\ page_cnt # 0) \/ i = i0
        /\ \A i \in SlotNums : i < page_cnt => i < page_cnt'
    BY <1>a, <1>c, <1>h, <1>t, SlotIndex, SMT
  <1>1. Shapes'
    BY <1>n, <1>a, Zenon DEF Shapes
  <1>2. AddShape'
    <2>1. AddIdle \in [pc : {"idle", "hit", "new", "header"}, page : DoubleWritePage \cup {NoPage}]
      BY SMT DEF AddIdle
    <2>2. add'.pc # "header"
      BY <1>b
    <2> QED BY <2>1, <2>2, <1>a, <1>b, Zenon DEF AddShape
  <1>3. FlushShape'
    BY <1>g, Zenon
  <1>4. Pooled'
    <2>1. \A j \in ToWrite' : Copy(j)'.valid
      BY <1>f, <1>g, Zenon DEF Pooled
    <2>2. \A j \in DOMAIN dblwr_pages' : j[1] \in opened'
      BY <1>a, Zenon DEF Pooled
    <2>3. WholeMap' => \A j \in DOMAIN flush'.batch : j \in DOMAIN dblwr_pages' /\ flush'.batch[j] = dblwr_pages'[j]
      BY <1>g, <1>a, Zenon
    <2> QED BY <2>1, <2>2, <2>3, <1>g, Zenon DEF Pooled
  <1>5. Counted'
    <2>1. ASSUME NEW j \in ToWrite' PROVE Copy(j)'.page_index < page_cnt'
      <3>1. j \in DOMAIN dblwr_pages /\ Copy(j)' = dblwr_pages[j] /\ Copy(j) = dblwr_pages[j] /\ j \in ToWrite
        BY <2>1, <1>f, <1>g, Zenon
      <3>2. CASE j = p.key
        BY <3>1, <3>2, <1>p, <1>t, <1>n, Zenon
      <3>3. CASE j # p.key
        <4>1. Copy(j).page_index < page_cnt
          BY <3>1, <3>3, Zenon DEF Counted, Appending, Adding, p
        <4>2. dblwr_pages[j].page_index \in SlotNums
          BY <3>1, <1>m, PageFields, Zenon DEF PageMap
        <4> QED BY <3>1, <4>1, <4>2, <1>n, Zenon
      <3> QED BY <3>2, <3>3, Zenon
    <2>2. ~(add'.pc \in {"new", "header"})
      BY <1>b
    <2> QED BY <2>1, <2>2, <1>n, <1>z, <1>g, Zenon DEF Counted
  <1>6. OwnSlots'
    <2>1. ASSUME opened' = DwbPools, NEW j \in ToWrite'
          PROVE  slots'[Copy(j)'.page_index] = Copy(j)'
      <3>1. j \in ToWrite /\ Copy(j)' = Copy(j)
        BY <1>f, <1>g, <2>1, Zenon
      <3> QED BY <3>1, <2>1, <1>a, Zenon DEF OwnSlots
    <2>2. ASSUME opened' = DwbPools, NEW i \in SlotNums, i < page_cnt', slots'[i] # NoPage
          PROVE  slots'[i].key \in DOMAIN dblwr_pages' /\ dblwr_pages'[slots'[i].key].page_index = i
      <3>1. CASE i = i0
        BY <3>1, <1>p, <1>t, <1>a, Zenon
      <3>2. CASE i < page_cnt
        <4>1. slots[i].key \in DOMAIN dblwr_pages /\ dblwr_pages[slots[i].key].page_index = i
          BY <3>2, <2>2, <1>a, <1>f, Zenon DEF OwnSlots
        <4> QED BY <4>1, <1>a, Zenon
      <3> QED BY <3>1, <3>2, <2>2, <1>n, Zenon
    <2> QED BY <2>1, <2>2, <1>g, <1>f, <1>a, <1>z, Zenon DEF OwnSlots
  <1>7. ValidLive'
    <2> SUFFICES ASSUME NEW i \in SlotNums, NEW x \in Keys,
                        i < file_cnt', slots'[i] # NoPage, slots'[i].valid, slots'[i].key = x
                 PROVE  x \in ToWrite' /\ Copy(x)' = slots'[i]
      BY Zenon DEF ValidLive
    <2>1. CASE i = i0
      BY <2>1, <1>p, <1>g, <1>a, Zenon
    <2>2. CASE i < file_cnt
      <3>1. x \in ToWrite /\ Copy(x) = slots[i]
        BY <2>2, <1>a, Zenon DEF ValidLive
      <3> QED BY <3>1, <1>a, <1>f, <1>g, Zenon
    <2> QED BY <2>1, <2>2, <1>n, Zenon
  <1>8. Latest'
    <2>1. \A j \in Keys : IF j \in ToWrite' /\ Copy(j)'.valid THEN Copy(j)'.ver = last'[j] ELSE data'[j] = last'[j]
      BY <1>a, <1>f, <1>g, Zenon DEF Latest
    <2>2. \A j \in Keys : data'[j] # Torn
      <3>1. flush.pc # "data"
        BY <1>i
      <3> QED BY <3>1, <1>f, <1>a, Zenon DEF Latest
    <2> QED BY <2>1, <2>2, <1>a, <1>g, Zenon DEF Latest
  <1>9. FirstCrash'
    <2>2. ASSUME crashes' = 0, NEW i \in SlotNums, i < file_cnt', slots'[i] # NoPage, ~slots'[i].valid
          PROVE  /\ slots'[i].ver = data'[slots'[i].key]
                 /\ page_cnt' # 0 => /\ slots'[i].key \notin ToWrite'
                                     /\ slots'[i].key[1] \notin opened' \/ flush'.caller \in {"full", "sync"}
      <3>1. i < file_cnt /\ page_cnt # 0
        BY <2>2, <1>n, <1>p, <1>v, <1>a, Zenon
      <3>2. data' = data /\ opened' = opened /\ slots' = slots /\ ToWrite' = ToWrite
        BY <1>a, <1>f, <1>g, Zenon
      <3>3. flush.caller \notin {"full", "sync"}
        BY <1>i
      <3>4. /\ slots[i].ver = data[slots[i].key]
            /\ slots[i].key \notin ToWrite
            /\ slots[i].key[1] \notin opened
        BY <2>2, <3>1, <3>3, <1>a, Zenon DEF FirstCrash
      <3> QED BY <3>2, <3>4, Zenon
    <2> QED BY <2>2, <1>g, Zenon DEF FirstCrash, OpenLatest
  <1> QED BY <1>1, <1>2, <1>3, <1>4, <1>5, <1>6, <1>7, <1>8, <1>9, Zenon DEF DInv

-----------------------------------------------------------------------------
(* flush_page and clear_pages *)

(* A step that changes neither the slots nor the pages to write            *)
LEMMA SameView ==
  ASSUME DInv, ToWrite' = ToWrite, \A k \in ToWrite : Copy(k)' = Copy(k),
         UNCHANGED <<dblwr_pages, page_cnt, file_cnt, slots, opened, add>>,
         Recovering' <=> Recovering, WholeMap => WholeMap'
  PROVE  Counted' /\ OwnSlots' /\ ValidLive'
  <1> USE DEF DInv
  <1>1. Size' = Size /\ \A k : (Adding(k)' <=> Adding(k)) /\ (Appending(k)' <=> Appending(k))
    BY Zenon DEF Size, Adding, Appending
  <1>2. Counted'
    <2>1. \A k \in ToWrite' : ~Appending(k)' => Copy(k)'.page_index < page_cnt'
      BY <1>1, Zenon DEF Counted
    <2> QED BY <1>1, <2>1, Zenon DEF Counted
  <1>3. OwnSlots'
    <2>1. opened' = DwbPools => \A k \in ToWrite' :
            (Adding(k)' /\ add'.pc # "header") \/ slots'[Copy(k)'.page_index] = Copy(k)'
      <3> SUFFICES ASSUME opened' = DwbPools, NEW k \in ToWrite
                   PROVE  (Adding(k)' /\ add'.pc # "header") \/ slots'[Copy(k)'.page_index] = Copy(k)'
        OBVIOUS
      <3>1. Copy(k)' = Copy(k) /\ slots' = slots /\ add' = add /\ opened = DwbPools
        BY Zenon
      <3>2. (Adding(k) /\ add.pc # "header") \/ slots[Copy(k).page_index] = Copy(k)
        BY <3>1, Zenon DEF OwnSlots
      <3> QED BY <3>1, <3>2, <1>1, Zenon
    <2> QED BY <1>1, <2>1, Zenon DEF OwnSlots
  <1>4. ValidLive'
    BY Zenon DEF ValidLive
  <1> QED BY <1>2, <1>3, <1>4, Zenon

(* Copies that are marked invalid stay what they were.                     *)
LEMMA SameInvalid ==
  ASSUME DInv, ToWrite' \subseteq ToWrite, opened' \subseteq opened,
         UNCHANGED <<page_cnt, file_cnt, slots, crashes>>,
         crashes = 0 => ~Recovering', flush'.pc # "open",
         \A k \in Keys : data'[k] = data[k] \/ (k \in ToWrite /\ page_cnt # 0),
         flush.caller \in {"full", "sync"} => flush'.caller \in {"full", "sync"}
  PROVE  FirstCrash'
  <1> USE DEF DInv
  <1>1. ASSUME crashes' = 0, NEW i \in SlotNums, i < file_cnt', slots'[i] # NoPage, ~slots'[i].valid
        PROVE  /\ slots'[i].ver = data'[slots'[i].key]
               /\ page_cnt' # 0 => /\ slots'[i].key \notin ToWrite'
                                   /\ slots'[i].key[1] \notin opened' \/ flush'.caller \in {"full", "sync"}
    <2>1. /\ slots[i].ver = data[slots[i].key]
          /\ page_cnt # 0 => slots[i].key \notin ToWrite
          /\ page_cnt # 0 => slots[i].key[1] \notin opened \/ flush.caller \in {"full", "sync"}
      BY <1>1, Zenon DEF FirstCrash
    <2>2. slots[i].key \in Keys
      BY <1>1, SlotTypes, PageFields, Zenon
    <2>3. data'[slots[i].key] = data[slots[i].key]
      BY <2>1, <2>2, Zenon
    <2> QED BY <2>1, <2>3, Zenon
  <1> QED BY <1>1, Zenon DEF FirstCrash, OpenLatest

(* Db::sync flushes the whole map.                                         *)
LEMMA SyncFlushKeeps ==
  ASSUME DInv, SyncFlush
  PROVE  DInv'
  <1> USE DEF DInv
  <1>a. /\ add = AddIdle /\ flush = FlushIdle /\ FlushFrom("sync", dblwr_pages)
        /\ UNCHANGED <<dblwr_pages, page_cnt, opened, file_cnt, slots, data, add, crashes, last, wrote>>
    BY Zenon DEF SyncFlush, Quiet, mem, disk
  <1>f. /\ ~Recovering /\ ~WholeMap /\ ToWrite = DOMAIN dblwr_pages
        /\ \A j : Copy(j) = dblwr_pages[j]
    BY <1>a, NothingFlushed, Zenon
  <1>i. flush.pc = "idle" /\ flush.caller = "none" /\ add'.pc = "idle" /\ add'.pc # "header"
    <2>1. flush.pc = "idle" /\ flush.caller = "none" /\ add'.pc = "idle"
      BY <1>a, FlushIdleFields, AddIdleFields, Zenon
    <2> QED BY <2>1
  <1>g. /\ FlushShape' /\ ~Recovering' /\ ToWrite' = DOMAIN dblwr_pages /\ WholeMap'
        /\ \A j \in DOMAIN dblwr_pages : Copy(j)' = dblwr_pages[j]
        /\ flush'.pc # "open" /\ flush'.pc # "mark" /\ flush'.pc # "data"
        /\ flush'.caller = "sync" /\ flush'.batch = dblwr_pages
    <2>1. "sync" \in {"full", "sync", "recover"} /\ "sync" # "recover" /\ "sync" # "clear"
      OBVIOUS
    <2>2. PageMap(dblwr_pages) /\ dblwr_pages' = dblwr_pages
      BY <1>a, Zenon DEF Shapes
    <2> QED BY <1>a, <2>1, <2>2, WholeFlushBegins, Zenon
  <1>1. Shapes'
    BY <1>a, Zenon DEF Shapes
  <1>2. AddShape'
    BY <1>a, <1>i, Zenon DEF AddShape
  <1>3. Pooled'
    <2>1. \A j \in ToWrite' : Copy(j)'.valid
      BY <1>f, <1>g, Zenon DEF Pooled
    <2>2. flush'.caller # "clear"
      BY <1>g
    <2> QED BY <2>1, <2>2, <1>a, <1>g, Zenon DEF Pooled
  <1>4. Counted' /\ OwnSlots' /\ ValidLive'
    BY <1>a, <1>f, <1>g, SameView, Zenon
  <1>5. Latest'
    <2>1. \A j \in Keys : IF j \in ToWrite' /\ Copy(j)'.valid THEN Copy(j)'.ver = last'[j] ELSE data'[j] = last'[j]
      BY <1>a, <1>f, <1>g, Zenon DEF Latest
    <2>2. \A j \in Keys : data'[j] # Torn
      <3>1. flush.pc # "data"
        BY <1>i
      <3> QED BY <3>1, <1>f, <1>a, Zenon DEF Latest
    <2> QED BY <2>1, <2>2, <1>a, <1>g, Zenon DEF Latest
  <1>6. FirstCrash'
    <2>1. flush.caller \notin {"full", "sync"}
      BY <1>i
    <2>2. ToWrite' \subseteq ToWrite /\ opened' \subseteq opened /\ \A k \in Keys : data'[k] = data[k]
      BY <1>f, <1>g, <1>a, Zenon
    <2> QED BY <2>1, <2>2, <1>a, <1>g, SameInvalid, Zenon
  <1> QED BY <1>1, <1>2, <1>3, <1>4, <1>5, <1>6, <1>g, Zenon DEF DInv

(* recover() flushes what load_pages found.                                *)
LEMMA RecoverKeeps ==
  ASSUME DInv, Recover
  PROVE  DInv'
  <1> USE DEF DInv
  <1>a. /\ flush.pc = "open" /\ FlushFrom("recover", dblwr_pages)
        /\ UNCHANGED <<dblwr_pages, page_cnt, opened, file_cnt, slots, data, add, crashes, last, wrote>>
    BY Zenon DEF Recover, mem, disk
  <1>b. flush.caller = "none" /\ DOMAIN flush.batch = {} /\ flush.pc # "idle" /\ flush.pc # "mark"
    BY <1>a DEF FlushShape
  <1>c. flush # FlushIdle
    BY <1>b, FlushIdleFields, Zenon
  <1>d. add.pc = "idle" /\ add.pc # "header"
    <2>1. add.pc = "idle"
      BY <1>c, Zenon DEF AddShape
    <2> QED BY <2>1
  <1>f. /\ Recovering /\ ~WholeMap /\ ToWrite = DOMAIN dblwr_pages
        /\ \A j : Copy(j) = dblwr_pages[j]
    BY <1>a, <1>b DEF Recovering, WholeMap, ToWrite, Copy
  <1>g. /\ FlushShape' /\ ToWrite' = DOMAIN dblwr_pages /\ WholeMap'
        /\ \A j \in DOMAIN dblwr_pages : Copy(j)' = dblwr_pages[j]
        /\ flush'.pc # "open" /\ flush'.pc # "mark" /\ flush'.pc # "data"
        /\ flush'.caller = "recover" /\ flush'.batch = dblwr_pages
    <2>1. "recover" \in {"full", "sync", "recover"} /\ "recover" # "clear"
      OBVIOUS
    <2>2. PageMap(dblwr_pages) /\ dblwr_pages' = dblwr_pages
      BY <1>a, Zenon DEF Shapes
    <2> QED BY <1>a, <2>1, <2>2, WholeFlushBegins, Zenon
  <1>h. Recovering'
    BY <1>g, Zenon DEF Recovering
  <1>1. Shapes'
    BY <1>a, Zenon DEF Shapes
  <1>2. AddShape'
    BY <1>a, <1>d, Zenon DEF AddShape
  <1>3. Pooled'
    <2>1. flush'.caller # "clear"
      BY <1>g
    <2> QED BY <2>1, <1>a, <1>f, <1>g, <1>h, Zenon DEF Pooled
  <1>4. Counted' /\ OwnSlots' /\ ValidLive'
    BY <1>a, <1>f, <1>g, <1>h, SameView, Zenon
  <1>5. Latest'
    <2>1. \A j \in Keys : IF j \in ToWrite' /\ Copy(j)'.valid THEN Copy(j)'.ver = last'[j] ELSE data'[j] = last'[j]
      BY <1>a, <1>f, <1>g, Zenon DEF Latest
    <2> QED BY <2>1, <1>a, <1>g, <1>h, Zenon DEF Latest
  <1>6. FirstCrash'
    BY <1>a, <1>f, <1>g, Zenon DEF FirstCrash, OpenLatest
  <1> QED BY <1>1, <1>2, <1>3, <1>4, <1>5, <1>6, <1>g, Zenon DEF DInv

(* While a flush is at a page, add_page is not called.                     *)
LEMMA Flushing ==
  ASSUME DInv, flush.pc \in {"next", "data", "mark"}
  PROVE  /\ add = AddIdle /\ add.pc = "idle" /\ add.pc # "header" /\ (Recovering <=> flush.caller = "recover")
         /\ flush.caller \in {"full", "sync", "recover", "clear"}
         /\ \A k : ~Adding(k) /\ ~Appending(k)
         /\ DOMAIN flush.batch \subseteq ToWrite
         /\ \A k \in DOMAIN flush.batch : Copy(k) = flush.batch[k]
         /\ \A k \in DOMAIN flush.batch : flush.batch[k] \in DoubleWritePage /\ flush.batch[k].key = k /\ k \in Keys
         /\ DOMAIN flush.batch # {} => page_cnt # 0
  <1> USE DEF DInv
  <1>1. flush.pc # "idle" /\ flush.pc # "open"
    OBVIOUS
  <1>2. flush # FlushIdle
    BY <1>1, FlushIdleFields, Zenon
  <1>3. add.pc = "idle" /\ add = AddIdle
    BY <1>2, Zenon DEF AddShape
  <1>4. add.pc # "header"
    BY <1>3
  <1>5. \A k : ~Adding(k) /\ ~Appending(k)
    BY <1>3, Zenon DEF Adding, Appending
  <1>6. DOMAIN flush.batch \subseteq ToWrite /\ \A k \in DOMAIN flush.batch : Copy(k) = flush.batch[k]
    BY Zenon DEF ToWrite, Copy
  <1>7. \A k \in DOMAIN flush.batch : flush.batch[k] \in DoubleWritePage /\ flush.batch[k].key = k /\ k \in Keys
    BY Zenon DEF FlushShape, PageMap
  <1>8. ASSUME NEW k \in DOMAIN flush.batch PROVE page_cnt # 0
    <2>1. flush.batch[k].page_index < page_cnt
      BY <1>5, <1>6, Zenon DEF Counted
    <2>2. flush.batch[k].page_index \in SlotNums
      BY <1>7, PageFields, Zenon
    <2> QED BY <2>1, <2>2, SlotIndex, SMT
  <1> QED BY <1>1, <1>3, <1>4, <1>5, <1>6, <1>7, <1>8, Zenon DEF FlushShape, Recovering

LEMMA FlushMoves ==
  ASSUME NEW f, NEW x, NEW y, f = [pc |-> f.pc, caller |-> f.caller, batch |-> f.batch, key |-> f.key]
  PROVE  [f EXCEPT !.pc = x, !.key = y] = [pc |-> x, caller |-> f.caller, batch |-> f.batch, key |-> y]
  <1> DEFINE c == f.caller
             b == f.batch
             d == f.pc
             e == f.key
  <1>1. f = [pc |-> d, caller |-> c, batch |-> b, key |-> e]
    OBVIOUS
  <1> HIDE DEF b, c, d, e
  <1>2. [f EXCEPT !.pc = x] = [pc |-> x, caller |-> c, batch |-> b, key |-> e]
    BY <1>1
  <1> DEFINE g == [f EXCEPT !.pc = x]
  <1>3. [f EXCEPT !.pc = x, !.key = y] = [g EXCEPT !.key = y]
    OBVIOUS
  <1>4. [g EXCEPT !.key = y] = [pc |-> x, caller |-> c, batch |-> b, key |-> y]
    <2>1. g = [pc |-> x, caller |-> c, batch |-> b, key |-> e]
      BY <1>2
    <2> HIDE DEF g
    <2> QED BY <2>1
  <1> QED BY <1>3, <1>4, Zenon DEF b, c

(* A page is torn in its data file while its valid copy is in a slot.      *)
LEMMA WriteBeginKeeps ==
  ASSUME DInv, NEW k \in Keys, WriteBegin(k)
  PROVE  DInv'
  <1> USE DEF DInv
  <1>a. /\ flush.pc = "next" /\ k \in DOMAIN flush.batch
        /\ IF flush.batch[k].valid
           THEN /\ data' = [data EXCEPT ![k] = Torn]
                /\ flush' = [flush EXCEPT !.pc = "data", !.key = k]
           ELSE flush' = [flush EXCEPT !.pc = "mark", !.key = k] /\ data' = data
        /\ UNCHANGED <<dblwr_pages, page_cnt, opened, file_cnt, slots, add, crashes, last, wrote>>
    BY Zenon DEF WriteBegin, MayWrite, mem
  <1>b. flush.pc \in {"next", "data", "mark"} /\ flush.pc # "data" /\ flush.pc # "mark"
    BY <1>a
  <1>c. /\ add = AddIdle /\ add.pc = "idle" /\ add.pc # "header" /\ (Recovering <=> flush.caller = "recover")
        /\ flush.caller \in {"full", "sync", "recover", "clear"}
        /\ k \in ToWrite /\ Copy(k) = flush.batch[k]
        /\ page_cnt # 0
    BY <1>a, <1>b, Flushing, Zenon
  <1>d. /\ flush'.caller = flush.caller /\ flush'.batch = flush.batch /\ flush'.key = k
        /\ flush'.pc = IF flush.batch[k].valid THEN "data" ELSE "mark"
        /\ flush' = [pc |-> flush'.pc, caller |-> flush'.caller, batch |-> flush'.batch, key |-> flush'.key]
    <2>1. flush = [pc |-> flush.pc, caller |-> flush.caller, batch |-> flush.batch, key |-> flush.key]
      BY Zenon DEF FlushShape
    <2>2. CASE flush.batch[k].valid
      <3>1. flush' = [flush EXCEPT !.pc = "data", !.key = k]
        BY <1>a, <2>2, Zenon
      <3>2. /\ flush'.caller = flush.caller /\ flush'.batch = flush.batch /\ flush'.key = k
            /\ flush'.pc = "data"
            /\ flush' = [pc |-> flush'.pc, caller |-> flush'.caller, batch |-> flush'.batch, key |-> flush'.key]
        <4>1. flush' = [pc |-> "data", caller |-> flush.caller, batch |-> flush.batch, key |-> k]
          BY <2>1, <3>1, FlushMoves, Zenon
        <4> QED BY <4>1, Zenon
      <3> QED BY <2>2, <3>2, Zenon
    <2>3. CASE ~flush.batch[k].valid
      <3>1. flush' = [flush EXCEPT !.pc = "mark", !.key = k]
        BY <1>a, <2>3, Zenon
      <3>2. /\ flush'.caller = flush.caller /\ flush'.batch = flush.batch /\ flush'.key = k
            /\ flush'.pc = "mark"
            /\ flush' = [pc |-> flush'.pc, caller |-> flush'.caller, batch |-> flush'.batch, key |-> flush'.key]
        <4>1. flush' = [pc |-> "mark", caller |-> flush.caller, batch |-> flush.batch, key |-> k]
          BY <2>1, <3>1, FlushMoves, Zenon
        <4> QED BY <4>1, Zenon
      <3> QED BY <2>3, <3>2, Zenon
    <2> QED BY <2>2, <2>3, Zenon
  <1>e. flush'.pc # "open" /\ flush'.pc # "idle" /\ flush'.pc \in {"next", "data", "mark"}
    BY <1>d
  <1>g. /\ (Recovering' <=> Recovering) /\ (WholeMap' <=> WholeMap) /\ ToWrite' = ToWrite
        /\ \A j : Copy(j)' = Copy(j)
    BY <1>a, <1>c, <1>d, <1>e, Zenon DEF Recovering, WholeMap, ToWrite, Copy
  <1>t. \A j \in Keys : j # k => data'[j] = data[j]
    BY <1>a, Zenon DEF Shapes
  <1>1. Shapes'
    BY <1>a, Zenon DEF Shapes
  <1>2. AddShape'
    BY <1>a, <1>c, Zenon DEF AddShape
  <1>3. FlushShape'
    <2>1. flush'.pc = "data" => flush.batch[k].valid
      BY <1>d
    <2>2. flush'.pc \in {"open", "idle", "next", "data", "mark"}
      BY <1>d
    <2>3. PageMap(flush'.batch)
      BY <1>d, Zenon DEF FlushShape
    <2> QED BY <2>1, <2>2, <2>3, <1>a, <1>c, <1>d, <1>e, Zenon DEF FlushShape
  <1>4. Pooled'
    BY <1>a, <1>d, <1>g, Zenon DEF Pooled
  <1>5. Counted' /\ OwnSlots' /\ ValidLive'
    BY <1>a, <1>g, SameView, Zenon
  <1>6. Latest'
    <2>1. ASSUME NEW j \in Keys
          PROVE  IF j \in ToWrite' /\ Copy(j)'.valid THEN Copy(j)'.ver = last'[j] ELSE data'[j] = last'[j]
      <3>1. CASE j = k /\ flush.batch[k].valid
        BY <3>1, <1>a, <1>c, <1>g, Zenon DEF Latest
      <3>2. CASE ~(j = k /\ flush.batch[k].valid)
        <4>1. data'[j] = data[j]
          BY <3>2, <1>a, <1>t, Zenon
        <4> QED BY <4>1, <1>a, <1>g, Zenon DEF Latest
      <3> QED BY <3>1, <3>2, Zenon
    <2>2. flush'.pc = "mark" => data'[flush'.key] = last'[flush'.key]
      <3>1. flush'.pc = "mark" => ~flush.batch[k].valid
        BY <1>d
      <3> QED BY <3>1, <1>a, <1>c, <1>d, Zenon DEF Latest
    <2>3. \A j \in Keys : data'[j] = Torn \/ data'[j] = wrote'[j]
      BY <1>a, <1>t, Zenon DEF Latest, Shapes
    <2>4. ~Recovering' => \A j \in Keys : data'[j] = Torn => flush'.pc = "data" /\ j = flush'.key
      <3> SUFFICES ASSUME ~Recovering', NEW j \in Keys, data'[j] = Torn
                   PROVE  flush'.pc = "data" /\ j = flush'.key
        OBVIOUS
      <3>1. data[j] # Torn
        BY <1>b, <1>g, Zenon DEF Latest
      <3>2. j = k /\ flush.batch[k].valid
        BY <3>1, <1>t, <1>a, Zenon
      <3> QED BY <3>2, <1>d, Zenon
    <2> QED BY <2>1, <2>2, <2>3, <2>4, <1>a, Zenon DEF Latest
  <1>7. FirstCrash'
    <2>1. ToWrite' \subseteq ToWrite /\ opened' \subseteq opened
      BY <1>a, <1>g, Zenon
    <2>2. \A j \in Keys : data'[j] = data[j] \/ (j \in ToWrite /\ page_cnt # 0)
      BY <1>t, <1>c, Zenon
    <2>3. crashes = 0 => ~Recovering'
      BY <1>g, Zenon DEF FirstCrash
    <2> QED BY <2>1, <2>2, <2>3, <1>a, <1>d, <1>e, SameInvalid, Zenon
  <1> QED BY <1>1, <1>2, <1>3, <1>4, <1>5, <1>6, <1>7, Zenon DEF DInv

(* The page is whole in its data file, and not yet marked in its slot.     *)
LEMMA WriteDataKeeps ==
  ASSUME DInv, WriteData
  PROVE  DInv'
  <1> DEFINE k == flush.key
             v == flush.batch[flush.key].ver
  <1> USE DEF DInv
  <1>a. /\ flush.pc = "data"
        /\ data' = [data EXCEPT ![k] = v] /\ wrote' = [wrote EXCEPT ![k] = v]
        /\ flush' = [flush EXCEPT !.pc = "mark"]
        /\ UNCHANGED <<dblwr_pages, page_cnt, opened, file_cnt, slots, add, crashes, last>>
    BY Zenon DEF WriteData, mem
  <1>b. flush.pc \in {"next", "data", "mark"} /\ flush.pc \in {"data", "mark"} /\ flush.pc # "mark"
    BY <1>a
  <1>k. k \in DOMAIN flush.batch /\ flush.batch[k].valid
    BY <1>a, <1>b, Zenon DEF FlushShape
  <1>c. /\ add = AddIdle /\ add.pc = "idle" /\ add.pc # "header" /\ (Recovering <=> flush.caller = "recover")
        /\ flush.caller \in {"full", "sync", "recover", "clear"}
        /\ k \in ToWrite /\ Copy(k) = flush.batch[k] /\ k \in Keys
        /\ flush.batch[k] \in DoubleWritePage /\ page_cnt # 0
    BY <1>k, <1>b, Flushing, Zenon
  <1>d. /\ flush'.caller = flush.caller /\ flush'.batch = flush.batch /\ flush'.key = k /\ flush'.pc = "mark"
        /\ flush' = [pc |-> flush'.pc, caller |-> flush'.caller, batch |-> flush'.batch, key |-> flush'.key]
    <2>1. flush = [pc |-> flush.pc, caller |-> flush.caller, batch |-> flush.batch, key |-> flush.key]
      BY Zenon DEF FlushShape
    <2> QED BY <2>1, <1>a, SMT
  <1>e. /\ flush'.pc # "open" /\ flush'.pc # "idle" /\ flush'.pc \in {"next", "data", "mark"}
        /\ flush'.pc # "data"
    BY <1>d
  <1>v. v \in Ver /\ v # Torn /\ v = last[k]
    BY <1>c, <1>k, PageFields, Zenon DEF Latest
  <1> HIDE DEF k, v
  <1>g. /\ (Recovering' <=> Recovering) /\ (WholeMap' <=> WholeMap) /\ ToWrite' = ToWrite
        /\ \A j : Copy(j)' = Copy(j)
    BY <1>a, <1>c, <1>d, <1>e, Zenon DEF Recovering, WholeMap, ToWrite, Copy
  <1>t. /\ \A j \in Keys : j # k => data'[j] = data[j] /\ wrote'[j] = wrote[j]
        /\ data'[k] = v /\ wrote'[k] = v
    BY <1>a, <1>c, Zenon DEF Shapes
  <1>1. Shapes'
    BY <1>a, <1>v, Zenon DEF Shapes
  <1>2. AddShape'
    BY <1>a, <1>c, Zenon DEF AddShape
  <1>3. FlushShape'
    <2>1. flush'.pc \in {"open", "idle", "next", "data", "mark"}
      BY <1>d
    <2>2. PageMap(flush'.batch)
      BY <1>d, Zenon DEF FlushShape
    <2> QED BY <2>1, <2>2, <1>k, <1>c, <1>d, <1>e, Zenon DEF FlushShape
  <1>4. Pooled'
    BY <1>a, <1>d, <1>g, Zenon DEF Pooled
  <1>5. Counted' /\ OwnSlots' /\ ValidLive'
    BY <1>a, <1>g, SameView, Zenon
  <1>6. Latest'
    <2>1. ASSUME NEW j \in Keys
          PROVE  IF j \in ToWrite' /\ Copy(j)'.valid THEN Copy(j)'.ver = last'[j] ELSE data'[j] = last'[j]
      <3>1. CASE j = k
        BY <3>1, <1>a, <1>c, <1>k, <1>g, Zenon DEF Latest
      <3>2. CASE j # k
        BY <3>2, <1>t, <1>a, <1>g, Zenon DEF Latest
      <3> QED BY <3>1, <3>2, Zenon
    <2>2. flush'.pc = "mark" => data'[flush'.key] = last'[flush'.key]
      BY <1>d, <1>t, <1>v, <1>a, Zenon
    <2>3. \A j \in Keys : data'[j] = Torn \/ data'[j] = wrote'[j]
      BY <1>t, Zenon DEF Latest
    <2>4. \A j \in Keys : last'[j] >= wrote'[j]
      <3>1. v >= v
        BY <1>v, VerNat, SMT
      <3> QED BY <3>1, <1>t, <1>v, <1>a, Zenon DEF Latest
    <2>5. ~Recovering' => \A j \in Keys : data'[j] # Torn
      <3> SUFFICES ASSUME ~Recovering', NEW j \in Keys PROVE data'[j] # Torn
        OBVIOUS
      <3>1. CASE j = k
        BY <3>1, <1>t, <1>v, Zenon
      <3>2. CASE j # k
        BY <3>2, <1>t, <1>g, Zenon DEF Latest, k
      <3> QED BY <3>1, <3>2, Zenon
    <2> QED BY <2>1, <2>2, <2>3, <2>4, <2>5, Zenon DEF Latest
  <1>7. FirstCrash'
    <2>1. ToWrite' \subseteq ToWrite /\ opened' \subseteq opened
      BY <1>a, <1>g, Zenon
    <2>2. \A j \in Keys : data'[j] = data[j] \/ (j \in ToWrite /\ page_cnt # 0)
      BY <1>t, <1>c, Zenon
    <2>3. crashes = 0 => ~Recovering'
      BY <1>g, Zenon DEF FirstCrash
    <2> QED BY <2>1, <2>2, <2>3, <1>a, <1>d, <1>e, SameInvalid, Zenon
  <1> QED BY <1>1, <1>2, <1>3, <1>4, <1>5, <1>6, <1>7, Zenon DEF DInv

LEMMA FlushDrops ==
  ASSUME NEW f, NEW x, NEW y, NEW z,
         f = [pc |-> f.pc, caller |-> f.caller, batch |-> f.batch, key |-> f.key]
  PROVE  [f EXCEPT !.pc = x, !.key = y, !.batch = z] = [pc |-> x, caller |-> f.caller, batch |-> z, key |-> y]
  <1> DEFINE g == [f EXCEPT !.pc = x, !.key = y]
             c == f.caller
             b == f.batch
  <1>1. g = [pc |-> x, caller |-> c, batch |-> b, key |-> y]
    BY FlushMoves, Zenon
  <1>2. [f EXCEPT !.pc = x, !.key = y, !.batch = z] = [g EXCEPT !.batch = z]
    OBVIOUS
  <1> HIDE DEF g, c, b
  <1>3. [g EXCEPT !.batch = z] = [pc |-> x, caller |-> c, batch |-> z, key |-> y]
    BY <1>1
  <1> QED BY <1>2, <1>3, Zenon DEF c

LEMMA PageExcept ==
  ASSUME NEW a, NEW i, NEW b, NEW v, NEW w
  PROVE  [[key |-> a, page_index |-> i, valid |-> b, ver |-> v] EXCEPT !.valid = w]
           = [key |-> a, page_index |-> i, valid |-> w, ver |-> v]
  OBVIOUS

LEMMA MarkedPage ==
  ASSUME NEW p \in DoubleWritePage, NEW q, q = [p EXCEPT !.valid = FALSE]
  PROVE  q \in DoubleWritePage /\ q.key = p.key /\ q.page_index = p.page_index /\ q.ver = p.ver /\ ~q.valid
  <1>1. q \in DoubleWritePage
    <2>1. p = [key |-> p.key, page_index |-> p.page_index, valid |-> p.valid, ver |-> p.ver]
      BY Zenon DEF DoubleWritePage
    <2>2. q = [key |-> p.key, page_index |-> p.page_index, valid |-> FALSE, ver |-> p.ver]
      <3> DEFINE a == p.key
                 i == p.page_index
                 b == p.valid
                 v == p.ver
      <3>1. p = [key |-> a, page_index |-> i, valid |-> b, ver |-> v]
        BY <2>1, Zenon
      <3> HIDE DEF a, b, i, v
      <3>2. q = [key |-> a, page_index |-> i, valid |-> FALSE, ver |-> v]
        BY <3>1, PageExcept, Zenon
      <3> QED BY <3>2, Zenon DEF a, b, i, v
    <2>3. p.key \in Keys /\ p.page_index \in SlotNums /\ FALSE \in BOOLEAN /\ p.ver \in Ver
      BY PageFields, Zenon
    <2> QED BY <2>2, <2>3, Zenon DEF DoubleWritePage
  <1>2. q.key = p.key /\ q.page_index = p.page_index /\ q.ver = p.ver
    BY SMT DEF DoubleWritePage
  <1>3. "valid" \in DOMAIN p
    BY SMT DEF DoubleWritePage
  <1>4. q.valid = FALSE
    BY <1>3, Zenon
  <1> QED BY <1>1, <1>2, <1>4, Zenon

(* A page that is in its data file is no longer to be written.             *)
LEMMA MarkInvalidKeeps ==
  ASSUME DInv, MarkInvalid
  PROVE  DInv'
  <1> DEFINE k == flush.key
             p == flush.batch[flush.key]
             q == [p EXCEPT !.valid = FALSE]
  <1> USE DEF DInv
  <1>a. /\ flush.pc = "mark"
        /\ slots' = [slots EXCEPT ![p.page_index] = q]
        /\ flush' = [flush EXCEPT !.pc = "next", !.key = <<>>, !.batch = WithoutKeys(flush.batch, {k})]
        /\ UNCHANGED <<dblwr_pages, page_cnt, opened, file_cnt, data, add, crashes, last, wrote>>
    BY Zenon DEF MarkInvalid, mem
  <1>b. flush.pc \in {"next", "data", "mark"} /\ flush.pc \in {"data", "mark"} /\ flush.pc # "data"
    BY <1>a
  <1>k. k \in DOMAIN flush.batch
    BY <1>b, Zenon DEF FlushShape
  <1>c. /\ add = AddIdle /\ add.pc = "idle" /\ add.pc # "header" /\ (Recovering <=> flush.caller = "recover")
        /\ flush.caller \in {"full", "sync", "recover", "clear"}
        /\ k \in ToWrite /\ Copy(k) = p /\ k \in Keys
        /\ p \in DoubleWritePage /\ p.key = k
        /\ \A j : ~Adding(j) /\ ~Appending(j)
    BY <1>k, <1>b, Flushing, Zenon
  <1>q. /\ q \in DoubleWritePage /\ q.key = k /\ q.page_index = p.page_index /\ q.ver = p.ver /\ ~q.valid
    <2>1. p \in DoubleWritePage /\ p.key = k
      BY <1>c, Zenon
    <2>2. q \in DoubleWritePage /\ q.key = p.key /\ q.page_index = p.page_index /\ q.ver = p.ver /\ ~q.valid
      BY <2>1, MarkedPage, Zenon
    <2> QED BY <2>1, <2>2, Zenon
  <1>r. q # NoPage
    BY <1>q, PageFields, Zenon
  <1>t. p.page_index \in SlotNums
    BY <1>c, PageFields, Zenon
  <1>l. /\ slots' \in [SlotNums -> DoubleWritePage \cup {NoPage}]
        /\ slots'[p.page_index] = q
        /\ \A i \in SlotNums : i # p.page_index => slots'[i] = slots[i]
    <2> HIDE DEF q, p
    <2> QED BY <1>a, <1>t, <1>q, Zenon DEF Shapes
  <1>m. /\ PageMap(WithoutKeys(flush.batch, {k})) /\ DOMAIN WithoutKeys(flush.batch, {k}) = DOMAIN flush.batch \ {k}
        /\ \A j \in DOMAIN flush.batch \ {k} : WithoutKeys(flush.batch, {k})[j] = flush.batch[j]
    <2>1. PageMap(flush.batch) /\ DOMAIN flush.batch \ {k} \subseteq DOMAIN flush.batch
      BY Zenon DEF FlushShape
    <2> QED BY <2>1, PartOfMap, Zenon DEF WithoutKeys
  <1>d. /\ flush'.caller = flush.caller /\ flush'.key = <<>> /\ flush'.pc = "next"
        /\ flush' = [pc |-> flush'.pc, caller |-> flush'.caller, batch |-> flush'.batch, key |-> flush'.key]
        /\ PageMap(flush'.batch) /\ DOMAIN flush'.batch = DOMAIN flush.batch \ {k}
        /\ \A j \in DOMAIN flush'.batch : flush'.batch[j] = flush.batch[j]
    <2> DEFINE w == WithoutKeys(flush.batch, {k})
    <2>1. flush = [pc |-> flush.pc, caller |-> flush.caller, batch |-> flush.batch, key |-> flush.key]
      BY Zenon DEF FlushShape
    <2>2. flush' = [flush EXCEPT !.pc = "next", !.key = <<>>, !.batch = w]
      BY <1>a, Zenon
    <2>3. PageMap(w) /\ DOMAIN w = DOMAIN flush.batch \ {k} /\ \A j \in DOMAIN w : w[j] = flush.batch[j]
      BY <1>m, Zenon
    <2> HIDE DEF w
    <2>4. flush' = [pc |-> "next", caller |-> flush.caller, batch |-> w, key |-> <<>>]
      BY <2>1, <2>2, FlushDrops, Zenon
    <2>5. flush'.pc = "next" /\ flush'.caller = flush.caller /\ flush'.batch = w /\ flush'.key = <<>>
      BY <2>4, Zenon
    <2> QED BY <2>3, <2>4, <2>5, Zenon
  <1>e. /\ flush'.pc # "open" /\ flush'.pc # "idle" /\ flush'.pc # "data" /\ flush'.pc # "mark"
        /\ flush'.pc \in {"open", "idle", "next", "data", "mark"} /\ flush'.pc \notin {"data", "mark"}
    BY <1>d
  <1>o. flush.caller = "clear" => k \notin DOMAIN dblwr_pages /\ k[1] \notin opened
    BY <1>k, Zenon DEF Pooled
  <1>w. (WholeMap <=> flush.caller # "clear") /\ (WholeMap' <=> WholeMap) /\ (Recovering' <=> Recovering)
    <2>1. (WholeMap <=> flush.caller # "clear") /\ (WholeMap' <=> WholeMap)
      BY <1>c, <1>d DEF WholeMap
    <2> QED BY <2>1, <1>c, <1>d, <1>e, Zenon DEF Recovering
  <1> HIDE DEF q, p, k
  <1>g. ToWrite' = ToWrite \ {k} /\ \A j \in ToWrite' : Copy(j)' = Copy(j)
    <2>1. dblwr_pages' = dblwr_pages
      BY <1>a, Zenon
    <2>2. CASE WholeMap
      <3>1. ToWrite' = DOMAIN flush'.batch /\ ToWrite = DOMAIN flush.batch
        BY <2>2, <1>w, Zenon DEF ToWrite
      <3> QED BY <3>1, <1>d, Zenon DEF Copy
    <2>3. CASE ~WholeMap
      <3>1. ToWrite' = DOMAIN dblwr_pages \cup DOMAIN flush'.batch /\ ToWrite = DOMAIN dblwr_pages \cup DOMAIN flush.batch
        BY <2>1, <2>3, <1>w, Zenon DEF ToWrite
      <3>2. k \notin DOMAIN dblwr_pages
        BY <2>3, <1>w, <1>o, Zenon
      <3>3. ToWrite' = ToWrite \ {k}
        BY <3>1, <3>2, <1>d, Zenon
      <3>4. ASSUME NEW j \in ToWrite' PROVE Copy(j)' = Copy(j)
        <4>1. j # k
          BY <3>3, <3>4, Zenon
        <4>2. CASE j \in DOMAIN flush.batch
          BY <4>1, <4>2, <1>d, Zenon DEF Copy
        <4>3. CASE j \notin DOMAIN flush.batch
          BY <4>1, <4>3, <1>d, <2>1, Zenon DEF Copy
        <4> QED BY <4>2, <4>3, Zenon
      <3> QED BY <3>3, <3>4, Zenon
    <2> QED BY <2>2, <2>3, Zenon
  <1>1. Shapes'
    BY <1>a, <1>l, Zenon DEF Shapes
  <1>2. AddShape'
    BY <1>a, <1>c, Zenon DEF AddShape
  <1>3. FlushShape'
    BY <1>c, <1>d, <1>e, Zenon DEF FlushShape
  <1>4. Pooled'
    <2>1. WholeMap' => \A j \in DOMAIN flush'.batch : j \in DOMAIN dblwr_pages' /\ flush'.batch[j] = dblwr_pages'[j]
      <3> SUFFICES ASSUME WholeMap', NEW j \in DOMAIN flush'.batch
                   PROVE  j \in DOMAIN dblwr_pages' /\ flush'.batch[j] = dblwr_pages'[j]
        OBVIOUS
      <3>1. j \in DOMAIN flush.batch /\ flush'.batch[j] = flush.batch[j]
        BY <1>d, Zenon
      <3>2. j \in DOMAIN dblwr_pages /\ flush.batch[j] = dblwr_pages[j]
        BY <3>1, <1>w, Zenon DEF Pooled
      <3> QED BY <3>1, <3>2, <1>a, Zenon
    <2>2. flush'.caller = "clear" => \A j \in DOMAIN flush'.batch : j[1] \notin opened'
      BY <1>a, <1>d, Zenon DEF Pooled
    <2>3. ~Recovering' => \A j \in ToWrite' : Copy(j)'.valid
      BY <1>g, <1>w, Zenon DEF Pooled
    <2> QED BY <2>1, <2>2, <2>3, <1>a, <1>w, Zenon DEF Pooled
  <1>5. Counted'
    <2>1. \A j \in ToWrite' : Copy(j)'.page_index < page_cnt'
      BY <1>a, <1>c, <1>g, Zenon DEF Counted
    <2>2. Size' = Size
      BY <1>a, Zenon DEF Size
    <2> QED BY <2>1, <2>2, <1>a, <1>w, Zenon DEF Counted
  <1>h. opened = DwbPools => WholeMap /\ k \in DOMAIN dblwr_pages /\ dblwr_pages[k] = p
    <2>1. k[1] \in DwbPools
      BY <1>c, Zenon DEF DwbPools
    <2>2. opened = DwbPools => WholeMap
      BY <2>1, <1>o, <1>w, Zenon
    <2> QED BY <2>2, <1>k, Zenon DEF Pooled, p, k
  <1>6. OwnSlots'
    <2>1. \A i \in SlotNums : slots'[i] = NoPage \/ slots'[i].page_index = i
      <3> TAKE i \in SlotNums
      <3>1. CASE i = p.page_index
        BY <3>1, <1>l, <1>q, Zenon
      <3>2. CASE i # p.page_index
        BY <3>2, <1>l, Zenon DEF OwnSlots
      <3> QED BY <3>1, <3>2, Zenon
    <2>2. ASSUME opened' = DwbPools, NEW j \in ToWrite'
          PROVE  slots'[Copy(j)'.page_index] = Copy(j)'
      <3>1. opened = DwbPools /\ WholeMap /\ k \in DOMAIN dblwr_pages /\ dblwr_pages[k] = p
        BY <2>2, <1>a, <1>h, Zenon
      <3>2. j \in ToWrite /\ j # k /\ Copy(j)' = Copy(j)
        BY <2>2, <1>g, Zenon
      <3>3. slots[Copy(j).page_index] = Copy(j)
        BY <3>1, <3>2, <1>c, Zenon DEF OwnSlots
      <3>4. j \in DOMAIN dblwr_pages /\ Copy(j) = dblwr_pages[j]
        BY <3>1, <3>2, Zenon DEF ToWrite, Copy, Pooled
      <3>5. Copy(j).page_index # p.page_index
        BY <3>1, <3>2, <3>4, Zenon DEF OwnSlots
      <3>6. Copy(j).page_index \in SlotNums
        BY <3>4, PageFields, Zenon DEF Shapes, PageMap
      <3> QED BY <3>2, <3>3, <3>5, <3>6, <1>l, Zenon
    <2>3. ASSUME opened' = DwbPools, ~Recovering', NEW i \in SlotNums, i < page_cnt', slots'[i] # NoPage
          PROVE  slots'[i].key \in DOMAIN dblwr_pages' /\ dblwr_pages'[slots'[i].key].page_index = i
      <3>1. CASE i = p.page_index
        BY <3>1, <2>3, <1>l, <1>q, <1>h, <1>a, Zenon
      <3>2. CASE i # p.page_index
        <4>1. slots'[i] = slots[i]
          BY <3>2, <1>l, Zenon
        <4>2. slots[i].key \in DOMAIN dblwr_pages /\ dblwr_pages[slots[i].key].page_index = i
          BY <4>1, <2>3, <1>a, <1>w, Zenon DEF OwnSlots
        <4> QED BY <4>1, <4>2, <1>a, Zenon
      <3> QED BY <3>1, <3>2, Zenon
    <2>4. ASSUME Recovering', NEW j \in DOMAIN dblwr_pages', NEW i \in SlotNums, i < dblwr_pages'[j].page_index
          PROVE  slots'[i] = NoPage \/ slots'[i].key # j
      <3>1. CASE i # p.page_index
        <4>1. slots'[i] = slots[i]
          BY <3>1, <1>l, Zenon
        <4> QED BY <4>1, <2>4, <1>a, <1>w, Zenon DEF OwnSlots
      <3>2. CASE i = p.page_index
        <4>1. opened = DwbPools
          BY <2>4, <1>w, Zenon DEF Pooled
        <4>2. ASSUME j = k PROVE FALSE
          <5>1. dblwr_pages'[j].page_index = i
            BY <4>1, <4>2, <3>2, <1>h, <1>a, Zenon
          <5>2. ~(i < i)
            BY SlotIndex, SMT
          <5> QED BY <5>1, <5>2, <2>4, Zenon
        <4> QED BY <3>2, <4>2, <1>l, <1>q, Zenon
      <3> QED BY <3>1, <3>2, Zenon
    <2>5. Size' = Size
      BY <1>a, Zenon DEF Size
    <2> QED BY <2>1, <2>2, <2>3, <2>4, <2>5, <1>a, <1>w, Zenon DEF OwnSlots
  <1>7. ValidLive'
    <2> SUFFICES ASSUME NEW i \in SlotNums, NEW x \in Keys,
                        i < file_cnt', slots'[i] # NoPage, slots'[i].valid, slots'[i].key = x
                 PROVE  x \in ToWrite' /\ Copy(x)' = slots'[i]
      BY Zenon DEF ValidLive
    <2>1. i # p.page_index /\ slots'[i] = slots[i]
      BY <1>l, <1>q, Zenon
    <2>2. x \in ToWrite /\ Copy(x) = slots[i]
      BY <2>1, <1>a, Zenon DEF ValidLive
    <2>3. slots[i].page_index = i
      BY <2>1, Zenon DEF OwnSlots
    <2>4. x # k
      BY <2>1, <2>2, <2>3, <1>c, Zenon
    <2> QED BY <2>1, <2>2, <2>4, <1>g, Zenon
  <1>8. Latest'
    <2>1. ASSUME NEW j \in Keys
          PROVE  IF j \in ToWrite' /\ Copy(j)'.valid THEN Copy(j)'.ver = last'[j] ELSE data'[j] = last'[j]
      <3>1. CASE j = k
        BY <3>1, <1>a, <1>g, Zenon DEF Latest, k
      <3>2. CASE j # k
        <4>1. (j \in ToWrite' <=> j \in ToWrite) /\ (j \in ToWrite' => Copy(j)' = Copy(j))
          BY <3>2, <1>g, Zenon
        <4> QED BY <4>1, <1>a, Zenon DEF Latest
      <3> QED BY <3>1, <3>2, Zenon
    <2>2. ~Recovering' => \A j \in Keys : data'[j] # Torn
      BY <1>a, <1>b, <1>w, Zenon DEF Latest
    <2> QED BY <2>1, <2>2, <1>a, <1>e, Zenon DEF Latest
  <1>9. FirstCrash'
    <2>1. ASSUME crashes' = 0, NEW i \in SlotNums, i < file_cnt', slots'[i] # NoPage, ~slots'[i].valid
          PROVE  /\ slots'[i].ver = data'[slots'[i].key]
                 /\ page_cnt' # 0 => /\ slots'[i].key \notin ToWrite'
                                     /\ slots'[i].key[1] \notin opened' \/ flush'.caller \in {"full", "sync"}
      <3>1. data' = data /\ opened' = opened /\ page_cnt' = page_cnt /\ flush'.caller = flush.caller /\ ~Recovering
        BY <2>1, <1>a, <1>d, Zenon DEF FirstCrash
      <3>2. CASE i = p.page_index
        <4>1. slots'[i] = q
          BY <3>2, <1>l, Zenon
        <4>2. p.ver = last[k]
          BY <3>1, <1>c, Zenon DEF Latest, Pooled
        <4>3. data[k] = last[k]
          BY <1>a, Zenon DEF Latest, k
        <4>4. q.ver = data[k] /\ q.key = k /\ k \notin ToWrite'
          BY <4>2, <4>3, <1>q, <1>g, Zenon
        <4>5. k[1] \notin opened \/ flush.caller \in {"full", "sync"}
          BY <3>1, <1>c, <1>o, Zenon
        <4> QED BY <3>1, <4>1, <4>4, <4>5, Zenon
      <3>3. CASE i # p.page_index
        <4>1. slots'[i] = slots[i]
          BY <3>3, <1>l, Zenon
        <4>2. /\ slots[i].ver = data[slots[i].key]
              /\ page_cnt # 0 => slots[i].key \notin ToWrite
              /\ page_cnt # 0 => slots[i].key[1] \notin opened \/ flush.caller \in {"full", "sync"}
          BY <4>1, <2>1, <1>a, Zenon DEF FirstCrash
        <4>3. slots[i].key \notin ToWrite => slots[i].key \notin ToWrite'
          BY <1>g, Zenon
        <4> QED BY <3>1, <4>1, <4>2, <4>3, Zenon
      <3> QED BY <3>2, <3>3, Zenon
    <2> QED BY <2>1, <1>a, <1>e, <1>w, Zenon DEF FirstCrash, OpenLatest
  <1> QED BY <1>1, <1>2, <1>3, <1>4, <1>5, <1>6, <1>7, <1>8, <1>9, Zenon DEF DInv

(* Nothing is left to write: the map is empty, or a pool is closed.        *)
LEMMA FlushEndKeeps ==
  ASSUME DInv, FlushEnd
  PROVE  DInv'
  <1> USE DEF DInv
  <1>a. /\ flush.pc = "next" /\ DOMAIN flush.batch = {} /\ flush' = FlushIdle
        /\ IF flush.caller = "clear" THEN dblwr_pages' = dblwr_pages /\ page_cnt' = page_cnt
           ELSE dblwr_pages' = NoMap /\ page_cnt' = 0
        /\ UNCHANGED <<opened, file_cnt, slots, data, add, crashes, last, wrote>>
    BY Zenon DEF FlushEnd, disk
  <1>b. flush.pc \in {"next", "data", "mark"} /\ flush.pc # "data" /\ flush.pc # "mark"
    BY <1>a
  <1>c. /\ add = AddIdle /\ add.pc = "idle" /\ add.pc # "header" /\ (Recovering <=> flush.caller = "recover")
        /\ flush.caller \in {"full", "sync", "recover", "clear"}
    BY <1>b, Flushing, Zenon
  <1>g. /\ ~Recovering' /\ ~WholeMap' /\ ToWrite' = DOMAIN dblwr_pages'
        /\ \A j : Copy(j)' = dblwr_pages'[j]
    BY <1>a, NothingFlushedNext, Zenon
  <1>i. flush'.pc = "idle" /\ flush'.caller = "none" /\ flush'.pc # "open" /\ flush'.pc # "mark"
        /\ flush'.caller # "clear"
    <2>1. flush'.pc = "idle" /\ flush'.caller = "none"
      BY <1>a, FlushIdleFields, Zenon
    <2> QED BY <2>1
  <1>1. FlushShape'
    BY <1>a, IdleFlushShape, Zenon
  <1>2. AddShape'
    BY <1>a, <1>c, Zenon DEF AddShape
  <1>3. CASE flush.caller = "clear"
    <2>a. dblwr_pages' = dblwr_pages /\ page_cnt' = page_cnt
      BY <1>3, <1>a, Zenon
    <2>f. ~Recovering /\ ~WholeMap /\ flush.caller \notin {"full", "sync"}
      BY <1>3, <1>c DEF WholeMap
    <2>g. ToWrite = DOMAIN dblwr_pages /\ \A j : Copy(j) = dblwr_pages[j]
      BY <2>f, <1>a, Zenon DEF ToWrite, Copy
    <2>1. Shapes'
      BY <1>a, <2>a, Zenon DEF Shapes
    <2>2. Pooled'
      <3>1. \A j \in ToWrite' : Copy(j)'.valid
        BY <1>g, <2>a, <2>f, <2>g, Zenon DEF Pooled
      <3>2. \A j \in DOMAIN dblwr_pages' : j[1] \in opened'
        BY <1>a, <2>a, Zenon DEF Pooled
      <3> QED BY <3>1, <3>2, <1>g, <1>i, Zenon DEF Pooled
    <2>3. Counted' /\ OwnSlots' /\ ValidLive'
      BY <1>a, <1>g, <2>a, <2>f, <2>g, SameView, Zenon
    <2>4. Latest'
      <3>1. \A j \in Keys : IF j \in ToWrite' /\ Copy(j)'.valid THEN Copy(j)'.ver = last'[j] ELSE data'[j] = last'[j]
        BY <1>a, <1>g, <2>a, <2>g, Zenon DEF Latest
      <3>2. \A j \in Keys : data'[j] # Torn
        BY <1>a, <1>b, <2>f, Zenon DEF Latest
      <3> QED BY <3>1, <3>2, <1>a, <1>i, Zenon DEF Latest
    <2>5. FirstCrash'
      <3>1. ToWrite' \subseteq ToWrite /\ opened' \subseteq opened /\ \A j \in Keys : data'[j] = data[j]
        BY <1>a, <1>g, <2>a, <2>g, Zenon
      <3> QED BY <3>1, <1>a, <1>g, <1>i, <2>a, <2>f, SameInvalid, Zenon
    <2> QED BY <1>1, <1>2, <2>1, <2>2, <2>3, <2>4, <2>5, Zenon DEF DInv
  <1>4. CASE flush.caller # "clear"
    <2>a. dblwr_pages' = NoMap /\ page_cnt' = 0
      BY <1>4, <1>a, Zenon
    <2>f. WholeMap
      BY <1>4, <1>c DEF WholeMap
    <2>g. ToWrite = {} /\ ToWrite' = {} /\ PageMap(dblwr_pages') /\ DOMAIN dblwr_pages' = {} /\ Size' = 0
      BY <1>a, <1>g, <2>a, <2>f, EmptyMap, Zenon DEF ToWrite, Size
    <2>n. 0 \in 0..MaxDwbPages /\ 0 < MaxDwbPages /\ 0 <= page_cnt'
      BY <2>a, DoubleWriteBufferAssumption, SMT
    <2>1. Shapes'
      BY <1>a, <2>a, <2>g, <2>n, Zenon DEF Shapes
    <2>2. Pooled'
      BY <1>g, <1>i, <2>g, Zenon DEF Pooled
    <2>3. Counted'
      <3>1. add'.pc \notin {"new", "header"}
        BY <1>a, <1>c
      <3> QED BY <3>1, <2>a, <2>g, <2>n, Zenon DEF Counted
    <2>4. OwnSlots'
      <3>1. \A i \in SlotNums : ~(i < page_cnt')
        BY <2>a, SlotIndex, SMT
      <3> QED BY <3>1, <1>a, <1>g, <2>g, Zenon DEF OwnSlots
    <2>5. ValidLive'
      BY <1>a, <2>g, Zenon DEF ValidLive
    <2>6. Latest'
      <3>1. \A j \in Keys : data[j] = last[j]
        BY <2>g, Zenon DEF Latest
      <3>2. \A j \in Keys : last[j] # Torn
        BY VerNat, Zenon DEF Shapes
      <3> QED BY <3>1, <3>2, <1>a, <1>i, <2>g, Zenon DEF Latest
    <2>7. FirstCrash'
      <3>1. \A i \in SlotNums : crashes' = 0 /\ i < file_cnt' /\ slots'[i] # NoPage /\ ~slots'[i].valid =>
              slots'[i].ver = data'[slots'[i].key]
        BY <1>a, Zenon DEF FirstCrash
      <3> QED BY <3>1, <1>g, <1>i, <2>a, Zenon DEF FirstCrash, OpenLatest
    <2> QED BY <1>1, <1>2, <2>1, <2>2, <2>3, <2>4, <2>5, <2>6, <2>7, Zenon DEF DInv
  <1> QED BY <1>3, <1>4, Zenon

(* clear_pages takes the pages of a pool out of the map.                   *)
LEMMA ClosePoolKeeps ==
  ASSUME DInv, NEW pool \in DwbPools, ClosePool(pool)
  PROVE  DInv'
  <1> DEFINE mine == {k \in DOMAIN dblwr_pages : k[1] = pool}
  <1> USE DEF DInv
  <1>a. /\ add = AddIdle /\ flush = FlushIdle /\ pool \in opened
        /\ dblwr_pages' = Restrict(dblwr_pages, DOMAIN dblwr_pages \ mine)
        /\ FlushFrom("clear", Restrict(dblwr_pages, mine))
        /\ opened' = opened \ {pool}
        /\ UNCHANGED <<page_cnt, file_cnt, slots, data, add, crashes, last, wrote>>
    BY Zenon DEF ClosePool, Quiet, WithoutKeys, disk
  <1>m. mine \subseteq DOMAIN dblwr_pages /\ \A k \in mine : k[1] = pool
    OBVIOUS
  <1>n. \A k \in DOMAIN dblwr_pages \ mine : k[1] # pool
    OBVIOUS
  <1> HIDE DEF mine
  <1>f. /\ ~Recovering /\ ~WholeMap /\ ToWrite = DOMAIN dblwr_pages
        /\ \A j : Copy(j) = dblwr_pages[j]
    BY <1>a, NothingFlushed, Zenon
  <1>i. flush.pc = "idle" /\ flush.caller = "none" /\ add.pc = "idle" /\ add.pc # "header" /\ flush.pc # "data"
        /\ flush.caller \notin {"full", "sync"}
    <2>1. flush.pc = "idle" /\ flush.caller = "none" /\ add.pc = "idle"
      BY <1>a, FlushIdleFields, AddIdleFields, Zenon
    <2> QED BY <2>1
  <1>p. PageMap(dblwr_pages) /\ DOMAIN dblwr_pages \subseteq Keys
    BY Zenon DEF Shapes, PageMap
  <1>r. /\ PageMap(dblwr_pages') /\ DOMAIN dblwr_pages' = DOMAIN dblwr_pages \ mine
        /\ \A j \in DOMAIN dblwr_pages' : dblwr_pages'[j] = dblwr_pages[j]
    <2> DEFINE D == DOMAIN dblwr_pages \ mine
               m == Restrict(dblwr_pages, D)
    <2>1. D \subseteq DOMAIN dblwr_pages
      OBVIOUS
    <2>2. dblwr_pages' = m
      BY <1>a, Zenon
    <2>3. PageMap(m) /\ DOMAIN m = D /\ \A j \in D : m[j] = dblwr_pages[j]
      BY <1>p, <2>1, PartOfMap, Zenon
    <2> HIDE DEF m
    <2> QED BY <2>2, <2>3, Zenon
  <1>g. /\ FlushShape' /\ flush'.caller = "clear" /\ DOMAIN flush'.batch = mine
        /\ \A j \in mine : flush'.batch[j] = dblwr_pages[j]
        /\ flush'.pc # "open" /\ flush'.pc # "mark" /\ flush'.pc # "data"
    <2> DEFINE b == Restrict(dblwr_pages, mine)
    <2>1. PageMap(b) /\ DOMAIN b = mine /\ \A j \in mine : b[j] = dblwr_pages[j]
      BY <1>m, <1>p, PartOfMap, Zenon
    <2>2. FlushFrom("clear", b) /\ "clear" \in {"full", "sync", "recover", "clear"}
      BY <1>a, Zenon
    <2> HIDE DEF b
    <2>3. /\ FlushShape' /\ flush'.caller = "clear" /\ flush'.batch = b
          /\ flush'.pc # "open" /\ flush'.pc # "mark" /\ flush'.pc # "data"
      BY <2>1, <2>2, FlushBegins, Zenon
    <2> QED BY <2>1, <2>3, Zenon
  <1>h. flush'.caller \notin {"full", "sync", "recover"} /\ flush'.caller # "recover"
    BY <1>g
  <1>w. ~Recovering' /\ ~WholeMap' /\ ToWrite' = DOMAIN dblwr_pages
        /\ \A j \in DOMAIN dblwr_pages : Copy(j)' = dblwr_pages[j]
    <2>1. ~Recovering' /\ ~WholeMap'
      BY <1>g, <1>h, Zenon DEF Recovering, WholeMap
    <2>2. ToWrite' = DOMAIN dblwr_pages' \cup DOMAIN flush'.batch
      BY <2>1, Zenon DEF ToWrite
    <2>3. ToWrite' = DOMAIN dblwr_pages
      BY <2>2, <1>g, <1>r, <1>m, Zenon
    <2>4. ASSUME NEW j \in DOMAIN dblwr_pages PROVE Copy(j)' = dblwr_pages[j]
      <3>1. CASE j \in mine
        BY <3>1, <1>g, Zenon DEF Copy
      <3>2. CASE j \notin mine
        BY <3>2, <1>g, <1>r, Zenon DEF Copy
      <3> QED BY <3>1, <3>2, Zenon
    <2> QED BY <2>1, <2>3, <2>4, Zenon
  <1>o. opened' # DwbPools /\ opened' \subseteq opened
    BY <1>a, Zenon
  <1>1. Shapes'
    BY <1>a, <1>r, <1>o, Zenon DEF Shapes
  <1>2. AddShape'
    BY <1>a, <1>i, Zenon DEF AddShape
  <1>3. Pooled'
    <2>1. \A j \in DOMAIN flush'.batch : j[1] \notin opened'
      BY <1>a, <1>g, <1>m, Zenon
    <2>2. \A j \in DOMAIN dblwr_pages' : j[1] \in opened'
      BY <1>a, <1>r, <1>n, Zenon DEF Pooled
    <2>3. \A j \in ToWrite' : Copy(j)'.valid
      BY <1>w, <1>f, Zenon DEF Pooled
    <2> QED BY <2>1, <2>2, <2>3, <1>w, Zenon DEF Pooled
  <1>4. Counted'
    <2>1. \A j \in ToWrite' : Copy(j)'.page_index < page_cnt'
      BY <1>a, <1>w, <1>f, <1>i, Zenon DEF Counted, Appending, Adding
    <2>2. Size \in Nat /\ Size' \in Nat /\ Size' <= Size
      BY <1>p, <1>r, SizeFacts, Zenon DEF Size, PageMap
    <2>3. Size <= page_cnt /\ Size < MaxDwbPages
      BY <1>f, <1>i, Zenon DEF Counted
    <2>4. page_cnt \in Nat
      BY DoubleWriteBufferAssumption, SMT DEF Shapes
    <2>5. Size' <= page_cnt /\ Size' < MaxDwbPages
      BY <2>2, <2>3, <2>4, DoubleWriteBufferAssumption, SMT
    <2>6. add'.pc \notin {"new", "header"}
      BY <1>a, <1>i
    <2> QED BY <2>1, <2>5, <2>6, <1>a, Zenon DEF Counted
  <1>5. OwnSlots'
    BY <1>a, <1>o, <1>w, Zenon DEF OwnSlots
  <1>6. ValidLive'
    BY <1>a, <1>w, <1>f, Zenon DEF ValidLive
  <1>7. Latest'
    <2>1. \A j \in Keys : IF j \in ToWrite' /\ Copy(j)'.valid THEN Copy(j)'.ver = last'[j] ELSE data'[j] = last'[j]
      BY <1>a, <1>f, <1>w, Zenon DEF Latest
    <2>2. \A j \in Keys : data'[j] # Torn
      BY <1>i, <1>f, <1>a, Zenon DEF Latest
    <2> QED BY <2>1, <2>2, <1>a, <1>g, Zenon DEF Latest
  <1>8. FirstCrash'
    <2>1. ToWrite' \subseteq ToWrite /\ \A j \in Keys : data'[j] = data[j]
      BY <1>a, <1>f, <1>w, Zenon
    <2> QED BY <2>1, <1>o, <1>a, <1>g, <1>i, <1>w, SameInvalid, Zenon
  <1> QED BY <1>1, <1>2, <1>3, <1>4, <1>5, <1>6, <1>7, <1>8, <1>g, Zenon DEF DInv

-----------------------------------------------------------------------------
(* Crash and restart *)

(* load_pages finds every page that has a whole slot, in its first one.    *)
LEMMA LoadedPages ==
  ASSUME Shapes, OwnSlots
  PROVE  /\ PageMap(OnFile)
         /\ \A k \in DOMAIN OnFile :
              /\ OnFile[k].page_index \in SlotNums /\ OnFile[k].page_index < file_cnt
              /\ slots[OnFile[k].page_index] = OnFile[k]
              /\ \A i \in SlotNums : i < OnFile[k].page_index => slots[i] = NoPage \/ slots[i].key # k
         /\ \A i \in SlotNums : \A k \in Keys : i < file_cnt /\ slots[i] # NoPage /\ slots[i].key = k =>
              k \in DOMAIN OnFile /\ OnFile[k].page_index <= i
  <1> DEFINE whole == {i \in SlotNums : i < file_cnt /\ slots[i].ver # Torn}
             keys == {slots[i].key : i \in whole}
             at(k) == {i \in whole : slots[i].key = k}
  <1>1. OnFile = [k \in keys |-> slots[Min(at(k))]]
    BY Zenon DEF OnFile, Loaded
  <1>2. \A i : i \in whole <=> i \in SlotNums /\ i < file_cnt /\ slots[i] # NoPage
    <2>1. \A i \in SlotNums : slots[i].ver # Torn <=> slots[i] # NoPage
      BY SlotTypes, PageFields, NoPageIsTorn, Zenon
    <2> QED BY <2>1, Zenon
  <1>3. \A k : k \in keys <=> \E i \in whole : slots[i].key = k
    BY Zenon
  <1>4. \A k : \A i : i \in at(k) <=> i \in whole /\ slots[i].key = k
    BY Zenon
  <1>5. DOMAIN OnFile = keys /\ OnFile = [k \in DOMAIN OnFile |-> OnFile[k]] /\ \A k \in keys : OnFile[k] = slots[Min(at(k))]
    <2> HIDE DEF keys, at
    <2>1. DOMAIN OnFile = keys /\ \A k \in keys : OnFile[k] = slots[Min(at(k))]
      BY <1>1, Zenon
    <2>2. OnFile = [k \in DOMAIN OnFile |-> OnFile[k]]
      BY <1>1, SMT
    <2> QED BY <2>1, <2>2, Zenon
  <1>6. ASSUME NEW k \in keys
        PROVE  Min(at(k)) \in at(k) /\ \A i \in at(k) : Min(at(k)) <= i
    <2>1. at(k) # {}
      BY <1>3, <1>4, Zenon
    <2>2. at(k) \subseteq Nat
      BY <1>4, <1>2, SlotIndex, Zenon
    <2> HIDE DEF at
    <2> QED BY <2>1, <2>2, LeastNumber, Zenon
  <1> HIDE DEF whole, keys, at
  <1>7. ASSUME NEW k \in keys
        PROVE  /\ OnFile[k] \in DoubleWritePage /\ OnFile[k].key = k /\ OnFile[k].page_index = Min(at(k))
               /\ Min(at(k)) \in SlotNums /\ Min(at(k)) < file_cnt /\ k \in Keys
    <2>1. /\ Min(at(k)) \in SlotNums /\ Min(at(k)) < file_cnt
          /\ slots[Min(at(k))] # NoPage /\ slots[Min(at(k))].key = k
      BY <1>6, <1>4, <1>2, Zenon
    <2>2. OnFile[k] = slots[Min(at(k))]
      BY <1>5, Zenon
    <2>3. OnFile[k] \in DoubleWritePage /\ OnFile[k].page_index = Min(at(k))
      BY <2>1, <2>2, SlotTypes, Zenon DEF OwnSlots
    <2> QED BY <2>1, <2>2, <2>3, PageFields, Zenon
  <1>8. PageMap(OnFile)
    BY <1>5, <1>7, Zenon DEF PageMap
  <1>9. ASSUME NEW k \in DOMAIN OnFile, NEW i \in SlotNums, i < OnFile[k].page_index, slots[i] # NoPage
        PROVE  slots[i].key # k
    <2> SUFFICES ASSUME slots[i].key = k PROVE FALSE
      OBVIOUS
    <2>1. k \in keys /\ OnFile[k].page_index = Min(at(k)) /\ Min(at(k)) \in SlotNums /\ Min(at(k)) < file_cnt
      BY <1>5, <1>7, Zenon
    <2>2. i < file_cnt
      BY <2>1, <1>9, SlotIndex, DoubleWriteBufferAssumption, SMT DEF Shapes
    <2>3. i \in at(k)
      BY <2>2, <1>9, <1>2, <1>4, Zenon
    <2>4. Min(at(k)) <= i
      BY <2>1, <2>3, <1>6, Zenon
    <2> QED BY <2>1, <2>4, <1>9, SlotIndex, SMT
  <1>10. ASSUME NEW i \in SlotNums, NEW k \in Keys, i < file_cnt, slots[i] # NoPage, slots[i].key = k
         PROVE  k \in DOMAIN OnFile /\ OnFile[k].page_index <= i
    <2>1. i \in at(k) /\ k \in keys
      BY <1>10, <1>2, <1>3, <1>4, Zenon
    <2>2. k \in DOMAIN OnFile /\ OnFile[k].page_index = Min(at(k))
      BY <2>1, <1>5, <1>7, Zenon
    <2>3. Min(at(k)) <= i
      BY <2>1, <1>6, Zenon
    <2> QED BY <2>2, <2>3, Zenon
  <1>11. ASSUME NEW k \in DOMAIN OnFile
         PROVE  /\ OnFile[k].page_index \in SlotNums /\ OnFile[k].page_index < file_cnt
                /\ slots[OnFile[k].page_index] = OnFile[k]
    <2>1. k \in keys
      BY <1>5, Zenon
    <2>2. OnFile[k].page_index = Min(at(k)) /\ OnFile[k] = slots[Min(at(k))]
      BY <2>1, <1>5, <1>7, Zenon
    <2>3. Min(at(k)) \in SlotNums /\ Min(at(k)) < file_cnt
      BY <2>1, <1>7, Zenon
    <2> QED BY <2>2, <2>3, Zenon
  <1> QED BY <1>8, <1>9, <1>10, <1>11, Zenon

(* While all pools are open the pages to write are pages of the map.       *)
LEMMA OpenCopies ==
  ASSUME DInv, opened = DwbPools, NEW k \in ToWrite
  PROVE  k \in DOMAIN dblwr_pages /\ Copy(k) = dblwr_pages[k] /\ k \in Keys
         /\ Copy(k) \in DoubleWritePage /\ Copy(k).key = k
  <1> USE DEF DInv
  <1>1. k \in DOMAIN dblwr_pages /\ Copy(k) = dblwr_pages[k]
    <2>1. CASE k \in DOMAIN flush.batch
      <3>1. k \in Keys
        BY <2>1, Zenon DEF FlushShape, PageMap
      <3>2. k[1] \in DwbPools
        BY <3>1, Zenon DEF DwbPools
      <3>3. flush.caller # "clear"
        BY <2>1, <3>2, Zenon DEF Pooled
      <3>4. flush.pc \in {"next", "data", "mark"}
        <4>1. flush.pc # "open"
          BY <2>1, Zenon DEF FlushShape
        <4>2. flush.pc # "idle"
          BY <2>1, FlushIdleFields, Zenon DEF FlushShape
        <4> QED BY <4>1, <4>2, Zenon DEF FlushShape
      <3>5. WholeMap
        BY <3>3, <3>4, Zenon DEF WholeMap, FlushShape
      <3> QED BY <2>1, <3>5, Zenon DEF Pooled, Copy
    <2>2. CASE k \notin DOMAIN flush.batch
      BY <2>2, Zenon DEF ToWrite, Copy
    <2> QED BY <2>1, <2>2, Zenon
  <1> QED BY <1>1, Zenon DEF Shapes, PageMap

(* A valid page is found by load_pages, not an older copy of it.           *)
LEMMA ValidIsFirst ==
  ASSUME DInv, opened = DwbPools \/ (opened = {} /\ Quiet)
  PROVE  \A i \in SlotNums : \A x \in Keys :
           i < file_cnt /\ slots[i] # NoPage /\ slots[i].valid /\ slots[i].key = x =>
             x \in ToWrite /\ Copy(x) = slots[i] /\ x \in DOMAIN OnFile /\ OnFile[x] = slots[i]
  <1> SUFFICES ASSUME NEW i \in SlotNums, NEW x \in Keys,
                      i < file_cnt, slots[i] # NoPage, slots[i].valid, slots[i].key = x
               PROVE  x \in ToWrite /\ Copy(x) = slots[i] /\ x \in DOMAIN OnFile /\ OnFile[x] = slots[i]
    BY Zenon
  <1> USE DEF DInv
  <1>1. x \in ToWrite /\ Copy(x) = slots[i]
    BY Zenon DEF ValidLive
  <1>2. opened = DwbPools
    <2> SUFFICES ASSUME opened = {}, Quiet PROVE FALSE
      BY Zenon
    <2>1. ToWrite = DOMAIN dblwr_pages
      BY NothingFlushed, Zenon DEF Quiet
    <2> QED BY <1>1, <2>1, Zenon DEF Pooled
  <1>3. x \in DOMAIN dblwr_pages /\ dblwr_pages[x] = slots[i] /\ dblwr_pages[x].page_index = i
    <2>1. x \in DOMAIN dblwr_pages /\ dblwr_pages[x] = slots[i]
      BY <1>1, <1>2, OpenCopies, Zenon
    <2> QED BY <2>1, Zenon DEF OwnSlots
  <1> DEFINE m == OnFile[x].page_index
  <1>4. /\ x \in DOMAIN OnFile /\ m \in SlotNums /\ m <= i /\ slots[m] = OnFile[x]
        /\ OnFile[x] # NoPage /\ OnFile[x].key = x
    <2>1. x \in DOMAIN OnFile /\ m \in SlotNums /\ m <= i /\ slots[m] = OnFile[x] /\ PageMap(OnFile)
      BY LoadedPages, Zenon
    <2> QED BY <2>1, PageFields, Zenon DEF PageMap
  <1> HIDE DEF m
  <1>5. ASSUME m < i PROVE FALSE
    <2>m. slots[m] # NoPage /\ slots[m].key = x
      BY <1>4, Zenon
    <2>1. CASE Recovering
      <3>1. m < dblwr_pages[x].page_index
        BY <1>3, <1>5, Zenon
      <3> QED BY <2>1, <2>m, <3>1, <1>3, <1>4, Zenon DEF OwnSlots
    <2>2. CASE ~Recovering
      <3>1. i <= page_cnt
        <4>1. CASE Appending(x)
          <5>1. add.pc # "idle" /\ add.pc # "hit" /\ add.page.key = x
            BY <4>1, Zenon DEF Appending, Adding
          <5>2. add.pc \in {"new", "header"}
            BY <5>1, SMT DEF AddShape
          <5>3. add.page.page_index <= page_cnt /\ dblwr_pages[x] = add.page
            BY <5>1, <5>2, Zenon DEF Counted, AddShape
          <5> QED BY <5>3, <1>3, Zenon
        <4>2. CASE ~Appending(x)
          <5>1. i < page_cnt
            BY <4>2, <1>1, <1>3, Zenon DEF Counted
          <5> QED BY <5>1, SlotIndex, SMT DEF Shapes
        <4> QED BY <4>1, <4>2, Zenon
      <3>2. m < page_cnt
        BY <3>1, <1>4, <1>5, SlotIndex, SMT DEF Shapes
      <3>3. dblwr_pages[x].page_index = m
        <4>1. dblwr_pages[slots[m].key].page_index = m
          BY <2>2, <2>m, <3>2, <1>2, <1>4, Zenon DEF OwnSlots
        <4> QED BY <4>1, <2>m, Zenon
      <3> QED BY <3>3, <1>3, <1>5, SlotIndex, SMT
    <2> QED BY <2>1, <2>2, Zenon
  <1>6. m = i
    BY <1>4, <1>5, SlotIndex, SMT
  <1> QED BY <1>1, <1>4, <1>6, Zenon

(* A page that is half written in its data file has a whole valid copy.    *)
LEMMA TornIsLoaded ==
  ASSUME DInv, opened = DwbPools \/ (opened = {} /\ Quiet),
         NEW k \in Keys, data[k] = Torn
  PROVE  k \in DOMAIN OnFile /\ OnFile[k].valid
  <1>v. \A i \in SlotNums : \A x \in Keys :
          i < file_cnt /\ slots[i] # NoPage /\ slots[i].valid /\ slots[i].key = x =>
            x \in ToWrite /\ Copy(x) = slots[i] /\ x \in DOMAIN OnFile /\ OnFile[x] = slots[i]
    BY ValidIsFirst, Zenon
  <1> USE DEF DInv
  <1>1. k \in ToWrite /\ Copy(k).valid
    <2>1. data[k] # last[k]
      BY VerNat, Zenon DEF Shapes
    <2> QED BY <2>1, Zenon DEF Latest
  <1>2. flush # FlushIdle
    <2> SUFFICES ASSUME flush = FlushIdle PROVE FALSE
      OBVIOUS
    <2>1. ~Recovering
      BY NothingFlushed, Zenon
    <2>2. flush.pc = "idle"
      BY FlushIdleFields, Zenon
    <2>3. flush.pc # "data"
      BY <2>2
    <2> QED BY <2>1, <2>3, Zenon DEF Latest
  <1>3. opened = DwbPools
    BY <1>2, Zenon DEF Quiet
  <1>4. add.pc = "idle" /\ ~Adding(k) /\ ~Appending(k)
    BY <1>2, Zenon DEF AddShape, Adding, Appending
  <1>5. k \in DOMAIN dblwr_pages /\ Copy(k) \in DoubleWritePage /\ Copy(k).key = k
    BY <1>1, <1>3, OpenCopies, Zenon
  <1> DEFINE i == Copy(k).page_index
  <1>6. i \in SlotNums /\ slots[i] = Copy(k) /\ Copy(k) # NoPage
    BY <1>1, <1>3, <1>4, <1>5, PageFields, Zenon DEF OwnSlots
  <1>7. i < file_cnt
    <2>1. i < page_cnt /\ (page_cnt = 0 \/ page_cnt = file_cnt)
      BY <1>1, <1>4, Zenon DEF Counted
    <2> HIDE DEF i
    <2>2. ~(i < 0)
      BY <1>6, SlotIndex, SMT
    <2> QED BY <2>1, <2>2, Zenon
  <1> HIDE DEF i
  <1>8. slots[i] # NoPage /\ slots[i].valid /\ slots[i].key = k
    BY <1>1, <1>5, <1>6, Zenon
  <1>9. k \in DOMAIN OnFile /\ OnFile[k] = slots[i]
    BY <1>v, <1>6, <1>7, <1>8, Zenon
  <1> QED BY <1>8, <1>9, Zenon

(* The restart finds what was last added, or what the data files have.     *)
LEMMA CrashKeeps ==
  ASSUME DInv, QuietClose, Crash
  PROVE  DInv'
  <1>a. /\ crashes' = crashes + 1
        /\ opened = DwbPools \/ (opened = {} /\ Quiet)
        /\ dblwr_pages' = OnFile /\ page_cnt' = file_cnt /\ opened' = DwbPools /\ add' = AddIdle
        /\ flush' = [FlushIdle EXCEPT !.pc = "open"]
        /\ last' = [k \in Keys |-> IF Restored(OnFile, data, k) = Torn THEN wrote[k] ELSE Restored(OnFile, data, k)]
        /\ UNCHANGED <<file_cnt, slots, data, wrote>>
    BY Zenon DEF Crash, disk, OnFile
  <1>l. /\ PageMap(OnFile)
        /\ \A k \in DOMAIN OnFile :
              /\ OnFile[k].page_index \in SlotNums /\ OnFile[k].page_index < file_cnt
              /\ slots[OnFile[k].page_index] = OnFile[k]
              /\ \A i \in SlotNums : i < OnFile[k].page_index => slots[i] = NoPage \/ slots[i].key # k
    BY LoadedPages, Zenon DEF DInv
  <1>t. \A k \in Keys : data[k] = Torn => k \in DOMAIN OnFile /\ OnFile[k].valid
    BY <1>a, TornIsLoaded, Zenon
  <1>v. \A i \in SlotNums : \A x \in Keys :
          i < file_cnt /\ slots[i] # NoPage /\ slots[i].valid /\ slots[i].key = x =>
            x \in ToWrite /\ Copy(x) = slots[i] /\ x \in DOMAIN OnFile /\ OnFile[x] = slots[i]
    BY <1>a, ValidIsFirst, Zenon
  <1> USE DEF DInv
  <1>k. \A k \in DOMAIN OnFile : k \in Keys /\ OnFile[k] \in DoubleWritePage /\ OnFile[k].key = k /\ OnFile[k] # NoPage
                            /\ OnFile[k].ver \in Ver /\ OnFile[k].ver # Torn
    BY <1>l, PageFields, Zenon DEF PageMap
  <1>f. /\ flush'.pc = "open" /\ flush'.caller = "none" /\ flush'.batch = NoMap /\ DOMAIN flush'.batch = {}
        /\ flush' = [pc |-> flush'.pc, caller |-> flush'.caller, batch |-> flush'.batch, key |-> flush'.key]
    <2>1. flush' = [pc |-> "open", caller |-> "none", batch |-> NoMap, key |-> <<>>]
      BY <1>a, SMT DEF FlushIdle
    <2>2. flush'.pc = "open" /\ flush'.caller = "none" /\ flush'.batch = NoMap /\ flush'.key = <<>>
      BY <2>1, Zenon
    <2> QED BY <2>1, <2>2, EmptyMap, Zenon
  <1>i. /\ flush'.pc # "mark" /\ flush'.pc # "idle" /\ flush'.pc # "data" /\ flush'.pc \notin {"next", "data", "mark"}
        /\ flush'.pc \notin {"data", "mark"} /\ flush'.pc \in {"open", "idle", "next", "data", "mark"}
        /\ flush'.caller # "clear" /\ flush'.caller \notin {"full", "sync", "recover"}
    BY <1>f
  <1>w. /\ Recovering' /\ ~WholeMap' /\ ToWrite' = DOMAIN OnFile /\ \A j : Copy(j)' = OnFile[j]
    <2>1. Recovering' /\ ~WholeMap'
      BY <1>f, <1>i, Zenon DEF Recovering, WholeMap
    <2>2. ToWrite' = DOMAIN OnFile
      BY <2>1, <1>f, <1>a, Zenon DEF ToWrite
    <2> QED BY <2>1, <2>2, <1>f, <1>a, Zenon DEF Copy
  <1>d. add'.pc = "idle" /\ add'.pc # "header" /\ add'.pc \notin {"new", "header"}
    <2>1. add'.pc = "idle"
      BY <1>a, AddIdleFields, Zenon
    <2> QED BY <2>1
  <1>r. ASSUME NEW k \in Keys
        PROVE  /\ last'[k] = Restored(OnFile, data, k) /\ last'[k] \in Ver /\ last'[k] >= wrote[k]
    <2>1. CASE k \in DOMAIN OnFile /\ OnFile[k].valid
      <3>1. Restored(OnFile, data, k) = OnFile[k].ver /\ OnFile[k].ver \in Ver /\ OnFile[k].ver # Torn
        BY <2>1, <1>k, Zenon DEF Restored
      <3>2. last'[k] = OnFile[k].ver
        BY <3>1, <1>a, Zenon
      <3> DEFINE i == OnFile[k].page_index
      <3>3. i \in SlotNums /\ i < file_cnt /\ slots[i] = OnFile[k] /\ OnFile[k].key = k /\ OnFile[k] # NoPage
        BY <2>1, <1>l, <1>k, Zenon
      <3> HIDE DEF i
      <3>4. k \in ToWrite /\ Copy(k) = OnFile[k]
        BY <2>1, <3>3, <1>v, Zenon
      <3>5. OnFile[k].ver = last[k]
        BY <2>1, <3>4, Zenon DEF Latest
      <3> QED BY <3>1, <3>2, <3>5, Zenon DEF Latest
    <2>2. CASE ~(k \in DOMAIN OnFile /\ OnFile[k].valid)
      <3>1. Restored(OnFile, data, k) = data[k]
        BY <2>2, Zenon DEF Restored
      <3>2. data[k] # Torn
        BY <2>2, <1>t, Zenon
      <3>3. last'[k] = data[k]
        BY <3>1, <3>2, <1>a, Zenon
      <3>4. data[k] = wrote[k] /\ data[k] \in Ver
        BY <3>2, Zenon DEF Latest, Shapes
      <3>5. \A n \in Ver : n >= n
        BY VerNat, SMT
      <3> QED BY <3>1, <3>3, <3>4, <3>5, Zenon
    <2> QED BY <2>1, <2>2, Zenon
  <1>n. crashes' \in Nat /\ crashes' # 0 /\ (crashes' = 1 => crashes = 0)
    BY <1>a, SMT DEF Shapes
  <1>1. Shapes'
    <2>1. last' \in [Keys -> Ver]
      <3>1. DOMAIN last' = Keys /\ last' = [k \in Keys |-> last'[k]]
        BY <1>a, Zenon
      <3> QED BY <3>1, <1>r, Zenon
    <2> QED BY <2>1, <1>a, <1>l, <1>n, Zenon DEF Shapes
  <1>2. AddShape'
    <2>1. AddIdle \in [pc : {"idle", "hit", "new", "header"}, page : DoubleWritePage \cup {NoPage}]
      BY SMT DEF AddIdle
    <2> QED BY <2>1, <1>a, <1>d, Zenon DEF AddShape
  <1>3. FlushShape'
    <2>1. PageMap(flush'.batch)
      BY <1>f, EmptyMap, Zenon
    <2> QED BY <2>1, <1>f, <1>i, Zenon DEF FlushShape
  <1>4. Pooled'
    <2>1. \A k \in DOMAIN dblwr_pages' : k[1] \in opened'
      BY <1>a, <1>k, Zenon DEF DwbPools
    <2> QED BY <2>1, <1>a, <1>i, <1>w, Zenon DEF Pooled
  <1>5. Counted'
    <2>1. \A k \in ToWrite' : Copy(k)'.page_index < page_cnt'
      BY <1>a, <1>l, <1>w, Zenon
    <2> QED BY <2>1, <1>a, <1>d, <1>w, Zenon DEF Counted
  <1>6. OwnSlots'
    <2>1. ASSUME NEW j \in DOMAIN OnFile, NEW k \in DOMAIN OnFile, OnFile[j].page_index = OnFile[k].page_index PROVE j = k
      <3>1. OnFile[j] = OnFile[k]
        BY <2>1, <1>l, Zenon
      <3> QED BY <3>1, <1>k, Zenon
    <2>2. \A k \in ToWrite' : slots'[Copy(k)'.page_index] = Copy(k)'
      BY <1>a, <1>l, <1>w, Zenon
    <2>3. \A k \in DOMAIN dblwr_pages' : \A i \in SlotNums :
            i < dblwr_pages'[k].page_index => slots'[i] = NoPage \/ slots'[i].key # k
      BY <1>a, <1>l, Zenon
    <2>4. \A j, k \in DOMAIN dblwr_pages' : dblwr_pages'[j].page_index = dblwr_pages'[k].page_index => j = k
      BY <2>1, <1>a, Zenon
    <2> QED BY <2>2, <2>3, <2>4, <1>a, <1>w, Zenon DEF OwnSlots
  <1>7. ValidLive'
    BY <1>a, <1>v, <1>w, Zenon DEF ValidLive
  <1>8. Latest'
    <2>1. \A k \in Keys : IF k \in ToWrite' /\ Copy(k)'.valid THEN Copy(k)'.ver = last'[k] ELSE data'[k] = last'[k]
      BY <1>a, <1>r, <1>w, Zenon DEF Restored
    <2> QED BY <2>1, <1>a, <1>i, <1>r, <1>w, Zenon DEF Latest
  <1>9. FirstCrash'
    <2>1. ASSUME crashes' = 1, NEW k \in Keys PROVE ReadPage(OnFile, data, k) = last'[k]
      <3>1. CASE k \notin DOMAIN OnFile
        BY <3>1, <1>r, Zenon DEF ReadPage, Restored
      <3>2. CASE k \in DOMAIN OnFile /\ OnFile[k].valid
        BY <3>2, <1>r, Zenon DEF ReadPage, Restored
      <3>3. CASE k \in DOMAIN OnFile /\ ~OnFile[k].valid
        <4> DEFINE i == OnFile[k].page_index
        <4>1. i \in SlotNums /\ i < file_cnt /\ slots[i] = OnFile[k] /\ OnFile[k].key = k /\ OnFile[k] # NoPage
          BY <3>3, <1>l, <1>k, Zenon
        <4> HIDE DEF i
        <4>2. OnFile[k].ver = data[k]
          BY <3>3, <4>1, <2>1, <1>n, Zenon DEF FirstCrash
        <4> QED BY <3>3, <4>2, <1>r, Zenon DEF ReadPage, Restored
      <3> QED BY <3>1, <3>2, <3>3, Zenon
    <2> QED BY <2>1, <1>a, <1>n, Zenon DEF FirstCrash, OpenLatest
  <1> QED BY <1>1, <1>2, <1>3, <1>4, <1>5, <1>6, <1>7, <1>8, <1>9, Zenon DEF DInv

-----------------------------------------------------------------------------
(* The theorems *)

LEMMA StutterKeeps ==
  ASSUME DInv, UNCHANGED dvars
  PROVE  DInv'
  <1> USE DEF DInv
  <1>1. UNCHANGED <<dblwr_pages, page_cnt, opened, file_cnt, slots, data, add, flush, crashes, last, wrote>>
    BY Zenon DEF dvars, mem, disk
  <1>2. (Recovering' <=> Recovering) /\ (WholeMap' <=> WholeMap) /\ ToWrite' = ToWrite /\ \A j : Copy(j)' = Copy(j)
    BY <1>1, Zenon DEF Recovering, WholeMap, ToWrite, Copy
  <1>3. Counted' /\ OwnSlots' /\ ValidLive'
    BY <1>1, <1>2, SameView, Zenon
  <1>4. Shapes' /\ AddShape' /\ FlushShape'
    BY <1>1, Zenon DEF Shapes, AddShape, FlushShape
  <1>5. Pooled' /\ Latest'
    BY <1>1, <1>2, Zenon DEF Pooled, Latest
  <1>6. FirstCrash'
    BY <1>1, <1>2, Zenon DEF FirstCrash, OpenLatest
  <1> QED BY <1>3, <1>4, <1>5, <1>6, Zenon DEF DInv

(* Every step of the buffer keeps the invariant, a crash included, when    *)
(* none happens while pools are being closed.                              *)
THEOREM DInvNext == QuietClose /\ DInv /\ [DNext]_dvars => DInv'
  <1> SUFFICES ASSUME QuietClose, DInv, [DNext]_dvars PROVE DInv'
    OBVIOUS
  <1>1. CASE UNCHANGED dvars
    BY <1>1, StutterKeeps, Zenon
  <1>2. ASSUME NEW k \in Keys, AddPage(k) PROVE DInv'
    BY <1>2, AddPageKeeps, Zenon
  <1>3. ASSUME NEW k \in Keys, WriteBegin(k) PROVE DInv'
    BY <1>3, WriteBeginKeeps, Zenon
  <1>4. ASSUME NEW pool \in DwbPools, ClosePool(pool) PROVE DInv'
    BY <1>4, ClosePoolKeeps, Zenon
  <1> QED BY <1>1, <1>2, <1>3, <1>4, WriteSlotKeeps, AddEndKeeps, SyncFlushKeeps, WriteDataKeeps,
             MarkInvalidKeeps, FlushEndKeeps, CrashKeeps, RecoverKeeps, Zenon DEF DNext

(* What the invariant says of a buffer at rest and of one just opened      *)
LEMMA DInvImplies == DInv => WrittenPagesSurvive
  <1> SUFFICES ASSUME DInv PROVE WrittenPagesSurvive
    OBVIOUS
  <1> USE DEF DInv
  <1>q. ASSUME Quiet
        PROVE  /\ ~Recovering /\ ~WholeMap /\ ToWrite = DOMAIN dblwr_pages
               /\ \A j : Copy(j) = dblwr_pages[j]
               /\ add.pc = "idle" /\ \A j : ~Adding(j) /\ ~Appending(j)
    BY <1>q, NothingFlushed, AddIdleFields, Zenon DEF Quiet, Adding, Appending
  <1>1. DTypeOK
    <2>1. Quiet => Size < MaxDwbPages
      BY <1>q, Zenon DEF Counted
    <2>2. dblwr_pages \in Pages /\ \A k \in DOMAIN dblwr_pages : dblwr_pages[k].key = k
      BY MapIsPages, Zenon DEF Shapes, PageMap
    <2>3. add.pc \in {"idle", "hit", "new", "header"}
      BY SMT DEF AddShape
    <2>4. \A i \in SlotNums : slots[i] = NoPage \/ slots[i] \in DoubleWritePage
      BY SlotTypes, Zenon
    <2>5. data \in [Keys -> Ver \union {Torn}]
      BY Zenon DEF Shapes
    <2> QED BY <2>1, <2>2, <2>3, <2>4, <2>5, Zenon DEF DTypeOK, Shapes, FlushShape
  <1>2. ReadsLatest
    <2> SUFFICES ASSUME Quiet, NEW k \in Keys PROVE ReadPage(dblwr_pages, data, k) = last[k]
      BY Zenon DEF ReadsLatest
    <2>1. CASE k \in DOMAIN dblwr_pages
      BY <2>1, <1>q, Zenon DEF Latest, Pooled, ReadPage
    <2>2. CASE k \notin DOMAIN dblwr_pages
      BY <2>2, <1>q, Zenon DEF Latest, ReadPage
    <2> QED BY <2>1, <2>2, Zenon
  <1>3. RestartWhole
    <2> SUFFICES ASSUME NEW k \in Keys
                 PROVE  /\ Quiet => ReadPage(dblwr_pages, data, k) >= wrote[k]
                        /\ flush.pc = "open" => ReadPage(dblwr_pages, data, k) # Torn
      BY Zenon DEF RestartWhole
    <2>1. Quiet => ReadPage(dblwr_pages, data, k) >= wrote[k]
      BY <1>2, Zenon DEF ReadsLatest, Latest
    <2>2. ASSUME flush.pc = "open" PROVE ReadPage(dblwr_pages, data, k) # Torn
      <3>1. CASE k \in DOMAIN dblwr_pages
        BY <3>1, PageFields, Zenon DEF ReadPage, Shapes, PageMap
      <3>2. CASE k \notin DOMAIN dblwr_pages
        <4>1. k \notin ToWrite
          BY <2>2, <3>2, Zenon DEF ToWrite, FlushShape
        <4>2. data[k] = last[k] /\ last[k] # Torn
          <5>1. data[k] = last[k] /\ last[k] \in Ver
            BY <4>1, Zenon DEF Latest, Shapes
          <5> QED BY <5>1, VerNat, Zenon
        <4> QED BY <3>2, <4>2, Zenon DEF ReadPage
      <3> QED BY <3>1, <3>2, Zenon
    <2> QED BY <2>1, <2>2, Zenon
  <1>4. FileLatest
    <2> SUFFICES ASSUME Quiet, opened = DwbPools, NEW k \in DOMAIN dblwr_pages
                 PROVE  /\ slots[dblwr_pages[k].page_index] = dblwr_pages[k]
                        /\ dblwr_pages[k].page_index < file_cnt
      BY Zenon DEF FileLatest
    <2>1. slots[dblwr_pages[k].page_index] = dblwr_pages[k]
      BY <1>q, Zenon DEF OwnSlots
    <2>2. dblwr_pages[k].page_index < page_cnt /\ (page_cnt = 0 \/ page_cnt = file_cnt)
      BY <1>q, Zenon DEF Counted
    <2>3. dblwr_pages[k].page_index \in SlotNums
      BY PageFields, Zenon DEF Shapes, PageMap
    <2>4. ~(dblwr_pages[k].page_index < 0)
      BY <2>3, SlotIndex, SMT
    <2> QED BY <2>1, <2>2, <2>4, Zenon
  <1> QED BY <1>1, <1>2, <1>3, <1>4, Zenon DEF WrittenPagesSurvive, FirstCrash

(* What the buffer pool wrote back stays readable, whole and up to date,   *)
(* through flushes, closed pools and any number of crashes, for every set  *)
(* of pages and every size of the buffer, when no crash happens while      *)
(* pools are being closed.                                                 *)
THEOREM PagesSurvive ==
  ASSUME QuietClose
  PROVE  DSpec => []WrittenPagesSurvive
  <1>1. DInit => DInv
    BY DInvInit, Zenon
  <1>2. DInv /\ [DNext]_dvars => DInv'
    BY DInvNext, Zenon
  <1>3. DInv => WrittenPagesSurvive
    BY DInvImplies, Zenon
  <1> QED BY <1>1, <1>2, <1>3, PTL DEF DSpec
=============================================================================
