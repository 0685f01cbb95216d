-------------------------- MODULE HeapTableProofs --------------------------
(***************************************************************************)
(* The indexes of a table follow its records, for every set of records,    *)
(* fields and values and every sequence of operations and failures.        *)
(***************************************************************************)
EXTENDS HeapTable, TLAPS

Tree == [field : 1..Fields, entries : SUBSET (Vals \X Rids)]

(* The types of the state, and that an unfinished insert has its record. *)
HShape ==
    /\ recs \in [DOMAIN recs -> Data] /\ DOMAIN recs \subseteq Rids
    /\ trees \in Seq(Tree)
    /\ pending \subseteq DOMAIN recs

HInv == HShape /\ IndexesFollowRecords

(* The indexes us are the indexes ts, in which those at the places in K     *)
(* gained, or lost, the entry of a record.                                  *)
Added(us, ts, K, data, rid) ==
    /\ us \in Seq(Tree) /\ DOMAIN us = DOMAIN ts
    /\ \A k \in DOMAIN ts :
          /\ us[k].field = ts[k].field
          /\ k \in K => us[k].entries = ts[k].entries \union {<<data[ts[k].field], rid>>}
          /\ k \notin K => us[k].entries = ts[k].entries
Removed(us, ts, K, data, rid) ==
    /\ us \in Seq(Tree) /\ DOMAIN us = DOMAIN ts
    /\ \A k \in DOMAIN ts :
          /\ us[k].field = ts[k].field
          /\ k \in K => us[k].entries = ts[k].entries \ {<<data[ts[k].field], rid>>}
          /\ k \notin K => us[k].entries = ts[k].entries

-----------------------------------------------------------------------------
(* The entries of the indexes *)

LEMMA TreeFacts ==
    ASSUME NEW ts \in Seq(Tree), NEW k \in DOMAIN ts, NEW data \in Data, NEW rid \in Rids
    PROVE  /\ ts[k] \in Tree /\ ts[k].field \in 1..Fields
           /\ Entry(ts[k], data, rid) = <<data[ts[k].field], rid>>
           /\ Entry(ts[k], data, rid) \in Vals \X Rids
    <1>1. ts[k] \in Tree
        OBVIOUS
    <1>2. ts[k].field \in 1..Fields
        BY <1>1 DEF Tree
    <1> QED BY <1>1, <1>2 DEF Entry, Data

LEMMA MadeOfTrees ==
    ASSUME NEW ts \in Seq(Tree), NEW us, us = [k \in DOMAIN ts |-> us[k]],
           \A k \in DOMAIN ts : us[k] \in Tree
    PROVE  us \in Seq(Tree) /\ DOMAIN us = DOMAIN ts
    OBVIOUS

LEMMA WithFacts ==
    ASSUME NEW ts \in Seq(Tree), NEW K, NEW data \in Data, NEW rid \in Rids
    PROVE  Added(With(ts, K, data, rid), ts, K, data, rid)
    <1> DEFINE us == With(ts, K, data, rid)
    <1>1. us = [k \in DOMAIN ts |-> us[k]]
        BY Zenon DEF With
    <1>2. ASSUME NEW k \in DOMAIN ts
          PROVE  /\ us[k] \in Tree /\ us[k].field = ts[k].field
                 /\ k \in K => us[k].entries = ts[k].entries \union {<<data[ts[k].field], rid>>}
                 /\ k \notin K => us[k].entries = ts[k].entries
        <2>1. us[k] = IF k \in K THEN [ts[k] EXCEPT !.entries = @ \union {Entry(ts[k], data, rid)}] ELSE ts[k]
            BY Zenon DEF With
        <2>2. /\ ts[k] \in Tree /\ Entry(ts[k], data, rid) \in Vals \X Rids
              /\ Entry(ts[k], data, rid) = <<data[ts[k].field], rid>>
            BY TreeFacts, Zenon
        <2> DEFINE e == Entry(ts[k], data, rid)
                   X == Vals \X Rids
        <2> HIDE DEF us, e, X
        <2>3. ts[k].entries \union {e} \in SUBSET X
            BY <2>2 DEF Tree, e, X
        <2> QED BY ONLY <2>1, <2>2, <2>3 DEF Tree, e, X
    <1> HIDE DEF us
    <1>3. us \in Seq(Tree) /\ DOMAIN us = DOMAIN ts
        BY <1>1, <1>2, MadeOfTrees, Zenon
    <1> QED BY <1>2, <1>3, Zenon DEF us, Added

LEMMA WithoutFacts ==
    ASSUME NEW ts \in Seq(Tree), NEW K, NEW data \in Data, NEW rid \in Rids
    PROVE  Removed(Without(ts, K, data, rid), ts, K, data, rid)
    <1> DEFINE us == Without(ts, K, data, rid)
    <1>1. us = [k \in DOMAIN ts |-> us[k]]
        BY Zenon DEF Without
    <1>2. ASSUME NEW k \in DOMAIN ts
          PROVE  /\ us[k] \in Tree /\ us[k].field = ts[k].field
                 /\ k \in K => us[k].entries = ts[k].entries \ {<<data[ts[k].field], rid>>}
                 /\ k \notin K => us[k].entries = ts[k].entries
        <2>1. us[k] = IF k \in K THEN [ts[k] EXCEPT !.entries = @ \ {Entry(ts[k], data, rid)}] ELSE ts[k]
            BY Zenon DEF Without
        <2>2. /\ ts[k] \in Tree
              /\ Entry(ts[k], data, rid) = <<data[ts[k].field], rid>>
            BY TreeFacts, Zenon
        <2> HIDE DEF us
        <2> QED BY ONLY <2>1, <2>2 DEF Tree
    <1> HIDE DEF us
    <1>3. us \in Seq(Tree) /\ DOMAIN us = DOMAIN ts
        BY <1>1, <1>2, MadeOfTrees, Zenon
    <1> QED BY <1>2, <1>3, Zenon DEF us, Removed

(* The only entry of a record in an index is the one under its value. *)
LEMMA OneEntry ==
    ASSUME HInv, NEW k \in DOMAIN trees, NEW rid \in Rids, NEW v
    PROVE  <<v, rid>> \in trees[k].entries <=> rid \in DOMAIN recs /\ v = recs[rid][trees[k].field]
    BY DEF HInv, IndexesFollowRecords, IndexesMatchRecords

-----------------------------------------------------------------------------
(* The operations *)

(* Indexes with the entries they had *)
LEMMA SameTrees ==
    ASSUME NEW ts \in Seq(Tree), NEW us \in Seq(Tree), DOMAIN us = DOMAIN ts,
           \A k \in DOMAIN ts : us[k].field = ts[k].field /\ us[k].entries = ts[k].entries
    PROVE  us = ts
    <1>1. ASSUME NEW k \in DOMAIN ts PROVE us[k] = ts[k]
        <2>1. us[k] \in Tree /\ ts[k] \in Tree
            OBVIOUS
        <2>2. /\ us[k] = [field |-> us[k].field, entries |-> us[k].entries]
              /\ ts[k] = [field |-> ts[k].field, entries |-> ts[k].entries]
            BY ONLY <2>1 DEF Tree
        <2> QED BY <2>2, Zenon
    <1> QED BY <1>1

(* An insertion that an index refuses leaves every index as it was. *)
LEMMA RefusedInsert ==
    ASSUME HInv, NEW rid \in Rids, rid \notin DOMAIN recs, NEW data \in Data,
           NEW fail \in 1..Len(trees)
    PROVE  DeleteEntries(InsertEntries(trees, data, rid, fail), data, rid) = trees
    <1> DEFINE K     == {k \in DOMAIN trees : fail = 0 \/ k < fail}
               ts    == With(trees, K, data, rid)
               lacks == {k \in DOMAIN ts : Entry(ts[k], data, rid) \notin ts[k].entries}
               L     == {k \in DOMAIN ts : \A l \in lacks : k < l}
               us    == Without(ts, L, data, rid)
    <1>0. trees \in Seq(Tree) /\ DOMAIN trees = 1..Len(trees) /\ Len(trees) \in Nat
        BY DEF HInv, HShape
    <1>4. \A k \in DOMAIN trees : k \in K <=> k < fail
        BY <1>0
    <1> HIDE DEF K
    <1>a. Added(ts, trees, K, data, rid)
        BY <1>0, WithFacts, Zenon
    <1> HIDE DEF ts, L
    <1>1. /\ ts \in Seq(Tree) /\ DOMAIN ts = DOMAIN trees
          /\ \A k \in DOMAIN trees :
                /\ ts[k].field = trees[k].field
                /\ k \in K => ts[k].entries = trees[k].entries \union {<<data[trees[k].field], rid>>}
                /\ k \notin K => ts[k].entries = trees[k].entries
        BY <1>a, Zenon DEF Added
    <1>b. Removed(us, ts, L, data, rid)
        BY <1>1, WithoutFacts, Zenon
    <1>2. /\ us \in Seq(Tree) /\ DOMAIN us = DOMAIN ts
          /\ \A k \in DOMAIN ts :
                /\ us[k].field = ts[k].field
                /\ k \in L => us[k].entries = ts[k].entries \ {<<data[ts[k].field], rid>>}
                /\ k \notin L => us[k].entries = ts[k].entries
        BY <1>b, Zenon DEF Removed
    <1>3. \A k \in DOMAIN trees : <<data[trees[k].field], rid>> \notin trees[k].entries
        BY OneEntry, Zenon
    <1>5. \A k \in DOMAIN ts : Entry(ts[k], data, rid) = <<data[trees[k].field], rid>>
        BY <1>1, Zenon DEF Entry
    <1>6. \A k \in DOMAIN trees : k \in lacks <=> ~(k < fail)
        BY <1>1, <1>3, <1>4, <1>5
    <1>7. \A k \in DOMAIN trees : k \in L <=> k < fail
        <2>1. fail \in DOMAIN trees /\ fail \in lacks
            BY <1>0, <1>6
        <2>2. \A k, l \in DOMAIN trees : k < fail /\ ~(l < fail) => k < l
            BY <1>0
        <2>3. lacks \subseteq DOMAIN trees
            BY <1>1, Zenon
        <2> QED BY <1>1, <1>6, <2>1, <2>2, <2>3, Zenon DEF L
    <1> HIDE DEF lacks, us
    <1>8. \A k \in DOMAIN trees : us[k].field = trees[k].field /\ us[k].entries = trees[k].entries
        <2> SUFFICES ASSUME NEW k \in DOMAIN trees
                     PROVE  us[k].field = trees[k].field /\ us[k].entries = trees[k].entries
            OBVIOUS
        <2> DEFINE e == <<data[trees[k].field], rid>>
        <2>1. /\ us[k].field = trees[k].field /\ e \notin trees[k].entries
              /\ k < fail => us[k].entries = (trees[k].entries \union {e}) \ {e}
              /\ ~(k < fail) => us[k].entries = trees[k].entries
            BY <1>1, <1>2, <1>3, <1>4, <1>7, Zenon
        <2> HIDE DEF e
        <2> QED BY ONLY <2>1
    <1>9. us = trees
        <2>1. DOMAIN us = DOMAIN trees
            BY <1>1, <1>2, Zenon
        <2> QED BY <1>0, <1>2, <1>8, <2>1, SameTrees, Zenon
    <1> QED BY <1>9, Zenon DEF us, L, lacks, ts, K, DeleteEntries, InsertEntries

LEMMA InsertInv ==
    ASSUME HInv, NEW rid \in Rids, NEW data \in Data, NEW fail, InsertRecord(rid, data, fail)
    PROVE  HInv'
    <1>0. /\ rid \notin DOMAIN recs /\ fail \in 0..Len(trees) /\ aborted' = aborted /\ ~aborted
          /\ trees \in Seq(Tree) /\ Len(trees) \in Nat
        BY DEF InsertRecord, Operation, HInv, HShape
    <1>1. CASE fail # 0
        <2>1. fail \in 1..Len(trees)
            BY <1>0, <1>1
        <2>2. trees' = trees /\ recs' = recs /\ pending' = pending
            BY <1>0, <1>1, <2>1, RefusedInsert, Zenon DEF InsertRecord
        <2> QED BY <1>0, <2>2, Zenon DEF HInv, HShape, IndexesFollowRecords, IndexesMatchRecords,
                                          DeleteFindsItsEntries
    <1>2. CASE fail = 0
        <2> DEFINE K == {k \in DOMAIN trees : fail = 0 \/ k < fail}
        <2>0. \A k \in DOMAIN trees : k \in K
            BY <1>2, Zenon
        <2>1. /\ trees' = With(trees, K, data, rid)
              /\ recs' = AddRecord(recs, rid, data) /\ pending' = pending \union {rid}
            BY <1>2, Zenon DEF InsertRecord, InsertEntries
        <2> HIDE DEF K
        <2>a. Added(trees', trees, K, data, rid)
            BY <1>0, <2>1, WithFacts, Zenon
        <2>2. /\ trees' \in Seq(Tree) /\ DOMAIN trees' = DOMAIN trees
              /\ \A k \in DOMAIN trees :
                    /\ trees'[k].field = trees[k].field
                    /\ trees'[k].entries = trees[k].entries \union {<<data[trees[k].field], rid>>}
            BY <2>0, <2>a, Zenon DEF Added
        <2>3. /\ DOMAIN recs' = DOMAIN recs \union {rid}
              /\ recs' \in [DOMAIN recs \union {rid} -> Data]
              /\ recs'[rid] = data /\ \A r \in DOMAIN recs : recs'[r] = recs[r]
            BY <1>0, <2>1 DEF HInv, HShape, AddRecord
        <2>4. HShape'
            BY <2>1, <2>2, <2>3, Zenon DEF HInv, HShape
        <2>5. ASSUME NEW k \in DOMAIN trees'
              PROVE  trees'[k].entries = {<<recs'[r][trees'[k].field], r>> : r \in DOMAIN recs'}
            <3>1. trees[k].entries = {<<recs[r][trees[k].field], r>> : r \in DOMAIN recs}
                BY <2>2, Zenon DEF HInv, IndexesFollowRecords, IndexesMatchRecords
            <3> DEFINE f == trees[k].field
            <3> HIDE DEF f
            <3>2. {<<recs'[r][f], r>> : r \in DOMAIN recs \union {rid}}
                    = {<<recs[r][f], r>> : r \in DOMAIN recs} \union {<<data[f], rid>>}
                BY ONLY <2>3
            <3> QED BY <2>2, <2>3, <3>1, <3>2 DEF f
        <2> QED BY <1>0, <2>4, <2>5, Zenon DEF HInv, IndexesFollowRecords, IndexesMatchRecords,
                                               DeleteFindsItsEntries
    <1> QED BY <1>1, <1>2, Zenon

(* A step that keeps the records and the indexes *)
LEMMA SameTable ==
    ASSUME HInv, trees' = trees, recs' = recs, pending' \subseteq pending, aborted' = aborted
    PROVE  HInv'
    <1>1. pending' \subseteq DOMAIN recs'
        BY Zenon DEF HInv, HShape
    <1> QED BY <1>1, Zenon DEF HInv, HShape, IndexesFollowRecords, IndexesMatchRecords, DeleteFindsItsEntries

LEMMA CommitInv ==
    ASSUME HInv, NEW rid \in Rids, Commit(rid)
    PROVE  HInv'
    BY SameTable, Zenon DEF Commit

LEMMA DeleteInv ==
    ASSUME HInv, NEW rid \in Rids, DeleteRecord(rid)
    PROVE  HInv'
    <1> DEFINE data  == recs[rid]
               lacks == {k \in DOMAIN trees : Entry(trees[k], data, rid) \notin trees[k].entries}
               L     == {k \in DOMAIN trees : \A l \in lacks : k < l}
    <1>0. /\ rid \in DOMAIN recs /\ trees \in Seq(Tree) /\ data \in Data
          /\ DOMAIN recs \subseteq Rids /\ recs \in [DOMAIN recs -> Data] /\ pending \subseteq DOMAIN recs
        BY Zenon DEF HInv, HShape, DeleteRecord
    <1>1. \A k \in DOMAIN trees : Entry(trees[k], data, rid) \in trees[k].entries
        BY <1>0, OneEntry, Zenon DEF Entry
    <1>2. \A k \in DOMAIN trees : k \in L
        BY <1>1, Zenon
    <1>3. /\ trees' = Without(trees, L, data, rid)
          /\ recs' = Restrict(recs, DOMAIN recs \ {rid})
          /\ pending' = pending \ {rid} /\ aborted' = aborted
        BY <1>1, Zenon DEF DeleteRecord, DeleteEntries
    <1> HIDE DEF L, data
    <1>4. Removed(trees', trees, L, data, rid)
        BY <1>0, <1>3, WithoutFacts, Zenon
    <1>5. /\ trees' \in Seq(Tree) /\ DOMAIN trees' = DOMAIN trees
          /\ \A k \in DOMAIN trees :
                /\ trees'[k].field = trees[k].field
                /\ trees'[k].entries = trees[k].entries \ {<<data[trees[k].field], rid>>}
        BY <1>2, <1>4, Zenon DEF Removed
    <1>6. /\ DOMAIN recs' = DOMAIN recs \ {rid}
          /\ recs' \in [DOMAIN recs \ {rid} -> Data]
          /\ \A r \in DOMAIN recs \ {rid} : recs'[r] = recs[r]
        BY <1>0, <1>3 DEF Restrict
    <1>7. HShape'
        <2>1. DOMAIN recs' \subseteq Rids /\ pending' \subseteq DOMAIN recs'
            BY <1>0, <1>3, <1>6, Zenon
        <2> QED BY <1>5, <1>6, <2>1, Zenon DEF HShape
    <1>8. ASSUME NEW k \in DOMAIN trees'
          PROVE  trees'[k].entries = {<<recs'[r][trees'[k].field], r>> : r \in DOMAIN recs'}
        <2> DEFINE f == trees[k].field
        <2>1. trees[k].entries = {<<recs[r][f], r>> : r \in DOMAIN recs}
            BY <1>5, Zenon DEF HInv, IndexesFollowRecords, IndexesMatchRecords
        <2>2. trees'[k].field = f /\ trees'[k].entries = trees[k].entries \ {<<data[f], rid>>}
            BY <1>5, Zenon
        <2> HIDE DEF f
        <2>3. {<<recs'[r][f], r>> : r \in DOMAIN recs \ {rid}}
                = {<<recs[r][f], r>> : r \in DOMAIN recs} \ {<<recs[rid][f], rid>>}
            BY ONLY <1>6
        <2> QED BY <1>6, <2>1, <2>2, <2>3 DEF data
    <1> QED BY <1>3, <1>7, <1>8, Zenon DEF HInv, IndexesFollowRecords, IndexesMatchRecords,
                                           DeleteFindsItsEntries

(* The entry of a record under the new value is in no affected index, the   *)
(* one under the old value is in all of them.                               *)
LEMMA UpdateEntries ==
    ASSUME HInv, NEW rid \in DOMAIN recs, NEW new \in Data, NEW k \in DOMAIN trees
    PROVE  /\ <<recs[rid][trees[k].field], rid>> \in trees[k].entries
           /\ k \in Affected(recs[rid], new) => <<new[trees[k].field], rid>> \notin trees[k].entries
           /\ k \notin Affected(recs[rid], new) => recs[rid][trees[k].field] = new[trees[k].field]
    <1>1. rid \in Rids
        BY Zenon DEF HInv, HShape
    <1>2. <<recs[rid][trees[k].field], rid>> \in trees[k].entries
        BY <1>1, OneEntry, Zenon
    <1>3. ASSUME k \in Affected(recs[rid], new) PROVE <<new[trees[k].field], rid>> \notin trees[k].entries
        <2>1. recs[rid][trees[k].field] # new[trees[k].field]
            BY <1>3, Zenon DEF Affected
        <2> DEFINE v == new[trees[k].field]
        <2> HIDE DEF v
        <2>2. <<v, rid>> \in trees[k].entries
                 <=> rid \in DOMAIN recs /\ v = recs[rid][trees[k].field]
            BY <1>1, OneEntry, Zenon
        <2> QED BY <2>1, <2>2, Zenon DEF v
    <1>4. ASSUME k \notin Affected(recs[rid], new) PROVE recs[rid][trees[k].field] = new[trees[k].field]
        BY <1>4, Zenon DEF Affected
    <1> QED BY <1>2, <1>3, <1>4, Zenon

(* Removing the old entries and putting them back restores the indexes.     *)
LEMMA RemovalUndone ==
    ASSUME HInv, NEW rid \in DOMAIN recs, NEW D \in SUBSET DOMAIN trees
    PROVE  With(Without(trees, D, recs[rid], rid), D, recs[rid], rid) = trees
    <1> DEFINE old == recs[rid]
               ts  == Without(trees, D, old, rid)
               us  == With(ts, D, old, rid)
    <1>0. rid \in Rids /\ trees \in Seq(Tree) /\ old \in Data
        BY Zenon DEF HInv, HShape
    <1>6. \A k \in DOMAIN trees : <<old[trees[k].field], rid>> \in trees[k].entries
        BY <1>0, OneEntry, Zenon
    <1> HIDE DEF old
    <1>1. Removed(ts, trees, D, old, rid)
        BY <1>0, WithoutFacts, Zenon
    <1> HIDE DEF ts
    <1>2. ts \in Seq(Tree)
        BY <1>1, Zenon DEF Removed
    <1>3. Added(us, ts, D, old, rid)
        BY <1>0, <1>2, WithFacts, Zenon
    <1> HIDE DEF us
    <1>4. us \in Seq(Tree) /\ DOMAIN us = DOMAIN trees
        BY <1>1, <1>3, Zenon DEF Added, Removed
    <1>5. ASSUME NEW k \in DOMAIN trees
          PROVE  us[k].field = trees[k].field /\ us[k].entries = trees[k].entries
        <2> DEFINE o == <<old[trees[k].field], rid>>
        <2>1. /\ us[k].field = trees[k].field /\ o \in trees[k].entries
              /\ k \in D => us[k].entries = (trees[k].entries \ {o}) \union {o}
              /\ k \notin D => us[k].entries = trees[k].entries
            BY <1>1, <1>3, <1>6, Zenon DEF Added, Removed
        <2> HIDE DEF o
        <2> QED BY ONLY <2>1
    <1>7. us = trees
        BY <1>0, <1>4, <1>5, SameTrees, Zenon
    <1> QED BY <1>7, Zenon DEF us, ts, old

(* Taking out an entry, and putting another in and out, and the first back. *)
LEMMA PutBack ==
    ASSUME NEW E, NEW o \in E, NEW n
    PROVE  /\ (E \ {o}) \union {o} = E
           /\ n \notin E => (((E \ {o}) \union {n}) \ {n}) \union {o} = E
    BY Zenon

(* What an update undoes when the insertion of a new entry, or the visit of *)
(* the record, fails: the new entries at the places in D go and the old     *)
(* ones come back.                                                          *)
LEMMA InsertionUndone ==
    ASSUME HInv, NEW rid \in DOMAIN recs, NEW new \in Data,
           NEW D \in SUBSET Affected(recs[rid], new)
    PROVE  LET old == recs[rid]
               hit == Affected(old, new)
           IN  With(Without(With(Without(trees, hit, old, rid), D, new, rid), D, new, rid), hit, old, rid)
                 = trees
    <1> DEFINE old == recs[rid]
               hit == Affected(old, new)
               t1  == Without(trees, hit, old, rid)
               t2  == With(t1, D, new, rid)
               t3  == Without(t2, D, new, rid)
               t4  == With(t3, hit, old, rid)
    <1>0. rid \in Rids /\ trees \in Seq(Tree) /\ old \in Data
        BY Zenon DEF HInv, HShape
    <1>1. \A k \in DOMAIN trees : /\ <<old[trees[k].field], rid>> \in trees[k].entries
                                  /\ k \in hit => <<new[trees[k].field], rid>> \notin trees[k].entries
        BY UpdateEntries, Zenon
    <1>2. \A k \in D : k \in hit
        BY Zenon
    <1> HIDE DEF old, hit
    <1>3. Removed(t1, trees, hit, old, rid)
        BY <1>0, WithoutFacts, Zenon
    <1> HIDE DEF t1
    <1>4. t1 \in Seq(Tree)
        BY <1>3, Zenon DEF Removed
    <1>5. Added(t2, t1, D, new, rid)
        BY <1>0, <1>4, WithFacts, Zenon
    <1> HIDE DEF t2
    <1>6. t2 \in Seq(Tree)
        BY <1>5, Zenon DEF Added
    <1>7. Removed(t3, t2, D, new, rid)
        BY <1>0, <1>6, WithoutFacts, Zenon
    <1> HIDE DEF t3
    <1>8. t3 \in Seq(Tree)
        BY <1>7, Zenon DEF Removed
    <1>9. Added(t4, t3, hit, old, rid)
        BY <1>0, <1>8, WithFacts, Zenon
    <1> HIDE DEF t4
    <1>10. /\ DOMAIN t1 = DOMAIN trees /\ DOMAIN t2 = DOMAIN trees
           /\ DOMAIN t3 = DOMAIN trees /\ DOMAIN t4 = DOMAIN trees /\ t4 \in Seq(Tree)
        BY <1>3, <1>5, <1>7, <1>9, Zenon DEF Added, Removed
    <1>11. ASSUME NEW k \in DOMAIN trees
           PROVE  t4[k].field = trees[k].field /\ t4[k].entries = trees[k].entries
        <2> DEFINE f == trees[k].field
                   o == <<old[f], rid>>
                   n == <<new[f], rid>>
        <2>1. /\ t1[k].field = f
              /\ k \in hit => t1[k].entries = trees[k].entries \ {o}
              /\ k \notin hit => t1[k].entries = trees[k].entries
            BY <1>3, Zenon DEF Removed
        <2>2. /\ t2[k].field = f
              /\ k \in D => t2[k].entries = t1[k].entries \union {n}
              /\ k \notin D => t2[k].entries = t1[k].entries
            BY <1>5, <1>10, <2>1, Zenon DEF Added
        <2>3. /\ t3[k].field = f
              /\ k \in D => t3[k].entries = t2[k].entries \ {n}
              /\ k \notin D => t3[k].entries = t2[k].entries
            BY <1>7, <1>10, <2>2, Zenon DEF Removed
        <2>4. /\ t4[k].field = f
              /\ k \in hit => t4[k].entries = t3[k].entries \union {o}
              /\ k \notin hit => t4[k].entries = t3[k].entries
            BY <1>9, <1>10, <2>3, Zenon DEF Added
        <2>5. o \in trees[k].entries /\ (k \in hit => n \notin trees[k].entries) /\ (k \in D => k \in hit)
            BY <1>1, <1>2, Zenon
        <2> HIDE DEF o, n
        <2>6. CASE k \notin hit
            BY ONLY <2>1, <2>2, <2>3, <2>4, <2>5, <2>6, Zenon
        <2>7. CASE k \in hit /\ k \notin D
            <3>1. t4[k].entries = (trees[k].entries \ {o}) \union {o}
                BY ONLY <2>1, <2>2, <2>3, <2>4, <2>7, Zenon
            <3> QED BY ONLY <3>1, <2>4, <2>5, <2>7, PutBack, Zenon DEF f
        <2>8. CASE k \in hit /\ k \in D
            <3>1. t4[k].entries = (((trees[k].entries \ {o}) \union {n}) \ {n}) \union {o}
                BY ONLY <2>1, <2>2, <2>3, <2>4, <2>8, Zenon
            <3> QED BY ONLY <3>1, <2>4, <2>5, <2>8, PutBack, Zenon DEF f
        <2> QED BY <2>6, <2>7, <2>8, Zenon
    <1>12. t4 = trees
        BY <1>0, <1>10, <1>11, SameTrees, Zenon
    <1> QED BY <1>12, Zenon DEF t4, t3, t2, t1, hit, old

(* An update that succeeds moves the entry of the record in the affected    *)
(* indexes.                                                                 *)
LEMMA UpdateDone ==
    ASSUME HInv, NEW rid \in DOMAIN recs, NEW new \in Data, aborted' = aborted, pending' = pending,
           recs' = [recs EXCEPT ![rid] = new],
           LET hit == Affected(recs[rid], new)
           IN  trees' = With(Without(trees, hit, recs[rid], rid), hit, new, rid)
    PROVE  HInv'
    <1> DEFINE old == recs[rid]
               hit == Affected(old, new)
               ts  == Without(trees, hit, old, rid)
    <1>0. /\ rid \in Rids /\ trees \in Seq(Tree) /\ old \in Data /\ recs \in [DOMAIN recs -> Data]
          /\ DOMAIN recs \subseteq Rids /\ pending \subseteq DOMAIN recs
        BY Zenon DEF HInv, HShape
    <1>1. \A k \in DOMAIN trees : k \notin hit => old[trees[k].field] = new[trees[k].field]
        BY UpdateEntries, Zenon
    <1>2. trees' = With(ts, hit, new, rid)
        BY Zenon
    <1>3. /\ DOMAIN recs' = DOMAIN recs /\ recs' \in [DOMAIN recs -> Data] /\ recs'[rid] = new
          /\ \A r \in DOMAIN recs : r # rid => recs'[r] = recs[r]
        BY <1>0
    <1> HIDE DEF hit
    <1>4. Removed(ts, trees, hit, old, rid)
        BY <1>0, WithoutFacts, Zenon
    <1> HIDE DEF ts
    <1>5. ts \in Seq(Tree)
        BY <1>4, Zenon DEF Removed
    <1>6. Added(trees', ts, hit, new, rid)
        BY <1>0, <1>2, <1>5, WithFacts, Zenon
    <1>7. DOMAIN ts = DOMAIN trees /\ DOMAIN trees' = DOMAIN trees /\ trees' \in Seq(Tree)
        BY <1>4, <1>6, Zenon DEF Added, Removed
    <1>8. ASSUME NEW k \in DOMAIN trees'
          PROVE  trees'[k].entries = {<<recs'[r][trees'[k].field], r>> : r \in DOMAIN recs'}
        <2> DEFINE f == trees[k].field
                   o == <<old[f], rid>>
                   n == <<new[f], rid>>
        <2>1. trees[k].entries = {<<recs[r][f], r>> : r \in DOMAIN recs}
            BY <1>7, Zenon DEF HInv, IndexesFollowRecords, IndexesMatchRecords
        <2>2. /\ trees'[k].field = f
              /\ k \in hit => trees'[k].entries = (trees[k].entries \ {o}) \union {n}
              /\ k \notin hit => trees'[k].entries = trees[k].entries /\ old[f] = new[f]
            BY <1>1, <1>4, <1>6, <1>7, Zenon DEF Added, Removed
        <2> HIDE DEF f, hit
        <2>3. {<<recs'[r][f], r>> : r \in DOMAIN recs}
                = ({<<recs[r][f], r>> : r \in DOMAIN recs} \ {<<recs[rid][f], rid>>}) \union {<<new[f], rid>>}
            BY ONLY <1>3, rid \in DOMAIN recs
        <2>4. recs[rid][f] = new[f] =>
                {<<recs'[r][f], r>> : r \in DOMAIN recs} = {<<recs[r][f], r>> : r \in DOMAIN recs}
            BY ONLY <1>3, rid \in DOMAIN recs
        <2>5. {<<recs'[r][trees'[k].field], r>> : r \in DOMAIN recs'}
                = {<<recs'[r][f], r>> : r \in DOMAIN recs}
            BY ONLY <1>3, <2>2
        <2> QED BY <2>1, <2>2, <2>3, <2>4, <2>5, Zenon
    <1>9. HShape'
        BY <1>0, <1>3, <1>7, Zenon DEF HShape
    <1> QED BY <1>8, <1>9, Zenon DEF HInv, IndexesFollowRecords, IndexesMatchRecords, DeleteFindsItsEntries

LEMMA UpdateInv ==
    ASSUME HInv, NEW rid \in DOMAIN recs, NEW new \in Data, NEW step, NEW at, UpdateRecord(rid, new, step, at)
    PROVE  HInv'
    <1> DEFINE old  == recs[rid]
               hit  == Affected(old, new)
               done == {k \in hit : k < at}
    <1>1. hit \in SUBSET DOMAIN trees /\ done \in SUBSET hit /\ done \in SUBSET DOMAIN trees /\ hit \in SUBSET hit
        BY Zenon DEF Affected
    <1>2. pending' = pending /\ aborted' = aborted
        BY Zenon DEF UpdateRecord
    <1>3. CASE /\ trees' = With(Without(trees, hit, old, rid), hit, new, rid)
               /\ recs' = [recs EXCEPT ![rid] = new]
        BY <1>2, <1>3, UpdateDone, Zenon
    <1>4. CASE trees' = With(Without(trees, done, old, rid), done, old, rid) /\ recs' = recs
        <2>1. trees' = trees
            BY <1>1, <1>4, RemovalUndone, Zenon
        <2> QED BY <1>2, <1>4, <2>1, SameTable, Zenon
    <1>5. CASE /\ trees' = With(Without(With(Without(trees, hit, old, rid), done, new, rid), done, new, rid), hit, old, rid)
               /\ recs' = recs
        <2>1. trees' = trees
            BY <1>1, <1>5, InsertionUndone, Zenon
        <2> QED BY <1>2, <1>5, <2>1, SameTable, Zenon
    <1>6. CASE /\ trees' = With(Without(With(Without(trees, hit, old, rid), hit, new, rid), hit, new, rid), hit, old, rid)
               /\ recs' = recs
        <2>1. trees' = trees
            BY <1>1, <1>6, InsertionUndone, Zenon
        <2> QED BY <1>2, <1>6, <2>1, SameTable, Zenon
    <1> QED BY <1>3, <1>4, <1>5, <1>6, Zenon DEF UpdateRecord

LEMMA CreateInv ==
    ASSUME ~Beside, HInv, NEW f \in 1..Fields, CreateTree(f)
    PROVE  HInv'
    <1> DEFINE tree == [field |-> f, entries |-> {<<recs[r][f], r>> : r \in DOMAIN recs}]
    <1>0. /\ recs' = recs /\ pending' = pending /\ aborted' = aborted /\ pending = {}
          /\ trees \in Seq(Tree) /\ recs \in [DOMAIN recs -> Data] /\ DOMAIN recs \subseteq Rids
        BY Zenon DEF CreateTree, HInv, HShape
    <1>1. trees' = Append(trees, tree)
        <2>1. DOMAIN recs \ pending = DOMAIN recs
            BY <1>0
        <2> QED BY <2>1, Zenon DEF CreateTree
    <1>2. tree.field = f /\ tree.entries = {<<recs[r][f], r>> : r \in DOMAIN recs} /\ tree \in Tree
        <2>1. \A r \in DOMAIN recs : <<recs[r][f], r>> \in Vals \X Rids
            BY <1>0 DEF Data
        <2>2. {<<recs[r][f], r>> : r \in DOMAIN recs} \in SUBSET (Vals \X Rids)
            BY ONLY <2>1
        <2> QED BY <2>2, Zenon DEF Tree
    <1> HIDE DEF tree
    <1>3. /\ trees' \in Seq(Tree) /\ \A k \in DOMAIN trees' : trees'[k] = tree \/ (k \in DOMAIN trees /\ trees'[k] = trees[k])
        BY <1>0, <1>1, <1>2
    <1>4. ASSUME NEW k \in DOMAIN trees'
          PROVE  trees'[k].entries = {<<recs'[r][trees'[k].field], r>> : r \in DOMAIN recs'}
        <2>1. CASE trees'[k] = tree
            BY ONLY <1>0, <1>2, <2>1
        <2>2. CASE k \in DOMAIN trees /\ trees'[k] = trees[k]
            <3>1. trees[k].entries = {<<recs[r][trees[k].field], r>> : r \in DOMAIN recs}
                BY <2>2, Zenon DEF HInv, IndexesFollowRecords, IndexesMatchRecords
            <3> QED BY ONLY <1>0, <2>2, <3>1
        <2> QED BY <1>3, <2>1, <2>2, Zenon
    <1> QED BY <1>0, <1>3, <1>4, Zenon DEF HInv, HShape, IndexesFollowRecords, IndexesMatchRecords,
                                           DeleteFindsItsEntries

(* The indexes of a table hold one entry for each of its records, under the *)
(* record's value, whichever index refuses and whatever operations follow:  *)
(* what insert_record, update_record_with_trx and delete_record of          *)
(* HeapTableEngine undo is all they did.  CREATE INDEX does not run beside  *)
(* a transaction with an unfinished insert.                                 *)
THEOREM IndexesFollow ==
    ASSUME ~Beside
    PROVE  HSpec => []IndexesFollowRecords
    <1>1. HInit => HInv
        <2> SUFFICES ASSUME HInit PROVE HInv
            OBVIOUS
        <2>1. DOMAIN recs = {} /\ DOMAIN trees = {} /\ trees \in Seq(Tree) /\ recs \in [{} -> Data]
            BY DEF HInit
        <2> QED BY <2>1, Zenon DEF HInit, HInv, HShape, IndexesFollowRecords, IndexesMatchRecords,
                                   DeleteFindsItsEntries
    <1>2. HInv /\ [HNext]_hvars => HInv'
        <2> SUFFICES ASSUME HInv, [HNext]_hvars PROVE HInv'
            OBVIOUS
        <2>1. CASE UNCHANGED hvars
            <3>1. trees' = trees /\ recs' = recs /\ pending' = pending /\ aborted' = aborted
                BY <2>1, Zenon DEF hvars
            <3> QED BY <3>1, SameTable, Zenon
        <2>2. CASE HNext
            BY <2>2, InsertInv, CommitInv, DeleteInv, UpdateInv, CreateInv, Zenon DEF HNext
        <2> QED BY <2>1, <2>2, Zenon
    <1> QED BY <1>1, <1>2, PTL DEF HSpec, HInv
=============================================================================
