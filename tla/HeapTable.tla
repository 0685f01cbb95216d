----------------------------- MODULE HeapTable -----------------------------
(* HeapTableEngine: the records of one table and the indexes on them.       *)
(*                                                                          *)
(* Every operation changes the record and each index in turn; an index may  *)
(* refuse (no frame for a new page), and the engine then takes back what it *)
(* did.  Operations on different records do not meet, so each one is a      *)
(* single action with the place where it fails as a parameter.              *)
EXTENDS Integers, FiniteSets, Sequences, Functions

CONSTANTS Rids,       \* record ids
          Fields,     \* fields 1..Fields; field k may have an index
          Vals,       \* values of a field
          Beside,     \* may CREATE INDEX run beside another transaction?
          MaxOps      \* bound on operations

VARIABLES recs,       \* records by id
          trees,      \* indexes_ in order: [field, entries]
          pending,    \* records inserted by a transaction that is not finished
          aborted,    \* delete_record's ASSERT failed
          ops

hvars == <<recs, trees, pending, aborted, ops>>

Data == [1..Fields -> Vals]
Entry(tree, data, rid) == <<data[tree.field], rid>>

HInit == recs = <<>> /\ trees = <<>> /\ pending = {} /\ aborted = FALSE /\ ops = 0

Operation == ops < MaxOps /\ ~aborted /\ ops' = ops + 1

(* The records f with data at rid: RecordFileHandler::insert_record.         *)
AddRecord(f, rid, data) == [r \in DOMAIN f \union {rid} |-> IF r = rid THEN data ELSE f[r]]

(* The indexes at the places in K gain, or lose, the entry of a record.     *)
With(ts, K, data, rid) ==
    [k \in DOMAIN ts |->
       IF k \in K THEN [ts[k] EXCEPT !.entries = @ \union {Entry(ts[k], data, rid)}] ELSE ts[k]]
Without(ts, K, data, rid) ==
    [k \in DOMAIN ts |->
       IF k \in K THEN [ts[k] EXCEPT !.entries = @ \ {Entry(ts[k], data, rid)}] ELSE ts[k]]

(* insert_entry_of_indexes: the index at place `fail` refuses, 0 for none.  *)
InsertEntries(ts, data, rid, fail) ==
    With(ts, {k \in DOMAIN ts : fail = 0 \/ k < fail}, data, rid)

(* delete_entry_of_indexes with error_on_not_exists = false: it stops at    *)
(* the first index that does not have the entry.                            *)
DeleteEntries(ts, data, rid) ==
    LET lacks == {k \in DOMAIN ts : Entry(ts[k], data, rid) \notin ts[k].entries}
    IN  Without(ts, {k \in DOMAIN ts : \A l \in lacks : k < l}, data, rid)

InsertRecordMut(rid, data, fail) ==
    /\ Operation /\ rid \notin DOMAIN recs /\ fail \in 0..Len(trees)
    /\ trees' = InsertEntries(trees, data, rid, fail)
    /\ IF fail = 0
       THEN recs' = AddRecord(recs, rid, data) /\ pending' = pending \union {rid}
       ELSE UNCHANGED <<recs, pending>>
    /\ UNCHANGED aborted
(* insert_record, by a transaction that goes on.                            *)
InsertRecord(rid, data, fail) ==
    /\ Operation /\ rid \notin DOMAIN recs /\ fail \in 0..Len(trees)
    /\ LET ts == InsertEntries(trees, data, rid, fail)
       IN  trees' = IF fail = 0 THEN ts ELSE DeleteEntries(ts, data, rid)
    /\ IF fail = 0
       THEN recs' = AddRecord(recs, rid, data) /\ pending' = pending \union {rid}
       ELSE UNCHANGED <<recs, pending>>
    /\ UNCHANGED aborted

(* The transaction that inserted the record commits.                        *)
Commit(rid) ==
    /\ Operation /\ rid \in pending
    /\ pending' = pending \ {rid}
    /\ UNCHANGED <<recs, trees, aborted>>

(* delete_record, called when an insert is rolled back: each index must     *)
(* have the entry.                                                          *)
DeleteRecord(rid) ==
    /\ Operation /\ rid \in pending
    /\ IF \A k \in DOMAIN trees : Entry(trees[k], recs[rid], rid) \in trees[k].entries
       THEN /\ trees' = DeleteEntries(trees, recs[rid], rid)
            /\ recs' = Restrict(recs, DOMAIN recs \ {rid})
            /\ pending' = pending \ {rid}
            /\ UNCHANGED aborted
       ELSE aborted' = TRUE /\ UNCHANGED <<recs, trees, pending>>

AffectedMut(old, new) == {}
(* The indexes whose field the update changes.                              *)
Affected(old, new) == {k \in DOMAIN trees : old[trees[k].field] # new[trees[k].field]}

(* update_record_with_trx: the old entries of the affected indexes go, the  *)
(* new ones come, then the record is written.  The step that fails, if any, *)
(* undoes what went before: a removal, an insertion or the visit of the     *)
(* record.                                                                  *)
UpdateRecord(rid, new, step, at) ==
    LET old     == recs[rid]
        hit     == Affected(old, new)
        done    == {k \in hit : k < at}
        gone(K) == Without(trees, K, old, rid)
        undone(ts, K, L) == With(Without(ts, K, new, rid), L, old, rid)
    IN  /\ Operation
        /\ \/ /\ step = "done" /\ at = 1
              /\ trees' = With(gone(hit), hit, new, rid)
              /\ recs' = [recs EXCEPT ![rid] = new]
           \/ /\ step = "remove" /\ at \in hit
              /\ trees' = With(gone(done), done, old, rid)
              /\ UNCHANGED recs
           \/ /\ step = "insert" /\ at \in hit
              /\ trees' = undone(With(gone(hit), done, new, rid), done, hit)
              /\ UNCHANGED recs
           \/ /\ step = "visit" /\ at = 1
              /\ trees' = undone(With(gone(hit), hit, new, rid), hit, hit)
              /\ UNCHANGED recs
        /\ UNCHANGED <<pending, aborted>>

(* create_index: an entry for every record the statement's transaction can  *)
(* see; the records of another transaction that is not finished are not     *)
(* among them.                                                              *)
CreateTree(f) ==
    /\ Operation /\ \A k \in DOMAIN trees : trees[k].field # f
    /\ Beside \/ pending = {}
    /\ trees' = Append(trees, [field |-> f,
                  entries |-> {<<recs[r][f], r>> : r \in DOMAIN recs \ pending}])
    /\ UNCHANGED <<recs, pending, aborted>>

HNext ==
    \/ \E r \in Rids :
          \/ \E d \in Data, k \in 0..Fields : InsertRecord(r, d, k)
          \/ Commit(r) \/ DeleteRecord(r)
          \/ /\ r \in DOMAIN recs
             /\ \E d \in Data, s \in {"done", "remove", "insert", "visit"}, k \in 1..Fields :
                   UpdateRecord(r, d, s, k)
    \/ \E f \in 1..Fields : CreateTree(f)

HSpec == HInit /\ [][HNext]_hvars

(* Whatever step of an insert, an update or a delete fails, every index     *)
(* holds exactly one entry for each record, under the record's value.       *)
IndexesMatchRecords ==
    \A k \in DOMAIN trees :
       trees[k].entries = {<<recs[r][trees[k].field], r>> : r \in DOMAIN recs}

(* Rolling back an insert finds the entry of the record in every index: the *)
(* ASSERT of delete_record holds.                                           *)
DeleteFindsItsEntries == ~aborted

(* The indexes of a table and its records stay together, and nothing that   *)
(* HeapTableEngine takes for granted about them is ever untrue.             *)
IndexesFollowRecords == IndexesMatchRecords /\ DeleteFindsItsEntries
=============================================================================
