-------------------------- MODULE IndicatorManager --------------------------
(***************************************************************************)
(* Writing indicators to SQLite (store/sqlite/indicator.py): upsert takes  *)
(* a batch through one transaction and, if anything fails, rolls back and  *)
(* takes the records one by one, each with a commit of its own; delete     *)
(* removes by id or by search.                                             *)
(*                                                                         *)
(* All of it, and the token table, share one session: db is what is        *)
(* committed, view what the session sees. Whatever writes to the file may  *)
(* fail, because the command line may hold its lock.                       *)
(*                                                                         *)
(* Of a record the model keeps what decides its fate: the columns upsert   *)
(* looks it up by, its first tag, its last_at and the count. A fault makes *)
(* the record unusable: "raise" when its values are looked at, "flush"     *)
(* when a new row for it is written out. The count is whatever the sender  *)
(* of the record says; 0 stands for none at all too, since the code takes  *)
(* both for 1.                                                             *)
(***************************************************************************)
EXTENDS Integers, Sequences, FiniteSets

CONSTANTS Batches,     \* the batches upsert is called with
          MaxUpserts,  \* bound on the number of calls
          NoTag        \* a row or record without tags

\* "typed" stands for ipv4, ipv6, fqdn and url, which get a row in a table of
\* their own, "hash" for md5, sha1, sha256 and sha512, which are looked for in
\* one but never get it, and "plain" for the types without one.
Itypes == {"typed", "hash", "plain"}
Faults == {"none", "raise", "flush"}

VARIABLES AUTOFLUSH, \* whether a query writes out what is pending: set once
          db,       \* the committed rows, in the order of their ids
          view,     \* the rows as the session sees them
          data,     \* the batch in hand
          idx,      \* the record in hand
          mode,     \* "idle", "batch" or "alone"
          cached,   \* cached_added: the (indicator, last_at) pairs added
          tagless,  \* the records that _normalize_tags has stripped
          poisoned, \* a "flush" fault waits in the session
          failed,   \* history: the records of the batch that failed alone
          received, \* history: how many sightings of each key were received
          upserts   \* the number of upserts begun

batchVars == <<data, tagless, received, upserts>>
vars == <<AUTOFLUSH, db, view, idx, mode, cached, poisoned, failed, batchVars>>

Records == UNION {{b[j] : j \in DOMAIN b} : b \in Batches}
Key(x) == [indicator |-> x.indicator, itype |-> x.itype, provider |-> x.provider]
Keys == {Key(d) : d \in Records}

ASSUME BatchesAssumption ==
    /\ MaxUpserts \in Nat
    /\ Batches \subseteq Seq(Records)
    /\ \A b \in Batches : \A j \in DOMAIN b :
          /\ b[j].itype \in Itypes /\ b[j].fault \in Faults
          /\ b[j].last_at \in Nat /\ b[j].tag # NoTag /\ b[j].count \in Int

\* The sightings a record or a row stands for: at least one.
Weight(x) == IF x.count > 1 THEN x.count ELSE 1

RowsOf(rows, k) == {j \in DOMAIN rows : Key(rows[j]) = k}

\* The sightings that the rows or records of k stand for together.
Count(rows, k) ==
    LET upto[n \in 0..Len(rows)] ==
            IF n = 0 THEN 0
            ELSE upto[n - 1] + (IF n \in RowsOf(rows, k) THEN Weight(rows[n]) ELSE 0)
    IN  upto[Len(rows)]

-----------------------------------------------------------------------------
(* One record. *)

Current == data[idx]

\* The record was added by this upsert, going by indicator and last_at alone.
AlreadyAdded(d) == <<d.indicator, d.last_at>> \in cached

\* A new row makes cached_added forget what else it knew of the indicator.
Forgotten(d) == {p \in cached : p[1] # d.indicator}
Remembered(d) == Forgotten(d) \cup {<<d.indicator, d.last_at>>}

\* The record's first tag, or none once the tags have been stripped.
TagOf(d) == IF idx \in tagless THEN NoTag ELSE d.tag

\* Mutant: a query never writes out what is pending.
SeenCommitted == db

\* What a query finds in the tables: with AUTOFLUSH also what is pending.
Seen == IF AUTOFLUSH THEN view ELSE db

\* _upsert_filter: rows of the same key and, if the record has tags, the same
\* first tag. No hash ever gets the row in its own table that the query joins.
Matches(d) == {j \in DOMAIN Seen : /\ Key(Seen[j]) = Key(d)
                                   /\ d.itype # "hash"
                                   /\ TagOf(d) # NoTag => Seen[j].tag = TagOf(d)}

\* order_by(last_at.desc()).first()
First(d) == {j \in Matches(d) : \A k \in Matches(d) : Seen[k].last_at <= Seen[j].last_at}

\* The query may fail: it writes what is pending to a file that may be locked,
\* and cannot write a poisoned row.
QueryMayFail == AUTOFLUSH /\ view # db
QueryFails == AUTOFLUSH /\ poisoned

NewRow(d) == [indicator |-> d.indicator, itype |-> d.itype, provider |-> d.provider,
              tag |-> TagOf(d), last_at |-> d.last_at, count |-> d.count]

\* One more; a row that has no count has seen one.
Counted(row) == IF row.count = 0 THEN 2 ELSE row.count + 1

\* Mutant: the row takes whatever comes last.
UpdatedAlways(row, d) == [row EXCEPT !.last_at = d.last_at, !.count = Counted(row)]

\* A newer sighting moves last_at on and is counted, as one whatever the record
\* says; an older one is skipped.
Updated(row, d) == IF d.last_at <= row.last_at THEN row
                   ELSE [row EXCEPT !.last_at = d.last_at, !.count = Counted(row)]

-----------------------------------------------------------------------------
(* upsert, first in one transaction ... *)

Begin(b) == /\ mode = "idle" /\ upserts < MaxUpserts
            /\ data' = b
            /\ idx' = 1
            /\ mode' = "batch"
            /\ cached' = {} /\ tagless' = {} /\ poisoned' = FALSE /\ failed' = {}
            /\ upserts' = upserts + 1
            /\ received' = [k \in Keys |-> received[k] + Count(b, k)]
            /\ UNCHANGED <<db, view>>

\* Mutant: the batch is taken again from before its first record.
StartOverAtZero == /\ view' = db
                   /\ cached' = {}
                   /\ idx' = 0
                   /\ mode' = "alone"
                   /\ poisoned' = FALSE
                   /\ UNCHANGED <<db, failed>>

\* Mutant: the batch is taken again on top of what it has left.
StartOverNoRollback == /\ cached' = {}
                       /\ idx' = 1
                       /\ mode' = "alone"
                       /\ poisoned' = FALSE
                       /\ UNCHANGED <<db, view, failed>>

\* Mutant: cached_added outlives the rollback.
StartOverKeepsCache == /\ view' = db
                       /\ idx' = 1
                       /\ mode' = "alone"
                       /\ poisoned' = FALSE
                       /\ UNCHANGED <<db, cached, failed>>

\* Everything is rolled back and the batch taken again from its first record.
\* The records keep what the first pass has done to them.
StartOver == /\ view' = db
             /\ cached' = {}
             /\ idx' = 1
             /\ mode' = "alone"
             /\ poisoned' = FALSE
             /\ UNCHANGED <<db, failed>>

Advance == idx' = idx + 1 /\ UNCHANGED mode

Skip == /\ AlreadyAdded(Current)
        /\ Advance
        /\ UNCHANGED <<db, view, cached, poisoned, failed, batchVars>>

\* A record the session can take: an update or a new row.
Take(d) ==
    \/ \E j \in First(d) : /\ view' = [view EXCEPT ![j] = Updated(@, d)]
                           /\ UNCHANGED <<cached, poisoned>>
    \/ /\ Matches(d) = {}
       /\ view' = Append(view, NewRow(d))
       /\ cached' = Remembered(d)
       /\ poisoned' = (poisoned \/ d.fault = "flush")

Strip == /\ tagless' = tagless \cup {idx}
         /\ UNCHANGED <<data, received, upserts>>

BatchRecord ==
    /\ mode = "batch" /\ idx <= Len(data)
    /\ \/ Skip
       \/ /\ ~AlreadyAdded(Current)
          /\ Strip
          /\ \/ /\ Current.fault # "raise" /\ ~QueryFails
                /\ Take(Current) /\ Advance
                /\ UNCHANGED <<db, failed>>
             \/ /\ Current.fault = "raise" \/ QueryMayFail
                /\ StartOver

BatchCommit ==
    /\ mode = "batch" /\ idx > Len(data)
    /\ \/ /\ ~poisoned
          /\ db' = view
          /\ mode' = "idle"
          /\ UNCHANGED <<view, idx, cached, poisoned, failed>>
       \/ StartOver
    /\ UNCHANGED batchVars

(* ... then, if that failed, one by one. *)

\* The record fails: everything uncommitted goes, cached_added stays.
Fail == /\ view' = db
        /\ failed' = failed \cup {idx}
        /\ UNCHANGED db

\* A known record returns before the commit below it.
AloneKnown == \E j \in First(Current) :
                 /\ view' = [view EXCEPT ![j] = Updated(@, Current)]
                 /\ UNCHANGED <<db, cached, failed>>

AloneNew == /\ Matches(Current) = {}
            /\ cached' = Remembered(Current)
            /\ \/ /\ Current.fault = "none"
                  /\ view' = Append(view, NewRow(Current))
                  /\ db' = view'
                  /\ UNCHANGED failed
               \/ Fail

\* The query fails, or what follows it does, for a new record after
\* cached_added has forgotten the indicator.
AloneBroken == \/ QueryMayFail /\ Fail /\ UNCHANGED cached
               \/ /\ Current.fault = "raise" /\ Fail
                  /\ cached' = IF Matches(Current) = {} THEN Forgotten(Current) ELSE cached

AloneRecord ==
    /\ mode = "alone" /\ idx <= Len(data)
    /\ \/ Skip
       \/ /\ ~AlreadyAdded(Current)
          /\ Strip
          /\ \/ Current.fault # "raise" /\ (AloneKnown \/ AloneNew)
             \/ AloneBroken
          /\ Advance
          /\ UNCHANGED poisoned

AloneDone == /\ mode = "alone" /\ idx > Len(data)
             /\ mode' = "idle"
             /\ UNCHANGED <<db, view, idx, cached, poisoned, failed, batchVars>>

-----------------------------------------------------------------------------
(* delete. *)

Without(rows, gone) ==
    LET left == {j \in DOMAIN rows : j \notin gone}
        Nth(n) == CHOOSE j \in left : Cardinality({k \in left : k <= j}) = n
    IN  [n \in 1..Cardinality(left) |-> rows[Nth(n)]]

DeleteRows(gone) == /\ mode = "idle"
                    /\ view' = Without(view, gone)
                    /\ db' = view'
                    /\ UNCHANGED <<idx, mode, cached, poisoned, failed, batchVars>>

DeleteById(j) == j \in DOMAIN view /\ DeleteRows({j})

\* The rows a search for an indicator finds: it joins the table of its type.
Searched(i) == {j \in DOMAIN Seen : Seen[j].indicator = i /\ Seen[j].itype = "typed"}

\* Nothing found leaves the DELETE without a condition.
DeleteBySearch(i) ==
    DeleteRows(IF Searched(i) = {} THEN DOMAIN view ELSE Searched(i))

-----------------------------------------------------------------------------
(* Around upsert. *)

\* The session is shared: an operation on tokens commits what upsert left.
TokenCommit == /\ mode = "idle"
               /\ db' = view
               /\ UNCHANGED <<view, idx, mode, cached, poisoned, failed, batchVars>>

\* The process ends and is started again: the transaction is gone.
Restart == /\ view' = db
           /\ data' = <<>>
           /\ idx' = 1 /\ mode' = "idle"
           /\ cached' = {} /\ tagless' = {} /\ poisoned' = FALSE /\ failed' = {}
           /\ UNCHANGED <<db, received, upserts>>

Init == /\ AUTOFLUSH \in BOOLEAN
        /\ db = <<>> /\ view = <<>>
        /\ data = <<>> /\ idx = 1 /\ mode = "idle"
        /\ cached = {} /\ tagless = {} /\ poisoned = FALSE /\ failed = {}
        /\ received = [k \in Keys |-> 0]
        /\ upserts = 0

Upsert == \/ \E b \in Batches : Begin(b)
          \/ BatchRecord \/ BatchCommit \/ AloneRecord \/ AloneDone

Delete == \/ \E j \in DOMAIN view : DeleteById(j)
          \/ \E d \in Records : DeleteBySearch(d.indicator)

Next == (Upsert \/ Delete \/ TokenCommit \/ Restart) /\ UNCHANGED AUTOFLUSH

Spec == Init /\ [][Next]_vars

-----------------------------------------------------------------------------
(* Properties. *)

Row == [indicator : {d.indicator : d \in Records}, itype : Itypes,
        provider : {d.provider : d \in Records},
        tag : {d.tag : d \in Records} \cup {NoTag},
        last_at : Nat, count : Int]

\* Every variable stays in its range.
TypeOK ==
    /\ AUTOFLUSH \in BOOLEAN
    /\ {db, view} \subseteq Seq(Row)
    /\ data \in Batches \cup {<<>>}
    /\ idx \in 1..Len(data) + 1
    /\ mode \in {"idle", "batch", "alone"}
    /\ cached \in SUBSET {<<d.indicator, d.last_at>> : d \in Records}
    /\ tagless \subseteq DOMAIN data /\ failed \subseteq DOMAIN data
    /\ poisoned \in BOOLEAN
    /\ received \in [Keys -> Nat]
    /\ upserts \in 0..MaxUpserts

\* With AUTOFLUSH no two rows agree on key and first tag, hashes apart. The
\* schema does not say so: only the query before each insert does, however
\* batches fail and are taken again (sqlite/indicator.py:587-645).
KeyUnique ==
    \A j, k \in DOMAIN view :
        /\ AUTOFLUSH
        /\ Key(view[j]) = Key(view[k]) /\ view[j].tag = view[k].tag
        /\ view[j].itype # "hash"
        => j = k

\* A batch taken twice counts once: the rows of a key never count more
\* sightings than were received, each record standing for as many as it says
\* and at least one (sqlite/indicator.py:118, 649-661, 725-756).
CountOnce == \A k \in Keys : Count(view, k) <= received[k]

\* Unless rows are deleted, no committed row changes place, goes back in time
\* or loses counts, whatever order sightings arrive in and whatever is rolled
\* back (sqlite/indicator.py:649-671, 691-704).
NoRegress == [][
    Len(db') >= Len(db) =>
        \A j \in DOMAIN db :
            /\ Key(db'[j]) = Key(db[j]) /\ db'[j].tag = db[j].tag
            /\ db'[j].last_at >= db[j].last_at /\ db'[j].count >= db[j].count ]_vars

\* No two records of the batch that cached_added confuses: those that share
\* indicator and last_at are the same.
Distinct(b) == \A j, k \in DOMAIN b :
    b[j].indicator = b[k].indicator /\ b[j].last_at = b[k].last_at => b[j] = b[k]

\* The records that did not fail by themselves, nor are the same as one that did.
Sound == {j \in DOMAIN data : \A k \in failed : data[k] # data[j]}

\* A step that ends an upsert, other than by a restart.
UpsertEnds == mode # "idle" /\ mode' = "idle" /\ idx > Len(data) /\ data' = data

\* When an upsert of distinct records ends after one transaction, every record
\* is in the committed rows, tag, last_at and all; when it ends after the
\* retry, every record that did not fail by itself has a committed row of its
\* key: one bad record does not cost the others their place
\* (sqlite/indicator.py:744-756).
Salvaged == [][
    UpsertEnds /\ Distinct(data) =>
        \A j \in Sound : \E r \in RowsOf(db', Key(data[j])) :
            mode = "batch" =>
                db'[r].tag = data[j].tag /\ db'[r].last_at >= data[j].last_at ]_vars

\* A record that did not fail by itself is committed when the retry has ended:
\* the code commits each individual indicator (sqlite/indicator.py:706-707).
EachCommitted == [][
    UpsertEnds /\ mode = "alone" /\ Distinct(data) =>
        \A j \in Sound : \E r \in RowsOf(db', Key(data[j])) : db'[r].last_at >= data[j].last_at ]_vars

\* No row is without tags: they are required of every indicator
\* (store/constants.py:27, store/helpers.py:8-29).
TagsKept == \A j \in DOMAIN db : db[j].tag # NoTag

\* A delete leaves the rows of other indicators alone: one that selects nothing
\* deletes nothing (sqlite/indicator.py:519-520).
DeletesSelected == [][
    Len(db') < Len(db) =>
        Cardinality({db[j].indicator : j \in DOMAIN db}
                    \ {db'[j].indicator : j \in DOMAIN db'}) <= 1 ]_vars
=============================================================================
