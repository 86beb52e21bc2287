------------------------------ MODULE TupleFlobs ------------------------------
(***************************************************************************)
(* Large objects of stored tuples.  A relation keeps its tuples in one     *)
(* record file and the Flobs of their attributes, if they are not small,   *)
(* in another (Algebras/Relation-C++/RelationPersistent.cpp); the FlobManager *)
(* of each server process reads them through its PersistentFlobCache        *)
(* (Tools/Flob), which lives longer than a command or a transaction.        *)
(*                                                                         *)
(* External: a record file numbers its records upwards; a deleted record   *)
(* keeps its number, but the numbers of records that are rolled back or     *)
(* truncated are given again (DB_RECNO).  Locks keep other processes from   *)
(* a relation that a transaction has changed until that transaction ends.   *)
(***************************************************************************)
EXTENDS Naturals, Sequences, FiniteSets

CONSTANTS
  Processes,    \* server processes
  Databases,    \* each holds one relation; their files have the same ids
  NrAttributes, \* attributes of a tuple that hold a large Flob
  FlobValues,       \* contents of a Flob
  CacheLimit,    \* bound: Flobs in a cache
  MaxRecords,   \* bound: records of the Flob file
  NoDatabase, NoTuple, NoFlob,
  Irregular     \* situations, among those below, that the instance includes

Situations ==
  {"clear cached",   \* a relation is cleared while Flobs of it are cached
   "abort cached",   \* a rollback of Flobs that were read meanwhile
   "close uncleared",\* restore closes the database after an error
   "partial update"} \* an update that keeps some of the large attributes

ASSUME TupleFlobsAssumption ==
  /\ NrAttributes \in Nat \ {0}
  /\ CacheLimit \in Nat
  /\ MaxRecords \in Nat
  /\ NoDatabase \notin Databases
  /\ NoFlob \notin FlobValues
  /\ NoTuple \notin [1 .. NrAttributes -> Nat]
  /\ Irregular \subseteq Situations

Attributes == 1 .. NrAttributes
Relations == [tuples : Seq([Attributes -> Nat] \cup {NoTuple}),
              flobs : Seq(FlobValues \cup {NoFlob})]
EmptyRelation == [tuples |-> <<>>, flobs |-> <<>>]

VARIABLES
  relation,   \* tupleFile and the file of its Flobs, with pending changes
  committed,  \* the same as of the last commit
  writer,     \* processes whose transaction has changed the relation
  database,   \* the database that a process has open
  cache       \* persistentFlobCache of a process: record number -> content

tupleFlobVars == <<relation, committed, writer, database, cache>>

CacheType == UNION {[S -> FlobValues] : S \in SUBSET (1 .. MaxRecords)}

TupleFlobsTypeOK ==
  /\ relation \in [Databases -> Relations]
  /\ committed \in [Databases -> Relations]
  /\ writer \in [Databases -> SUBSET Processes]
  /\ database \in [Processes -> Databases \cup {NoDatabase}]
  /\ cache \in [Processes -> CacheType]
  /\ \A p \in Processes : Cardinality(DOMAIN cache[p]) <= CacheLimit

TupleFlobsInit ==
  /\ relation = [d \in Databases |-> EmptyRelation]
  /\ committed = relation
  /\ writer = [d \in Databases |-> {}]
  /\ database = [p \in Processes |-> NoDatabase]
  /\ cache = [p \in Processes |-> <<>>]

-----------------------------------------------------------------------------
TupleIds(r) == {t \in 1 .. Len(r.tuples) : r.tuples[t] # NoTuple}
FlobsOf(r, ids) == {r.tuples[t][a] : t \in ids, a \in Attributes}

\* p may read the relation of d, or change it.
MayAccess(p, d) == database[p] = d /\ writer[d] \subseteq {p}

RelationChanged(p, d, r) ==
  /\ relation' = [relation EXCEPT ![d] = r]
  /\ writer' = [writer EXCEPT ![d] = {p}]
  /\ UNCHANGED <<committed, database>>

\* What the cache c holds of r is, or was when it was deleted, content of r.
IsCurrent(c, r) ==
  \A rec \in DOMAIN c : rec \in DOMAIN r.flobs /\ r.flobs[rec] \in {NoFlob, c[rec]}

\* PersistentFlobCache::getData: what is cached is not read again.
GetData(p, d, rec) ==
  IF rec \in DOMAIN cache[p] THEN cache[p][rec] ELSE relation[d].flobs[rec]

\* The caches that p may have after getData of recs: reduce has evicted what
\* is too much.  Which entries stay is a matter of their order, which is left
\* open here.
LoadedCaches(p, d, recs) ==
  LET all == DOMAIN cache[p] \cup recs
  IN {[rec \in kept |-> GetData(p, d, rec)] :
        kept \in {K \in SUBSET all : Cardinality(K) <= CacheLimit}}

Delete(flobs, recs) ==
  [rec \in DOMAIN flobs |-> IF rec \in recs THEN NoFlob ELSE flobs[rec]]

\* saveTo: each large Flob of a tuple gets a new record.
NewFlobs(r) == [a \in Attributes |-> Len(r.flobs) + a]

\* Tuple::Save
Appended(r, values) ==
  [tuples |-> Append(r.tuples, NewFlobs(r)), flobs |-> r.flobs \o values]

\* Tuple::UpdateAttributes: the Flobs of changed attributes are destroyed, and
\* then the Flobs of all attributes are saved.
Updated(r, t, changed, saved) ==
  [tuples |-> [r.tuples EXCEPT ![t] = NewFlobs(r)],
   flobs |-> Delete(r.flobs, {r.tuples[t][a] : a \in changed}) \o saved]

\* Mutant: the record of the tuple stays.
WithoutFlobs(r, t) == [r EXCEPT !.flobs = Delete(@, FlobsOf(r, {t}))]

\* Mutant: the Flobs of the tuple stay.
WithoutRecord(r, t) == [r EXCEPT !.tuples[t] = NoTuple]

\* The record of the tuple goes, then those of its Flobs.
WithoutTuple(r, t) ==
  [tuples |-> [r.tuples EXCEPT ![t] = NoTuple],
   flobs |-> Delete(r.flobs, FlobsOf(r, {t}))]

-----------------------------------------------------------------------------
OpenDatabase(p, d) ==
  /\ database[p] = NoDatabase
  /\ database' = [database EXCEPT ![p] = d]
  /\ UNCHANGED <<relation, committed, writer, cache>>

\* Mutant: the caches stay.
CloseDatabaseKeepsCache(p) ==
  /\ database[p] # NoDatabase
  /\ \A d \in Databases : p \notin writer[d]
  /\ database' = [database EXCEPT ![p] = NoDatabase]
  /\ UNCHANGED <<relation, committed, writer, cache>>

\* close database: no transaction is left, and the caches are cleared.
CloseDatabase(p) ==
  /\ database[p] # NoDatabase
  /\ \A d \in Databases : p \notin writer[d]
  /\ database' = [database EXCEPT ![p] = NoDatabase]
  /\ cache' = [cache EXCEPT ![p] = <<>>]
  /\ UNCHANGED <<relation, committed, writer>>

\* restore database, in the case of an error: Flob::clearCaches is missing.
CloseUncleared(p) ==
  /\ "close uncleared" \in Irregular \/ DOMAIN cache[p] = {}
  /\ database[p] # NoDatabase
  /\ \A d \in Databases : p \notin writer[d]
  /\ database' = [database EXCEPT ![p] = NoDatabase]
  /\ UNCHANGED <<relation, committed, writer, cache>>

\* Relation::AppendTuple
AppendTuple(p, d) ==
  /\ MayAccess(p, d)
  /\ Len(relation[d].flobs) + NrAttributes <= MaxRecords
  /\ \E values \in [Attributes -> FlobValues] :
       RelationChanged(p, d, Appended(relation[d], values))
  /\ UNCHANGED cache

\* Relation::UpdateTuple.  The Flobs of attributes that have not changed are
\* read to be saved again.  The tuple is the stored one: the one in memory was
\* read from it, and the writer keeps the others out.
UpdateTuple(p, d) ==
  /\ MayAccess(p, d)
  /\ Len(relation[d].flobs) + NrAttributes <= MaxRecords
  /\ \E t \in TupleIds(relation[d]), changed \in SUBSET Attributes \ {{}},
        values \in [Attributes -> FlobValues] :
       LET flob == relation[d].tuples[t]
           kept == Attributes \ changed
           saved == [a \in Attributes |->
                       IF a \in changed THEN values[a] ELSE GetData(p, d, flob[a])]
       IN /\ kept # {} => "partial update" \in Irregular
          /\ RelationChanged(p, d, Updated(relation[d], t, changed, saved))
          /\ \E c \in LoadedCaches(p, d, {flob[a] : a \in kept}) :
               cache' = [cache EXCEPT ![p] = c]

\* Relation::DeleteTuple: nothing is removed from the cache.
DeleteTuple(p, d) ==
  /\ MayAccess(p, d)
  /\ \E t \in TupleIds(relation[d]) : RelationChanged(p, d, WithoutTuple(relation[d], t))
  /\ UNCHANGED cache

\* Mutant: only the file of the Flobs is truncated.
ClearFlobsOnly(p, d) ==
  /\ MayAccess(p, d)
  /\ \A q \in Processes : database[q] = d => DOMAIN cache[q] = {}
  /\ RelationChanged(p, d, [relation[d] EXCEPT !.flobs = <<>>])
  /\ UNCHANGED cache

\* Relation::Clear: both files are truncated.
Clear(p, d) ==
  /\ MayAccess(p, d)
  /\ \/ "clear cached" \in Irregular
     \/ \A q \in Processes : database[q] = d => DOMAIN cache[q] = {}
  /\ RelationChanged(p, d, EmptyRelation)
  /\ UNCHANGED cache

\* A query reads an attribute of a tuple.
ReadTupleFlob(p, d) ==
  /\ MayAccess(p, d)
  /\ \E rec \in FlobsOf(relation[d], TupleIds(relation[d])) :
       \E c \in LoadedCaches(p, d, {rec}) : cache' = [cache EXCEPT ![p] = c]
  /\ UNCHANGED <<relation, committed, writer, database>>

Commit(p, d) ==
  /\ p \in writer[d]
  /\ committed' = [committed EXCEPT ![d] = relation[d]]
  /\ writer' = [writer EXCEPT ![d] = {}]
  /\ UNCHANGED <<relation, database, cache>>

RollBack(d) ==
  /\ relation' = [relation EXCEPT ![d] = committed[d]]
  /\ writer' = [writer EXCEPT ![d] = {}]
  /\ UNCHANGED committed

\* SecondoSystem::AbortTransaction leaves the Flob caches alone.
Abort(p, d) ==
  /\ p \in writer[d]
  /\ "abort cached" \in Irregular \/ IsCurrent(cache[p], committed[d])
  /\ RollBack(d)
  /\ UNCHANGED <<database, cache>>

\* The process ends; recovery rolls its transaction back.
Crash(p) ==
  /\ database' = [database EXCEPT ![p] = NoDatabase]
  /\ cache' = [cache EXCEPT ![p] = <<>>]
  /\ \/ /\ \A d \in Databases : p \notin writer[d]
        /\ UNCHANGED <<relation, committed, writer>>
     \/ \E d \in Databases : p \in writer[d] /\ RollBack(d)

TupleFlobsNext ==
  \E p \in Processes :
    \/ CloseDatabase(p) \/ CloseUncleared(p) \/ Crash(p)
    \/ \E d \in Databases :
         \/ OpenDatabase(p, d) \/ AppendTuple(p, d) \/ UpdateTuple(p, d)
         \/ DeleteTuple(p, d) \/ Clear(p, d) \/ ReadTupleFlob(p, d)
         \/ Commit(p, d) \/ Abort(p, d)

TupleFlobsSpec == TupleFlobsInit /\ [][TupleFlobsNext]_tupleFlobVars

-----------------------------------------------------------------------------
(* Properties                                                               *)

\* Whoever may read a tuple gets the content of its Flobs that is stored now,
\* from the cache as from the file, although nobody tells the caches about
\* updates, deletions, rollbacks and other processes.
CachedIsStored ==
  \A p \in Processes, d \in Databases : MayAccess(p, d) =>
    \A rec \in FlobsOf(relation[d], TupleIds(relation[d])) \cap DOMAIN cache[p] :
      cache[p][rec] = relation[d].flobs[rec]

\* The Flobs of every tuple exist, now and after a rollback.
HasFlobs(r) ==
  \A rec \in FlobsOf(r, TupleIds(r)) : rec \in DOMAIN r.flobs /\ r.flobs[rec] # NoFlob
TuplesHaveFlobs ==
  \A d \in Databases : HasFlobs(relation[d]) /\ HasFlobs(committed[d])

\* No two attributes share a record: destroying the Flob of one would
\* destroy the other's.
SharesNoFlob(r) ==
  \A t, u \in TupleIds(r), a, b \in Attributes :
    r.tuples[t][a] = r.tuples[u][b] => t = u /\ a = b
OneOwnerPerFlob ==
  \A d \in Databases : SharesNoFlob(relation[d]) /\ SharesNoFlob(committed[d])

\* "If the old attribute had FLOBs they are destroyed so that there is no
\* garbage left on the disk" (RelationPersistent.cpp:1307): every record of
\* the Flob file belongs to a tuple.
HasNoGarbage(r) ==
  \A rec \in DOMAIN r.flobs : r.flobs[rec] = NoFlob \/ rec \in FlobsOf(r, TupleIds(r))
NoGarbage ==
  \A d \in Databases : HasNoGarbage(relation[d]) /\ HasNoGarbage(committed[d])
=============================================================================
