----------------------------- MODULE NativeFlobs -----------------------------
(***************************************************************************)
(* Native Flobs: large objects of a running query                          *)
(* (Tools/Flob/FlobManager.cpp, NativeFlobCache.h).  The data of a Flob are *)
(* a record of the file of native Flobs, cut into slots that are cached in  *)
(* LRU order.  A slot that was written is marked and saved when reduce      *)
(* evicts it.  Records of destroyed Flobs are used again.  A Flob may also  *)
(* hold its data in a block of memory until it is first changed.            *)
(***************************************************************************)
EXTENDS Integers, FiniteSets, SequencesExt

CONSTANTS
  Handles,     \* Flob objects; none is a flat copy of another
  Values,      \* contents of a cell; the code counts bytes
  Garbage,     \* memory that nobody has written
  NoBlock,     \* dataPointer = 0
  SlotSize,    \* slotSize
  CacheSize,   \* maxSize
  MaxFlobSize, \* bound: cells of a Flob
  Sizes,       \* sizes that the query asks for
  Ranges       \* first and last cell of what it reads and writes

ASSUME FlobAssumption ==
  /\ SlotSize \in Nat \ {0}
  /\ CacheSize \in Nat
  /\ CacheSize > SlotSize   \* asserted by NativeFlobCache
  /\ MaxFlobSize \in Nat
  /\ Sizes \subseteq 0 .. MaxFlobSize
  /\ Ranges \subseteq {r \in (0 .. MaxFlobSize - 1) \X (0 .. MaxFlobSize - 1) :
                       r[1] <= r[2]}
  /\ Garbage \notin Values
  /\ \A n \in 0 .. MaxFlobSize :
       NoBlock \notin [0 .. n - 1 -> Values \cup {Garbage}]

NoRecord == 0
Destroyed == [id |-> NoRecord, size |-> 0, dataPointer |-> NoBlock]

VARIABLES
  flob,            \* id, size and dataPointer of each Flob object
  nativeFlobFile,  \* the records of the file, numbered from 1
  nativeFlobCache, \* entries by <<id, slot>>
  lru,             \* keys of the entries, the one used last in front
  usedSize,
  destroyedFlobs,  \* stack of records to use again
  written          \* history: the cells of each Flob that were written

vars == <<flob, nativeFlobFile, nativeFlobCache, lru, usedSize,
          destroyedFlobs, written>>

Cells(n) == 0 .. n - 1
Records == DOMAIN nativeFlobFile
NrOfSlots == MaxFlobSize \div SlotSize + 1
Keys == (1 .. Len(nativeFlobFile)) \X (0 .. NrOfSlots - 1)
Cell == Values \cup {Garbage}
IsArray(a, n) == a \in [Cells(n) -> Cell]

NativeFlobsTypeOK ==
  /\ DOMAIN flob = Handles
  /\ \A h \in Handles :
       /\ flob[h].id \in {NoRecord} \cup Records
       /\ flob[h].size \in 0 .. MaxFlobSize
       /\ \/ flob[h].dataPointer = NoBlock
          \/ /\ flob[h].id = NoRecord
             /\ IsArray(flob[h].dataPointer, flob[h].size)
       /\ written[h] \subseteq Cells(flob[h].size)
  /\ \A r \in Records : \E n \in 0 .. MaxFlobSize : IsArray(nativeFlobFile[r], n)
  /\ DOMAIN nativeFlobCache \subseteq Keys
  /\ \A k \in DOMAIN nativeFlobCache : nativeFlobCache[k].changed \in BOOLEAN
  /\ usedSize \in Nat
  /\ Range(destroyedFlobs) \subseteq Records

-----------------------------------------------------------------------------
(* The cache, as functions of its state                                     *)
(*   [file, cache, lru, used, buffer]                                       *)
(* where buffer is what a read has delivered so far.                        *)

SlotCells(slot, size) ==
  {x \in Cells(size) : slot * SlotSize <= x /\ x < (slot + 1) * SlotSize}
Occupied(cache, keys) ==
  Cardinality(UNION {{k} \X DOMAIN cache[k].mem : k \in keys})

NewEntry(slot, size) ==
  [mem |-> [x \in SlotCells(slot, size) |-> Garbage], changed |-> FALSE]
EntryFromDisk(c, id, slot, size) ==
  [mem |-> [x \in SlotCells(slot, size) |->
              IF x \in DOMAIN c.file[id] THEN c.file[id][x] ELSE Garbage],
   changed |-> FALSE]

\* s without some elements.  Proofs cannot unfold SelectSeq, hence this.
Without(s, elements) ==
  LET rest[n \in 0 .. Len(s)] ==   \* of the first n
        IF n = 0 THEN <<>>
        ELSE IF s[n] \in elements THEN rest[n - 1] ELSE Append(rest[n - 1], s[n])
  IN rest[Len(s)]

Overwritten(old, new) ==
  [x \in DOMAIN old \cup DOMAIN new |->
     IF x \in DOMAIN new THEN new[x] ELSE old[x]]

RemoveEntries(c, keys) ==
  LET found == keys \cap DOMAIN c.cache
  IN IF found = {} THEN c
     ELSE [c EXCEPT !.cache = Restrict(@, DOMAIN @ \ found),
                    !.lru = Without(@, found),
                    !.used = @ - Occupied(c.cache, found)]

\* saveToDisk of the changed entries among keys.  A record grows when
\* something is written behind its end.
Saved(c, keys) ==
  [r \in DOMAIN c.file |->
     LET saved == UNION {DOMAIN c.cache[k].mem :
                           k \in {l \in keys : l[1] = r /\ c.cache[l].changed}}
         old == c.file[r]
         cells == {x \in Cells(MaxFlobSize) :
                     \E y \in saved \cup DOMAIN old : x <= y}
     IN [x \in cells |->
           CASE x \in saved -> c.cache[<<r, x \div SlotSize>>].mem[x]
             [] x \in DOMAIN old \ saved -> old[x]
             [] OTHER -> Garbage]]

\* Evicts entries from the end of lru while the cache is too large.
reduce(c) ==
  LET Newest(n) == {c.lru[i] : i \in 1 .. n}
      kept == CHOOSE n \in 0 .. Len(c.lru) :
                /\ Occupied(c.cache, Newest(n)) <= CacheSize
                /\ n < Len(c.lru) => Occupied(c.cache, Newest(n + 1)) > CacheSize
      evicted == {c.lru[i] : i \in kept + 1 .. Len(c.lru)}
  IN IF c.used <= CacheSize THEN c
     ELSE RemoveEntries([c EXCEPT !.file = Saved(c, evicted)], evicted)

putAtFront(c, key, entry) ==
  [c EXCEPT !.cache = Overwritten(@, [k \in {key} |-> entry]),
            !.lru = <<key>> \o @,
            !.used = @ + Cardinality(DOMAIN entry.mem)]

bringToFront(c, key) == [c EXCEPT !.lru = <<key>> \o Without(@, {key})]

\* The loops over the slots first .. last of a Flob.
ForSlots(step(_, _), c, first, last) ==
  LET result[n \in first .. last + 1] ==   \* before slot n
        IF n = first THEN c ELSE step(result[n - 1], n - 1)
  IN IF first > last THEN c ELSE result[last + 1]

\* NativeFlobCache::create: the last slot gets no entry unless it is full.
createEntries(c, id, size) ==
  ForSlots(LAMBDA d, slot : reduce(putAtFront(d, <<id, slot>>, NewEntry(slot, size))),
           c, 0, (size \div SlotSize) - 1)

erase(c, id, size) == RemoveEntries(c, {id} \X (0 .. size \div SlotSize))

Loaded(c, id, size, slot) ==
  reduce(putAtFront(c, <<id, slot>>, EntryFromDisk(c, id, slot, size)))

getDataFromSlot(c, id, size, slot) ==
  LET key == <<id, slot>>
      d == IF key \in DOMAIN c.cache THEN bringToFront(c, key)
                                     ELSE Loaded(c, id, size, slot)
  IN [d EXCEPT !.buffer = Overwritten(@, d.cache[key].mem)]

\* Mutant: the entry is not marked.
putDataUnmarked(c, id, size, slot, data) ==
  LET key == <<id, slot>>
      d == IF key \in DOMAIN c.cache THEN c ELSE Loaded(c, id, size, slot)
      new == Restrict(data, DOMAIN data \cap SlotCells(slot, size))
  IN [d EXCEPT !.cache[key].mem = Overwritten(@, new)]

putDataToFlobSlot(c, id, size, slot, data) ==
  LET key == <<id, slot>>
      d == IF key \in DOMAIN c.cache THEN c ELSE Loaded(c, id, size, slot)
      new == Restrict(data, DOMAIN data \cap SlotCells(slot, size))
  IN [d EXCEPT !.cache[key].mem = Overwritten(@, new),
               !.cache[key].changed = TRUE]

getData(c, id, size, first, last) ==
  ForSlots(LAMBDA d, slot : getDataFromSlot(d, id, size, slot),
           [c EXCEPT !.buffer = <<>>], first \div SlotSize, last \div SlotSize)

putData(c, id, size, first, last, data) ==
  ForSlots(LAMBDA d, slot : putDataToFlobSlot(d, id, size, slot, data),
           c, first \div SlotSize, last \div SlotSize)

\* Mutant: usedSize is that of the old slot.
resizeSlotUncounted(c, id, slot, newSize) ==
  LET key == <<id, slot>> IN
  CASE key \notin DOMAIN c.cache -> c
    [] key \in DOMAIN c.cache /\ SlotCells(slot, newSize) = {} ->
         RemoveEntries(c, {key})
    [] OTHER ->
         LET old == c.cache[key].mem
         IN [c EXCEPT
              !.cache[key].mem = [x \in SlotCells(slot, newSize) |->
                                    IF x \in DOMAIN old THEN old[x] ELSE Garbage]]

resizeSlot(c, id, slot, newSize) ==
  LET key == <<id, slot>> IN
  CASE key \notin DOMAIN c.cache -> c
    [] key \in DOMAIN c.cache /\ SlotCells(slot, newSize) = {} ->
         RemoveEntries(c, {key})
    [] OTHER ->
         LET old == c.cache[key].mem
         IN [c EXCEPT
              !.cache[key].mem = [x \in SlotCells(slot, newSize) |->
                                    IF x \in DOMAIN old THEN old[x] ELSE Garbage],
              !.used = @ + Cardinality(SlotCells(slot, newSize))
                         - Cardinality(DOMAIN old)]

shrink(c, id, size, newSize) ==
  LET start == newSize \div SlotSize + 1
      end == size \div SlotSize + 1
  IN resizeSlot(RemoveEntries(c, {id} \X (start .. end - 1)), id, start - 1, newSize)

\* New slots get entries, except an empty one.
enlarge(c, id, size, newSize) ==
  LET start == size \div SlotSize + 1
      end == newSize \div SlotSize + 1
      Add(d, slot) == IF SlotCells(slot, newSize) = {} THEN d
                      ELSE putAtFront(d, <<id, slot>>, NewEntry(slot, newSize))
  IN reduce(ForSlots(Add, resizeSlot(c, id, start - 1, newSize), start, end - 1))

resize(c, id, size, newSize) ==
  CASE newSize = size -> c
    [] newSize > size /\ size = 0 -> createEntries(c, id, newSize)
    [] newSize < size /\ newSize = 0 -> erase(c, id, size)
    [] newSize < size /\ newSize > 0 -> shrink(c, id, size, newSize)
    [] newSize > size /\ size > 0 -> enlarge(c, id, size, newSize)

-----------------------------------------------------------------------------
(* FlobManager: the state above together with the Flob f and the stack.     *)

Manager(h) ==
  [file |-> nativeFlobFile, cache |-> nativeFlobCache, lru |-> lru,
   used |-> usedSize, buffer |-> <<>>, destroyed |-> destroyedFlobs,
   f |-> flob[h]]

create(m, size) ==
  LET reuse == m.destroyed # <<>>
      id == IF reuse THEN Head(m.destroyed) ELSE Len(m.file) + 1
      n == [m EXCEPT !.destroyed = IF reuse THEN Tail(@) ELSE @,
                     !.file = IF reuse THEN @ ELSE Append(@, <<>>),
                     !.f = [id |-> id, size |-> size, dataPointer |-> NoBlock]]
  IN createEntries(n, id, size)

PutData(m, first, last, data) == putData(m, m.f.id, m.f.size, first, last, data)

makeControllable(m) ==
  IF m.f.dataPointer = NoBlock
    THEN m
    ELSE LET n == create(m, m.f.size)
         IN IF m.f.size = 0 THEN n
                            ELSE PutData(n, 0, m.f.size - 1, m.f.dataPointer)

Resize(m, newSize) ==
  LET n == makeControllable(m)
  IN [resize(n, n.f.id, n.f.size, newSize) EXCEPT !.f.size = newSize]

\* FlobManager::getData of all cells of f into the buffer.
Read(m, f) ==
  IF f.dataPointer # NoBlock THEN [m EXCEPT !.buffer = f.dataPointer]
  ELSE IF f.size = 0 THEN [m EXCEPT !.buffer = <<>>]
  ELSE getData(m, f.id, f.size, 0, f.size - 1)

copyData(m, src) ==
  LET n == Read(m, src)
  IN IF src.size = 0 THEN n ELSE PutData(n, 0, src.size - 1, n.buffer)

Becomes(h, m) ==
  /\ flob' = [flob EXCEPT ![h] = m.f]
  /\ nativeFlobFile' = m.file
  /\ nativeFlobCache' = m.cache
  /\ lru' = m.lru
  /\ usedSize' = m.used
  /\ destroyedFlobs' = m.destroyed

Live(h) == flob[h] # Destroyed

-----------------------------------------------------------------------------
Init ==
  /\ flob = [h \in Handles |-> Destroyed]
  /\ nativeFlobFile = <<>>
  /\ nativeFlobCache = <<>>
  /\ lru = <<>>
  /\ usedSize = 0
  /\ destroyedFlobs = <<>>
  /\ written = [h \in Handles |-> {}]

\* Flob( size )
CreateFlob(h) ==
  /\ ~ Live(h)
  /\ \E size \in Sizes : Becomes(h, create(Manager(h), size))
  /\ UNCHANGED written

\* A Flob of a tuple that was read from disk.
CreateFromBlock(h) ==
  /\ ~ Live(h)
  /\ \E size \in Sizes, v \in Values :
       /\ flob' = [flob EXCEPT ![h] =
            [id |-> NoRecord, size |-> size,
             dataPointer |-> [c \in Cells(size) |-> v]]]
       /\ written' = [written EXCEPT ![h] = Cells(size)]
  /\ UNCHANGED <<nativeFlobFile, nativeFlobCache, lru, usedSize, destroyedFlobs>>

ResizeFlob(h) ==
  /\ Live(h)
  /\ \E newSize \in Sizes :
       /\ Becomes(h, Resize(Manager(h), newSize))
       /\ written' = [written EXCEPT ![h] = @ \cap Cells(newSize)]

\* Flob::write makes room first.
Write(h) ==
  /\ Live(h)
  /\ \E r \in Ranges, v \in Values :
       /\ LET m == Manager(h)
              n == IF r[2] >= m.f.size THEN Resize(m, r[2] + 1)
                                       ELSE makeControllable(m)
          IN Becomes(h, PutData(n, r[1], r[2], [c \in r[1] .. r[2] |-> v]))
       /\ written' = [written EXCEPT ![h] = @ \cup (r[1] .. r[2])]

\* Flob::read
ReadFlob(h) ==
  /\ Live(h)
  /\ flob[h].dataPointer = NoBlock
  /\ \E r \in Ranges :
       /\ r[2] < flob[h].size
       /\ Becomes(h, getData(Manager(h), flob[h].id, flob[h].size, r[1], r[2]))
  /\ UNCHANGED written

CopyFrom(h, src) ==
  /\ h # src
  /\ Live(h) /\ Live(src)
  /\ Becomes(h, copyData(Resize(Manager(h), flob[src].size), flob[src]))
  /\ written' = [written EXCEPT ![h] = written[src]]

Destroy(h) ==
  /\ Live(h)
  /\ LET m == Manager(h)
     IN Becomes(h, IF m.f.dataPointer # NoBlock
                     THEN [m EXCEPT !.f = Destroyed]
                     ELSE [erase(m, m.f.id, m.f.size) EXCEPT
                             !.destroyed = <<m.f.id>> \o @, !.f = Destroyed])
  /\ written' = [written EXCEPT ![h] = {}]

\* The query and its objects are gone; killNativeFlobs.
EndOfCommand ==
  /\ flob' = [h \in Handles |-> Destroyed]
  /\ nativeFlobFile' = <<>>
  /\ nativeFlobCache' = <<>>
  /\ lru' = <<>>
  /\ usedSize' = 0
  /\ destroyedFlobs' = <<>>
  /\ written' = [h \in Handles |-> {}]

Next ==
  \/ \E h \in Handles :
       \/ CreateFlob(h) \/ CreateFromBlock(h) \/ ResizeFlob(h) \/ Write(h)
       \/ ReadFlob(h) \/ Destroy(h)
       \/ \E src \in Handles : CopyFrom(h, src)
  \/ EndOfCommand

Spec == Init /\ [][Next]_vars

-----------------------------------------------------------------------------
(* Properties                                                               *)

\* NativeFlobCache::check: every entry is in the LRU list once, and usedSize
\* is what the entries occupy.  After each operation the cache is within its
\* limit, however many slots the operation touched.
ListMatchesCache ==
  /\ Range(lru) = DOMAIN nativeFlobCache
  /\ Len(lru) = Cardinality(DOMAIN nativeFlobCache)
  /\ usedSize = Occupied(nativeFlobCache, DOMAIN nativeFlobCache)
  /\ usedSize <= CacheSize

\* An entry belongs to a Flob that exists, at the size it has now: neither
\* destroy nor resize leaves an entry that a later Flob with the same record
\* would find.
EntriesFitFlobs ==
  \A k \in DOMAIN nativeFlobCache : \E h \in Handles :
    /\ flob[h].id = k[1]
    /\ DOMAIN nativeFlobCache[k].mem = SlotCells(k[2], flob[h].size)
    /\ DOMAIN nativeFlobCache[k].mem # {}

\* Between two operations the cache fits its list, its limit and the Flobs.
CacheConsistent == NativeFlobsTypeOK /\ ListMatchesCache /\ EntriesFitFlobs

\* What the Flob h contains: cached cells hide those on disk.
Visible(h) ==
  LET f == flob[h] IN
  IF f.dataPointer # NoBlock THEN f.dataPointer
  ELSE [c \in Cells(f.size) |->
         LET key == <<f.id, c \div SlotSize>> IN
         CASE key \in DOMAIN nativeFlobCache -> nativeFlobCache[key].mem[c]
           [] key \notin DOMAIN nativeFlobCache /\ c \in DOMAIN nativeFlobFile[f.id]
                -> nativeFlobFile[f.id][c]
           [] OTHER -> Garbage]

\* What each Flob contains, as far as it was written.
FlobContents ==
  [h \in Handles |->
    IF Live(h)
      THEN [c \in Cells(flob[h].size) |->
              IF c \in written[h] THEN Visible(h)[c] ELSE Garbage]
      ELSE NoBlock]

\* The cache, the file and the reuse of records together are the store of
\* arrays that FlobStore describes: eviction, reading and loading change
\* nothing, and a write changes what it should, for good.
Store == INSTANCE FlobStore WITH
  Unwritten <- Garbage,
  Destroyed <- NoBlock,
  content <- FlobContents
ImplementsFlobStore == Store!Spec
=============================================================================
