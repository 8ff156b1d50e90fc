-------------------------- MODULE LocalCacheProofs --------------------------
(***************************************************************************)
(* Proofs about LocalCache, for every set of keys, sizes, lives, limits    *)
(* and faults and every clock.  What is said of the limit and of eviction  *)
(* holds for any number of processes, what is said of the data files for   *)
(* one process that has the directory to itself.                           *)
(***************************************************************************)
EXTENDS LocalCache, NaturalsInduction, WellFoundedInduction, FiniteSetTheorems, TLAPS

-----------------------------------------------------------------------------
\* Indexes.

EntryRecord == [size : Nat, used : Nat, expires : Nat]

KeySets == {K \in SUBSET Keys : IsFiniteSet(K)}

Index == UNION {[K -> EntryRecord] : K \in KeySets}

LEMMA EmptyIndex == Empty \in Index /\ DOMAIN Empty = {}
<1>1. {} \in KeySets
  BY FS_EmptySet DEF KeySets
<1> QED
  BY <1>1 DEF Index, Empty

LEMMA IndexShape ==
  ASSUME NEW idx \in Index
  PROVE  /\ DOMAIN idx \subseteq Keys /\ IsFiniteSet(DOMAIN idx)
         /\ idx \in [DOMAIN idx -> EntryRecord]
  BY DEF Index, KeySets

LEMMA WithoutKeys ==
  ASSUME NEW idx \in Index, NEW K
  PROVE  /\ Without(idx, K) \in Index
         /\ DOMAIN Without(idx, K) = DOMAIN idx \ K
         /\ \A k \in DOMAIN idx \ K : Without(idx, K)[k] = idx[k]
<1>1. IsFiniteSet(DOMAIN idx \ K)
  BY IndexShape, FS_Subset
<1>2. DOMAIN idx \ K \in KeySets
  BY <1>1, IndexShape DEF KeySets
<1> QED
  BY <1>2, IndexShape DEF Index, Without

LEMMA WithKey ==
  ASSUME NEW idx \in Index, NEW key \in Keys, NEW e \in EntryRecord
  PROVE  /\ With(idx, key, e) \in Index
         /\ DOMAIN With(idx, key, e) = DOMAIN idx \cup {key}
         /\ With(idx, key, e)[key] = e
         /\ \A k \in DOMAIN idx \ {key} : With(idx, key, e)[k] = idx[k]
<1>1. IsFiniteSet(DOMAIN idx \cup {key})
  BY IndexShape, FS_AddElement
<1>2. DOMAIN idx \cup {key} \in KeySets
  BY <1>1, IndexShape DEF KeySets
<1>3. \A k \in DOMAIN idx \cup {key} : (IF k = key THEN e ELSE idx[k]) \in EntryRecord
  BY IndexShape
<1> QED
  BY <1>2, <1>3, IndexShape DEF Index, With

-----------------------------------------------------------------------------
\* Eviction.

\* A set of naturals has a least element, which Min returns.
LEMMA MinNat ==
  ASSUME NEW S \in SUBSET Nat, S # {}
  PROVE  Min(S) \in S /\ \A y \in S : Min(S) <= y
<1> DEFINE Less == {ss \in Nat \X Nat : ss[1] < ss[2]}
<1>1. IsWellFoundedOn(Less, Nat)
  BY NatLessThanWellFounded, Zenon DEF OpToRel
<1> HIDE DEF Less
<1>2. PICK x \in S : \A y \in S : ~(<<y, x>> \in Less)
  BY <1>1, WFMin
<1>3. ASSUME NEW y \in S
      PROVE  x <= y
  <2>1. <<y, x>> \in Less <=> y < x
    BY DEF Less
  <2> QED
    BY <1>2, <2>1
<1> QED
  BY <1>3 DEF Min

\* An index without entries takes no room.
LEMMA EmptySize ==
  ASSUME NEW idx, DOMAIN idx = {}
  PROVE  totalSize(idx) = 0
<1> DEFINE rec(g, s) == IF s = {} THEN 0 ELSE LET x == CHOOSE x \in s : TRUE IN idx[x].size + g[s \ {x}]
           zero == [s \in SUBSET {} |-> 0]
           iter == CHOOSE g : g = [s \in SUBSET {} |-> rec(g, s)]
<1>1. zero = [s \in SUBSET {} |-> rec(zero, s)]
  OBVIOUS
<1>2. iter = [s \in SUBSET {} |-> rec(iter, s)]
  <2> HIDE DEF rec, zero
  <2> QED
    BY <1>1
<1>3. iter[{}] = 0
  BY <1>2
<1>4. totalSize(idx) = iter[{}]
  BY DEF totalSize, MapThenSumSet, MapThenFoldSet
<1> QED
  BY <1>3, <1>4

\* How many entries are older than one is less than how many there are.
LEMMA OlderCount ==
  ASSUME NEW idx \in Index, NEW k \in DOMAIN idx
  PROVE  /\ Cardinality(DOMAIN idx) \in Nat
         /\ Cardinality(Older(idx, k)) \in Nat
         /\ Cardinality(Older(idx, k)) < Cardinality(DOMAIN idx)
         /\ IsFiniteSet(Older(idx, k))
<1>1. idx[k].used \in Nat
  BY IndexShape DEF EntryRecord
<1>2. Older(idx, k) \subseteq DOMAIN idx /\ k \notin Older(idx, k)
  BY <1>1 DEF Older
<1>3. IsFiniteSet(DOMAIN idx)
  BY IndexShape
<1> QED
  BY <1>2, <1>3, FS_Subset, FS_CardinalityType

\* The loops stop, at the latest when nothing is left.
LEMMA EvictionStops ==
  ASSUME NEW idx \in Index, NEW max \in Nat \ {0}
  PROVE  \E n \in Nat :
           /\ evictLRU(idx, max) = Without(idx, Oldest(idx, n))
           /\ totalSize(Without(idx, Oldest(idx, n))) <= max
           /\ \A m \in Nat : m < n => ~(totalSize(Without(idx, Oldest(idx, m))) <= max)
<1> DEFINE N == Cardinality(DOMAIN idx)
           enough == {n \in 0..N : totalSize(Without(idx, Oldest(idx, n))) <= max}
<1>1. N \in Nat
  BY IndexShape, FS_CardinalityType
<1>2. DOMAIN Without(idx, Oldest(idx, N)) = {}
  <2>1. \A k \in DOMAIN idx : k \in Oldest(idx, N)
    BY OlderCount DEF Oldest
  <2>2. DOMAIN Without(idx, Oldest(idx, N)) = DOMAIN idx \ Oldest(idx, N)
    BY WithoutKeys
  <2> QED
    BY <2>1, <2>2
<1>3. N \in enough
  BY <1>1, <1>2, EmptySize
<1>4. Min(enough) \in enough /\ \A m \in enough : Min(enough) <= m
  BY <1>1, <1>3, MinNat
<1>5. evictLRU(idx, max) = Without(idx, Oldest(idx, Min(enough)))
  BY DEF evictLRU
<1>6. \A m \in Nat : m < Min(enough) => ~(totalSize(Without(idx, Oldest(idx, m))) <= max)
  BY <1>1, <1>4
<1>7. Min(enough) \in Nat /\ totalSize(Without(idx, Oldest(idx, Min(enough)))) <= max
  BY <1>1, <1>4
<1> HIDE DEF enough
<1> QED
  BY <1>5, <1>6, <1>7

\* What is evicted was used before all that stays.
LEMMA OldestGo ==
  ASSUME NEW idx \in Index, NEW n \in Nat, NEW e \in Oldest(idx, n), NEW k \in DOMAIN idx \ Oldest(idx, n)
  PROVE  idx[e].used < idx[k].used
<1>1. e \in DOMAIN idx /\ idx[e].used \in Nat /\ idx[k].used \in Nat
  BY IndexShape DEF Oldest, EntryRecord
<1>2. Cardinality(Older(idx, e)) < Cardinality(Older(idx, k))
  BY <1>1, OlderCount DEF Oldest
<1>3. ASSUME idx[k].used <= idx[e].used PROVE FALSE
  <2>1. Older(idx, k) \subseteq Older(idx, e)
    <3>1. \A j \in DOMAIN idx : idx[j].used \in Nat
      BY IndexShape DEF EntryRecord
    <3> QED
      BY <1>1, <1>3, <3>1 DEF Older
  <2>2. Cardinality(Older(idx, k)) <= Cardinality(Older(idx, e))
    BY <1>1, <2>1, OlderCount, FS_Subset
  <2> QED
    BY <1>1, <1>2, <2>2, OlderCount
<1> QED
  BY <1>1, <1>3

\* Eviction keeps entries as they are, is within the limit, and takes the oldest.
LEMMA Eviction ==
  ASSUME NEW idx \in Index, NEW max \in Nat
  PROVE  /\ evictLRU(idx, max) \in Index
         /\ DOMAIN evictLRU(idx, max) \subseteq DOMAIN idx
         /\ \A k \in DOMAIN evictLRU(idx, max) : evictLRU(idx, max)[k] = idx[k]
         /\ max > 0 => totalSize(evictLRU(idx, max)) <= max
         /\ \A e \in DOMAIN idx \ DOMAIN evictLRU(idx, max), k \in DOMAIN evictLRU(idx, max) :
              idx[e].used < idx[k].used
<1>1. CASE max = 0
  BY <1>1 DEF evictLRU
<1>2. CASE max \in Nat \ {0}
  <2>1. PICK n \in Nat :
          /\ evictLRU(idx, max) = Without(idx, Oldest(idx, n))
          /\ totalSize(Without(idx, Oldest(idx, n))) <= max
    BY <1>2, EvictionStops
  <2>2. DOMAIN evictLRU(idx, max) = DOMAIN idx \ Oldest(idx, n)
    BY <2>1, WithoutKeys
  <2>3. \A e \in DOMAIN idx \ DOMAIN evictLRU(idx, max), k \in DOMAIN evictLRU(idx, max) :
          idx[e].used < idx[k].used
    BY <2>2, OldestGo
  <2>4. /\ Without(idx, Oldest(idx, n)) \in Index
        /\ \A k \in DOMAIN idx \ Oldest(idx, n) : Without(idx, Oldest(idx, n))[k] = idx[k]
    BY WithoutKeys
  <2> QED
    BY <2>1, <2>2, <2>3, <2>4
<1> QED
  BY <1>1, <1>2

\* A hit changes when an entry was used and nothing else.
LEMMA UsedNow ==
  ASSUME NEW idx \in Index, NEW key \in DOMAIN idx, NEW t \in Nat, NEW new, new = [idx EXCEPT ![key].used = t]
  PROVE  /\ new \in Index /\ DOMAIN new = DOMAIN idx
         /\ new[key].used = t /\ \A k \in DOMAIN idx : new[k].size = idx[k].size
         /\ \A k \in DOMAIN idx \ {key} : new[k] = idx[k]
<1> DEFINE e == [idx[key] EXCEPT !.used = t]
<1>1. idx[key] \in EntryRecord
  BY IndexShape
<1>2. e \in EntryRecord /\ e.used = t /\ e.size = idx[key].size
  BY <1>1 DEF EntryRecord
<1>3. new = [idx EXCEPT ![key] = e]
  OBVIOUS
<1> HIDE DEF e
<1>4. new \in [DOMAIN idx -> EntryRecord] /\ DOMAIN idx \in KeySets
  BY <1>2, <1>3, IndexShape DEF KeySets
<1> QED
  BY <1>2, <1>3, <1>4, IndexShape DEF Index

-----------------------------------------------------------------------------
\* Types.

OpRecord ==
  [ kind : {"none", "put", "miss", "hit", "delete", "prune"}, key : Keys \cup {"none"}, size : Nat, ttl : Nat ]

Types ==
  /\ now \in Nat /\ files \in [Keys -> Int]
  /\ indexFile \in Index /\ mem \in [Procs -> Index]
  /\ maxSize \in [Procs -> Nat]
  /\ pc \in [Procs -> {"idle", "write", "index", "save", "down"}]
  /\ op \in [Procs -> OpRecord]
  /\ \A p \in Procs : pc[p] \in {"write", "index"} => op[p].key \in Keys /\ op[p].kind = "put"

LEMMA NoOpType == NoOp \in OpRecord
  BY DEF NoOp, OpRecord

LEMMA NewEntryType ==
  ASSUME Types, NEW p \in Procs
  PROVE  NewEntry(p) \in EntryRecord
<1>1. op[p].size \in Nat /\ op[p].ttl \in Nat /\ now \in Nat
  BY DEF Types, OpRecord
<1> QED
  BY <1>1 DEF NewEntry, EntryRecord

\* What Put adds and evicts.
LEMMA PutKeeps ==
  ASSUME Types, NEW p \in Procs, op[p].key \in Keys
  PROVE  LET full == With(mem[p], op[p].key, NewEntry(p))
             kept == AddAndEvict(p)
         IN /\ full \in Index /\ DOMAIN full = DOMAIN mem[p] \cup {op[p].key}
            /\ full[op[p].key] = NewEntry(p)
            /\ \A k \in DOMAIN mem[p] \ {op[p].key} : full[k] = mem[p][k]
            /\ kept \in Index /\ DOMAIN kept \subseteq DOMAIN full
            /\ \A k \in DOMAIN kept : kept[k] = full[k]
            /\ maxSize[p] > 0 => totalSize(kept) <= maxSize[p]
            /\ \A e \in DOMAIN full \ DOMAIN kept, k \in DOMAIN kept : full[e].used < full[k].used
<1> DEFINE full == With(mem[p], op[p].key, NewEntry(p))
<1>1. mem[p] \in Index /\ maxSize[p] \in Nat
  BY DEF Types
<1>2. /\ full \in Index /\ DOMAIN full = DOMAIN mem[p] \cup {op[p].key}
      /\ full[op[p].key] = NewEntry(p)
      /\ \A k \in DOMAIN mem[p] \ {op[p].key} : full[k] = mem[p][k]
  <2>1. NewEntry(p) \in EntryRecord
    BY NewEntryType
  <2>2. PICK key \in Keys, e \in EntryRecord : key = op[p].key /\ e = NewEntry(p)
    BY <2>1
  <2>3. /\ With(mem[p], key, e) \in Index
        /\ DOMAIN With(mem[p], key, e) = DOMAIN mem[p] \cup {key}
        /\ With(mem[p], key, e)[key] = e
        /\ \A k \in DOMAIN mem[p] \ {key} : With(mem[p], key, e)[k] = mem[p][k]
    BY ZenonT(30), <1>1, WithKey
  <2>4. full = With(mem[p], key, e)
    BY <2>2
  <2> HIDE DEF full
  <2> QED
    BY <2>2, <2>3, <2>4
<1>3. AddAndEvict(p) = evictLRU(full, maxSize[p])
  BY DEF AddAndEvict
<1> HIDE DEF full
<1>4. QED
  BY <1>1, <1>2, <1>3, Eviction DEF full

\* What Prune leaves.
LEMMA PruneKeeps ==
  ASSUME Types, NEW p \in Procs
  PROVE  LET fresh == Without(mem[p], Expired(mem[p]))
             kept  == ExpireAndEvict(p)
         IN /\ fresh \in Index /\ DOMAIN fresh = DOMAIN mem[p] \ Expired(mem[p])
            /\ \A k \in DOMAIN fresh : fresh[k] = mem[p][k]
            /\ kept \in Index /\ DOMAIN kept \subseteq DOMAIN fresh
            /\ \A k \in DOMAIN kept : kept[k] = mem[p][k]
            /\ maxSize[p] > 0 => totalSize(kept) <= maxSize[p]
            /\ \A e \in DOMAIN fresh \ DOMAIN kept, k \in DOMAIN kept : fresh[e].used < fresh[k].used
<1> DEFINE fresh == Without(mem[p], Expired(mem[p]))
<1>1. mem[p] \in Index /\ maxSize[p] \in Nat
  BY DEF Types
<1>2. /\ fresh \in Index /\ DOMAIN fresh = DOMAIN mem[p] \ Expired(mem[p])
      /\ \A k \in DOMAIN fresh : fresh[k] = mem[p][k]
  <2>1. /\ fresh \in Index /\ DOMAIN fresh = DOMAIN mem[p] \ Expired(mem[p])
        /\ \A k \in DOMAIN mem[p] \ Expired(mem[p]) : fresh[k] = mem[p][k]
    BY <1>1, WithoutKeys
  <2> HIDE DEF fresh
  <2> QED
    BY <2>1
<1>3. ExpireAndEvict(p) = evictLRU(fresh, maxSize[p])
  BY DEF ExpireAndEvict
<1> HIDE DEF fresh
<1>4. QED
  BY <1>1, <1>2, <1>3, Eviction DEF fresh

LEMMA RemoveFilesType ==
  ASSUME Types, NEW K, RemoveFiles(K)
  PROVE  /\ files' \in [Keys -> Int]
         /\ \A k \in Keys : files'[k] = IF k \in K THEN NoFile ELSE files[k]
  BY DEF RemoveFiles, Types, NoFile

\* Files of K are gone or as they were; as long as nothing has gone wrong, all of K is gone.
Taken(K) ==
  /\ \A k \in Keys : files'[k] = files[k] \/ (k \in K /\ files'[k] = NoFile)
  /\ clean \in BOOLEAN => clean' \in BOOLEAN
  /\ clean' => clean /\ \A k \in Keys : files'[k] = IF k \in K THEN NoFile ELSE files[k]

LEMMA RemoveTaken ==
  ASSUME Types, NEW K, RemoveFiles(K), UNCHANGED clean
  PROVE  Taken(K)
  BY RemoveFilesType DEF Taken

LEMMA TryRemoveTaken ==
  ASSUME Types, NEW K, TryRemove(K)
  PROVE  files' \in [Keys -> Int] /\ Taken(K)
<1>1. PICK stay : RemoveFiles(K \ stay) /\ clean' = (clean /\ stay = {})
  BY DEF TryRemove
<1>2. /\ files' \in [Keys -> Int]
      /\ \A k \in Keys : files'[k] = IF k \in K \ stay THEN NoFile ELSE files[k]
  BY <1>1, RemoveFilesType
<1>3. \A k \in Keys : files'[k] = files[k] \/ (k \in K /\ files'[k] = NoFile)
  BY <1>2
<1>4. clean' => clean /\ \A k \in Keys : files'[k] = IF k \in K THEN NoFile ELSE files[k]
  <2> SUFFICES ASSUME clean' PROVE clean /\ \A k \in Keys : files'[k] = IF k \in K THEN NoFile ELSE files[k]
    OBVIOUS
  <2>1. clean /\ stay = {}
    BY <1>1
  <2> QED
    BY <1>2, <2>1
<1> QED
  BY <1>1, <1>2, <1>3, <1>4 DEF Taken

LEMMA InitTypes == Init => Types
<1> SUFFICES ASSUME Init PROVE Types
  OBVIOUS
<1>1. now \in Nat /\ files \in [Keys -> Int] /\ indexFile \in Index /\ mem \in [Procs -> Index]
  BY EmptyIndex DEF Init, NoFile
<1>2. maxSize \in [Procs -> Nat]
  BY CacheAssumption DEF Init
<1>3. op \in [Procs -> OpRecord]
  BY NoOpType DEF Init
<1> QED
  BY <1>1, <1>2, <1>3 DEF Init, Types

\* What the steps of one process do to its memory and where they leave it.
Step(p) ==
  \/ \E k \in Keys, s \in Sizes, t \in TTLs : PutBegin(p, k, s, t)
  \/ PutWrite(p) \/ PutIndex(p) \/ Save(p)
  \/ \E k \in Keys : GetMiss(p, k) \/ GetHit(p, k) \/ Delete(p, k)
  \/ Prune(p) \/ Crash(p) \/ NewLocalCache(p)

LEMMA StepTypes ==
  ASSUME Types, NEW p \in Procs, Step(p)
  PROVE  Types'
<1>0. mem[p] \in Index /\ \A k \in Keys : Without(mem[p], {k}) \in Index
  BY WithoutKeys DEF Types
<1>1. ASSUME NEW k \in Keys, NEW s \in Sizes, NEW t \in TTLs, PutBegin(p, k, s, t)
      PROVE  Types'
  <2>1. [kind |-> "put", key |-> k, size |-> s, ttl |-> t] \in OpRecord
    BY CacheAssumption DEF OpRecord
  <2>2. files' \in [Keys -> Int]
    BY <1>1, TryRemoveTaken DEF PutBegin
  <2> QED
    BY <1>1, <2>1, <2>2 DEF PutBegin, Goto, Types
<1>2. CASE PutWrite(p)
  <2>1. op[p].key \in Keys /\ op[p].size \in Nat
    BY <1>2 DEF PutWrite, Types, OpRecord
  <2> QED
    BY <1>2, <2>1, NoOpType DEF PutWrite, Goto, Return, Types, Torn
<1>3. CASE PutIndex(p)
  <2>1. op[p].key \in Keys
    BY <1>3 DEF PutIndex, Types
  <2>2. mem' = [mem EXCEPT ![p] = AddAndEvict(p)] /\ AddAndEvict(p) \in Index
    BY <1>3, <2>1, PutKeeps DEF PutIndex
  <2>3. files' \in [Keys -> Int]
    BY <1>3, TryRemoveTaken DEF PutIndex
  <2> QED
    BY <1>3, <2>2, <2>3 DEF PutIndex, Goto, Types
<1>4. CASE Save(p)
  BY <1>4, NoOpType DEF Save, Goto, Return, Types
<1>5. ASSUME NEW k \in Keys, GetMiss(p, k)
      PROVE  Types'
  <2>1. [NoOp EXCEPT !.kind = "miss", !.key = k] \in OpRecord
    BY DEF NoOp, OpRecord
  <2>2. files' \in [Keys -> Int]
    BY <1>5, TryRemoveTaken DEF GetMiss
  <2> QED
    BY <1>0, <1>5, <2>1, <2>2 DEF GetMiss, Goto, Types
<1>6. ASSUME NEW k \in Keys, GetHit(p, k)
      PROVE  Types'
  <2>1. [NoOp EXCEPT !.kind = "hit", !.key = k] \in OpRecord
    BY DEF NoOp, OpRecord
  <2>2. mem' = [mem EXCEPT ![p] = [mem[p] EXCEPT ![k].used = now]] /\ [mem[p] EXCEPT ![k].used = now] \in Index
    BY ZenonT(30), <1>0, <1>6, UsedNow DEF GetHit, Types
  <2> QED
    BY <1>6, <2>1, <2>2 DEF GetHit, Goto, Types
<1>7. ASSUME NEW k \in Keys, Delete(p, k)
      PROVE  Types'
  <2>1. [NoOp EXCEPT !.kind = "delete", !.key = k] \in OpRecord
    BY DEF NoOp, OpRecord
  <2> QED
    BY <1>0, <1>7, <2>1, RemoveFilesType DEF Delete, Goto, Types
<1>8. CASE Prune(p)
  <2>1. [NoOp EXCEPT !.kind = "prune"] \in OpRecord
    BY DEF NoOp, OpRecord
  <2>2. mem' = [mem EXCEPT ![p] = ExpireAndEvict(p)] /\ ExpireAndEvict(p) \in Index
    BY <1>8, PruneKeeps DEF Prune
  <2>3. files' \in [Keys -> Int]
    BY <1>8, TryRemoveTaken DEF Prune
  <2> QED
    BY <1>8, <2>1, <2>2, <2>3 DEF Prune, Goto, Types
<1>9. CASE Crash(p)
  <2>1. files' \in [Keys -> Int]
    BY <1>9 DEF Crash, Types, Torn
  <2> QED
    BY <1>9, <2>1, EmptyIndex, NoOpType DEF Crash, Goto, Types
<1>10. CASE NewLocalCache(p)
  <2>1. maxSize' \in [Procs -> Nat]
    BY <1>10, CacheAssumption DEF NewLocalCache, Types
  <2> QED
    BY <1>10, <2>1, NoOpType DEF NewLocalCache, Goto, Return, Types
<1> QED
  BY <1>1, <1>2, <1>3, <1>4, <1>5, <1>6, <1>7, <1>8, <1>9, <1>10 DEF Step

\* The commands touch the files and the index file only.
LEMMA CommandStep ==
  ASSUME runCacheClear \/ pruneCache
  PROVE  \E K \in SUBSET Keys :
           /\ RemoveFiles(K) /\ indexFile' \in {indexFile, Empty} /\ clean' = FALSE
           /\ UNCHANGED <<now, mem, maxSize, pc, op, hurt>>
<1>1. PICK K \in SUBSET Present, withIndex \in BOOLEAN : CommandRemoves(K, withIndex)
  BY DEF runCacheClear, pruneCache
<1>2. K \in SUBSET Keys
  BY <1>1 DEF Present
<1> QED
  BY <1>1, <1>2 DEF CommandRemoves

LEMMA NextTypes == Types /\ [Next]_vars => Types'
<1> SUFFICES ASSUME Types, [Next]_vars PROVE Types'
  OBVIOUS
<1>1. ASSUME NEW p \in Procs, Step(p) PROVE Types'
  BY <1>1, StepTypes
<1>2. CASE runCacheClear \/ pruneCache
  <2>1. /\ files' \in [Keys -> Int] /\ indexFile' \in Index
        /\ UNCHANGED <<now, mem, maxSize, pc, op>>
    BY <1>2, CommandStep, RemoveFilesType, EmptyIndex DEF Types
  <2> QED
    BY <2>1 DEF Types
<1>3. CASE Tick \/ UNCHANGED vars
  BY <1>3 DEF Tick, vars, Types
<1> QED
  BY <1>1, <1>2, <1>3 DEF Next, Step

\* A process leaves the others alone.
LEMMA OthersAlone ==
  ASSUME Types, NEW p \in Procs, Step(p), NEW q \in Procs \ {p}
  PROVE  mem'[q] = mem[q] /\ maxSize'[q] = maxSize[q] /\ pc'[q] = pc[q] /\ op'[q] = op[q]
<1>1. ASSUME NEW k \in Keys, NEW s \in Sizes, NEW t \in TTLs, PutBegin(p, k, s, t)
      PROVE  mem'[q] = mem[q] /\ maxSize'[q] = maxSize[q] /\ pc'[q] = pc[q] /\ op'[q] = op[q]
  BY <1>1 DEF PutBegin, Goto, Types
<1>2. CASE PutWrite(p) \/ PutIndex(p) \/ Save(p)
  BY <1>2 DEF PutWrite, PutIndex, Save, Goto, Return, Types
<1>3. ASSUME NEW k \in Keys, GetMiss(p, k) \/ GetHit(p, k) \/ Delete(p, k)
      PROVE  mem'[q] = mem[q] /\ maxSize'[q] = maxSize[q] /\ pc'[q] = pc[q] /\ op'[q] = op[q]
  BY <1>3 DEF GetMiss, GetHit, Delete, Goto, Types
<1>4. CASE Prune(p) \/ Crash(p)
  BY <1>4 DEF Prune, Crash, Goto, Types
<1>5. CASE NewLocalCache(p)
  BY <1>5 DEF NewLocalCache, Goto, Return, Types
<1> QED
  BY <1>1, <1>2, <1>3, <1>4, <1>5 DEF Step

\* Only a Put or a Prune comes to save after making room.
LEMMA RoomMade ==
  ASSUME Types, NEW p \in Procs, Step(p), ~PutIndex(p), ~Prune(p)
  PROVE  pc'[p] # "save" \/ op'[p].kind \in {"miss", "hit", "delete"}
<1>1. ASSUME NEW k \in Keys, NEW s \in Sizes, NEW t \in TTLs, PutBegin(p, k, s, t)
      PROVE  pc'[p] # "save"
  BY <1>1 DEF PutBegin, Goto, Types
<1>2. CASE PutWrite(p) \/ Save(p) \/ Crash(p) \/ NewLocalCache(p)
  BY <1>2 DEF PutWrite, Save, Crash, NewLocalCache, Goto, Return, Types
<1>3. ASSUME NEW k \in Keys, NEW kind \in {"miss", "hit", "delete"},
             op' = [op EXCEPT ![p] = [NoOp EXCEPT !.kind = kind, !.key = k]]
      PROVE  op'[p].kind = kind
  BY <1>3 DEF Types, NoOp
<1>4. ASSUME NEW k \in Keys, GetMiss(p, k) \/ GetHit(p, k) \/ Delete(p, k)
      PROVE  op'[p].kind \in {"miss", "hit", "delete"}
  BY <1>3, <1>4 DEF GetMiss, GetHit, Delete
<1> QED
  BY <1>1, <1>2, <1>4 DEF Step

-----------------------------------------------------------------------------
\* The limit.

LimitInv == Types /\ WithinLimit

\* The cache is within its limit when a Put or a Prune has made room (Put, evictLRU, Prune).
THEOREM CacheWithinLimit == Spec => []WithinLimit
<1>1. Init => LimitInv
  BY InitTypes DEF Init, LimitInv, WithinLimit
<1>2. LimitInv /\ [Next]_vars => LimitInv'
  <2> SUFFICES ASSUME LimitInv, [Next]_vars PROVE LimitInv'
    OBVIOUS
  <2>1. Types /\ Types'
    BY NextTypes DEF LimitInv
  <2>2. ASSUME mem' = mem, maxSize' = maxSize, pc' = pc, op' = op PROVE WithinLimit'
    BY <2>2 DEF LimitInv, WithinLimit
  <2>3. ASSUME NEW p \in Procs, Step(p) PROVE WithinLimit'
    <3>1. \A q \in Procs \ {p} :
            mem'[q] = mem[q] /\ maxSize'[q] = maxSize[q] /\ pc'[q] = pc[q] /\ op'[q] = op[q]
      BY <2>1, <2>3, OthersAlone
    <3>2. CASE PutIndex(p)
      <4>1. op[p].key \in Keys
        BY <2>1, <3>2 DEF PutIndex, Types
      <4>2. mem'[p] = AddAndEvict(p) /\ maxSize' = maxSize
        BY <2>1, <3>2 DEF PutIndex, Types
      <4>3. maxSize[p] > 0 => totalSize(mem'[p]) <= maxSize'[p]
        BY <2>1, <4>1, <4>2, PutKeeps
      <4> QED
        BY <3>1, <4>2, <4>3 DEF LimitInv, WithinLimit
    <3>3. CASE Prune(p)
      <4>1. mem'[p] = ExpireAndEvict(p) /\ maxSize' = maxSize
        BY <2>1, <3>3 DEF Prune, Types
      <4>2. maxSize[p] > 0 => totalSize(mem'[p]) <= maxSize'[p]
        BY <2>1, <4>1, PruneKeeps
      <4> QED
        BY <3>1, <4>1, <4>2 DEF LimitInv, WithinLimit
    <3>4. CASE ~(PutIndex(p) \/ Prune(p))
      <4>1. pc'[p] # "save" \/ op'[p].kind \in {"miss", "hit", "delete"}
        BY <2>1, <2>3, <3>4, RoomMade
      <4> QED
        BY <3>1, <4>1 DEF LimitInv, WithinLimit
    <3> QED
      BY <3>2, <3>3, <3>4
  <2>4. ASSUME runCacheClear \/ pruneCache PROVE WithinLimit'
    <3>1. mem' = mem /\ maxSize' = maxSize /\ pc' = pc /\ op' = op
      BY <2>4, CommandStep
    <3> QED
      BY <2>2, <3>1
  <2>5. ASSUME Tick \/ UNCHANGED vars PROVE WithinLimit'
    <3>1. mem' = mem /\ maxSize' = maxSize /\ pc' = pc /\ op' = op
      BY <2>5 DEF Tick, vars
    <3> QED
      BY <2>2, <3>1
  <2>6. WithinLimit'
    BY <2>3, <2>4, <2>5 DEF Next, Step
  <2> QED
    BY <2>1, <2>6 DEF LimitInv
<1> QED
  BY <1>1, <1>2, PTL DEF Spec, LimitInv
-----------------------------------------------------------------------------
\* What one process that has the directory to itself knows of its data files.

OneProcess == \A p, q \in Procs : p = q

\* The size of the file an index asks for under a key.
FileOf(idx, k) == IF k \in DOMAIN idx THEN idx[k].size ELSE NoFile

\* A key whose file is being replaced is in doubt; from the write on, the file is what
\* the entry will say or gone.
TruthInv ==
  /\ Types /\ IndexTruthful
  /\ \A p \in Procs : pc[p] \in {"write", "index"} => op[p].key \in hurt
  /\ \A p \in Procs : pc[p] = "index" => files[op[p].key] \in {NoFile, op[p].size}
  /\ \A p \in Procs : pc[p] = "save" /\ op[p].kind = "put" /\ op[p].key \in DOMAIN mem[p] =>
       files[op[p].key] \in {NoFile, mem[p][op[p].key].size}

\* As long as nothing fails, the data files are what memory says but for the key of a Put
\* under way, and the index file is memory up to the entry.
CleanInv ==
  /\ Types /\ clean \in BOOLEAN
  /\ \A p \in Procs : clean =>
       /\ pc[p] # "down" /\ dataDir
       /\ pc[p] # "save" => indexFile = mem[p]
       /\ \A k \in Keys : (pc[p] \in {"write", "index"} => k # op[p].key) => files[k] = FileOf(mem[p], k)
       /\ pc[p] = "write" => files[op[p].key] = NoFile
       /\ pc[p] = "index" => files[op[p].key] = op[p].size

\* What each step does to an index, an index file and the files.
LEMMA PutIndexEffect ==
  ASSUME Types, NEW p \in Procs, PutIndex(p)
  PROVE  \E kept \in Index, evicted \in SUBSET Keys :
           /\ mem' = [mem EXCEPT ![p] = kept] /\ evicted \cap DOMAIN kept = {}
           /\ DOMAIN mem[p] \cup {op[p].key} = DOMAIN kept \cup evicted
           /\ Taken(evicted)
           /\ hurt' = hurt \ {j \in evicted : files'[j] = NoFile}
           /\ op[p].key \in DOMAIN kept => kept[op[p].key].size = op[p].size
           /\ \A k \in DOMAIN kept \ {op[p].key} : kept[k] = mem[p][k]
<1> DEFINE full == With(mem[p], op[p].key, NewEntry(p))
           kept == AddAndEvict(p)
           evicted == DOMAIN full \ DOMAIN kept
<1>1. op[p].key \in Keys
  BY DEF Types, PutIndex
<1>2. /\ full \in Index /\ DOMAIN full = DOMAIN mem[p] \cup {op[p].key}
      /\ full[op[p].key] = NewEntry(p)
      /\ \A k \in DOMAIN mem[p] \ {op[p].key} : full[k] = mem[p][k]
      /\ kept \in Index /\ DOMAIN kept \subseteq DOMAIN full
      /\ \A k \in DOMAIN kept : kept[k] = full[k]
  BY <1>1, PutKeeps
<1>3. /\ mem' = [mem EXCEPT ![p] = kept] /\ TryRemove(evicted)
      /\ hurt' = hurt \ {j \in evicted : files'[j] = NoFile}
  BY DEF PutIndex, EvictedFiles
<1>4. Taken(evicted)
  BY <1>3, TryRemoveTaken
<1>5. NewEntry(p).size = op[p].size
  BY DEF NewEntry
<1> HIDE DEF full, kept
<1>6. evicted \in SUBSET Keys
  BY <1>2, IndexShape
<1>7. evicted \cap DOMAIN kept = {} /\ DOMAIN mem[p] \cup {op[p].key} = DOMAIN kept \cup evicted
  BY <1>2
<1>8. op[p].key \in DOMAIN kept => kept[op[p].key].size = op[p].size
  BY <1>2, <1>5
<1>9. \A k \in DOMAIN kept \ {op[p].key} : kept[k] = mem[p][k]
  BY <1>2
<1> HIDE DEF evicted
<1> QED
  BY <1>2, <1>3, <1>4, <1>6, <1>7, <1>8, <1>9

\* A Get that misses, a Delete and a Prune take entries out of the index, and their files
\* unless those cannot be removed.
LEMMA RemovalEffect ==
  ASSUME Types, NEW p \in Procs,
         \/ \E k \in Keys : GetMiss(p, k) \/ Delete(p, k)
         \/ Prune(p)
  PROVE  \E kept \in Index, gone \in SUBSET Keys :
           /\ mem' = [mem EXCEPT ![p] = kept] /\ gone = DOMAIN mem[p] \ DOMAIN kept
           /\ DOMAIN kept \subseteq DOMAIN mem[p] /\ \A k \in DOMAIN kept : kept[k] = mem[p][k]
           /\ Taken(gone)
           /\ pc[p] = "idle" /\ pc' = [pc EXCEPT ![p] = "save"] /\ op'[p].kind # "put"
           /\ UNCHANGED <<now, dataDir, indexFile, maxSize, hurt>>
<1>0. mem[p] \in Index /\ DOMAIN mem[p] \subseteq Keys
  BY IndexShape DEF Types
<1>1. ASSUME NEW k \in Keys, GetMiss(p, k) \/ Delete(p, k)
      PROVE  /\ k \in DOMAIN mem[p] /\ mem' = [mem EXCEPT ![p] = Without(mem[p], {k})]
             /\ TryRemove({k}) \/ (RemoveFiles({k}) /\ UNCHANGED clean)
             /\ pc[p] = "idle" /\ pc' = [pc EXCEPT ![p] = "save"] /\ op'[p].kind # "put"
             /\ UNCHANGED <<now, dataDir, indexFile, maxSize, hurt>>
  BY ZenonT(30), <1>1 DEF GetMiss, Delete, Idle, Goto, Types, NoOp
<1>2. ASSUME NEW k \in Keys, GetMiss(p, k) \/ Delete(p, k)
      PROVE  /\ Without(mem[p], {k}) \in Index /\ {k} \in SUBSET Keys
             /\ {k} = DOMAIN mem[p] \ DOMAIN Without(mem[p], {k})
             /\ DOMAIN Without(mem[p], {k}) \subseteq DOMAIN mem[p]
             /\ \A j \in DOMAIN Without(mem[p], {k}) : Without(mem[p], {k})[j] = mem[p][j]
             /\ Taken({k})
  <2>1. k \in DOMAIN mem[p] /\ (TryRemove({k}) \/ (RemoveFiles({k}) /\ UNCHANGED clean))
    BY <1>1, <1>2
  <2>2. Taken({k})
    BY <2>1, TryRemoveTaken, RemoveTaken
  <2>3. /\ Without(mem[p], {k}) \in Index
        /\ DOMAIN Without(mem[p], {k}) = DOMAIN mem[p] \ {k}
        /\ \A j \in DOMAIN mem[p] \ {k} : Without(mem[p], {k})[j] = mem[p][j]
    BY <1>0, WithoutKeys
  <2> QED
    BY <2>1, <2>2, <2>3
<1>3. ASSUME Prune(p)
      PROVE  /\ ExpireAndEvict(p) \in Index
             /\ DOMAIN mem[p] \ DOMAIN ExpireAndEvict(p) \in SUBSET Keys
             /\ DOMAIN ExpireAndEvict(p) \subseteq DOMAIN mem[p]
             /\ \A k \in DOMAIN ExpireAndEvict(p) : ExpireAndEvict(p)[k] = mem[p][k]
             /\ mem' = [mem EXCEPT ![p] = ExpireAndEvict(p)]
             /\ Taken(DOMAIN mem[p] \ DOMAIN ExpireAndEvict(p))
             /\ pc[p] = "idle" /\ pc' = [pc EXCEPT ![p] = "save"] /\ op'[p].kind # "put"
             /\ UNCHANGED <<now, dataDir, indexFile, maxSize, hurt>>
  <2>1. /\ ExpireAndEvict(p) \in Index
        /\ DOMAIN ExpireAndEvict(p) \subseteq DOMAIN mem[p]
        /\ \A k \in DOMAIN ExpireAndEvict(p) : ExpireAndEvict(p)[k] = mem[p][k]
    BY PruneKeeps
  <2>2. TryRemove(DOMAIN mem[p] \ DOMAIN ExpireAndEvict(p))
    BY <1>3 DEF Prune, EvictedFiles
  <2>3. Taken(DOMAIN mem[p] \ DOMAIN ExpireAndEvict(p))
    BY <2>2, TryRemoveTaken
  <2>4. /\ mem' = [mem EXCEPT ![p] = ExpireAndEvict(p)]
        /\ pc[p] = "idle" /\ pc' = [pc EXCEPT ![p] = "save"] /\ op'[p].kind # "put"
        /\ UNCHANGED <<now, dataDir, indexFile, maxSize, hurt>>
    BY <1>3 DEF Prune, Idle, Goto, Types, NoOp
  <2> QED
    BY <1>0, <2>1, <2>3, <2>4
<1>4. ASSUME NEW k \in Keys, GetMiss(p, k) \/ Delete(p, k)
      PROVE  \E kept \in Index, gone \in SUBSET Keys :
               /\ mem' = [mem EXCEPT ![p] = kept] /\ gone = DOMAIN mem[p] \ DOMAIN kept
               /\ DOMAIN kept \subseteq DOMAIN mem[p] /\ \A j \in DOMAIN kept : kept[j] = mem[p][j]
               /\ Taken(gone)
               /\ pc[p] = "idle" /\ pc' = [pc EXCEPT ![p] = "save"] /\ op'[p].kind # "put"
               /\ UNCHANGED <<now, dataDir, indexFile, maxSize, hurt>>
  <2> DEFINE kept == Without(mem[p], {k})
  <2>1. /\ kept \in Index /\ {k} \in SUBSET Keys
        /\ mem' = [mem EXCEPT ![p] = kept] /\ {k} = DOMAIN mem[p] \ DOMAIN kept
        /\ DOMAIN kept \subseteq DOMAIN mem[p] /\ \A j \in DOMAIN kept : kept[j] = mem[p][j]
        /\ Taken({k})
    BY <1>1, <1>2, <1>4
  <2>2. /\ pc[p] = "idle" /\ pc' = [pc EXCEPT ![p] = "save"] /\ op'[p].kind # "put"
        /\ UNCHANGED <<now, dataDir, indexFile, maxSize, hurt>>
    BY <1>1, <1>4
  <2> HIDE DEF kept
  <2> QED
    BY <2>1, <2>2
<1> QED
  BY <1>3, <1>4

\* A hit touches no file and no size.
LEMMA HitEffect ==
  ASSUME Types, NEW p \in Procs, NEW k \in Keys, GetHit(p, k)
  PROVE  \E kept \in Index :
           /\ mem' = [mem EXCEPT ![p] = kept] /\ DOMAIN kept = DOMAIN mem[p]
           /\ \A j \in DOMAIN kept : kept[j].size = mem[p][j].size
           /\ pc[p] = "idle" /\ pc' = [pc EXCEPT ![p] = "save"] /\ op'[p].kind # "put"
           /\ UNCHANGED <<clean, files, dataDir, indexFile, maxSize, hurt>>
<1> DEFINE kept == [mem[p] EXCEPT ![k].used = now]
<1>1. mem[p] \in Index /\ k \in DOMAIN mem[p] /\ now \in Nat
  BY DEF Types, GetHit
<1>2. kept \in Index /\ DOMAIN kept = DOMAIN mem[p] /\ \A j \in DOMAIN kept : kept[j].size = mem[p][j].size
  <2>1. PICK new : new = kept
    OBVIOUS
  <2>2. new \in Index /\ DOMAIN new = DOMAIN mem[p] /\ \A j \in DOMAIN mem[p] : new[j].size = mem[p][j].size
    BY <1>1, <2>1, UsedNow
  <2> QED
    BY <2>1, <2>2
<1>3. mem' = [mem EXCEPT ![p] = kept]
  BY DEF GetHit
<1>4. /\ pc[p] = "idle" /\ pc' = [pc EXCEPT ![p] = "save"] /\ op'[p].kind # "put"
      /\ UNCHANGED <<clean, files, dataDir, indexFile, maxSize, hurt>>
  BY DEF GetHit, Idle, Goto, Types, NoOp
<1> HIDE DEF kept
<1> QED
  BY <1>2, <1>3, <1>4

\* PutBegin takes the old file away and puts its key in doubt.
LEMMA PutBeginEffect ==
  ASSUME Types, NEW p \in Procs, NEW k \in Keys, NEW s \in Sizes, NEW t \in TTLs, PutBegin(p, k, s, t)
  PROVE  /\ pc[p] = "idle" /\ pc'[p] = "write" /\ op'[p].key = k /\ op'[p].size = s
         /\ Taken({k} \cap DOMAIN mem[p])
         /\ hurt' = hurt \cup {k} /\ UNCHANGED <<dataDir, indexFile, mem>>
<1>1. Taken({k} \cap DOMAIN mem[p])
  BY TryRemoveTaken DEF PutBegin
<1> QED
  BY <1>1 DEF PutBegin, Idle, Goto, Types

\* As long as one process has the directory to itself, an index tells the truth about
\* every file whose Put was not cut short (Put, Get, Delete, Prune, saveIndex, a crash, the
\* cache commands).
THEOREM IndexStaysTruthful == ASSUME OneProcess PROVE Spec => []IndexTruthful
<1>1. Init => TruthInv
  BY InitTypes, EmptyIndex DEF Init, TruthInv, IndexTruthful, Truthful
<1>2. TruthInv /\ [Next]_vars => TruthInv'
  <2> SUFFICES ASSUME TruthInv, [Next]_vars PROVE TruthInv'
    OBVIOUS
  <2>0. Types /\ Types'
    BY NextTypes DEF TruthInv
  <2>1. ASSUME NEW p \in Procs, Step(p) PROVE TruthInv'
    <3>0. Procs = {p}
      BY DEF OneProcess
    <3>1. ASSUME NEW k \in Keys, NEW s \in Sizes, NEW t \in TTLs, PutBegin(p, k, s, t)
          PROVE  TruthInv'
      <4>1. /\ pc'[p] = "write" /\ op'[p].key = k /\ hurt' = hurt \cup {k} /\ UNCHANGED <<indexFile, mem>>
            /\ \A j \in Keys : files'[j] = NoFile \/ files'[j] = files[j]
        BY <2>0, <3>1, PutBeginEffect DEF Taken
      <4>2. DOMAIN indexFile \subseteq Keys /\ DOMAIN mem[p] \subseteq Keys
        BY <2>0, IndexShape DEF Types
      <4>3. IndexTruthful'
        BY <3>0, <4>1, <4>2 DEF TruthInv, IndexTruthful, Truthful
      <4> QED
        BY <2>0, <3>0, <4>1, <4>3 DEF TruthInv
    <3>2. CASE PutWrite(p)
      <4>1. op[p].key \in Keys /\ op[p].key \in hurt /\ UNCHANGED <<indexFile, mem, hurt>>
        BY <2>0, <3>2 DEF PutWrite, Types, TruthInv
      <4>2. \A k \in Keys \ {op[p].key} : files'[k] = files[k]
        BY <2>0, <3>2 DEF PutWrite, Types
      <4>3. DOMAIN indexFile \subseteq Keys /\ DOMAIN mem[p] \subseteq Keys
        BY <2>0, IndexShape DEF Types
      <4>4. IndexTruthful'
        BY <3>0, <4>1, <4>2, <4>3 DEF TruthInv, IndexTruthful, Truthful
      <4>5. \/ pc'[p] = "index" /\ op' = op /\ files'[op[p].key] = op[p].size
            \/ pc'[p] = "idle"
        BY <2>0, <3>2, <4>1 DEF PutWrite, Goto, Return, Types
      <4> QED
        BY <2>0, <3>0, <4>1, <4>4, <4>5 DEF TruthInv
    <3>3. CASE PutIndex(p)
      <4>1. PICK kept \in Index, evicted \in SUBSET Keys :
              /\ mem' = [mem EXCEPT ![p] = kept] /\ evicted \cap DOMAIN kept = {}
              /\ DOMAIN mem[p] \cup {op[p].key} = DOMAIN kept \cup evicted
              /\ Taken(evicted)
              /\ hurt' = hurt \ {j \in evicted : files'[j] = NoFile}
              /\ op[p].key \in DOMAIN kept => kept[op[p].key].size = op[p].size
              /\ \A k \in DOMAIN kept \ {op[p].key} : kept[k] = mem[p][k]
        BY <2>0, <3>3, PutIndexEffect
      <4>2. /\ pc[p] = "index" /\ pc'[p] = "save" /\ op' = op /\ UNCHANGED indexFile
            /\ mem'[p] = kept /\ op[p].key \in Keys
        BY <2>0, <3>3, <4>1 DEF PutIndex, Goto, Types
      <4>3. files[op[p].key] \in {NoFile, op[p].size} /\ op[p].key \in hurt
        BY <4>2 DEF TruthInv
      <4>4. DOMAIN indexFile \subseteq Keys /\ DOMAIN kept \subseteq Keys /\ DOMAIN mem[p] \subseteq Keys
        BY <2>0, IndexShape DEF Types
      <4>5. Truthful(indexFile)'
        <5> SUFFICES ASSUME NEW k \in DOMAIN indexFile \ hurt'
                     PROVE  files'[k] \in {NoFile, indexFile[k].size}
          BY <4>2 DEF Truthful
        <5>1. k \in Keys /\ files'[k] \in {NoFile, files[k]} /\ (k \in hurt => files'[k] = NoFile)
          BY <4>1, <4>4 DEF Taken
        <5> QED
          BY <5>1 DEF TruthInv, IndexTruthful, Truthful
      <4>6. \A k \in DOMAIN kept \ hurt' : files'[k] \in {NoFile, kept[k].size}
        <5> SUFFICES ASSUME NEW k \in DOMAIN kept \ hurt' PROVE files'[k] \in {NoFile, kept[k].size}
          OBVIOUS
        <5>1. k \notin evicted /\ k \notin hurt /\ files'[k] = files[k]
          BY <4>1, <4>4 DEF Taken
        <5>2. k # op[p].key
          BY <4>3, <5>1
        <5>3. kept[k] = mem[p][k] /\ k \in DOMAIN mem[p]
          BY <4>1, <5>1, <5>2
        <5> QED
          BY <5>1, <5>3 DEF TruthInv, IndexTruthful, Truthful
      <4>7. op[p].key \in DOMAIN kept => files'[op[p].key] \in {NoFile, kept[op[p].key].size}
        BY <4>1, <4>2, <4>3 DEF Taken
      <4> QED
        BY <2>0, <3>0, <4>2, <4>5, <4>6, <4>7 DEF TruthInv, IndexTruthful, Truthful
    <3>4. CASE Save(p)
      <4>1. pc[p] = "save" /\ pc'[p] = "idle" /\ UNCHANGED <<mem, files>>
        BY <2>0, <3>4 DEF Save, Goto, Return, Types
      <4>2. \/ /\ indexFile' = mem[p]
               /\ hurt' = IF op[p].kind = "put" THEN hurt \ {op[p].key} ELSE hurt
            \/ UNCHANGED <<indexFile, hurt>>
        BY <3>4 DEF Save
      <4> QED
        BY <2>0, <3>0, <4>1, <4>2 DEF TruthInv, IndexTruthful, Truthful
    <3>5. CASE (\E k \in Keys : GetMiss(p, k) \/ Delete(p, k)) \/ Prune(p)
      <4>1. PICK kept \in Index, gone \in SUBSET Keys :
              /\ mem' = [mem EXCEPT ![p] = kept] /\ gone = DOMAIN mem[p] \ DOMAIN kept
              /\ DOMAIN kept \subseteq DOMAIN mem[p] /\ \A k \in DOMAIN kept : kept[k] = mem[p][k]
              /\ Taken(gone)
              /\ pc[p] = "idle" /\ pc' = [pc EXCEPT ![p] = "save"] /\ op'[p].kind # "put"
              /\ UNCHANGED <<now, dataDir, indexFile, maxSize, hurt>>
        BY <2>0, <3>5, RemovalEffect
      <4>2. mem'[p] = kept /\ pc'[p] = "save"
        BY <2>0, <4>1 DEF Types
      <4>3. DOMAIN indexFile \subseteq Keys /\ DOMAIN mem[p] \subseteq Keys
        BY <2>0, IndexShape DEF Types
      <4> QED
        BY <2>0, <3>0, <4>1, <4>2, <4>3 DEF TruthInv, IndexTruthful, Truthful, Taken
    <3>6. ASSUME NEW k \in Keys, GetHit(p, k) PROVE TruthInv'
      <4>1. PICK kept \in Index :
              /\ mem' = [mem EXCEPT ![p] = kept] /\ DOMAIN kept = DOMAIN mem[p]
              /\ \A j \in DOMAIN kept : kept[j].size = mem[p][j].size
              /\ pc[p] = "idle" /\ pc' = [pc EXCEPT ![p] = "save"] /\ op'[p].kind # "put"
              /\ UNCHANGED <<clean, files, dataDir, indexFile, maxSize, hurt>>
        BY <2>0, <3>6, HitEffect
      <4>2. mem'[p] = kept /\ pc'[p] = "save"
        BY <2>0, <4>1 DEF Types
      <4> QED
        BY <2>0, <3>0, <4>1, <4>2 DEF TruthInv, IndexTruthful, Truthful
    <3>7. CASE Crash(p)
      <4>1. pc'[p] = "down" /\ mem'[p] = Empty /\ UNCHANGED <<indexFile, hurt>>
        BY <2>0, <3>7 DEF Crash, Goto, Types
      <4>2. \A k \in Keys \ hurt : files'[k] = files[k]
        BY <2>0, <3>7 DEF Crash, Types, TruthInv
      <4>3. DOMAIN indexFile \subseteq Keys
        BY <2>0, IndexShape DEF Types
      <4> QED
        BY <2>0, <3>0, <4>1, <4>2, <4>3, EmptyIndex DEF TruthInv, IndexTruthful, Truthful
    <3>8. CASE NewLocalCache(p)
      <4>1. pc'[p] = "idle" /\ mem'[p] = indexFile /\ UNCHANGED <<indexFile, files, hurt>>
        BY <2>0, <3>8 DEF NewLocalCache, Goto, Return, Types
      <4> QED
        BY <2>0, <3>0, <4>1 DEF TruthInv, IndexTruthful, Truthful
    <3> QED
      BY <2>1, <3>1, <3>2, <3>3, <3>4, <3>5, <3>6, <3>7, <3>8 DEF Step
  <2>2. ASSUME runCacheClear \/ pruneCache PROVE TruthInv'
    <3>1. PICK K \in SUBSET Keys :
            /\ RemoveFiles(K) /\ indexFile' \in {indexFile, Empty} /\ clean' = FALSE
            /\ UNCHANGED <<now, mem, maxSize, pc, op, hurt>>
      BY <2>2, CommandStep
    <3>2. \A k \in Keys : files'[k] = IF k \in K THEN NoFile ELSE files[k]
      BY <2>0, <3>1, RemoveFilesType
    <3>3. DOMAIN indexFile \subseteq Keys /\ \A p \in Procs : DOMAIN mem[p] \subseteq Keys
      BY <2>0, IndexShape DEF Types
    <3>4. IndexTruthful'
      BY <3>1, <3>2, <3>3, EmptyIndex DEF TruthInv, IndexTruthful, Truthful
    <3> QED
      BY <2>0, <3>1, <3>2, <3>3, <3>4 DEF TruthInv, Types
  <2>3. ASSUME Tick \/ UNCHANGED vars PROVE TruthInv'
    BY <2>0, <2>3 DEF Tick, vars, TruthInv, IndexTruthful, Truthful
  <2> QED
    BY <2>1, <2>2, <2>3 DEF Next, Step
<1> QED
  BY <1>1, <1>2, PTL DEF Spec, TruthInv

\* As long as nothing fails and one process has the directory to itself, its memory, the
\* index file and the data files agree between operations (the same code).
THEOREM StoresStayInAgreement == ASSUME OneProcess PROVE Spec => []StoresAgree
<1>1. Init => CleanInv
  BY InitTypes, EmptyIndex DEF Init, CleanInv, FileOf
<1>2. CleanInv /\ [Next]_vars => CleanInv'
  <2> SUFFICES ASSUME CleanInv, [Next]_vars PROVE CleanInv'
    OBVIOUS
  <2>0. Types /\ Types'
    BY NextTypes DEF CleanInv
  <2>1. ASSUME NEW p \in Procs, Step(p) PROVE CleanInv'
    <3>0. Procs = {p}
      BY DEF OneProcess
    <3>1. ASSUME NEW k \in Keys, NEW s \in Sizes, NEW t \in TTLs, PutBegin(p, k, s, t)
          PROVE  CleanInv'
      <4>1. /\ pc[p] = "idle" /\ pc'[p] = "write" /\ op'[p].key = k
            /\ Taken({k} \cap DOMAIN mem[p]) /\ UNCHANGED <<dataDir, indexFile, mem>>
        BY <2>0, <3>1, PutBeginEffect
      <4>2. clean' \in BOOLEAN
        BY <4>1 DEF CleanInv, Taken
      <4>3. ASSUME clean' PROVE /\ dataDir /\ indexFile = mem[p] /\ files'[k] = NoFile
                               /\ \A j \in Keys \ {k} : files'[j] = FileOf(mem[p], j)
        <5>1. clean /\ \A j \in Keys : files'[j] = IF j \in {k} \cap DOMAIN mem[p] THEN NoFile ELSE files[j]
          BY <4>1, <4>3 DEF Taken
        <5>2. dataDir /\ indexFile = mem[p] /\ \A j \in Keys : files[j] = FileOf(mem[p], j)
          BY <4>1, <5>1 DEF CleanInv
        <5> QED
          BY <5>1, <5>2 DEF FileOf
      <4> QED
        BY <2>0, <3>0, <4>1, <4>2, <4>3 DEF CleanInv
    <3>2. CASE PutWrite(p)
      <4>1. /\ op[p].key \in Keys /\ pc[p] = "write" /\ UNCHANGED <<indexFile, mem, dataDir>>
            /\ \/ /\ clean' = clean /\ pc'[p] = "index" /\ op' = op
                  /\ files' = [files EXCEPT ![op[p].key] = op[p].size]
               \/ clean' = FALSE
        BY <2>0, <3>2 DEF PutWrite, Types, Goto
      <4>2. CASE clean' = FALSE
        BY <2>0, <4>2 DEF CleanInv
      <4>3. CASE /\ clean' = clean /\ pc'[p] = "index" /\ op' = op
                 /\ files' = [files EXCEPT ![op[p].key] = op[p].size]
        <5>1. files'[op[p].key] = op[p].size /\ \A k \in Keys \ {op[p].key} : files'[k] = files[k]
          BY <2>0, <4>1, <4>3 DEF Types
        <5> QED
          BY <2>0, <3>0, <4>1, <4>3, <5>1 DEF CleanInv
      <4> QED
        BY <4>1, <4>2, <4>3
    <3>3. CASE PutIndex(p)
      <4>1. PICK kept \in Index, evicted \in SUBSET Keys :
              /\ mem' = [mem EXCEPT ![p] = kept] /\ evicted \cap DOMAIN kept = {}
              /\ DOMAIN mem[p] \cup {op[p].key} = DOMAIN kept \cup evicted
              /\ Taken(evicted)
              /\ hurt' = hurt \ {j \in evicted : files'[j] = NoFile}
              /\ op[p].key \in DOMAIN kept => kept[op[p].key].size = op[p].size
              /\ \A k \in DOMAIN kept \ {op[p].key} : kept[k] = mem[p][k]
        BY <2>0, <3>3, PutIndexEffect
      <4>2. /\ pc[p] = "index" /\ pc'[p] = "save" /\ mem'[p] = kept /\ UNCHANGED dataDir
        BY <2>0, <3>3, <4>1 DEF PutIndex, Goto, Types
      <4>0. clean' => clean /\ \A k \in Keys : files'[k] = IF k \in evicted THEN NoFile ELSE files[k]
        BY <4>1 DEF Taken
      <4>3. ASSUME clean', NEW k \in Keys PROVE files'[k] = FileOf(kept, k)
        <5>1. CASE k \in evicted
          BY <4>0, <4>1, <4>3, <5>1 DEF FileOf
        <5>2. CASE k \notin evicted /\ k = op[p].key
          BY <4>0, <4>1, <4>2, <4>3, <5>2 DEF CleanInv, FileOf
        <5>3. CASE k \notin evicted /\ k # op[p].key
          <6>1. files'[k] = files[k] /\ files[k] = FileOf(mem[p], k)
            BY <4>0, <4>1, <4>2, <4>3, <5>3 DEF CleanInv
          <6>2. k \in DOMAIN kept <=> k \in DOMAIN mem[p]
            BY <4>1, <5>3
          <6> QED
            BY <4>1, <5>3, <6>1, <6>2 DEF FileOf
        <5> QED
          BY <5>1, <5>2, <5>3
      <4>4. clean' \in BOOLEAN
        BY <4>1 DEF CleanInv, Taken
      <4> QED
        BY <2>0, <3>0, <4>0, <4>2, <4>3, <4>4 DEF CleanInv
    <3>4. CASE Save(p)
      <4>1. /\ pc[p] = "save" /\ pc'[p] = "idle" /\ UNCHANGED <<mem, files, dataDir>>
            /\ clean' = FALSE \/ (clean' = clean /\ indexFile' = mem[p])
        BY <2>0, <3>4 DEF Save, Goto, Return, Types
      <4>2. CASE clean' = FALSE
        BY <2>0, <4>2 DEF CleanInv
      <4>3. CASE clean' = clean /\ indexFile' = mem[p]
        BY <2>0, <3>0, <4>1, <4>3 DEF CleanInv
      <4> QED
        BY <4>1, <4>2, <4>3
    <3>5. CASE (\E k \in Keys : GetMiss(p, k) \/ Delete(p, k)) \/ Prune(p)
      <4>1. PICK kept \in Index, gone \in SUBSET Keys :
              /\ mem' = [mem EXCEPT ![p] = kept] /\ gone = DOMAIN mem[p] \ DOMAIN kept
              /\ DOMAIN kept \subseteq DOMAIN mem[p] /\ \A k \in DOMAIN kept : kept[k] = mem[p][k]
              /\ Taken(gone)
              /\ pc[p] = "idle" /\ pc' = [pc EXCEPT ![p] = "save"] /\ op'[p].kind # "put"
              /\ UNCHANGED <<now, dataDir, indexFile, maxSize, hurt>>
        BY <2>0, <3>5, RemovalEffect
      <4>2. mem'[p] = kept /\ pc'[p] = "save"
        BY <2>0, <4>1 DEF Types
      <4>3. clean' \in BOOLEAN /\ (clean' => clean)
        BY <4>1 DEF CleanInv, Taken
      <4>4. clean' => \A k \in Keys : files'[k] = FileOf(kept, k)
        BY <4>1 DEF CleanInv, FileOf, Taken
      <4> QED
        BY <2>0, <3>0, <4>1, <4>2, <4>3, <4>4 DEF CleanInv
    <3>6. ASSUME NEW k \in Keys, GetHit(p, k) PROVE CleanInv'
      <4>1. PICK kept \in Index :
              /\ mem' = [mem EXCEPT ![p] = kept] /\ DOMAIN kept = DOMAIN mem[p]
              /\ \A j \in DOMAIN kept : kept[j].size = mem[p][j].size
              /\ pc[p] = "idle" /\ pc' = [pc EXCEPT ![p] = "save"] /\ op'[p].kind # "put"
              /\ UNCHANGED <<clean, files, dataDir, indexFile, maxSize, hurt>>
        BY <2>0, <3>6, HitEffect
      <4>2. mem'[p] = kept /\ pc'[p] = "save"
        BY <2>0, <4>1 DEF Types
      <4>3. clean => \A j \in Keys : files'[j] = FileOf(kept, j)
        BY <4>1 DEF CleanInv, FileOf
      <4> QED
        BY <2>0, <3>0, <4>1, <4>2, <4>3 DEF CleanInv
    <3>7. CASE Crash(p)
      BY <2>0, <3>7 DEF Crash, CleanInv
    <3>8. CASE NewLocalCache(p)
      <4>1. pc[p] = "down" /\ clean' = clean
        BY <3>8 DEF NewLocalCache
      <4> QED
        BY <2>0, <4>1 DEF CleanInv
    <3> QED
      BY <2>1, <3>1, <3>2, <3>3, <3>4, <3>5, <3>6, <3>7, <3>8 DEF Step
  <2>2. ASSUME runCacheClear \/ pruneCache PROVE CleanInv'
    <3>1. clean' = FALSE
      BY <2>2, CommandStep
    <3> QED
      BY <2>0, <3>1 DEF CleanInv
  <2>3. ASSUME Tick \/ UNCHANGED vars PROVE CleanInv'
    BY <2>0, <2>3 DEF Tick, vars, CleanInv
  <2> QED
    BY <2>1, <2>2, <2>3 DEF Next, Step
<1>3. CleanInv => StoresAgree
  BY DEF CleanInv, StoresAgree, Idle, FileOf
<1> QED
  BY <1>1, <1>2, <1>3, PTL DEF Spec

-----------------------------------------------------------------------------
\* The sum of the sizes.  totalSize folds over the entries in an order of its own; what
\* eviction needs is that an entry contributes its size.

Rest(s) == s \ {CHOOSE x \in s : TRUE}

\* g adds up the sizes of every set of entries within T.
AddsUp(idx, T, g) ==
  g = [s \in SUBSET T |-> IF s = {} THEN 0 ELSE idx[CHOOSE x \in s : TRUE].size + g[Rest(s)]]

SumOf(idx, T) == (CHOOSE g : AddsUp(idx, T, g))[T]

LEMMA TotalIsSum ==
  ASSUME NEW idx
  PROVE  totalSize(idx) = SumOf(idx, DOMAIN idx)
  BY DEF totalSize, MapThenSumSet, MapThenFoldSet, SumOf, AddsUp, Rest

\* A set that is not empty loses one element.
LEMMA RestSmaller ==
  ASSUME NEW s, IsFiniteSet(s), s # {}
  PROVE  /\ (CHOOSE x \in s : TRUE) \in s
         /\ Rest(s) \subseteq s /\ IsFiniteSet(Rest(s))
         /\ Cardinality(Rest(s)) \in Nat /\ Cardinality(s) \in Nat /\ Cardinality(Rest(s)) < Cardinality(s)
<1>1. (CHOOSE x \in s : TRUE) \in s
  OBVIOUS
<1>2. Rest(s) \subseteq s /\ Rest(s) # s
  BY <1>1 DEF Rest
<1> QED
  BY <1>1, <1>2, FS_Subset, FS_CardinalityType

\* A finite set of smallest size among those with a property, if there are any.
LEMMA SmallestSet ==
  ASSUME NEW D, IsFiniteSet(D), NEW B \in SUBSET (SUBSET D), B # {}
  PROVE  \E s \in B : \A t \in SUBSET D : Cardinality(t) < Cardinality(s) => t \notin B
<1> DEFINE N == {Cardinality(s) : s \in B}
<1>1. \A s \in SUBSET D : Cardinality(s) \in Nat
  BY FS_Subset, FS_CardinalityType
<1>2. N \in SUBSET Nat /\ N # {}
  BY <1>1
<1>3. Min(N) \in N /\ \A y \in N : Min(N) <= y
  BY <1>2, MinNat
<1>4. PICK s \in B : Cardinality(s) = Min(N)
  BY <1>3
<1>5. ASSUME NEW t \in SUBSET D, Cardinality(t) < Cardinality(s)
      PROVE  t \notin B
  <2>1. t \in B => Cardinality(t) \in N
    OBVIOUS
  <2>2. Cardinality(t) \in Nat /\ Cardinality(s) \in Nat
    BY <1>1
  <2> HIDE DEF N
  <2> QED
    BY <1>3, <1>4, <1>5, <2>1, <2>2
<1> QED
  BY <1>5

\* Two such functions agree where both are defined.
LEMMA SumUnique ==
  ASSUME NEW idx, NEW T, IsFiniteSet(T), NEW U, NEW g, NEW h, AddsUp(idx, T, g), AddsUp(idx, U, h),
         NEW s, s \subseteq T, s \subseteq U
  PROVE  g[s] = h[s]
<1> DEFINE D == T \cap U
           B == {t \in SUBSET D : g[t] # h[t]}
<1>1. IsFiniteSet(D)
  BY FS_Subset
<1>2. SUFFICES ASSUME B # {} PROVE FALSE
  OBVIOUS
<1>3. PICK t \in B : \A u \in SUBSET D : Cardinality(u) < Cardinality(t) => u \notin B
  <2>1. B \in SUBSET (SUBSET D)
    OBVIOUS
  <2> HIDE DEF B, D
  <2> QED
    BY <1>1, <1>2, <2>1, SmallestSet
<1>4. IsFiniteSet(t)
  BY <1>1, FS_Subset
<1>5. /\ g[t] = IF t = {} THEN 0 ELSE idx[CHOOSE x \in t : TRUE].size + g[Rest(t)]
      /\ h[t] = IF t = {} THEN 0 ELSE idx[CHOOSE x \in t : TRUE].size + h[Rest(t)]
  <2>1. t \in SUBSET T /\ t \in SUBSET U
    OBVIOUS
  <2> QED
    BY <2>1 DEF AddsUp
<1>6. t # {}
  BY <1>5
<1>7. Rest(t) \in SUBSET D /\ Cardinality(Rest(t)) < Cardinality(t)
  BY <1>4, <1>6, RestSmaller
<1>8. g[Rest(t)] = h[Rest(t)]
  BY <1>3, <1>7
<1> QED
  BY <1>5, <1>6, <1>8

LEMMA SumExists ==
  ASSUME NEW idx, NEW D, IsFiniteSet(D), NEW T \in SUBSET D
  PROVE  \E g : AddsUp(idx, T, g)
<1> DEFINE B == {t \in SUBSET D : ~\E g : AddsUp(idx, t, g)}
<1>1. SUFFICES ASSUME B # {} PROVE FALSE
  OBVIOUS
<1>2. PICK t \in B : \A u \in SUBSET D : Cardinality(u) < Cardinality(t) => u \notin B
  <2>1. B \in SUBSET (SUBSET D)
    OBVIOUS
  <2> HIDE DEF B
  <2> QED
    BY <1>1, <2>1, SmallestSet
<1> DEFINE V(s) == SumOf(idx, s)
           first(s) == CHOOSE x \in s : TRUE
           g == [s \in SUBSET t |-> IF s = t THEN IF s = {} THEN 0 ELSE idx[first(s)].size + V(Rest(s))
                                             ELSE V(s)]
<1>3. IsFiniteSet(t) /\ \A s \in SUBSET t : IsFiniteSet(s)
  BY FS_Subset
<1>4. \A s \in SUBSET t : s # t => \E h : AddsUp(idx, s, h)
  <2> SUFFICES ASSUME NEW s \in SUBSET t, s # t PROVE \E h : AddsUp(idx, s, h)
    OBVIOUS
  <2>1. Cardinality(s) < Cardinality(t)
    <3>1. s \subseteq t /\ IsFiniteSet(t)
      BY <1>3
    <3>2. Cardinality(s) \in Nat /\ Cardinality(t) \in Nat
      BY <1>3, FS_CardinalityType
    <3> HIDE DEF B
    <3> QED
      BY <3>1, <3>2, FS_Subset
  <2> QED
    BY <1>2, <2>1
<1>5. ASSUME NEW s \in SUBSET t
      PROVE  g[s] = IF s = {} THEN 0 ELSE idx[first(s)].size + g[Rest(s)]
  <2>1. s # {} => Rest(s) \in SUBSET t /\ Rest(s) # t /\ Rest(s) \subseteq s /\ Rest(s) # s
    BY <1>3, RestSmaller
  <2>2. s # {} => g[Rest(s)] = V(Rest(s))
    BY <2>1
  <2>3. CASE s = t
    BY <2>2, <2>3
  <2>4. CASE s # t
    <3>1. g[s] = V(s)
      BY <2>4
    <3> DEFINE h == CHOOSE h : AddsUp(idx, s, h)
    <3>2. AddsUp(idx, s, h)
      BY <1>4, <2>4
    <3> HIDE DEF h
    <3>3. h[s] = IF s = {} THEN 0 ELSE idx[first(s)].size + h[Rest(s)]
      <4>1. s \in SUBSET s
        OBVIOUS
      <4> QED
        BY <3>2, <4>1 DEF AddsUp
    <3>4. V(s) = h[s]
      BY DEF h, SumOf
    <3>5. s # {} => h[Rest(s)] = V(Rest(s))
      <4> SUFFICES ASSUME s # {} PROVE h[Rest(s)] = V(Rest(s))
        OBVIOUS
      <4> DEFINE k == CHOOSE k : AddsUp(idx, Rest(s), k)
      <4>1. AddsUp(idx, Rest(s), k)
        BY <1>4, <2>1
      <4> HIDE DEF k
      <4>2. h[Rest(s)] = k[Rest(s)]
        BY <1>3, <2>1, <3>2, <4>1, SumUnique
      <4> QED
        BY <4>2 DEF k, SumOf
    <3> HIDE DEF g, V, first
    <3> QED
      BY <2>2, <3>1, <3>3, <3>4, <3>5
  <2> QED
    BY <2>3, <2>4
<1>6. AddsUp(idx, t, g)
  <2>1. g = [s \in SUBSET t |-> g[s]]
    OBVIOUS
  <2> HIDE DEF g
  <2> QED
    BY <1>5, <2>1 DEF AddsUp
<1> QED
  BY <1>2, <1>6

\* The recursion the sum satisfies.
LEMMA SumStep ==
  ASSUME NEW idx, NEW s, IsFiniteSet(s)
  PROVE  SumOf(idx, s) = IF s = {} THEN 0 ELSE idx[CHOOSE x \in s : TRUE].size + SumOf(idx, Rest(s))
<1> DEFINE h == CHOOSE h : AddsUp(idx, s, h)
           k == CHOOSE k : AddsUp(idx, Rest(s), k)
<1>1. AddsUp(idx, s, h)
  BY SumExists
<1>2. Rest(s) \subseteq s
  BY DEF Rest
<1>3. AddsUp(idx, Rest(s), k)
  BY <1>2, SumExists
<1>4. SumOf(idx, s) = h[s] /\ SumOf(idx, Rest(s)) = k[Rest(s)]
  BY DEF SumOf
<1> HIDE DEF h, k
<1>5. h[Rest(s)] = k[Rest(s)]
  BY <1>1, <1>2, <1>3, SumUnique
<1>6. h[s] = IF s = {} THEN 0 ELSE idx[CHOOSE x \in s : TRUE].size + h[Rest(s)]
  <2>1. s \in SUBSET s
    OBVIOUS
  <2> QED
    BY <1>1, <2>1 DEF AddsUp
<1> QED
  BY <1>4, <1>5, <1>6

\* The same entries have the same sum.
LEMMA SumSame ==
  ASSUME NEW idx, NEW jdx, NEW D, IsFiniteSet(D), \A k \in D : idx[k].size = jdx[k].size
  PROVE  SumOf(idx, D) = SumOf(jdx, D)
<1> DEFINE B == {t \in SUBSET D : SumOf(idx, t) # SumOf(jdx, t)}
<1>1. SUFFICES ASSUME B # {} PROVE FALSE
  OBVIOUS
<1>2. PICK t \in B : \A u \in SUBSET D : Cardinality(u) < Cardinality(t) => u \notin B
  <2>1. B \in SUBSET (SUBSET D)
    OBVIOUS
  <2> HIDE DEF B
  <2> QED
    BY <1>1, <2>1, SmallestSet
<1>3. t \in SUBSET D /\ IsFiniteSet(t)
  BY FS_Subset
<1>4. /\ SumOf(idx, t) = IF t = {} THEN 0 ELSE idx[CHOOSE x \in t : TRUE].size + SumOf(idx, Rest(t))
      /\ SumOf(jdx, t) = IF t = {} THEN 0 ELSE jdx[CHOOSE x \in t : TRUE].size + SumOf(jdx, Rest(t))
  BY <1>3, SumStep
<1>5. t # {}
  BY <1>4
<1>6. /\ (CHOOSE x \in t : TRUE) \in D
      /\ Rest(t) \in SUBSET D /\ Cardinality(Rest(t)) < Cardinality(t)
  BY <1>3, <1>5, RestSmaller
<1>7. SumOf(idx, Rest(t)) = SumOf(jdx, Rest(t))
  BY <1>2, <1>6
<1> QED
  BY <1>4, <1>5, <1>6, <1>7

LEMMA SumNat ==
  ASSUME NEW idx \in Index, NEW s \in SUBSET DOMAIN idx
  PROVE  SumOf(idx, s) \in Nat
<1> DEFINE D == DOMAIN idx
           B == {t \in SUBSET D : SumOf(idx, t) \notin Nat}
<1>0. IsFiniteSet(D) /\ \A k \in D : idx[k].size \in Nat
  BY IndexShape DEF EntryRecord
<1>1. SUFFICES ASSUME B # {} PROVE FALSE
  OBVIOUS
<1>2. PICK t \in B : \A u \in SUBSET D : Cardinality(u) < Cardinality(t) => u \notin B
  <2>1. B \in SUBSET (SUBSET D)
    OBVIOUS
  <2> HIDE DEF B, D
  <2> QED
    BY <1>0, <1>1, <2>1, SmallestSet
<1>3. t \in SUBSET D /\ IsFiniteSet(t)
  BY <1>0, FS_Subset
<1>4. SumOf(idx, t) = IF t = {} THEN 0 ELSE idx[CHOOSE x \in t : TRUE].size + SumOf(idx, Rest(t))
  BY <1>3, SumStep
<1>5. t # {}
  BY <1>4
<1>6. /\ (CHOOSE x \in t : TRUE) \in D
      /\ Rest(t) \in SUBSET D /\ Cardinality(Rest(t)) < Cardinality(t)
  BY <1>3, <1>5, RestSmaller
<1>7. SumOf(idx, Rest(t)) \in Nat
  BY <1>2, <1>6
<1> QED
  BY <1>0, <1>4, <1>5, <1>6, <1>7

\* Any entry may be taken out first.
LEMMA SumTakes ==
  ASSUME NEW idx \in Index, NEW s \in SUBSET DOMAIN idx, NEW e \in s
  PROVE  SumOf(idx, s) = idx[e].size + SumOf(idx, s \ {e})
<1> DEFINE D == DOMAIN idx
           Takes(t, x) == SumOf(idx, t) = idx[x].size + SumOf(idx, t \ {x})
           B == {t \in SUBSET D : \E x \in t : ~Takes(t, x)}
<1>0. IsFiniteSet(D) /\ \A k \in D : idx[k].size \in Nat
  BY IndexShape DEF EntryRecord
<1>1. SUFFICES ASSUME B # {} PROVE FALSE
  OBVIOUS
<1>2. PICK t \in B : \A u \in SUBSET D : Cardinality(u) < Cardinality(t) => u \notin B
  <2>1. B \in SUBSET (SUBSET D)
    OBVIOUS
  <2> HIDE DEF B, D
  <2> QED
    BY <1>0, <1>1, <2>1, SmallestSet
<1>3. t \in SUBSET D /\ IsFiniteSet(t)
  BY <1>0, FS_Subset
<1>4. PICK y \in t : ~Takes(t, y)
  OBVIOUS
<1>5. PICK x \in t : x = (CHOOSE z \in t : TRUE)
  BY <1>4
<1>6. Rest(t) = t \ {x} /\ SumOf(idx, t) = idx[x].size + SumOf(idx, t \ {x})
  <2> HIDE DEF B, D, Takes
  <2>1. Rest(t) = t \ {x} /\ t # {}
    BY <1>5 DEF Rest
  <2>2. SumOf(idx, t) = IF t = {} THEN 0 ELSE idx[CHOOSE z \in t : TRUE].size + SumOf(idx, Rest(t))
    BY <1>3, SumStep
  <2> QED
    BY <1>5, <2>1, <2>2
<1>7. x # y
  BY <1>4, <1>6
<1>8. \A z \in t : t \ {z} \in SUBSET D /\ Cardinality(t \ {z}) < Cardinality(t)
  <2> SUFFICES ASSUME NEW z \in t PROVE Cardinality(t \ {z}) < Cardinality(t)
    BY <1>3
  <2> HIDE DEF B
  <2>1. t \ {z} \in SUBSET t /\ t \ {z} # t
    OBVIOUS
  <2>2. Cardinality(t \ {z}) <= Cardinality(t) /\ Cardinality(t \ {z}) # Cardinality(t) /\ IsFiniteSet(t \ {z})
    BY <1>3, <2>1, FS_Subset
  <2>3. Cardinality(t \ {z}) \in Nat /\ Cardinality(t) \in Nat
    BY <1>3, <2>2, FS_CardinalityType
  <2> QED
    BY <2>2, <2>3
<1>9. Takes(t \ {x}, y) /\ Takes(t \ {y}, x)
  <2>1. \A z \in t : t \ {z} \notin B
    BY <1>2, <1>8
  <2> QED
    BY <1>7, <1>8, <2>1
<1>10. (t \ {x}) \ {y} = (t \ {y}) \ {x}
  OBVIOUS
<1>11. \A u \in SUBSET D : SumOf(idx, u) \in Nat
  BY SumNat
<1>12. SumOf(idx, (t \ {x}) \ {y}) \in Nat /\ idx[x].size \in Nat /\ idx[y].size \in Nat
  BY <1>0, <1>3, <1>11
<1>13. SumOf(idx, t) = idx[y].size + SumOf(idx, t \ {y})
  <2>1. /\ SumOf(idx, t \ {x}) = idx[y].size + SumOf(idx, (t \ {x}) \ {y})
        /\ SumOf(idx, t \ {y}) = idx[x].size + SumOf(idx, (t \ {x}) \ {y})
    BY <1>9, <1>10
  <2> HIDE DEF B, D, Takes
  <2> QED
    BY <1>6, <1>12, <2>1
<1> QED
  BY <1>4, <1>13

\* The total of what is left without some entries is the sum over the others.
LEMMA TotalWithout ==
  ASSUME NEW idx \in Index, NEW K
  PROVE  totalSize(Without(idx, K)) = SumOf(idx, DOMAIN idx \ K)
<1>1. PICK jdx \in Index : jdx = Without(idx, K)
  BY WithoutKeys
<1>2. PICK D : D = DOMAIN idx \ K
  OBVIOUS
<1>3. DOMAIN jdx = D /\ \A k \in D : jdx[k].size = idx[k].size
  BY <1>1, <1>2, WithoutKeys
<1>4. IsFiniteSet(D)
  BY <1>3, IndexShape
<1>5. SumOf(jdx, D) = SumOf(idx, D)
  BY <1>3, <1>4, SumSame
<1>6. totalSize(jdx) = SumOf(jdx, D)
  BY <1>3, TotalIsSum
<1> QED
  BY <1>1, <1>2, <1>5, <1>6

-----------------------------------------------------------------------------
\* No more is evicted than must be.

\* As many of the oldest entries as are older than e are those older than e.
LEMMA OldestOlder ==
  ASSUME NEW idx \in Index, NEW e \in DOMAIN idx
  PROVE  Oldest(idx, Cardinality(Older(idx, e))) = Older(idx, e)
<1>1. \A k \in DOMAIN idx : idx[k].used \in Nat
  BY IndexShape DEF EntryRecord
<1>2. ASSUME NEW k \in DOMAIN idx, idx[k].used < idx[e].used
      PROVE  Cardinality(Older(idx, k)) < Cardinality(Older(idx, e))
  <2>1. Older(idx, k) \subseteq Older(idx, e)
    BY <1>1, <1>2 DEF Older
  <2>2. k \in Older(idx, e) /\ k \notin Older(idx, k)
    BY <1>1, <1>2 DEF Older
  <2> QED
    BY <2>1, <2>2, OlderCount, FS_Subset
<1>3. ASSUME NEW k \in DOMAIN idx, ~(idx[k].used < idx[e].used)
      PROVE  ~(Cardinality(Older(idx, k)) < Cardinality(Older(idx, e)))
  <2>1. Older(idx, e) \subseteq Older(idx, k)
    BY <1>1, <1>3 DEF Older
  <2> QED
    BY <2>1, OlderCount, FS_Subset
<1> QED
  BY <1>2, <1>3 DEF Oldest, Older

\* No two entries were used at the same time.
Distinct(idx) == \A j, k \in DOMAIN idx : j # k => idx[j].used # idx[k].used

LEMMA EvictionNeeded ==
  ASSUME NEW idx \in Index, NEW max \in Nat, Distinct(idx),
         NEW e \in DOMAIN idx \ DOMAIN evictLRU(idx, max),
         \A f \in DOMAIN idx \ DOMAIN evictLRU(idx, max) : idx[f].used <= idx[e].used
  PROVE  totalSize(evictLRU(idx, max)) + idx[e].size > max
<1>1. max \in Nat \ {0}
  BY DEF evictLRU
<1>2. PICK n \in Nat :
        /\ evictLRU(idx, max) = Without(idx, Oldest(idx, n))
        /\ \A m \in Nat : m < n => ~(totalSize(Without(idx, Oldest(idx, m))) <= max)
  BY <1>1, EvictionStops
<1>3. PICK m \in Nat : m = Cardinality(Older(idx, e))
  BY OlderCount
<1>4. PICK old : old = Oldest(idx, n)
  OBVIOUS
<1>5. DOMAIN evictLRU(idx, max) = DOMAIN idx \ old
  BY <1>2, <1>4, WithoutKeys
<1>6. old \subseteq DOMAIN idx /\ e \in old /\ m < n
  BY <1>3, <1>4, <1>5 DEF Oldest
<1>7. Older(idx, e) = old \ {e}
  <2>1. \A k \in DOMAIN idx : idx[k].used \in Nat
    BY IndexShape DEF EntryRecord
  <2>2. ASSUME NEW f \in old \ {e} PROVE f \in Older(idx, e)
    <3>1. idx[f].used <= idx[e].used /\ idx[f].used # idx[e].used
      BY <1>5, <1>6 DEF Distinct
    <3> QED
      BY <1>6, <2>1, <3>1 DEF Older
  <2>3. ASSUME NEW f \in Older(idx, e) PROVE f \in old \ {e}
    <3>1. f \in DOMAIN idx /\ idx[f].used < idx[e].used
      BY DEF Older
    <3>2. f \in old
      BY <1>4, <1>6, <2>1, <3>1, OldestGo
    <3> QED
      BY <2>1, <3>1, <3>2
  <2> QED
    BY <2>2, <2>3
<1>8. Oldest(idx, m) = old \ {e}
  BY <1>3, <1>7, OldestOlder
<1>9. PICK K : K = old \ {e}
  OBVIOUS
<1>10. ~(totalSize(Without(idx, K)) <= max)
  BY <1>2, <1>6, <1>8, <1>9
<1>11. totalSize(Without(idx, K)) = SumOf(idx, DOMAIN idx \ K)
  BY TotalWithout
<1>12. totalSize(evictLRU(idx, max)) = SumOf(idx, DOMAIN idx \ old)
  BY <1>2, <1>4, TotalWithout
<1>13. PICK s \in SUBSET DOMAIN idx : s = DOMAIN idx \ K
  OBVIOUS
<1>14. e \in s /\ s \ {e} = DOMAIN idx \ old
  BY <1>6, <1>9, <1>13
<1>15. SumOf(idx, s) = idx[e].size + SumOf(idx, s \ {e})
  BY <1>14, SumTakes
<1>16. SumOf(idx, s) \in Nat /\ SumOf(idx, s \ {e}) \in Nat /\ idx[e].size \in Nat
  BY SumNat, IndexShape DEF EntryRecord
<1>17. totalSize(evictLRU(idx, max)) = SumOf(idx, s \ {e}) /\ ~(SumOf(idx, s) <= max)
  BY <1>10, <1>11, <1>12, <1>13, <1>14
<1> QED
  BY <1>15, <1>16, <1>17

-----------------------------------------------------------------------------
\* Times of use.  The clock advances whenever it is read into an index, so the entries of
\* an index were used at different times, all of them past.

AgedAt(idx, t) == Distinct(idx) /\ \A k \in DOMAIN idx : idx[k].used < t

UsedInv == Types /\ AgedAt(indexFile, now) /\ \A p \in Procs : AgedAt(mem[p], now)

LEMMA AgedLater ==
  ASSUME NEW idx \in Index, NEW t \in Nat, NEW u \in Nat, t <= u, AgedAt(idx, t)
  PROVE  AgedAt(idx, u)
<1>1. \A k \in DOMAIN idx : idx[k].used \in Nat
  BY IndexShape DEF EntryRecord
<1> QED
  BY <1>1 DEF AgedAt

LEMMA AgedPart ==
  ASSUME NEW idx, NEW jdx, NEW t, AgedAt(idx, t), DOMAIN jdx \subseteq DOMAIN idx,
         \A k \in DOMAIN jdx : jdx[k] = idx[k]
  PROVE  AgedAt(jdx, t)
  BY DEF AgedAt, Distinct

\* An entry that is used now.
LEMMA AgedNow ==
  ASSUME NEW idx \in Index, NEW t \in Nat, AgedAt(idx, t), NEW key, NEW new,
         DOMAIN new = DOMAIN idx \cup {key}, new[key].used = t,
         \A k \in DOMAIN idx \ {key} : new[k] = idx[k]
  PROVE  AgedAt(new, t + 1)
<1>1. \A k \in DOMAIN idx : idx[k].used \in Nat /\ idx[k].used < t
  BY IndexShape DEF EntryRecord, AgedAt
<1>2. \A k \in DOMAIN new : new[k].used \in Nat /\ new[k].used < t + 1
  BY <1>1
<1>3. Distinct(new)
  BY <1>1 DEF Distinct, AgedAt
<1> QED
  BY <1>2, <1>3 DEF AgedAt

\* What eviction works on in a Put and in a Prune.
LEMMA CandidatesAged ==
  ASSUME UsedInv, NEW p \in Procs
  PROVE  /\ op[p].key \in Keys => AgedAt(With(mem[p], op[p].key, NewEntry(p)), now + 1)
         /\ AgedAt(Without(mem[p], Expired(mem[p])), now)
<1>1. Types /\ mem[p] \in Index /\ now \in Nat /\ AgedAt(mem[p], now)
  BY DEF UsedInv, Types
<1>2. ASSUME op[p].key \in Keys PROVE AgedAt(With(mem[p], op[p].key, NewEntry(p)), now + 1)
  <2>1. PICK full : full = With(mem[p], op[p].key, NewEntry(p))
    OBVIOUS
  <2>2. /\ DOMAIN full = DOMAIN mem[p] \cup {op[p].key}
        /\ full[op[p].key] = NewEntry(p)
        /\ \A k \in DOMAIN mem[p] \ {op[p].key} : full[k] = mem[p][k]
    BY <1>1, <1>2, <2>1, PutKeeps
  <2>3. NewEntry(p).used = now
    BY DEF NewEntry
  <2> QED
    BY <1>1, <2>1, <2>2, <2>3, AgedNow
<1>3. AgedAt(Without(mem[p], Expired(mem[p])), now)
  <2>1. PICK fresh : fresh = Without(mem[p], Expired(mem[p]))
    OBVIOUS
  <2>2. DOMAIN fresh \subseteq DOMAIN mem[p] /\ \A k \in DOMAIN fresh : fresh[k] = mem[p][k]
    BY <1>1, <2>1, PruneKeeps
  <2> QED
    BY <1>1, <2>1, <2>2, AgedPart
<1> QED
  BY <1>2, <1>3

LEMMA StepAged ==
  ASSUME UsedInv, NEW p \in Procs, Step(p)
  PROVE  AgedAt(mem'[p], now') /\ now <= now' /\ indexFile' \in {indexFile, mem[p]}
<1>0. Types /\ mem[p] \in Index /\ now \in Nat /\ AgedAt(mem[p], now) /\ AgedAt(indexFile, now)
  BY DEF UsedInv, Types
<1> USE DEF Types
<1>1. ASSUME NEW k \in Keys, NEW s \in Sizes, NEW t \in TTLs, PutBegin(p, k, s, t)
      PROVE  mem' = mem /\ now' = now /\ indexFile' = indexFile
  BY <1>1 DEF PutBegin
<1>2. CASE PutWrite(p)
  BY <1>0, <1>2 DEF PutWrite
<1>3. CASE PutIndex(p)
  <2>1. op[p].key \in Keys /\ mem'[p] = AddAndEvict(p) /\ now' = now + 1 /\ indexFile' = indexFile
    BY <1>0, <1>3 DEF PutIndex
  <2>2. PICK full : full = With(mem[p], op[p].key, NewEntry(p))
    OBVIOUS
  <2>3. DOMAIN mem'[p] \subseteq DOMAIN full /\ \A k \in DOMAIN mem'[p] : mem'[p][k] = full[k]
    BY ZenonT(30), <1>0, <2>1, <2>2, PutKeeps
  <2>4. AgedAt(full, now + 1)
    BY <2>1, <2>2, CandidatesAged
  <2> QED
    BY <1>0, <2>1, <2>3, <2>4, AgedPart
<1>4. CASE Save(p)
  BY <1>0, <1>4 DEF Save
<1>5. ASSUME NEW k \in Keys, GetMiss(p, k) \/ Delete(p, k)
      PROVE  AgedAt(mem'[p], now') /\ now' = now /\ indexFile' = indexFile
  <2>1. mem'[p] = Without(mem[p], {k}) /\ now' = now /\ indexFile' = indexFile
    BY <1>0, <1>5 DEF GetMiss, Delete
  <2>2. DOMAIN mem'[p] \subseteq DOMAIN mem[p] /\ \A j \in DOMAIN mem'[p] : mem'[p][j] = mem[p][j]
    <3>1. PICK new : new = Without(mem[p], {k})
      OBVIOUS
    <3>2. DOMAIN new = DOMAIN mem[p] \ {k} /\ \A j \in DOMAIN mem[p] \ {k} : new[j] = mem[p][j]
      BY <3>1 DEF Without
    <3> QED
      BY <2>1, <3>1, <3>2
  <2> QED
    BY <1>0, <2>1, <2>2, AgedPart
<1>6. ASSUME NEW k \in Keys, GetHit(p, k)
      PROVE  AgedAt(mem'[p], now') /\ now' = now + 1 /\ indexFile' = indexFile
  <2>1. /\ k \in DOMAIN mem[p] /\ mem'[p] = [mem[p] EXCEPT ![k].used = now]
        /\ now' = now + 1 /\ indexFile' = indexFile
    BY <1>0, <1>6 DEF GetHit
  <2>2. PICK new : new = [mem[p] EXCEPT ![k].used = now]
    OBVIOUS
  <2>3. /\ DOMAIN new = DOMAIN mem[p] \cup {k} /\ new[k].used = now
        /\ \A j \in DOMAIN mem[p] \ {k} : new[j] = mem[p][j]
    BY <1>0, <2>1, <2>2, UsedNow
  <2>4. AgedAt(new, now + 1)
    BY <1>0, <2>3, AgedNow
  <2> QED
    BY <2>1, <2>2, <2>4
<1>7. CASE Prune(p)
  <2>1. mem'[p] = ExpireAndEvict(p) /\ now' = now /\ indexFile' = indexFile
    BY <1>0, <1>7 DEF Prune
  <2>2. DOMAIN mem'[p] \subseteq DOMAIN mem[p] /\ \A k \in DOMAIN mem'[p] : mem'[p][k] = mem[p][k]
    BY <1>0, <2>1, PruneKeeps
  <2> QED
    BY <1>0, <2>1, <2>2, AgedPart
<1>8. CASE Crash(p)
  <2>1. mem'[p] = Empty /\ now' = now /\ indexFile' = indexFile
    BY <1>0, <1>8 DEF Crash
  <2> QED
    BY <1>0, <2>1, EmptyIndex DEF AgedAt, Distinct
<1>9. CASE NewLocalCache(p)
  BY <1>0, <1>9 DEF NewLocalCache
<1> QED
  BY <1>0, <1>1, <1>2, <1>3, <1>4, <1>5, <1>6, <1>7, <1>8, <1>9 DEF Step

LEMMA InitAged == Init => UsedInv
<1> SUFFICES ASSUME Init PROVE UsedInv
  OBVIOUS
<1>1. AgedAt(Empty, now)
  BY EmptyIndex DEF AgedAt, Distinct
<1> QED
  BY <1>1, InitTypes DEF Init, UsedInv

LEMMA NextAged == UsedInv /\ [Next]_vars => UsedInv'
<1> SUFFICES ASSUME UsedInv, [Next]_vars PROVE UsedInv'
  OBVIOUS
<1>1. Types /\ Types'
  BY NextTypes DEF UsedInv
<1>2. now \in Nat /\ now' \in Nat /\ indexFile \in Index /\ \A q \in Procs : mem[q] \in Index
  BY <1>1 DEF Types
<1>3. ASSUME now <= now'
      PROVE  AgedAt(indexFile, now') /\ \A q \in Procs : AgedAt(mem[q], now')
  BY <1>2, <1>3, AgedLater DEF UsedInv
<1>4. ASSUME NEW p \in Procs, Step(p)
      PROVE  AgedAt(indexFile', now') /\ \A q \in Procs : AgedAt(mem'[q], now')
  <2>1. AgedAt(mem'[p], now') /\ now <= now' /\ indexFile' \in {indexFile, mem[p]}
    BY <1>4, StepAged
  <2>2. \A q \in Procs \ {p} : mem'[q] = mem[q]
    BY <1>1, <1>4, OthersAlone
  <2> QED
    BY <1>3, <2>1, <2>2
<1>5. CASE runCacheClear \/ pruneCache
  <2>1. now' = now /\ mem' = mem /\ indexFile' \in {indexFile, Empty}
    BY <1>5, CommandStep
  <2>2. AgedAt(Empty, now)
    BY EmptyIndex DEF AgedAt, Distinct
  <2> QED
    BY <1>1, <2>1, <2>2 DEF UsedInv
<1>6. CASE Tick \/ UNCHANGED vars
  <2>1. now <= now' /\ mem' = mem /\ indexFile' = indexFile
    BY <1>2, <1>6 DEF Tick, vars
  <2> QED
    BY <1>1, <1>3, <2>1 DEF UsedInv
<1>7. ASSUME NEW p \in Procs, Step(p) PROVE UsedInv'
  BY <1>1, <1>4, <1>7 DEF UsedInv
<1> QED
  BY <1>5, <1>6, <1>7 DEF Next, Step

\* The step of one process that makes room.
EvictsAt(p) ==
  LET before  == Candidates(p)
      evicted == DOMAIN before \ DOMAIN mem'[p]
  IN \A e \in evicted :
       /\ \A k \in DOMAIN mem'[p] : before[e].used < before[k].used
       /\ (\A f \in evicted : before[f].used <= before[e].used) =>
            totalSize(mem'[p]) + before[e].size > maxSize[p]

LEMMA EvictsWell ==
  ASSUME NEW idx \in Index, Distinct(idx), NEW max \in Nat, NEW kept, kept = evictLRU(idx, max)
  PROVE  \A e \in DOMAIN idx \ DOMAIN kept :
           /\ \A k \in DOMAIN kept : idx[e].used < idx[k].used
           /\ (\A f \in DOMAIN idx \ DOMAIN kept : idx[f].used <= idx[e].used) =>
                totalSize(kept) + idx[e].size > max
<1> SUFFICES ASSUME NEW e \in DOMAIN idx \ DOMAIN kept
             PROVE  /\ \A k \in DOMAIN kept : idx[e].used < idx[k].used
                    /\ (\A f \in DOMAIN idx \ DOMAIN kept : idx[f].used <= idx[e].used) =>
                         totalSize(kept) + idx[e].size > max
  OBVIOUS
<1>1. \A k \in DOMAIN kept : idx[e].used < idx[k].used
  BY Eviction
<1>2. ASSUME \A f \in DOMAIN idx \ DOMAIN kept : idx[f].used <= idx[e].used
      PROVE  totalSize(kept) + idx[e].size > max
  BY <1>2, EvictionNeeded
<1> QED
  BY <1>1, <1>2

LEMMA RoomStep ==
  ASSUME UsedInv, NEW p \in Procs, PutIndex(p) \/ Prune(p)
  PROVE  EvictsAt(p)
<1>1. Types /\ maxSize[p] \in Nat
  BY DEF UsedInv, Types
<1>2. PICK before : before = Candidates(p)
  OBVIOUS
<1>3. CASE PutIndex(p)
  <2>1. op[p].key \in Keys /\ mem'[p] = AddAndEvict(p) /\ op' = op
    BY <1>1, <1>3 DEF PutIndex, Types
  <2>2. before = With(mem[p], op[p].key, NewEntry(p))
    <3>1. op[p].kind = "put"
      BY <1>1, <1>3 DEF PutIndex, Types
    <3> QED
      BY <1>2, <2>1, <3>1 DEF Candidates
  <2>3. before \in Index /\ Distinct(before) /\ mem'[p] = evictLRU(before, maxSize[p])
    BY <1>1, <2>1, <2>2, PutKeeps, CandidatesAged DEF AgedAt, AddAndEvict
  <2> QED
    BY <1>1, <1>2, <2>3, EvictsWell DEF EvictsAt
<1>4. CASE Prune(p)
  <2>1. mem'[p] = ExpireAndEvict(p) /\ op'[p].kind = "prune"
    BY <1>1, <1>4 DEF Prune, Types, NoOp
  <2>2. before = Without(mem[p], Expired(mem[p]))
    BY <1>2, <2>1 DEF Candidates
  <2>3. before \in Index /\ Distinct(before) /\ mem'[p] = evictLRU(before, maxSize[p])
    BY <1>1, <2>1, <2>2, PruneKeeps, CandidatesAged DEF AgedAt, ExpireAndEvict
  <2> QED
    BY <1>1, <1>2, <2>3, EvictsWell DEF EvictsAt
<1> QED
  BY <1>3, <1>4

\* Eviction by Put or Prune takes the least recently used entries and no more of them than
\* the limit asks for (evictLRU and the second pass of Prune).
THEOREM EvictionIsLRU == Spec => EvictsOldest
<1>1. ASSUME UsedInv, [Next]_vars
      PROVE  \A p \in Procs :
               pc[p] # "save" /\ pc'[p] = "save" /\ op'[p].kind \in {"put", "prune"} => EvictsAt(p)
  <2>0. Types
    BY <1>1 DEF UsedInv
  <2> SUFFICES ASSUME NEW p \in Procs, pc[p] # "save", pc'[p] = "save", op'[p].kind \in {"put", "prune"}
               PROVE  EvictsAt(p)
    OBVIOUS
  <2>1. ASSUME NEW q \in Procs, Step(q) PROVE EvictsAt(p)
    <3>1. p = q
      BY <2>0, <2>1, OthersAlone
    <3>2. PutIndex(p) \/ Prune(p)
      BY <2>0, <2>1, <3>1, RoomMade
    <3> QED
      BY <1>1, <3>2, RoomStep
  <2>2. ~(runCacheClear \/ pruneCache)
    BY CommandStep
  <2>3. ~(Tick \/ UNCHANGED vars)
    BY DEF Tick, vars
  <2> QED
    BY <1>1, <2>1, <2>2, <2>3 DEF Next, Step
<1>2. UsedInv /\ [Next]_vars =>
        [\A p \in Procs :
           pc[p] # "save" /\ pc'[p] = "save" /\ op'[p].kind \in {"put", "prune"} => EvictsAt(p)]_vars
  BY <1>1
<1> QED
  BY <1>2, InitAged, NextAged, PTL DEF Spec, EvictsOldest, EvictsAt
=============================================================================
