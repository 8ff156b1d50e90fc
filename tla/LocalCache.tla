----------------------------- MODULE LocalCache -----------------------------
(***************************************************************************)
(* The local cache (internal/cache/local.go): processes that share a cache *)
(* directory, each with its own in-memory index, the index file and the    *)
(* data files.  A process runs one operation at a time (its mutex), but an *)
(* operation is several steps on the disk, between which the process may   *)
(* crash and other processes, who do not share the mutex, may run.         *)
(*                                                                         *)
(* Content is abstracted to its size.  The hit, miss and eviction counters *)
(* decide nothing and are left out.                                        *)
(***************************************************************************)
EXTENDS Integers, FiniteSets, FiniteSetsExt

CONSTANTS
  Procs,     \* the processes that use the directory
  Keys,      \* cache keys
  Sizes,     \* the sizes of what is put into the cache
  TTLs,      \* the time-to-live of a Put, 0 for none
  MaxSizes,  \* the values of max_size in the configuration, 0 for no limit
  Ops,       \* the operations the processes use, among AllOps
  Faults,    \* what may go wrong, among FaultKinds
  MaxTime    \* bound on the clock

AllOps == {"put", "get", "delete", "prune",
           "cacheClear", "cachePrune"} \* the commands of that name

FaultKinds == {"write",  \* a data file cannot be written in full
               "save",   \* the index file cannot be written
               "remove", \* a data file cannot be removed
               "crash"}  \* a process dies

ASSUME CacheAssumption ==
  /\ Sizes \subseteq Nat \ {0} /\ TTLs \subseteq Nat /\ MaxSizes \subseteq Nat
  /\ Ops \subseteq AllOps /\ Faults \subseteq FaultKinds /\ MaxTime \in Nat

NoFile == 0

\* A data file that holds part of its content.
Torn == -1

VARIABLES
  now,       \* the clock; it advances whenever it is read into an index
  files,     \* the data files
  dataDir,   \* their directory exists
  indexFile, \* index.json
  mem,       \* lc.index of each process
  maxSize,   \* lc.cfg.MaxSize
  pc,        \* where each process is in its operation
  op,        \* the operation and its arguments
  flock,     \* the process that holds the lock file
  clean,     \* nothing has gone wrong so far (no part of the program)
  hurt,      \* keys whose last Put was cut short (no part of the program)
  stored     \* keys put and neither deleted, evicted nor expired (no part of the program)

vars == <<now, files, dataDir, indexFile, mem, maxSize, pc, op, flock, clean, hurt, stored>>

NoOp == [kind |-> "none", key |-> "none", size |-> 0, ttl |-> 0]
Free == "free"

Entry == [size : Sizes, used : 0..MaxTime, expires : Nat]

IsIndex(idx) == DOMAIN idx \subseteq Keys /\ \A k \in DOMAIN idx : idx[k] \in Entry

TypeOK ==
  /\ now \in 0..MaxTime
  /\ files \in [Keys -> Sizes \cup {NoFile, Torn}]
  /\ dataDir \in BOOLEAN
  /\ IsIndex(indexFile)
  /\ DOMAIN mem = Procs /\ \A p \in Procs : IsIndex(mem[p])
  /\ maxSize \in [Procs -> MaxSizes]
  /\ pc \in [Procs -> {"idle", "write", "index", "save", "down"}]
  /\ flock \in Procs \cup {Free}
  /\ clean \in BOOLEAN /\ hurt \subseteq Keys /\ stored \subseteq Keys

Empty == [k \in {} |-> 0]

Init ==
  /\ now = 0
  /\ files = [k \in Keys |-> NoFile] /\ dataDir = TRUE
  /\ indexFile = Empty
  /\ mem = [p \in Procs |-> Empty]
  /\ maxSize \in [Procs -> MaxSizes]
  /\ pc = [p \in Procs |-> "idle"]
  /\ op = [p \in Procs |-> NoOp]
  /\ flock = Free
  /\ clean = TRUE /\ hurt = {} /\ stored = {}

-----------------------------------------------------------------------------
\* Operators on an index.

Without(idx, K) == [k \in DOMAIN idx \ K |-> idx[k]]

With(idx, key, e) == [k \in DOMAIN idx \cup {key} |-> IF k = key THEN e ELSE idx[k]]

totalSize(idx) == MapThenSumSet(LAMBDA k : idx[k].size, DOMAIN idx)

isExpired(e) == e.expires # 0 /\ now > e.expires

Older(idx, k) == {j \in DOMAIN idx : idx[j].used < idx[k].used}

\* The n entries used least recently, when no two were used at the same time.
Oldest(idx, n) == {k \in DOMAIN idx : Cardinality(Older(idx, k)) < n}

\* The loops of evictLRU and of Prune's second pass remove the least recently used entry
\* while the rest exceeds the limit: they stop at the first number that is enough.
evictLRU(idx, max) ==
  LET enough == {n \in 0..Cardinality(DOMAIN idx) : totalSize(Without(idx, Oldest(idx, n))) <= max}
  IN IF max = 0 THEN idx ELSE Without(idx, Oldest(idx, Min(enough)))

-----------------------------------------------------------------------------
\* Put and PutWithFlock.  With several processes Put is called through the latter.

Locking == Cardinality(Procs) > 1

RemoveFiles(K) == files' = [k \in Keys |-> IF k \in K THEN NoFile ELSE files[k]]

Present == {k \in Keys : files[k] # NoFile}

\* os.Remove for each of K; its errors are ignored, and the files of stay are left behind.
TryRemove(K) ==
  \E stay \in SUBSET (K \cap Present) :
    /\ stay # {} => "remove" \in Faults
    /\ RemoveFiles(K \ stay)
    /\ clean' = (clean /\ stay = {})

Idle(p) == pc[p] = "idle"

\* A tick is left for the clock reading of this step and of every Put under way.
ClockRoom == now + Cardinality({p \in Procs : pc[p] \in {"write", "index"}}) < MaxTime

Goto(p, at) == pc' = [pc EXCEPT ![p] = at]

\* The operation returns.
Return(p) == Goto(p, "idle") /\ op' = [op EXCEPT ![p] = NoOp]

Unlock(p) == flock' = IF flock = p THEN Free ELSE flock

\* The lock, the mutex, and the removal of the old data file.
PutBegin(p, k, s, t) ==
  /\ "put" \in Ops /\ Idle(p) /\ ClockRoom
  /\ IF Locking THEN flock = Free /\ flock' = p ELSE UNCHANGED flock
  /\ op' = [op EXCEPT ![p] = [kind |-> "put", key |-> k, size |-> s, ttl |-> t]]
  /\ TryRemove({k} \cap DOMAIN mem[p])
  /\ hurt' = hurt \cup {k}
  /\ Goto(p, "write")
  /\ UNCHANGED <<now, dataDir, indexFile, mem, maxSize, stored>>

\* os.WriteFile, which needs the data directory; an error leaves what was written, and
\* Put returns.
PutWrite(p) ==
  /\ pc[p] = "write"
  /\ \/ /\ dataDir
        /\ files' = [files EXCEPT ![op[p].key] = op[p].size]
        /\ Goto(p, "index")
        /\ UNCHANGED <<flock, clean, op>>
     \/ /\ IF dataDir THEN "write" \in Faults /\ files' = [files EXCEPT ![op[p].key] = Torn]
                     ELSE UNCHANGED files
        /\ Return(p)
        /\ Unlock(p)
        /\ clean' = FALSE
  /\ UNCHANGED <<now, dataDir, indexFile, mem, maxSize, hurt, stored>>

\* Wrong on purpose: eviction forgets the data files.
EvictedFilesKept(before, after) == {}

EvictedFiles(before, after) == DOMAIN before \ DOMAIN after

\* Wrong on purpose: the size of the entry replaced.
NewEntryOldSize(p) ==
  [ size |-> IF op[p].key \in DOMAIN mem[p] THEN mem[p][op[p].key].size ELSE op[p].size,
    used |-> now, expires |-> 0 ]

NewEntry(p) ==
  [ size |-> op[p].size, used |-> now,
    expires |-> IF op[p].ttl > 0 THEN now + op[p].ttl ELSE 0 ]

\* Wrong on purpose: room is made before the entry is added.
EvictFirst(p) == With(evictLRU(mem[p], maxSize[p]), op[p].key, NewEntry(p))

AddAndEvict(p) == evictLRU(With(mem[p], op[p].key, NewEntry(p)), maxSize[p])

\* The entry and the eviction; the evicted data files are removed.
PutIndex(p) ==
  /\ pc[p] = "index"
  /\ LET k == op[p].key
         full == With(mem[p], k, NewEntry(p))
         kept == AddAndEvict(p)
     IN /\ mem' = [mem EXCEPT ![p] = kept]
        /\ TryRemove(EvictedFiles(full, kept))
        /\ stored' = (stored \cup {k}) \ (DOMAIN full \ DOMAIN kept)
        /\ hurt' = hurt \ {j \in DOMAIN full \ DOMAIN kept : files'[j] = NoFile}
  /\ now' = now + 1
  /\ Goto(p, "save")
  /\ UNCHANGED <<dataDir, indexFile, maxSize, op, flock>>

\* saveIndex, by a temporary file and a rename; the operation returns.
Save(p) ==
  /\ pc[p] = "save"
  /\ \/ /\ indexFile' = mem[p]
        /\ hurt' = IF op[p].kind = "put" THEN hurt \ {op[p].key} ELSE hurt
        /\ UNCHANGED clean
     \/ "save" \in Faults /\ clean' = FALSE /\ UNCHANGED <<indexFile, hurt>>
  /\ Unlock(p)
  /\ Return(p)
  /\ UNCHANGED <<now, files, dataDir, mem, maxSize, stored>>

-----------------------------------------------------------------------------
\* Get, Delete and Prune, which take no file lock.

\* A miss changes nothing unless the entry has expired or its file is gone.
GetMiss(p, k) ==
  /\ "get" \in Ops /\ Idle(p) /\ k \in DOMAIN mem[p]
  /\ isExpired(mem[p][k]) \/ files[k] = NoFile
  /\ mem' = [mem EXCEPT ![p] = Without(@, {k})]
  /\ TryRemove({k})
  /\ stored' = stored \ {k}
  /\ op' = [op EXCEPT ![p] = [NoOp EXCEPT !.kind = "miss", !.key = k]]
  /\ Goto(p, "save")
  /\ UNCHANGED <<now, dataDir, indexFile, maxSize, flock, hurt>>

GetHit(p, k) ==
  /\ "get" \in Ops /\ Idle(p) /\ ClockRoom
  /\ k \in DOMAIN mem[p] /\ ~isExpired(mem[p][k]) /\ files[k] # NoFile
  /\ mem' = [mem EXCEPT ![p][k].used = now]
  /\ now' = now + 1
  /\ op' = [op EXCEPT ![p] = [NoOp EXCEPT !.kind = "hit", !.key = k]]
  /\ Goto(p, "save")
  /\ UNCHANGED <<clean, files, dataDir, indexFile, maxSize, flock, hurt, stored>>

\* When the file cannot be removed Delete returns the error and nothing has changed.
Delete(p, k) ==
  /\ "delete" \in Ops /\ Idle(p) /\ k \in DOMAIN mem[p]
  /\ mem' = [mem EXCEPT ![p] = Without(@, {k})]
  /\ RemoveFiles({k})
  /\ stored' = stored \ {k}
  /\ op' = [op EXCEPT ![p] = [NoOp EXCEPT !.kind = "delete", !.key = k]]
  /\ Goto(p, "save")
  /\ UNCHANGED <<clean, now, dataDir, indexFile, maxSize, flock, hurt>>

Expired(idx) == {k \in DOMAIN idx : isExpired(idx[k])}

\* Wrong on purpose: what has expired still counts when room is made.
ExpireLast(p) ==
  LET kept == evictLRU(mem[p], maxSize[p]) IN Without(kept, Expired(kept))

ExpireAndEvict(p) == evictLRU(Without(mem[p], Expired(mem[p])), maxSize[p])

Prune(p) ==
  /\ "prune" \in Ops /\ Idle(p)
  /\ LET kept == ExpireAndEvict(p)
     IN /\ mem' = [mem EXCEPT ![p] = kept]
        /\ TryRemove(EvictedFiles(mem[p], kept))
        /\ stored' = stored \ (DOMAIN mem[p] \ DOMAIN kept)
  /\ op' = [op EXCEPT ![p] = [NoOp EXCEPT !.kind = "prune"]]
  /\ Goto(p, "save")
  /\ UNCHANGED <<now, dataDir, indexFile, maxSize, flock, hurt>>

-----------------------------------------------------------------------------
\* A process dies, perhaps half way through a file; the kernel releases its lock.
Crash(p) ==
  /\ "crash" \in Faults /\ pc[p] # "down"
  /\ files' \in {files} \cup (IF pc[p] = "write" THEN {[files EXCEPT ![op[p].key] = Torn]} ELSE {})
  /\ mem' = [mem EXCEPT ![p] = Empty]
  /\ Unlock(p)
  /\ Goto(p, "down") /\ op' = [op EXCEPT ![p] = NoOp]
  /\ clean' = FALSE
  /\ UNCHANGED <<now, dataDir, indexFile, maxSize, hurt, stored>>

\* NewLocalCache makes the directory and reads the index file, if there is one; the
\* configuration may have changed.
NewLocalCache(p) ==
  /\ pc[p] = "down"
  /\ mem' = [mem EXCEPT ![p] = indexFile]
  /\ maxSize' \in {[maxSize EXCEPT ![p] = m] : m \in MaxSizes}
  /\ dataDir' = TRUE
  /\ Return(p)
  /\ UNCHANGED <<clean, now, files, indexFile, flock, hurt, stored>>

-----------------------------------------------------------------------------
\* The commands cache clear and cache prune (internal/cli/cache.go), which work on the
\* files and know nothing of the index, the lock or the processes that have it in memory.

\* K and, perhaps, the index file are removed.
CommandRemoves(K, withIndex) ==
  /\ RemoveFiles(K)
  /\ indexFile' = IF withIndex THEN Empty ELSE indexFile
  /\ stored' = IF withIndex THEN {} ELSE stored \ K
  /\ clean' = FALSE
  /\ UNCHANGED <<now, mem, maxSize, pc, op, flock, hurt>>

\* os.RemoveAll goes through the directory in any order and may fail anywhere; the
\* directory made afterwards is not the data directory in it.
runCacheClear ==
  /\ "cacheClear" \in Ops
  /\ \E K \in SUBSET Present, withIndex \in BOOLEAN :
       /\ CommandRemoves(K, withIndex)
       /\ dataDir' \in IF K = Present THEN {dataDir, FALSE} ELSE {dataDir}

\* The size of the files K; one that was cut short has at least some.
Bytes(K) == MapThenSumSet(LAMBDA k : IF files[k] = Torn THEN 1 ELSE files[k], K)

\* pruneCache removes files, oldest first, while they exceed the limit, and skips those
\* it cannot remove.  Times are not modelled, so any order will do.  The index and the lock
\* file are files like the others; together they count for 1.
pruneCache ==
  /\ "cachePrune" \in Ops
  /\ \E max \in MaxSizes \ {0}, K \in SUBSET Present, withIndex \in BOOLEAN :
       /\ \E last \in {{k} : k \in K} \cup (IF withIndex THEN {{}} ELSE {}) :
            Bytes((Present \ K) \cup last) + 1 > max
       /\ CommandRemoves(K, withIndex)
  /\ UNCHANGED dataDir

Tick ==
  /\ ClockRoom
  /\ now' = now + 1
  /\ UNCHANGED <<clean, files, dataDir, indexFile, mem, maxSize, pc, op, flock, hurt, stored>>

Next ==
  \/ \E p \in Procs :
       \/ \E k \in Keys, s \in Sizes, t \in TTLs : PutBegin(p, k, s, t)
       \/ PutWrite(p) \/ PutIndex(p) \/ Save(p)
       \/ \E k \in Keys : GetMiss(p, k) \/ GetHit(p, k) \/ Delete(p, k)
       \/ Prune(p) \/ Crash(p) \/ NewLocalCache(p)
  \/ runCacheClear \/ pruneCache
  \/ Tick

Spec == Init /\ [][Next]_vars
-----------------------------------------------------------------------------
\* Safety.

\* As long as nothing fails, memory, the index file and the data files agree between
\* operations: nothing is listed that is not there, no file is forgotten.
StoresAgree ==
  \A p \in Procs : clean /\ Idle(p) =>
    /\ indexFile = mem[p]
    /\ \A k \in Keys : files[k] = IF k \in DOMAIN mem[p] THEN mem[p][k].size ELSE NoFile

Truthful(idx) == \A k \in DOMAIN idx \ hurt : files[k] \in {NoFile, idx[k].size}

\* Whatever failed or crashed, an index tells the truth about a data file or the file
\* is gone, which Get notices; only the key of a Put that was cut short is in doubt.
IndexTruthful == Truthful(indexFile) /\ \A p \in Procs : Truthful(mem[p])

\* A Put or a Prune leaves the cache within its limit, also when the cache was opened
\* with a smaller limit than it was filled under.
WithinLimit ==
  \A p \in Procs :
    pc[p] = "save" /\ op[p].kind \in {"put", "prune"} /\ maxSize[p] > 0 =>
      totalSize(mem[p]) <= maxSize[p]

\* What Put or Prune may evict from.
Candidates(p) ==
  IF op'[p].kind = "prune" THEN Without(mem[p], Expired(mem[p]))
  ELSE With(mem[p], op[p].key, NewEntry(p))

\* Eviction, by Put or by Prune, takes only entries less recently used than every one
\* that stays, the one just put included, and no more of them than the limit asks for.
EvictsOldest ==
  [][\A p \in Procs :
       pc[p] # "save" /\ pc'[p] = "save" /\ op'[p].kind \in {"put", "prune"} =>
         LET before  == Candidates(p)
             evicted == DOMAIN before \ DOMAIN mem'[p]
         IN \A e \in evicted :
              /\ \A k \in DOMAIN mem'[p] : before[e].used < before[k].used
              /\ (\A f \in evicted : before[f].used <= before[e].used) =>
                   totalSize(mem'[p]) + before[e].size > maxSize[p] ]_vars

-----------------------------------------------------------------------------
\* A claim of the documentation that the code does not keep.

\* File-level locking ensures multi-process safety: what is stored is in the index
\* file.  A process that holds the lock writes an index read before it had it.
NoLostEntry == (\A p \in Procs : Idle(p)) => stored \subseteq DOMAIN indexFile
=============================================================================
