--------------------------- MODULE ArtifactStore ---------------------------
(***************************************************************************)
(* The artifacts of one job in the local store (internal/artifact): Upload,*)
(* Download and Delete of manager.go, which share a RWMutex, and           *)
(* EnforceRetention of retention.go, which does not take it.  Every        *)
(* operation is several steps on the disk, between which the process may   *)
(* crash and, where no lock is held, the others run.                       *)
(*                                                                         *)
(* A data file is an inode, which an open reader keeps when the name is    *)
(* removed, and which an Upload of the same name truncates in place.  Its  *)
(* content is the number of the upload it holds in full, or Cut of it when *)
(* it is a sound gzip file of the first part only.  The job directory      *)
(* vanishes when it is empty.  List only reads.                            *)
(***************************************************************************)
EXTENDS Integers, FiniteSets

CONSTANTS
  Clients,    \* the goroutines that use the manager
  Names,      \* artifact names
  Lives,      \* the retention an upload may ask for, 0 for the default
  Defaults,   \* the values of cfg.DefaultRetentionDays, 0 for none
  MaxAge,     \* the argument of EnforceRetention, 0 for none
  Faults,     \* what may go wrong, among FaultKinds
  MaxTime,    \* bound on the clock
  MaxUploads  \* bound on the uploads

FaultKinds == {"read",   \* what is uploaded cannot be read to its end
               "write",  \* the data file cannot be created or written in full
               "meta",   \* the metadata cannot be written in full
               "remove", \* a file or the directory cannot be removed
               "crash"}  \* the process dies

NoClient == "none"

ASSUME StoreAssumption ==
  /\ NoClient \notin Clients
  /\ Lives \subseteq Nat /\ Defaults \subseteq Nat /\ MaxAge \in Nat
  /\ Faults \subseteq FaultKinds /\ MaxTime \in Nat /\ MaxUploads \in Nat

None == 0
Torn == -1
Cut(u) == -(u + 1)

VARIABLES
  now,     \* the clock
  default, \* cfg.DefaultRetentionDays
  uploads, \* the uploads begun so far; each has its number, and so has its inode
  dir,     \* the job's directory exists
  file,    \* the inode each name has
  content, \* the upload each inode holds, in full or cut, or Torn
  meta,    \* the metadata file of each name
  writer,  \* the client that holds m.mu for writing
  pc,      \* where each client is
  op,      \* its operation: the name, the upload's number and life, the inode it has open
  reader,  \* a Download: what it found, what the metadata said then, if that was in doubt
  sweep,   \* EnforceRetention
  promise, \* when each upload was made and its life ends, 0 for no end (no part of the program)
  raced,   \* clients whose Upload overlapped a sweep of its name (no part of the program)
  doubt    \* names whose last operation failed, crashed or raced (no part of the program)

vars == <<now, default, uploads, dir, file, content, meta, writer, pc, op, reader, sweep, promise, raced, doubt>>
clock == <<now, default, uploads>>
ghosts == <<promise, raced, doubt>>

Uploads == 1..MaxUploads
NoMeta == [upload |-> None, created |-> 0, expires |-> 0]
TornMeta == [NoMeta EXCEPT !.upload = Torn]
NoOp == [name |-> "none", upload |-> None, life |-> 0, inode |-> None]
NoSweep == [at |-> "idle", todo |-> {}, now |-> 0, name |-> "none"]
NoReader == [inode |-> None, seen |-> None, listed |-> None, got |-> None, sure |-> FALSE]
NoPromise == [born |-> 0, ends |-> 0]
Contents == {None, Torn} \cup Uploads \cup {Cut(u) : u \in Uploads}

TypeOK ==
  /\ now \in 0..MaxTime /\ default \in Defaults /\ uploads \in 0..MaxUploads /\ dir \in BOOLEAN
  /\ file \in [Names -> {None} \cup Uploads]
  /\ content \in [Uploads -> Contents]
  /\ \A n \in Names : meta[n] \in [upload : {None, Torn} \cup Uploads, created : 0..MaxTime, expires : Nat]
  /\ writer \in Clients \cup {NoClient}
  /\ pc \in [Clients -> {"idle", "create", "copy", "meta", "delMeta", "reading"}]
  /\ sweep.at \in {"idle", "next", "data", "meta"} /\ sweep.todo \subseteq Names
  /\ promise \in [Uploads -> [born : Nat, ends : Nat]] /\ raced \subseteq Clients /\ doubt \subseteq Names

Init ==
  /\ now = 0 /\ default \in Defaults /\ uploads = 0 /\ dir = FALSE
  /\ file = [n \in Names |-> None]
  /\ content = [i \in Uploads |-> None]
  /\ meta = [n \in Names |-> NoMeta]
  /\ writer = NoClient
  /\ pc = [c \in Clients |-> "idle"]
  /\ op = [c \in Clients |-> NoOp]
  /\ reader = [c \in Clients |-> NoReader]
  /\ sweep = NoSweep
  /\ promise = [u \in Uploads |-> NoPromise] /\ raced = {} /\ doubt = {}

-----------------------------------------------------------------------------
Goto(c, at) == pc' = [pc EXCEPT ![c] = at]

\* The client is done with what its last Download gave it.
Lock(c) ==
  /\ pc[c] = "idle" /\ writer = NoClient /\ writer' = c
  /\ reader' = [reader EXCEPT ![c] = NoReader]

Unlock(c) == writer' = NoClient /\ Goto(c, "idle") /\ op' = [op EXCEPT ![c] = NoOp]

Sweeping(n) == sweep.at \in {"data", "meta"} /\ sweep.name = n

EmptyDir(f, m) == \A n \in Names : f[n] = None /\ m[n] = NoMeta

\* Upload: the lock and MkdirAll.
UploadBegin(c, n, life) ==
  /\ Lock(c) /\ uploads < MaxUploads
  /\ uploads' = uploads + 1
  /\ dir' = TRUE
  /\ op' = [op EXCEPT ![c] = [name |-> n, upload |-> uploads + 1, life |-> life, inode |-> None]]
  /\ raced' = IF Sweeping(n) THEN raced \cup {c} ELSE raced \ {c}
  /\ Goto(c, "create")
  /\ UNCHANGED <<now, default, file, content, meta, sweep, promise, doubt>>

\* os.Create: an existing file is truncated; without the directory, at least, it fails.
UploadCreate(c) ==
  /\ pc[c] = "create"
  /\ LET n == op[c].name
         i == IF file[n] = None THEN op[c].upload ELSE file[n]
     IN \/ /\ dir
           /\ file' = [file EXCEPT ![n] = i]
           /\ content' = [content EXCEPT ![i] = Torn]
           /\ op' = [op EXCEPT ![c].inode = i]
           /\ Goto(c, "copy")
           /\ UNCHANGED <<writer, doubt>>
        \/ /\ ~dir \/ "write" \in Faults
           /\ Unlock(c)
           /\ doubt' = doubt \cup {n}
           /\ UNCHANGED <<file, content>>
  /\ UNCHANGED <<clock, dir, meta, reader, sweep, promise, raced>>

\* io.Copy through gzip into the open file, whatever its name is by now.  When it fails
\* gw.Close() still ends the gzip stream: if only the source failed, the file is a sound one
\* of what had been read.
UploadCopy(c) ==
  /\ pc[c] = "copy"
  /\ \/ /\ content' = [content EXCEPT ![op[c].inode] = op[c].upload]
        /\ Goto(c, "meta")
        /\ UNCHANGED <<writer, op, doubt>>
     \/ /\ \/ "read" \in Faults /\ content' = [content EXCEPT ![op[c].inode] = Cut(op[c].upload)]
           \/ "write" \in Faults /\ UNCHANGED content
        /\ Unlock(c)
        /\ doubt' = doubt \cup {op[c].name}
  /\ UNCHANGED <<clock, dir, file, meta, reader, sweep, promise, raced>>

LifeOf(c) == IF op[c].life > 0 THEN op[c].life ELSE default

Record(c) ==
  [ upload |-> op[c].upload, created |-> now,
    expires |-> IF LifeOf(c) > 0 THEN now + LifeOf(c) ELSE 0 ]

UploadMeta(c) ==
  /\ pc[c] = "meta"
  /\ LET n == op[c].name
     IN \/ /\ dir
           /\ meta' = [meta EXCEPT ![n] = Record(c)]
           /\ doubt' = IF c \in raced THEN doubt \cup {n} ELSE doubt \ {n}
        \/ /\ "meta" \in Faults /\ dir
           /\ meta' = [meta EXCEPT ![n] = TornMeta]
           /\ doubt' = doubt \cup {n}
        \/ /\ ~dir \/ "meta" \in Faults
           /\ doubt' = doubt \cup {n}
           /\ UNCHANGED meta
  /\ promise' = [promise EXCEPT ![op[c].upload] =
       [ born |-> now,
         ends |-> CASE op[c].life > 0 -> now + op[c].life
                    [] op[c].life = 0 /\ default > 0 -> now + default
                    [] OTHER -> 0 ]]
  /\ Unlock(c)
  /\ UNCHANGED <<clock, dir, file, content, reader, sweep, raced>>

-----------------------------------------------------------------------------
\* os.Remove of the directory, whose error is ignored: it goes if it is empty.
RemoveDir(f, m) ==
  \/ dir' = (dir /\ ~EmptyDir(f, m))
  \/ "remove" \in Faults /\ UNCHANGED dir

\* Delete: the data, then the metadata and the directory.  If the data cannot be removed it
\* returns and nothing has changed.
DeleteData(c, n) ==
  /\ Lock(c)
  /\ file' = [file EXCEPT ![n] = None]
  /\ op' = [op EXCEPT ![c] = [NoOp EXCEPT !.name = n]]
  /\ Goto(c, "delMeta")
  /\ UNCHANGED <<clock, dir, content, meta, sweep, ghosts>>

\* Wrong on purpose: only the data is removed.
DeleteMetaKeeps(c) ==
  /\ pc[c] = "delMeta"
  /\ Unlock(c)
  /\ UNCHANGED <<clock, dir, file, content, meta, reader, sweep, ghosts>>

DeleteMeta(c) ==
  /\ pc[c] = "delMeta"
  /\ \/ /\ meta' = [meta EXCEPT ![op[c].name] = NoMeta]
        /\ RemoveDir(file, meta')
        /\ doubt' = doubt \ {op[c].name}
     \/ /\ "remove" \in Faults /\ meta[op[c].name] # NoMeta
        /\ doubt' = doubt \cup {op[c].name}
        /\ UNCHANGED <<dir, meta>>
  /\ Unlock(c)
  /\ UNCHANGED <<clock, file, content, reader, sweep, promise, raced>>

\* Wrong on purpose: Download without RLock.
NoWriterNeeded == TRUE

NoWriter == writer = NoClient

\* Download opens the file under the read lock and returns a reader.
Download(c, n) ==
  /\ pc[c] = "idle" /\ NoWriter /\ file[n] # None
  /\ reader' = [reader EXCEPT ![c] =
       [ inode |-> file[n], seen |-> content[file[n]], listed |-> meta[n].upload, got |-> None,
         sure |-> n \notin doubt ]]
  /\ Goto(c, "reading")
  /\ UNCHANGED <<clock, dir, file, content, meta, writer, op, sweep, ghosts>>

\* The reader is read to its end, without the lock.  gzip's checksum gives away a file that
\* is torn or was replaced half way, but not a cut one.
ReadRest(c) ==
  /\ pc[c] = "reading"
  /\ \E got \in {reader[c].seen, Torn} :
       /\ content[reader[c].inode] = reader[c].seen => got = reader[c].seen
       /\ reader' = [reader EXCEPT ![c].got = got]
  /\ Goto(c, "idle")
  /\ UNCHANGED <<clock, dir, file, content, meta, writer, op, sweep, ghosts>>

-----------------------------------------------------------------------------
\* EnforceRetention.

\* It reads the clock and the directory.
SweepBegin ==
  /\ sweep.at = "idle" /\ dir
  /\ sweep' = [at |-> "next", todo |-> {n \in Names : meta[n] # NoMeta}, now |-> now, name |-> "none"]
  /\ UNCHANGED <<clock, dir, file, content, meta, writer, pc, op, reader, ghosts>>

\* Wrong on purpose: maxAge applies to every artifact.
ExpiredByAge(m, t) == MaxAge > 0 /\ t > m.created + MaxAge

Expired(m, t) ==
  IF m.expires # 0 THEN t > m.expires ELSE MaxAge > 0 /\ t > m.created + MaxAge

\* One metadata file: gone, unreadable, not expired, or to be removed.
SweepRead(n) ==
  /\ sweep.at = "next" /\ n \in sweep.todo
  /\ \/ /\ meta[n].upload > 0 /\ Expired(meta[n], sweep.now)
        /\ sweep' = [sweep EXCEPT !.at = "data", !.name = n]
        /\ raced' = raced \cup {c \in Clients : pc[c] \in {"create", "copy", "meta"} /\ op[c].name = n}
     \/ /\ ~(meta[n].upload > 0 /\ Expired(meta[n], sweep.now))
        /\ sweep' = [sweep EXCEPT !.todo = @ \ {n}]
        /\ UNCHANGED raced
  /\ UNCHANGED <<clock, dir, file, content, meta, writer, pc, op, reader, promise, doubt>>

\* A removal that fails is logged, and the sweep goes on.

SweepData ==
  /\ sweep.at = "data"
  /\ \/ file' = [file EXCEPT ![sweep.name] = None] /\ UNCHANGED doubt
     \/ /\ "remove" \in Faults /\ file[sweep.name] # None
        /\ doubt' = doubt \cup {sweep.name}
        /\ UNCHANGED file
  /\ sweep' = [sweep EXCEPT !.at = "meta"]
  /\ UNCHANGED <<clock, dir, content, meta, writer, pc, op, reader, promise, raced>>

SweepMeta ==
  /\ sweep.at = "meta"
  /\ \/ meta' = [meta EXCEPT ![sweep.name] = NoMeta] /\ UNCHANGED doubt
     \/ /\ "remove" \in Faults /\ meta[sweep.name] # NoMeta
        /\ doubt' = doubt \cup {sweep.name}
        /\ UNCHANGED meta
  /\ sweep' = [sweep EXCEPT !.at = "next", !.todo = @ \ {sweep.name}, !.name = "none"]
  /\ UNCHANGED <<clock, dir, file, content, writer, pc, op, reader, promise, raced>>

\* The directory goes if it is empty now.
SweepEnd ==
  /\ sweep.at = "next" /\ sweep.todo = {}
  /\ RemoveDir(file, meta)
  /\ sweep' = NoSweep
  /\ UNCHANGED <<clock, file, content, meta, writer, pc, op, reader, ghosts>>

-----------------------------------------------------------------------------
\* The process dies with all its goroutines and the lock; the disk stays.
Crash ==
  /\ "crash" \in Faults
  /\ writer # NoClient \/ sweep.at # "idle"
  /\ doubt' = doubt \cup {n \in Names : Sweeping(n) \/ \E c \in Clients : writer = c /\ op[c].name = n}
  /\ writer' = NoClient
  /\ pc' = [c \in Clients |-> "idle"]
  /\ op' = [c \in Clients |-> NoOp]
  /\ reader' = [c \in Clients |-> NoReader]
  /\ sweep' = NoSweep
  /\ UNCHANGED <<clock, dir, file, content, meta, promise, raced>>

Tick ==
  /\ now < MaxTime
  /\ now' = now + 1
  /\ UNCHANGED <<default, uploads, dir, file, content, meta, writer, pc, op, reader, sweep, ghosts>>

Client(c) ==
  \/ \E n \in Names, life \in Lives : UploadBegin(c, n, life)
  \/ UploadCreate(c) \/ UploadCopy(c) \/ UploadMeta(c)
  \/ \E n \in Names : DeleteData(c, n) \/ Download(c, n)
  \/ DeleteMeta(c) \/ ReadRest(c)

Sweep ==
  \/ SweepBegin \/ SweepData \/ SweepMeta \/ SweepEnd
  \/ \E n \in Names : SweepRead(n)

Next == (\E c \in Clients : Client(c)) \/ Sweep \/ Crash \/ Tick

Spec == Init /\ [][Next]_vars

-----------------------------------------------------------------------------
\* Safety.

\* What List returns: a record that cannot be read is skipped.
List == {n \in Names : meta[n].upload > 0}

Busy(n) == Sweeping(n) \/ (writer # NoClient /\ op[writer].name = n)

\* Whatever runs beside it, what List shows of an artifact is what its data file holds,
\* no data is left that List does not show, and a directory that was removed was empty.
\* Only a failure, a crash or the overlap of an Upload with the sweep of its own name
\* brings a name into doubt, and the next Upload or Delete of it that meets none of them
\* puts it right.
Agree ==
  /\ ~dir => EmptyDir(file, meta)
  /\ \A n \in Names \ doubt : ~Busy(n) =>
       \/ meta[n] = NoMeta /\ file[n] = None
       \/ n \in List /\ file[n] # None /\ content[file[n]] = meta[n].upload

\* A Download of a name that is not in doubt, read to its end without an error, delivers
\* the upload that was listed when it was opened, although the lock is long released.  A
\* name in doubt is exempt: after an Upload whose source failed, a Download delivers the cut
\* content without an error.
DownloadHonest ==
  \A c \in Clients : reader[c].sure => reader[c].got \in {None, Torn, reader[c].listed}

\* The life of upload u, its own or else the store's default, is over at t.
LifeOver(u, t) == promise[u].ends # 0 /\ t > promise[u].ends

\* It has no end, and is older than the sweep's maximum.
PastMaxAge(u, t) == promise[u].ends = 0 /\ MaxAge > 0 /\ t > promise[u].born + MaxAge

\* The sweep removes the data of an artifact only when its life is over or, where it has no
\* end, when it is older than the sweep's maximum; and when the sweep is done nothing is
\* left whose life was over when it began, except where a removal failed.
RetentionExact ==
  [][\A n \in Names :
       /\ /\ sweep.at = "data" /\ sweep'.at = "meta" /\ sweep.name = n
          /\ file[n] # None /\ file'[n] = None
          /\ n \notin doubt /\ ~(\E c \in raced : op[c].name = n)
          => LifeOver(content[file[n]], now) \/ PastMaxAge(content[file[n]], now)
       /\ /\ sweep.at = "next" /\ sweep.todo = {} /\ sweep' = NoSweep
          /\ n \notin doubt /\ meta[n].upload > 0
          => ~LifeOver(meta[n].upload, sweep.now)]_vars
=============================================================================
