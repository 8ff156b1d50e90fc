------------------------ MODULE ArtifactStoreProofs ------------------------
(***************************************************************************)
(* Proofs about ArtifactStore, for any number of clients, names and        *)
(* uploads, every clock, every retention and every set of faults.          *)
(***************************************************************************)
EXTENDS ArtifactStore, TLAPS

-----------------------------------------------------------------------------
Uploading(c) == pc[c] \in {"create", "copy", "meta"}
Deleting(c)  == pc[c] = "delMeta"

\* A client works on n and holds the lock.
Held(n) == writer # NoClient /\ op[writer].name = n

\* The two files of an artifact agree, or neither is there.
Consistent(n) ==
  \/ meta[n] = NoMeta /\ file[n] = None
  \/ n \in List /\ file[n] # None /\ content[file[n]] = meta[n].upload

\* Types, with those of the records that TypeOK leaves out.
MetaRecord == [upload : {None, Torn} \cup Uploads, created : 0..MaxTime, expires : Nat]
OpRecord == [name : Names \cup {"none"}, upload : Nat, life : Nat, inode : Nat]
SweepRecord ==
  [ at : {"idle", "next", "data", "meta"}, todo : SUBSET Names, now : Nat,
    name : Names \cup {"none"} ]
ReaderRecord == [inode : Nat, seen : Int, listed : Int, got : Int, sure : BOOLEAN]
PromiseRecord == [born : Nat, ends : Nat]

DiskTypes ==
  /\ now \in 0..MaxTime /\ default \in Defaults /\ uploads \in 0..MaxUploads /\ dir \in BOOLEAN
  /\ file \in [Names -> {None} \cup Uploads]
  /\ content \in [Uploads -> Contents]
  /\ meta \in [Names -> MetaRecord]

ProcessTypes ==
  /\ writer \in Clients \cup {NoClient}
  /\ pc \in [Clients -> {"idle", "create", "copy", "meta", "delMeta", "reading"}]
  /\ op \in [Clients -> OpRecord]
  /\ reader \in [Clients -> ReaderRecord]
  /\ sweep \in SweepRecord
  /\ promise \in [Uploads -> PromiseRecord] /\ raced \subseteq Clients /\ doubt \subseteq Names

Types == DiskTypes /\ ProcessTypes

\* The client at work is the one that holds the lock.
LockInv ==
  /\ \A c \in Clients : Uploading(c) \/ Deleting(c) <=> writer = c
  /\ \A c \in Clients : writer = c => op[c].name \in Names

\* Uploads are numbered as they begin: no two names share an inode, and the number of
\* the upload under way is in no record yet.
NumberInv ==
  /\ \A n \in Names : file[n] <= uploads /\ meta[n].upload <= uploads
  /\ \A n, m \in Names : file[n] # None /\ file[m] = file[n] => m = n
  /\ \A c \in Clients : Uploading(c) =>
       op[c].upload = uploads /\ 0 < uploads /\ \A n \in Names : meta[n].upload < uploads
  /\ \A c \in Clients : pc[c] = "create" => \A n \in Names : file[n] < uploads

\* What the client at work knows of its name: an upload that no sweep has met still has
\* its file, and no other name has it; what Delete works on has no data.
UploadInv ==
  /\ \A c \in Clients : Uploading(c) /\ c \notin raced => ~Sweeping(op[c].name)
  /\ \A c \in Clients : pc[c] \in {"copy", "meta"} =>
       /\ op[c].inode \in 1..uploads
       /\ \A n \in Names : file[n] = op[c].inode => n = op[c].name
       /\ file[op[c].name] \in {None, op[c].inode}
       /\ c \notin raced => file[op[c].name] = op[c].inode
  /\ \A c \in Clients : pc[c] = "meta" => content[op[c].inode] = op[c].upload
  /\ \A c \in Clients : Deleting(c) => file[op[c].name] = None

\* Agree, also half way through a sweep: up to the removal of the data the two files
\* agree, after it there is no data.
AgreeInv ==
  /\ ~dir => EmptyDir(file, meta)
  /\ \A n \in Names \ doubt : ~Held(n) =>
       /\ ~(sweep.at = "meta" /\ sweep.name = n) => Consistent(n)
       /\ sweep.at = "meta" /\ sweep.name = n => file[n] = None

\* A record tells when its upload was made and its life ends.
PromiseInv ==
  \A n \in Names : meta[n].upload > 0 =>
    /\ promise[meta[n].upload].ends = meta[n].expires
    /\ promise[meta[n].upload].born = meta[n].created

Over(u, t) == LifeOver(u, t) \/ PastMaxAge(u, t)

\* What the sweep has passed had not outlived its life, unless a removal failed, and what it
\* is about to remove has.
SweepInv ==
  /\ sweep.now <= now
  /\ sweep.at \in {"data", "meta"} => sweep.name \in sweep.todo
  /\ sweep.at # "idle" => \A n \in Names \ (sweep.todo \cup doubt) :
       meta[n].upload > 0 => ~Over(meta[n].upload, sweep.now)
  /\ sweep.at = "data" /\ sweep.name \notin doubt /\ ~Held(sweep.name) /\ file[sweep.name] # None
       => Over(meta[sweep.name].upload, sweep.now)

\* A reader of a name that was not in doubt sees what was listed.
ReaderInv ==
  \A c \in Clients :
    /\ reader[c].sure => reader[c].seen = reader[c].listed
    /\ reader[c].got \in {None, Torn, reader[c].seen}

IInv == Types /\ LockInv /\ NumberInv /\ UploadInv /\ AgreeInv /\ PromiseInv /\ SweepInv /\ ReaderInv

-----------------------------------------------------------------------------
\* One lemma per action.

\* The update of one field of one client's operation.
LEMMA SetInode ==
  ASSUME op \in [Clients -> OpRecord], NEW c \in Clients, NEW i \in Nat,
         op' = [op EXCEPT ![c].inode = i]
  PROVE  /\ op' \in [Clients -> OpRecord]
         /\ \A d \in Clients \ {c} : op'[d] = op[d]
         /\ op'[c].name = op[c].name /\ op'[c].upload = op[c].upload /\ op'[c].inode = i
<1>1. op'[c] = [op[c] EXCEPT !.inode = i] /\ op[c] \in OpRecord
  OBVIOUS
<1>2. op'[c] = [name |-> op[c].name, upload |-> op[c].upload, life |-> op[c].life, inode |-> i]
  BY <1>1 DEF OpRecord
<1>3. op'[c] \in OpRecord
  BY <1>1, <1>2 DEF OpRecord
<1>4. \A d \in Clients \ {c} : op'[d] = op[d]
  OBVIOUS
<1> QED
  BY <1>2, <1>3, <1>4

\* A client that takes the lock has no reader, the others keep theirs.
LEMMA Locked ==
  ASSUME reader \in [Clients -> ReaderRecord], ReaderInv, NEW c \in Clients, Lock(c)
  PROVE  reader' \in [Clients -> ReaderRecord] /\ ReaderInv'
<1>1. NoReader \in ReaderRecord /\ ~NoReader.sure /\ NoReader.got = None
  BY DEF NoReader, ReaderRecord, Contents, None
<1>2. reader' \in [Clients -> ReaderRecord]
  BY <1>1 DEF Lock
<1>3. \A d \in Clients : reader'[d] = IF d = c THEN NoReader ELSE reader[d]
  BY DEF Lock
<1> QED
  BY <1>1, <1>2, <1>3 DEF ReaderInv

\* When the client that holds the lock returns, no client is at work.
LEMMA Unlocked ==
  ASSUME Types, LockInv, NEW c \in Clients, writer = c, Unlock(c)
  PROVE  /\ writer' = NoClient
         /\ pc' \in [Clients -> {"idle", "create", "copy", "meta", "delMeta", "reading"}]
         /\ op' \in [Clients -> OpRecord]
         /\ \A d \in Clients : ~Uploading(d)' /\ ~Deleting(d)'
         /\ LockInv'
         /\ \A m : ~Held(m)'
<1>1. NoOp \in OpRecord
  BY DEF NoOp, OpRecord, None
<1>2. /\ writer' = NoClient
      /\ pc' = [pc EXCEPT ![c] = "idle"]
      /\ op' = [op EXCEPT ![c] = NoOp]
  BY DEF Unlock, Goto
<1>3. \A d \in Clients : pc'[d] = IF d = c THEN "idle" ELSE pc[d]
  BY <1>2 DEF Types, ProcessTypes
<1>4. \A d \in Clients : ~Uploading(d)' /\ ~Deleting(d)'
  BY <1>3 DEF LockInv, Uploading, Deleting
<1>5. LockInv'
  BY <1>2, <1>4, StoreAssumption DEF LockInv
<1> QED
  BY <1>1, <1>2, <1>4, <1>5 DEF Types, ProcessTypes, Held

\* The invariants about the clients at work hold when there is none.
LEMMA NobodyAtWork ==
  ASSUME \A d \in Clients : ~Uploading(d)' /\ ~Deleting(d)'
  PROVE  UploadInv'
  BY DEF UploadInv, Uploading, Deleting

\* An upload that fails and returns leaves its name in doubt.
LEMMA Abandoned ==
  ASSUME IInv, NEW c \in Clients, writer = c, Unlock(c), doubt' = doubt \cup {op[c].name},
         UNCHANGED <<now, default, uploads, dir, file, meta, reader, sweep, promise, raced>>,
         content' \in [Uploads -> Contents],
         \A m \in Names \ doubt' : file[m] # None => content'[file[m]] = content[file[m]]
  PROVE  IInv'
<1>1. DiskTypes' /\ ProcessTypes' /\ LockInv' /\ UploadInv' /\ ReaderInv' /\ PromiseInv'
  BY Unlocked, NobodyAtWork DEF IInv, Types, DiskTypes, ProcessTypes, LockInv, ReaderInv, PromiseInv
<1>2. NumberInv'
  BY Unlocked DEF IInv, NumberInv, Uploading
<1>3. \A m \in Names \ doubt' : ~Held(m)
  BY DEF Held
<1>4. AgreeInv'
  BY <1>3 DEF IInv, AgreeInv, EmptyDir, Consistent, List
<1>5. sweep.at = "data" => sweep.name \in Names
  BY DEF IInv, SweepInv, Types, ProcessTypes, SweepRecord
<1>6. SweepInv'
  BY <1>3, <1>5 DEF IInv, SweepInv, Over, LifeOver, PastMaxAge
<1> QED
  BY <1>1, <1>2, <1>4, <1>6 DEF IInv, Types

LEMMA UploadBeginStep ==
  ASSUME IInv, NEW c \in Clients, NEW n \in Names, NEW life \in Lives, UploadBegin(c, n, life)
  PROVE  IInv'
<1>1. DiskTypes'
  BY StoreAssumption DEF IInv, UploadBegin, Types, DiskTypes
<1>2. ProcessTypes'
  <2>1. [name |-> n, upload |-> uploads + 1, life |-> life, inode |-> None] \in OpRecord
    BY StoreAssumption DEF IInv, Types, DiskTypes, OpRecord, None
  <2>2. op' \in [Clients -> OpRecord]
    BY <2>1 DEF IInv, Types, ProcessTypes, UploadBegin
  <2>3. reader' \in [Clients -> ReaderRecord]
    BY Locked DEF IInv, Types, ProcessTypes, UploadBegin
  <2> QED
    BY <2>2, <2>3 DEF IInv, UploadBegin, Lock, Goto, Types, ProcessTypes
<1>3. LockInv'
  BY StoreAssumption DEF IInv, UploadBegin, Lock, Goto, Types, ProcessTypes, LockInv, Uploading, Deleting
<1>4. NumberInv'
  <2>1. op'[c].upload = uploads + 1 /\ uploads' = uploads + 1 /\ uploads \in Nat
    BY StoreAssumption DEF IInv, Types, DiskTypes, ProcessTypes, UploadBegin
  <2>2. \A d \in Clients : Uploading(d)' => d = c
    BY <1>3 DEF LockInv, UploadBegin, Lock
  <2>3. UNCHANGED <<file, meta>>
    BY DEF UploadBegin
  <2>4. \A m \in Names : file[m] < uploads' /\ meta[m].upload < uploads'
    <3> TAKE m \in Names
    <3>1. file[m] \in Int /\ meta[m].upload \in Int
      BY StoreAssumption DEF IInv, Types, DiskTypes, MetaRecord, Uploads, None, Torn
    <3> QED
      BY <2>1, <3>1 DEF IInv, NumberInv
  <2>5. \A m \in Names : file[m] <= uploads' /\ meta[m].upload <= uploads'
    BY <2>1, <2>4 DEF IInv, Types, DiskTypes, MetaRecord, Uploads, None, Torn
  <2> QED
    BY <2>1, <2>2, <2>3, <2>4, <2>5 DEF IInv, NumberInv, Uploading
<1>5. UploadInv'
  BY StoreAssumption
     DEF IInv, UploadBegin, Lock, Goto, Types, ProcessTypes, LockInv, UploadInv, Uploading, Deleting, Sweeping
<1>6. AgreeInv'
  BY DEF IInv, UploadBegin, Lock, AgreeInv, Held, Consistent, List
<1>7. PromiseInv'
  BY DEF IInv, UploadBegin, PromiseInv
<1>8. SweepInv'
  BY DEF IInv, UploadBegin, Lock, SweepInv, Held, Over, LifeOver, PastMaxAge
<1>9. ReaderInv'
  BY Locked DEF IInv, UploadBegin, Types, ProcessTypes
<1> QED
  BY <1>1, <1>2, <1>3, <1>4, <1>5, <1>6, <1>7, <1>8, <1>9 DEF IInv, Types

LEMMA UploadCreateStep ==
  ASSUME IInv, NEW c \in Clients, UploadCreate(c)
  PROVE  IInv'
<1> DEFINE n == op[c].name
           i == IF file[n] = None THEN op[c].upload ELSE file[n]
<1>1. /\ pc[c] = "create" /\ writer = c /\ n \in Names /\ op[c].upload = uploads
      /\ uploads \in Uploads /\ i \in Uploads /\ i <= uploads
  BY DEF IInv, UploadCreate, Types, DiskTypes, LockInv, NumberInv, Uploading, Uploads
<1>2. \/ /\ dir
         /\ file' = [file EXCEPT ![n] = i] /\ content' = [content EXCEPT ![i] = Torn]
         /\ op' = [op EXCEPT ![c].inode = i] /\ pc' = [pc EXCEPT ![c] = "copy"]
         /\ UNCHANGED <<writer, doubt>>
      \/ Unlock(c) /\ doubt' = doubt \cup {n} /\ UNCHANGED <<file, content>>
  BY DEF UploadCreate, Goto
<1>3. UNCHANGED <<now, default, uploads, dir, meta, reader, sweep, promise, raced>>
  BY DEF UploadCreate, clock
<1>4. /\ i \in Nat /\ i # None
      /\ \A m \in Names : file[m] = i => m = n
  BY <1>1, StoreAssumption DEF IInv, Types, DiskTypes, NumberInv, Uploads, None
<1>5. op[c].name = n /\ (file[n] # None => file[n] = i)
  OBVIOUS
<1> HIDE DEF n, i
<1>6. CASE Unlock(c) /\ doubt' = doubt \cup {n} /\ UNCHANGED <<file, content>>
  BY <1>1, <1>3, <1>5, <1>6, Abandoned DEF IInv, Types, DiskTypes
<1>7. CASE /\ dir
           /\ file' = [file EXCEPT ![n] = i] /\ content' = [content EXCEPT ![i] = Torn]
           /\ op' = [op EXCEPT ![c].inode = i] /\ pc' = [pc EXCEPT ![c] = "copy"]
           /\ UNCHANGED <<writer, doubt>>
  <2>1. /\ op' \in [Clients -> OpRecord]
        /\ \A d \in Clients \ {c} : op'[d] = op[d]
        /\ op'[c].name = n /\ op'[c].upload = uploads /\ op'[c].inode = i
    BY <1>1, <1>4, <1>5, <1>7, SetInode DEF IInv, Types, ProcessTypes
  <2>2. \A d \in Clients : pc'[d] = IF d = c THEN "copy" ELSE pc[d]
    BY <1>7 DEF IInv, Types, ProcessTypes
  <2>3. /\ file'[n] = i
        /\ \A m \in Names \ {n} : file'[m] = file[m] /\ file[m] # i
    BY <1>1, <1>4, <1>7 DEF IInv, Types, DiskTypes
  <2>4. \A m \in Names \ {n} : file[m] # None => content'[file[m]] = content[file[m]]
    BY <1>1, <1>4, <1>7, <2>3 DEF IInv, Types, DiskTypes
  <2>5. \A d \in Clients : Uploading(d)' \/ Deleting(d)' <=> d = c
    BY <1>1, <2>2 DEF IInv, LockInv, Uploading, Deleting
  <2>6. \A m \in Names : Held(m)' <=> Held(m)
    BY <1>1, <1>5, <1>7, <2>1 DEF Held
  <2>7. Held(n)
    BY <1>1, <1>5, StoreAssumption DEF Held
  <2>8. DiskTypes' /\ ProcessTypes'
    <3>1. content' \in [Uploads -> Contents]
      BY <1>1, <1>7 DEF IInv, Types, DiskTypes, Contents
    <3> QED
      BY <1>1, <1>3, <1>7, <2>1, <3>1 DEF IInv, Types, DiskTypes, ProcessTypes
  <2>9. LockInv'
    BY <1>1, <1>7, <2>1, <2>5 DEF LockInv
  <2>10. NumberInv'
    BY <1>1, <1>3, <2>1, <2>2, <2>3, <2>5 DEF IInv, NumberInv, Uploading
  <2>11. UploadInv'
    BY <1>1, <1>3, <1>5, <2>1, <2>2, <2>3, <2>5 DEF IInv, UploadInv, Uploading, Deleting, Sweeping, Uploads
  <2>12. AgreeInv'
    <3>1. \A m \in Names \ doubt : ~Held(m) => (Consistent(m) => Consistent(m)')
      BY <1>3, <2>3, <2>4, <2>7 DEF Consistent, List
    <3> QED
      BY <1>3, <1>7, <2>3, <2>6, <2>7, <3>1 DEF IInv, AgreeInv
  <2>13. PromiseInv' /\ ReaderInv'
    BY <1>3 DEF IInv, PromiseInv, ReaderInv
  <2>14. sweep.at = "data" => sweep.name \in Names
    BY DEF IInv, SweepInv, Types, ProcessTypes, SweepRecord
  <2>15. SweepInv'
    BY <1>3, <1>7, <2>3, <2>6, <2>7, <2>14 DEF IInv, SweepInv, Over, LifeOver, PastMaxAge
  <2> QED
    BY <2>8, <2>9, <2>10, <2>11, <2>12, <2>13, <2>15 DEF IInv, Types
<1> QED
  BY <1>2, <1>6, <1>7

LEMMA UploadCopyStep ==
  ASSUME IInv, NEW c \in Clients, UploadCopy(c)
  PROVE  IInv'
<1> DEFINE i == op[c].inode
<1>1. /\ pc[c] = "copy" /\ writer = c /\ op[c].name \in Names /\ op[c].upload = uploads
      /\ uploads \in Uploads /\ i \in Uploads /\ i \in 1..uploads /\ i # None
  BY StoreAssumption
     DEF IInv, UploadCopy, Types, DiskTypes, LockInv, NumberInv, UploadInv, Uploading, Uploads, None
<1>2. \/ /\ content' = [content EXCEPT ![i] = op[c].upload] /\ pc' = [pc EXCEPT ![c] = "meta"]
         /\ UNCHANGED <<writer, op, doubt>>
      \/ /\ Unlock(c) /\ doubt' = doubt \cup {op[c].name}
         /\ content' \in {content, [content EXCEPT ![i] = Cut(uploads)]}
  BY <1>1 DEF UploadCopy, Goto
<1>3. UNCHANGED <<now, default, uploads, dir, file, meta, reader, sweep, promise, raced>>
  BY DEF UploadCopy, clock
<1>4. op[c].inode = i
  OBVIOUS
<1> HIDE DEF i
<1>5. CASE /\ Unlock(c) /\ doubt' = doubt \cup {op[c].name}
           /\ content' \in {content, [content EXCEPT ![i] = Cut(uploads)]}
  <2>1. content' \in [Uploads -> Contents]
    BY <1>1, <1>5 DEF IInv, Types, DiskTypes, Contents
  <2>2. \A m \in Names \ doubt' : file[m] # None => content'[file[m]] = content[file[m]]
    <3> SUFFICES ASSUME NEW m \in Names \ doubt', file[m] # None
                 PROVE  content'[file[m]] = content[file[m]]
      OBVIOUS
    <3>1. file[m] # i
      BY <1>1, <1>4, <1>5 DEF IInv, UploadInv
    <3> QED
      BY <1>5, <3>1 DEF IInv, Types, DiskTypes
  <2> QED
    BY <1>1, <1>3, <1>5, <2>1, <2>2, Abandoned
<1>6. CASE /\ content' = [content EXCEPT ![i] = op[c].upload] /\ pc' = [pc EXCEPT ![c] = "meta"]
           /\ UNCHANGED <<writer, op, doubt>>
  <2>1. \A d \in Clients : pc'[d] = IF d = c THEN "meta" ELSE pc[d]
    BY <1>6 DEF IInv, Types, ProcessTypes
  <2>2. \A m \in Names : ~Held(m) /\ file[m] # None => content'[file[m]] = content[file[m]]
    <3> SUFFICES ASSUME NEW m \in Names, ~Held(m), file[m] # None
                 PROVE  content'[file[m]] = content[file[m]]
      OBVIOUS
    <3>1. m # op[c].name
      BY <1>1, StoreAssumption DEF Held
    <3>2. file[m] # i
      BY <1>1, <1>4, <3>1 DEF IInv, UploadInv
    <3> QED
      BY <1>6, <3>2 DEF IInv, Types, DiskTypes
  <2>3. \A d \in Clients : Uploading(d)' \/ Deleting(d)' <=> d = c
    BY <1>1, <2>1 DEF IInv, LockInv, Uploading, Deleting
  <2>4. \A m : Held(m)' <=> Held(m)
    BY <1>6 DEF Held
  <2>5. DiskTypes' /\ ProcessTypes'
    <3>1. content' \in [Uploads -> Contents]
      BY <1>1, <1>6 DEF IInv, Types, DiskTypes, Contents
    <3> QED
      BY <1>1, <1>3, <1>6, <3>1 DEF IInv, Types, DiskTypes, ProcessTypes
  <2>6. LockInv'
    BY <1>1, <1>6, <2>3 DEF LockInv
  <2>7. NumberInv'
    BY <1>1, <1>3, <1>6, <2>1, <2>3 DEF IInv, NumberInv, Uploading
  <2>8. content'[i] = op[c].upload
    BY <1>1, <1>6 DEF IInv, Types, DiskTypes
  <2>9. UploadInv'
    BY <1>1, <1>3, <1>4, <1>6, <2>1, <2>3, <2>8
       DEF IInv, UploadInv, Uploading, Deleting, Sweeping
  <2>10. AgreeInv'
    <3>1. \A m \in Names \ doubt : ~Held(m) => (Consistent(m) => Consistent(m)')
      BY <1>3, <2>2 DEF Consistent, List
    <3> QED
      BY <1>3, <1>6, <2>4, <3>1 DEF IInv, AgreeInv, EmptyDir
  <2>11. PromiseInv' /\ ReaderInv' /\ SweepInv'
    BY <1>3, <1>6, <2>4 DEF IInv, PromiseInv, ReaderInv, SweepInv, Over, LifeOver, PastMaxAge
  <2> QED
    BY <2>5, <2>6, <2>7, <2>9, <2>10, <2>11 DEF IInv, Types
<1> QED
  BY <1>2, <1>5, <1>6

LEMMA UploadMetaStep ==
  ASSUME IInv, NEW c \in Clients, UploadMeta(c)
  PROVE  IInv'
<1>0. /\ pc[c] = "meta" /\ writer = c /\ op[c].name \in Names /\ op[c].upload = uploads
      /\ uploads \in Uploads /\ uploads \in Nat \ {0} /\ Unlock(c) /\ op[c].life \in Nat
  BY StoreAssumption
     DEF IInv, UploadMeta, Types, DiskTypes, ProcessTypes, LockInv, NumberInv, Uploading, Uploads, OpRecord
<1>8. PICK n \in Names, u \in Uploads : op[c].name = n /\ op[c].upload = u
  BY <1>0
<1>1. /\ pc[c] = "meta" /\ writer = c /\ n \in Names /\ u = uploads /\ u \in Uploads /\ u \in Nat \ {0}
      /\ Unlock(c) /\ op[c].life \in Nat
  BY <1>0, <1>8
<1>2. \/ /\ dir /\ meta' = [meta EXCEPT ![n] = Record(c)]
         /\ doubt' = IF c \in raced THEN doubt \cup {n} ELSE doubt \ {n}
      \/ dir /\ meta' = [meta EXCEPT ![n] = TornMeta] /\ doubt' = doubt \cup {n}
      \/ doubt' = doubt \cup {n} /\ UNCHANGED meta
  BY <1>8 DEF UploadMeta
<1>3. UNCHANGED <<now, default, uploads, dir, file, content, reader, sweep, raced>>
  BY DEF UploadMeta, clock
<1>4. /\ default \in Nat /\ now \in Nat /\ now \in 0..MaxTime /\ MaxAge \in Nat
      /\ sweep.now \in Nat /\ sweep.now <= now
  BY StoreAssumption DEF IInv, Types, DiskTypes, ProcessTypes, SweepRecord, SweepInv
<1>5. Record(c) \in MetaRecord /\ Record(c).upload = u /\ TornMeta \in MetaRecord /\ TornMeta.upload = Torn
  <2> DEFINE e == IF LifeOf(c) > 0 THEN now + LifeOf(c) ELSE 0
  <2>1. TornMeta = [upload |-> Torn, created |-> 0, expires |-> 0]
    BY DEF TornMeta, NoMeta
  <2>2. 0 \in 0..MaxTime
    BY <1>4, StoreAssumption
  <2>3. LifeOf(c) \in Nat
    BY <1>1, <1>4 DEF LifeOf
  <2>4. Record(c) = [upload |-> u, created |-> now, expires |-> e]
    BY <1>8 DEF Record
  <2>5. e \in Nat
    BY <1>4, <2>3
  <2> HIDE DEF e
  <2> QED
    BY <1>1, <1>4, <2>1, <2>2, <2>4, <2>5 DEF MetaRecord
<1>6. \E t \in PromiseRecord :
        /\ promise' = [promise EXCEPT ![u] = t]
        /\ t.ends = Record(c).expires /\ t.born = Record(c).created
        /\ t.born = now /\ (t.ends = 0 \/ t.ends > now)
  <2> DEFINE e == CASE op[c].life > 0 -> now + op[c].life
                    [] op[c].life = 0 /\ default > 0 -> now + default
                    [] OTHER -> 0
  <2>1. promise' = [promise EXCEPT ![u] = [born |-> now, ends |-> e]]
    BY <1>8 DEF UploadMeta
  <2>2. e \in Nat /\ (e = 0 \/ e > now)
    BY <1>1, <1>4
  <2>3. e = Record(c).expires /\ now = Record(c).created
    BY <1>1, <1>4, <1>8 DEF Record, LifeOf
  <2> HIDE DEF e
  <2>4. [born |-> now, ends |-> e] \in PromiseRecord
    BY <1>4, <2>2 DEF PromiseRecord
  <2> QED
    BY <2>1, <2>2, <2>3, <2>4
<1>7. PICK t \in PromiseRecord :
        /\ promise' = [promise EXCEPT ![u] = t]
        /\ t.ends = Record(c).expires /\ t.born = Record(c).created
        /\ t.born = now /\ (t.ends = 0 \/ t.ends > now)
  BY <1>6
<1>9. /\ writer' = NoClient
      /\ \A d \in Clients : ~Uploading(d)' /\ ~Deleting(d)'
      /\ LockInv' /\ ProcessTypes'
  <2>1. promise' \in [Uploads -> PromiseRecord] /\ doubt' \subseteq Names
    BY <1>1, <1>2, <1>7 DEF IInv, Types, ProcessTypes
  <2> QED
    BY <1>1, <1>3, <2>1, Unlocked DEF IInv, Types, ProcessTypes
<1>10. /\ promise'[u] = t
       /\ \A v \in Uploads \ {u} : promise'[v] = promise[v]
  BY <1>1, <1>7 DEF IInv, Types, ProcessTypes
<1>11. \A m \in Names : meta[m].upload < u /\ meta[m].upload \in {None, Torn} \cup Uploads
  BY <1>1, <1>8 DEF IInv, NumberInv, Uploading, Types, DiskTypes, MetaRecord
<1>12. \A m \in Names \ {n} : meta'[m] = meta[m]
  BY <1>2 DEF IInv, Types, DiskTypes
<1>13. meta'[n] \in {meta[n], TornMeta, Record(c)}
  BY <1>1, <1>2 DEF IInv, Types, DiskTypes
<1>14. DiskTypes'
  <2>1. meta' \in [Names -> MetaRecord]
    BY <1>1, <1>2, <1>5 DEF IInv, Types, DiskTypes
  <2> QED
    BY <1>3, <2>1 DEF IInv, Types, DiskTypes
<1>15. NumberInv'
  <2>1. \A m \in Names : meta'[m].upload <= uploads
    BY <1>1, <1>5, <1>11, <1>12, <1>13 DEF IInv, NumberInv, Torn, Uploads
  <2> QED
    BY <1>3, <1>9, <2>1 DEF IInv, NumberInv, Uploading
<1>16. UploadInv'
  BY <1>9, NobodyAtWork
<1>17. \A m \in Names \ {n} : ~Held(m)
  BY <1>1, <1>8 DEF Held
<1>18. \A m \in Names \ doubt' : m # n => m \notin doubt
  BY <1>2
<1>19. n \notin doubt' => /\ meta'[n] = Record(c) /\ file[n] = op[c].inode
                          /\ content[op[c].inode] = u /\ op[c].inode # None /\ ~Sweeping(n)
  BY <1>1, <1>2, <1>8 DEF IInv, UploadInv, Uploading, Types, DiskTypes, None
<1>20. AgreeInv'
  <2>1. \A m \in Names \ {n} : Consistent(m) => Consistent(m)'
    BY <1>3, <1>12 DEF Consistent, List
  <2>2. n \notin doubt' => Consistent(n)'
    BY <1>1, <1>3, <1>5, <1>19 DEF Consistent, List, None
  <2>3. n \notin doubt' => ~(sweep.at = "meta" /\ sweep.name = n)
    BY <1>19 DEF Sweeping
  <2>4. (~dir => EmptyDir(file, meta))'
    BY <1>2, <1>3 DEF IInv, AgreeInv, EmptyDir
  <2> QED
    BY <1>3, <1>17, <1>18, <2>1, <2>2, <2>3, <2>4 DEF IInv, AgreeInv
<1>21. PromiseInv'
  <2>1. \A m \in Names : meta'[m] = meta[m] /\ meta[m].upload > 0 =>
          promise'[meta'[m].upload] = promise[meta[m].upload]
    BY <1>10, <1>11, <1>1 DEF None, Torn, Uploads
  <2>2. meta'[n] = Record(c) => promise'[meta'[n].upload] = t
    BY <1>5, <1>10
  <2>3. meta'[n] = TornMeta => ~(meta'[n].upload > 0)
    BY <1>5 DEF Torn
  <2> QED
    BY ZenonT(30), <1>7, <1>12, <1>13, <2>1, <2>2, <2>3 DEF IInv, PromiseInv
<1>22. SweepInv'
  <2>1. \A m \in Names : meta'[m] = meta[m] /\ meta[m].upload > 0 =>
          (Over(meta[m].upload, sweep.now)' <=> Over(meta[m].upload, sweep.now))
    BY <1>3, <1>10, <1>11, <1>1 DEF None, Torn, Uploads, Over, LifeOver, PastMaxAge
  <2>2. meta'[n] = Record(c) => ~Over(meta[n].upload, sweep.now)'
    BY <1>3, <1>4, <1>5, <1>7, <1>10 DEF Over, LifeOver, PastMaxAge, PromiseRecord
  <2>3. meta'[n] = TornMeta => ~(meta'[n].upload > 0)
    BY <1>5 DEF Torn
  <2>4. sweep.at \in {"data", "meta"} => sweep.name \in sweep.todo /\ sweep.name \in Names
    BY DEF IInv, SweepInv, Types, ProcessTypes, SweepRecord
  <2>5. sweep.at # "idle" =>
          \A m \in Names \ (sweep.todo \cup doubt') :
            meta'[m].upload > 0 => ~Over(meta[m].upload, sweep.now)'
    BY <1>12, <1>13, <1>18, <1>19, <2>1, <2>2, <2>3 DEF IInv, SweepInv
  <2>6. sweep.at = "data" /\ sweep.name \notin doubt' /\ file[sweep.name] # None
          => Over(meta[sweep.name].upload, sweep.now)'
    <3> SUFFICES ASSUME sweep.at = "data", sweep.name \notin doubt', file[sweep.name] # None
                 PROVE  Over(meta[sweep.name].upload, sweep.now)'
      OBVIOUS
    <3>1. sweep.name # n
      BY <1>19 DEF Sweeping
    <3>2. sweep.name \in Names \ doubt /\ ~Held(sweep.name)
      BY <1>17, <1>18, <2>4, <3>1
    <3>3. meta[sweep.name].upload > 0
      BY <3>2 DEF IInv, AgreeInv, Consistent, List
    <3> QED
      BY <1>3, <1>12, <2>1, <3>1, <3>2, <3>3 DEF IInv, SweepInv
  <2> QED
    BY <1>3, <2>4, <2>5, <2>6 DEF IInv, SweepInv
<1>23. ReaderInv'
  BY <1>3 DEF IInv, ReaderInv
<1> QED
  BY <1>9, <1>14, <1>15, <1>16, <1>20, <1>21, <1>22, <1>23 DEF IInv, Types

LEMMA DeleteDataStep ==
  ASSUME IInv, NEW c \in Clients, NEW n \in Names, DeleteData(c, n)
  PROVE  IInv'
<1>1. DiskTypes'
  BY DEF IInv, DeleteData, clock, Types, DiskTypes
<1>2. ProcessTypes'
  <2>1. reader' \in [Clients -> ReaderRecord]
    BY Locked DEF IInv, Types, ProcessTypes, DeleteData
  <2> QED
    BY <2>1 DEF IInv, DeleteData, Lock, Goto, NoOp, ghosts, Types, ProcessTypes, OpRecord, None
<1>3. LockInv'
  BY StoreAssumption DEF IInv, DeleteData, Lock, Goto, Types, ProcessTypes, LockInv, Uploading, Deleting
<1>4. NumberInv'
  BY DEF IInv, DeleteData, Lock, Goto, clock, Types, DiskTypes, NumberInv, Uploading, None
<1>5. UploadInv'
  BY StoreAssumption
     DEF IInv, DeleteData, Lock, Goto, Types, DiskTypes, ProcessTypes, LockInv, UploadInv, Uploading, Deleting
<1>6. AgreeInv'
  BY DEF IInv, DeleteData, Lock, ghosts, Types, ProcessTypes, LockInv, AgreeInv, Uploading, Deleting, Held,
         Consistent, List, EmptyDir
<1>7. PromiseInv'
  BY DEF IInv, DeleteData, ghosts, PromiseInv
<1>8. SweepInv'
  BY DEF IInv, DeleteData, Lock, clock, ghosts, SweepInv, Held, Over, LifeOver, PastMaxAge
<1>9. ReaderInv'
  BY Locked DEF IInv, DeleteData, Types, ProcessTypes
<1> QED
  BY <1>1, <1>2, <1>3, <1>4, <1>5, <1>6, <1>7, <1>8, <1>9 DEF IInv, Types

LEMMA DeleteMetaStep ==
  ASSUME IInv, NEW c \in Clients, DeleteMeta(c)
  PROVE  IInv'
<1>3. PICK n \in Names : op[c].name = n
  BY DEF IInv, DeleteMeta, LockInv, Deleting
<1>1. /\ pc[c] = "delMeta" /\ writer = c /\ n \in Names /\ Unlock(c) /\ file[n] = None
  BY <1>3 DEF IInv, DeleteMeta, LockInv, UploadInv, Deleting
<1>2. UNCHANGED <<now, default, uploads, file, content, reader, sweep, promise, raced>>
  BY DEF DeleteMeta, clock
<1>4. NoMeta \in MetaRecord /\ ~(NoMeta.upload > 0) /\ NoMeta.upload = None
  BY StoreAssumption DEF NoMeta, MetaRecord, None
<1>7. uploads \in Nat
  BY StoreAssumption DEF IInv, Types, DiskTypes
<1>9. \A m \in Names \ {n} : ~Held(m)
  BY <1>1, <1>3 DEF Held
<1>5. CASE doubt' = doubt \cup {op[c].name} /\ UNCHANGED <<dir, meta>>
  BY <1>1, <1>2, <1>5, Abandoned DEF IInv, Types, DiskTypes
<1>6. CASE /\ meta' = [meta EXCEPT ![n] = NoMeta]
           /\ RemoveDir(file, meta')
           /\ doubt' = doubt \ {n}
  <2>1. dir' \in BOOLEAN /\ (~dir' => ~dir \/ EmptyDir(file, meta'))
    BY <1>6 DEF RemoveDir, IInv, Types, DiskTypes
  <2>2. meta'[n] = NoMeta /\ \A m \in Names \ {n} : meta'[m] = meta[m]
    BY <1>1, <1>6 DEF IInv, Types, DiskTypes
  <2>3. DiskTypes' /\ ProcessTypes' /\ LockInv' /\ UploadInv'
    BY <1>1, <1>2, <1>4, <1>6, <2>1, Unlocked, NobodyAtWork DEF IInv, Types, DiskTypes, ProcessTypes
  <2>4. NumberInv'
    BY <1>1, <1>2, <1>4, <1>7, <2>2, Unlocked DEF IInv, NumberInv, Uploading, None
  <2>5. AgreeInv'
    <3>1. \A m \in Names \ {n} : Consistent(m) => Consistent(m)'
      BY <1>2, <2>2 DEF Consistent, List
    <3>2. Consistent(n)'
      BY <1>1, <1>2, <2>2 DEF Consistent
    <3>3. (~dir => EmptyDir(file, meta))'
      BY <1>1, <1>2, <2>1, <2>2 DEF IInv, AgreeInv, EmptyDir
    <3> QED
      BY <1>1, <1>2, <1>6, <1>9, <3>1, <3>2, <3>3 DEF IInv, AgreeInv
  <2>6. PromiseInv' /\ ReaderInv'
    BY <1>2, <1>4, <2>2 DEF IInv, PromiseInv, ReaderInv
  <2>7. SweepInv'
    <3>1. sweep.at = "data" => sweep.name \in Names
      BY DEF IInv, SweepInv, Types, ProcessTypes, SweepRecord
    <3> QED
      BY <1>1, <1>2, <1>4, <1>6, <1>9, <2>2, <3>1 DEF IInv, SweepInv, Over, LifeOver, PastMaxAge
  <2> QED
    BY <2>3, <2>4, <2>5, <2>6, <2>7 DEF IInv, Types
<1> QED
  BY <1>3, <1>5, <1>6 DEF DeleteMeta

LEMMA DownloadStep ==
  ASSUME IInv, NEW c \in Clients, NEW n \in Names, Download(c, n)
  PROVE  IInv'
<1>1. DiskTypes'
  BY DEF IInv, Download, clock, Types, DiskTypes
<1>2. ProcessTypes'
  <2> DEFINE seen == content[file[n]]
             r == [ inode |-> file[n], seen |-> seen, listed |-> meta[n].upload, got |-> None,
                    sure |-> n \notin doubt ]
  <2>1. file[n] \in Nat /\ seen \in Int /\ meta[n].upload \in Int
    BY StoreAssumption DEF IInv, Types, DiskTypes, Download, MetaRecord, Uploads, Contents, Cut, None, Torn
  <2>2. r \in ReaderRecord
    BY <2>1 DEF ReaderRecord, None
  <2>3. reader' = [reader EXCEPT ![c] = r]
    BY DEF Download
  <2> HIDE DEF r
  <2>4. reader' \in [Clients -> ReaderRecord]
    BY <2>2, <2>3 DEF IInv, Types, ProcessTypes
  <2> QED
    BY <2>4 DEF IInv, Download, Goto, clock, ghosts, Types, ProcessTypes
<1>3. LockInv'
  BY DEF IInv, Download, Goto, LockInv, Uploading, Deleting
<1>4. NumberInv'
  BY DEF IInv, Download, Goto, clock, NumberInv, Uploading
<1>5. UploadInv'
  BY DEF IInv, Download, Goto, clock, ghosts, UploadInv, Uploading, Deleting, Sweeping
<1>6. AgreeInv'
  BY DEF IInv, Download, ghosts, AgreeInv, Held, Consistent, List
<1>7. PromiseInv'
  BY DEF IInv, Download, ghosts, PromiseInv
<1>8. SweepInv'
  BY DEF IInv, Download, clock, ghosts, SweepInv, Held, Over, LifeOver, PastMaxAge
<1>9. ReaderInv'
  <2>1. n \notin doubt => content[file[n]] = meta[n].upload
    BY StoreAssumption DEF IInv, AgreeInv, Download, NoWriter, Held, Consistent
  <2>2. (reader'[c].sure => reader'[c].seen = reader'[c].listed) /\ reader'[c].got = None
    BY <2>1 DEF IInv, Types, ProcessTypes, Download
  <2>3. \A d \in Clients \ {c} : reader'[d] = reader[d]
    BY DEF Download, IInv, Types, ProcessTypes
  <2> QED
    BY <2>2, <2>3 DEF IInv, ReaderInv
<1> QED
  BY <1>1, <1>2, <1>3, <1>4, <1>5, <1>6, <1>7, <1>8, <1>9 DEF IInv, Types

LEMMA ReadRestStep ==
  ASSUME IInv, NEW c \in Clients, ReadRest(c)
  PROVE  IInv'
<1>1. DiskTypes'
  BY DEF IInv, ReadRest, clock, Types, DiskTypes
<1>2. ProcessTypes'
  <2>1. PICK got \in {reader[c].seen, Torn} : reader' = [reader EXCEPT ![c] = [reader[c] EXCEPT !.got = got]]
    BY DEF ReadRest
  <2>2. reader[c] \in ReaderRecord
    BY DEF IInv, Types, ProcessTypes
  <2>3. got \in Int
    BY <2>2 DEF ReaderRecord, Torn
  <2>4. [reader[c] EXCEPT !.got = got] \in ReaderRecord
    BY <2>2, <2>3 DEF ReaderRecord
  <2>5. reader' \in [Clients -> ReaderRecord]
    BY <2>1, <2>4 DEF IInv, Types, ProcessTypes
  <2> QED
    BY <2>5 DEF IInv, ReadRest, Goto, clock, ghosts, Types, ProcessTypes
<1>3. LockInv'
  BY DEF IInv, ReadRest, Goto, LockInv, Uploading, Deleting
<1>4. NumberInv'
  BY DEF IInv, ReadRest, Goto, clock, NumberInv, Uploading
<1>5. UploadInv'
  BY DEF IInv, ReadRest, Goto, clock, ghosts, UploadInv, Uploading, Deleting, Sweeping
<1>6. AgreeInv'
  BY DEF IInv, ReadRest, ghosts, AgreeInv, Held, Consistent, List
<1>7. PromiseInv'
  BY DEF IInv, ReadRest, ghosts, PromiseInv
<1>8. SweepInv'
  BY DEF IInv, ReadRest, clock, ghosts, SweepInv, Held, Over, LifeOver, PastMaxAge
<1>9. ReaderInv'
  BY DEF IInv, ReadRest, ReaderInv
<1> QED
  BY <1>1, <1>2, <1>3, <1>4, <1>5, <1>6, <1>7, <1>8, <1>9 DEF IInv, Types

LEMMA SweepBeginStep ==
  ASSUME IInv, SweepBegin
  PROVE  IInv'
<1>1. DiskTypes'
  BY DEF IInv, SweepBegin, clock, Types, DiskTypes
<1>2. ProcessTypes'
  <2> DEFINE todo == {n \in Names : meta[n] # NoMeta}
  <2>1. sweep' = [at |-> "next", todo |-> todo, now |-> now, name |-> "none"]
    BY DEF SweepBegin
  <2>2. todo \in SUBSET Names /\ now \in Nat
    BY StoreAssumption DEF IInv, Types, DiskTypes
  <2> HIDE DEF todo
  <2>3. sweep' \in SweepRecord
    BY <2>1, <2>2 DEF SweepRecord
  <2> QED
    BY <2>3 DEF IInv, SweepBegin, clock, ghosts, Types, ProcessTypes
<1>3. LockInv'
  BY DEF IInv, SweepBegin, LockInv, Uploading, Deleting
<1>4. NumberInv'
  BY DEF IInv, SweepBegin, clock, NumberInv, Uploading
<1>5. UploadInv'
  BY DEF IInv, SweepBegin, clock, ghosts, UploadInv, Deleting, Sweeping
<1>6. AgreeInv'
  BY DEF IInv, SweepBegin, ghosts, AgreeInv, Held, Consistent, List
<1>7. PromiseInv'
  BY DEF IInv, SweepBegin, ghosts, PromiseInv
<1>8. SweepInv'
  BY DEF IInv, SweepBegin, clock, Types, DiskTypes, SweepInv, None, NoMeta
<1>9. ReaderInv'
  BY DEF IInv, SweepBegin, ReaderInv
<1> QED
  BY <1>1, <1>2, <1>3, <1>4, <1>5, <1>6, <1>7, <1>8, <1>9 DEF IInv, Types

LEMMA SweepReadStep ==
  ASSUME IInv, NEW n \in Names, SweepRead(n)
  PROVE  IInv'
<1>1. DiskTypes'
  BY DEF IInv, SweepRead, clock, Types, DiskTypes
<1>2. ProcessTypes'
  <2>1. sweep \in SweepRecord
    BY DEF IInv, Types, ProcessTypes
  <2>2. sweep' \in SweepRecord
    <3>1. CASE sweep' = [sweep EXCEPT !.at = "data", !.name = n]
      BY <2>1, <3>1 DEF SweepRecord
    <3>2. CASE sweep' = [sweep EXCEPT !.todo = @ \ {n}]
      <4>1. sweep.todo \ {n} \in SUBSET Names
        BY <2>1 DEF SweepRecord
      <4> QED
        BY <2>1, <3>2, <4>1 DEF SweepRecord
    <3> QED
      BY <3>1, <3>2 DEF SweepRead
  <2>3. raced' \subseteq Clients
    BY DEF IInv, Types, ProcessTypes, SweepRead
  <2> QED
    BY <2>2, <2>3 DEF IInv, SweepRead, clock, Types, ProcessTypes
<1>3. LockInv'
  BY DEF IInv, SweepRead, LockInv, Uploading, Deleting
<1>4. NumberInv'
  BY DEF IInv, SweepRead, clock, NumberInv, Uploading
<1>5. UploadInv'
  BY ZenonT(30) DEF IInv, SweepRead, clock, Types, ProcessTypes, SweepRecord, LockInv, UploadInv,
                    Uploading, Deleting, Sweeping
<1>6. AgreeInv'
  BY DEF IInv, SweepRead, Types, ProcessTypes, SweepRecord, AgreeInv, Held, Consistent, List
<1>7. PromiseInv'
  BY DEF IInv, SweepRead, PromiseInv
<1>8. SweepInv'
  <2>1. meta[n].upload > 0 => (Expired(meta[n], sweep.now) <=> Over(meta[n].upload, sweep.now))
    <3>1. /\ sweep.now \in Nat /\ meta[n].expires \in Nat /\ meta[n].created \in Nat
          /\ MaxAge \in Nat
      BY StoreAssumption DEF IInv, Types, DiskTypes, ProcessTypes, MetaRecord, SweepRecord
    <3> QED
      BY <3>1 DEF IInv, PromiseInv, Expired, Over, LifeOver, PastMaxAge
  <2>2. UNCHANGED <<now, meta, file, writer, op, promise, doubt>>
    BY DEF SweepRead, clock
  <2>3. sweep \in SweepRecord
    BY DEF IInv, Types, ProcessTypes
  <2>4. CASE /\ meta[n].upload > 0 /\ Expired(meta[n], sweep.now)
             /\ sweep' = [sweep EXCEPT !.at = "data", !.name = n]
    <3>1. sweep'.at = "data" /\ sweep'.name = n /\ sweep'.now = sweep.now /\ sweep'.todo = sweep.todo
      BY <2>3, <2>4 DEF SweepRecord
    <3>2. sweep.at = "next" /\ n \in sweep.todo
      BY DEF SweepRead
    <3> QED
      BY <2>1, <2>2, <2>4, <3>1, <3>2 DEF IInv, SweepInv, Over, LifeOver, PastMaxAge
  <2>5. CASE /\ ~(meta[n].upload > 0 /\ Expired(meta[n], sweep.now))
             /\ sweep' = [sweep EXCEPT !.todo = @ \ {n}]
    <3>1. sweep'.at = "next" /\ sweep'.now = sweep.now /\ sweep'.todo = sweep.todo \ {n}
      BY <2>3, <2>5 DEF SweepRecord, SweepRead
    <3>2. sweep.at = "next"
      BY DEF SweepRead
    <3> QED
      BY <2>1, <2>2, <2>5, <3>1, <3>2 DEF IInv, SweepInv, Over, LifeOver, PastMaxAge
  <2> QED
    BY <2>4, <2>5 DEF SweepRead
<1>9. ReaderInv'
  BY DEF IInv, SweepRead, ReaderInv
<1> QED
  BY <1>1, <1>2, <1>3, <1>4, <1>5, <1>6, <1>7, <1>8, <1>9 DEF IInv, Types

LEMMA SweepDataStep ==
  ASSUME IInv, SweepData
  PROVE  IInv'
<1>1. DiskTypes'
  BY DEF IInv, SweepData, clock, Types, DiskTypes
<1>2. ProcessTypes'
  <2>1. sweep.name \in Names /\ sweep' \in SweepRecord
    BY DEF IInv, SweepData, SweepInv, Types, ProcessTypes, SweepRecord
  <2> QED
    BY <2>1 DEF IInv, SweepData, Types, ProcessTypes
<1>3. LockInv'
  BY DEF IInv, SweepData, LockInv, Uploading, Deleting
<1>4. NumberInv'
  BY DEF IInv, SweepData, clock, Types, DiskTypes, NumberInv, Uploading, None
<1>5. UploadInv'
  <2>1. /\ sweep.at = "data" /\ file' \in {file, [file EXCEPT ![sweep.name] = None]}
        /\ sweep' = [sweep EXCEPT !.at = "meta"]
        /\ UNCHANGED <<uploads, content, pc, op, raced>>
    BY DEF SweepData, clock
  <2>2. sweep'.at = "meta" /\ sweep'.name = sweep.name /\ sweep.name \in Names
    BY <2>1 DEF IInv, Types, ProcessTypes, SweepRecord, SweepInv
  <2>3. \A n \in Names : file'[n] = file[n] \/ (n = sweep.name /\ file'[n] = None)
    BY <2>1 DEF IInv, Types, DiskTypes
  <2>4. \A c \in Clients : Uploading(c) \/ Deleting(c) => op[c].name \in Names
    BY DEF IInv, LockInv
  <2>5. \A c \in Clients : Uploading(c) /\ c \notin raced => op[c].name # sweep.name
    BY <2>1 DEF IInv, UploadInv, Sweeping
  <2>6. \A c \in Clients : Uploading(c) /\ c \notin raced => ~Sweeping(op[c].name)'
    BY <2>1, <2>2, <2>5 DEF Sweeping
  <2>7. ASSUME NEW c \in Clients, pc[c] \in {"copy", "meta"}
        PROVE  /\ op[c].inode \in 1..uploads /\ op[c].inode # None
               /\ \A n \in Names : file'[n] = op[c].inode => n = op[c].name
               /\ file'[op[c].name] \in {None, op[c].inode}
               /\ c \notin raced => file'[op[c].name] = op[c].inode
    <3>1. op[c].inode \in 1..uploads /\ op[c].inode # None /\ op[c].name \in Names
      BY <2>4, <2>7, StoreAssumption DEF IInv, Types, DiskTypes, UploadInv, Uploading, None
    <3> QED
      BY <2>3, <2>5, <2>7, <3>1 DEF IInv, UploadInv, Uploading
  <2>8. \A c \in Clients : Deleting(c) => file'[op[c].name] = None
    BY <2>3, <2>4 DEF IInv, UploadInv
  <2>9. \A c \in Clients : pc[c] = "meta" => content'[op'[c].inode] = op'[c].upload
    BY <2>1 DEF IInv, UploadInv
  <2> QED
    BY <2>1, <2>6, <2>7, <2>8, <2>9 DEF UploadInv, Uploading, Deleting
<1>6. AgreeInv'
  BY DEF IInv, SweepData, ghosts, Types, DiskTypes, AgreeInv, Held, Consistent, List, EmptyDir
<1>7. PromiseInv'
  BY DEF IInv, SweepData, ghosts, PromiseInv
<1>8. SweepInv'
  BY DEF IInv, SweepData, clock, ghosts, SweepInv, Over, LifeOver, PastMaxAge
<1>9. ReaderInv'
  BY DEF IInv, SweepData, ReaderInv
<1> QED
  BY <1>1, <1>2, <1>3, <1>4, <1>5, <1>6, <1>7, <1>8, <1>9 DEF IInv, Types

LEMMA SweepMetaStep ==
  ASSUME IInv, SweepMeta
  PROVE  IInv'
<1>1. DiskTypes'
  <2>1. NoMeta \in MetaRecord
    BY StoreAssumption DEF NoMeta, MetaRecord, None
  <2> QED
    BY <2>1 DEF IInv, SweepMeta, clock, Types, DiskTypes
<1>2. ProcessTypes'
  <2>1. sweep.name \in Names /\ sweep' \in SweepRecord
    BY DEF IInv, SweepMeta, SweepInv, Types, ProcessTypes, SweepRecord
  <2> QED
    BY <2>1 DEF IInv, SweepMeta, Types, ProcessTypes
<1>3. LockInv'
  BY DEF IInv, SweepMeta, LockInv, Uploading, Deleting
<1>4. NumberInv'
  BY DEF IInv, SweepMeta, clock, NoMeta, Types, DiskTypes, NumberInv, Uploading, None
<1>5. UploadInv'
  BY DEF IInv, SweepMeta, clock, ghosts, UploadInv, Deleting, Sweeping
<1>6. AgreeInv'
  BY DEF IInv, SweepMeta, ghosts, Types, DiskTypes, AgreeInv, Held, Consistent, List, EmptyDir
<1>7. PromiseInv'
  <2>1. \A n \in Names : meta'[n] = meta[n] \/ meta'[n] = NoMeta
    BY DEF IInv, SweepMeta, Types, DiskTypes
  <2>2. UNCHANGED promise /\ ~(NoMeta.upload > 0)
    BY DEF SweepMeta, NoMeta, None
  <2> QED
    BY <2>1, <2>2 DEF IInv, PromiseInv
<1>8. SweepInv'
  BY DEF IInv, SweepMeta, clock, ghosts, NoMeta, Types, DiskTypes, SweepInv, Over, LifeOver, PastMaxAge, None, NoMeta
<1>9. ReaderInv'
  BY DEF IInv, SweepMeta, ReaderInv
<1> QED
  BY <1>1, <1>2, <1>3, <1>4, <1>5, <1>6, <1>7, <1>8, <1>9 DEF IInv, Types

LEMMA SweepEndStep ==
  ASSUME IInv, SweepEnd
  PROVE  IInv'
<1>1. DiskTypes'
  BY DEF IInv, SweepEnd, RemoveDir, clock, Types, DiskTypes
<1>2. ProcessTypes'
  BY DEF IInv, SweepEnd, ghosts, NoSweep, Types, ProcessTypes, SweepRecord, NoSweep
<1>3. LockInv'
  BY DEF IInv, SweepEnd, LockInv, Uploading, Deleting
<1>4. NumberInv'
  BY DEF IInv, SweepEnd, clock, NumberInv, Uploading
<1>5. UploadInv'
  BY DEF IInv, SweepEnd, clock, ghosts, NoSweep, UploadInv, Deleting, Sweeping
<1>6. AgreeInv'
  BY DEF IInv, SweepEnd, RemoveDir, EmptyDir, Types, DiskTypes, ghosts, NoSweep, AgreeInv, Held, Consistent, List
<1>7. PromiseInv'
  BY DEF IInv, SweepEnd, ghosts, PromiseInv
<1>8. SweepInv'
  BY DEF IInv, SweepEnd, clock, NoSweep, Types, DiskTypes, SweepInv
<1>9. ReaderInv'
  BY DEF IInv, SweepEnd, ReaderInv
<1> QED
  BY <1>1, <1>2, <1>3, <1>4, <1>5, <1>6, <1>7, <1>8, <1>9 DEF IInv, Types

LEMMA CrashStep ==
  ASSUME IInv, Crash
  PROVE  IInv'
<1>1. DiskTypes'
  BY DEF IInv, Crash, clock, Types, DiskTypes
<1>2. ProcessTypes'
  BY DEF IInv, Crash, NoOp, NoReader, NoSweep, Types, ProcessTypes, OpRecord, SweepRecord, ReaderRecord,
         None
<1>3. LockInv'
  BY StoreAssumption DEF Crash, LockInv, Uploading, Deleting
<1>4. NumberInv'
  BY DEF IInv, Crash, clock, NumberInv, Uploading
<1>5. UploadInv'
  BY DEF Crash, NoSweep, UploadInv, Deleting, Sweeping
<1>6. AgreeInv'
  BY DEF IInv, Crash, NoSweep, Types, ProcessTypes, AgreeInv, Held, Consistent, List, Sweeping
<1>7. PromiseInv'
  BY DEF IInv, Crash, PromiseInv
<1>8. SweepInv'
  BY DEF IInv, Crash, clock, NoSweep, Types, DiskTypes, SweepInv
<1>9. ReaderInv'
  BY DEF Crash, NoReader, ReaderInv
<1> QED
  BY <1>1, <1>2, <1>3, <1>4, <1>5, <1>6, <1>7, <1>8, <1>9 DEF IInv, Types

LEMMA TickStep ==
  ASSUME IInv, Tick
  PROVE  IInv'
<1>1. DiskTypes'
  BY StoreAssumption DEF IInv, Tick, Types, DiskTypes
<1>2. ProcessTypes'
  BY DEF IInv, Tick, ghosts, Types, ProcessTypes
<1>3. LockInv'
  BY DEF IInv, Tick, LockInv, Uploading, Deleting
<1>4. NumberInv'
  BY DEF IInv, Tick, NumberInv, Uploading
<1>5. UploadInv'
  BY DEF IInv, Tick, ghosts, UploadInv, Uploading, Deleting, Sweeping
<1>6. AgreeInv'
  BY DEF IInv, Tick, ghosts, AgreeInv, Held, Consistent, List
<1>7. PromiseInv'
  BY DEF IInv, Tick, ghosts, PromiseInv
<1>8. SweepInv'
  BY DEF IInv, Tick, ghosts, Types, DiskTypes, ProcessTypes, SweepRecord, SweepInv, Held, Over, LifeOver, PastMaxAge
<1>9. ReaderInv'
  BY DEF IInv, Tick, ReaderInv
<1> QED
  BY <1>1, <1>2, <1>3, <1>4, <1>5, <1>6, <1>7, <1>8, <1>9 DEF IInv, Types

-----------------------------------------------------------------------------
\* The invariant.

LEMMA InitIInv == Init => IInv
<1> SUFFICES ASSUME Init PROVE IInv
  OBVIOUS
<1>1. NoMeta \in MetaRecord /\ NoOp \in OpRecord /\ NoReader \in ReaderRecord /\ NoSweep \in SweepRecord
  BY StoreAssumption
     DEF NoMeta, NoOp, NoReader, NoSweep, MetaRecord, OpRecord, ReaderRecord, SweepRecord, None
<1>2. Types
  <2>1. 0 \in 0..MaxTime /\ 0 \in 0..MaxUploads
    BY StoreAssumption
  <2>2. DiskTypes
    BY <1>1, <2>1 DEF Init, DiskTypes, Contents, None
  <2>3. ProcessTypes
    BY <1>1 DEF Init, ProcessTypes, PromiseRecord, NoPromise
  <2> QED
    BY <2>2, <2>3 DEF Types
<1>3. LockInv
  BY StoreAssumption DEF Init, LockInv, Uploading, Deleting
<1>4. NumberInv /\ UploadInv /\ PromiseInv
  BY DEF Init, NumberInv, UploadInv, PromiseInv, Uploading, Deleting, NoMeta, None
<1>5. AgreeInv /\ SweepInv
  BY DEF Init, AgreeInv, SweepInv, EmptyDir, Consistent, NoSweep
<1>6. ReaderInv
  BY DEF Init, ReaderInv, NoReader
<1> QED
  BY <1>2, <1>3, <1>4, <1>5, <1>6 DEF IInv

LEMMA StutterIInv == IInv /\ UNCHANGED vars => IInv'
<1> SUFFICES ASSUME IInv, UNCHANGED vars PROVE IInv'
  OBVIOUS
<1>1. Types' /\ LockInv' /\ NumberInv'
  BY DEF vars, IInv, Types, DiskTypes, ProcessTypes, LockInv, NumberInv, Uploading, Deleting
<1>2. UploadInv' /\ AgreeInv'
  BY DEF vars, IInv, UploadInv, AgreeInv, Uploading, Deleting, Sweeping, Held, Consistent, List
<1>3. PromiseInv' /\ SweepInv' /\ ReaderInv'
  BY DEF vars, IInv, PromiseInv, SweepInv, ReaderInv, Over, LifeOver, PastMaxAge, Held
<1> QED
  BY <1>1, <1>2, <1>3 DEF IInv

LEMMA NextIInv == IInv /\ [Next]_vars => IInv'
<1> SUFFICES ASSUME IInv, [Next]_vars PROVE IInv'
  OBVIOUS
<1>1. ASSUME NEW c \in Clients, Client(c) PROVE IInv'
  BY <1>1, UploadBeginStep, UploadCreateStep, UploadCopyStep, UploadMetaStep, DeleteDataStep,
     DeleteMetaStep, DownloadStep, ReadRestStep DEF Client
<1>2. CASE Sweep
  BY <1>2, SweepBeginStep, SweepReadStep, SweepDataStep, SweepMetaStep, SweepEndStep DEF Sweep
<1>3. CASE Crash \/ Tick \/ UNCHANGED vars
  BY <1>3, CrashStep, TickStep, StutterIInv
<1> QED
  BY <1>1, <1>2, <1>3 DEF Next

THEOREM StoreInvariant == Spec => []IInv
  BY InitIInv, NextIInv, PTL DEF Spec

\* The state stays well typed.
THEOREM StoreTypes == Spec => []TypeOK
<1>1. IInv => TypeOK
  BY DEF IInv, Types, DiskTypes, ProcessTypes, TypeOK, MetaRecord, SweepRecord, PromiseRecord
<1> QED
  BY <1>1, StoreInvariant, PTL

\* Between operations the list and the data agree, whatever failed, crashed or was swept
\* beside them (Upload, Delete, EnforceRetention).
THEOREM StoreAgrees == Spec => []Agree
<1>1. IInv => Agree
  <2> SUFFICES ASSUME IInv PROVE Agree
    OBVIOUS
  <2>1. ASSUME NEW n \in Names \ doubt, ~Busy(n)
        PROVE  Consistent(n)
    <3>1. ~Held(n) /\ ~(sweep.at = "meta" /\ sweep.name = n)
      BY <2>1 DEF Busy, Held, Sweeping
    <3> QED
      BY <3>1 DEF IInv, AgreeInv
  <2> QED
    BY <2>1 DEF IInv, AgreeInv, Agree, Consistent
<1> QED
  BY <1>1, StoreInvariant, PTL

\* A download of a name that is not in doubt, read to its end without an error, is the
\* upload that was listed when it was opened (Download, ReadRest).
THEOREM DownloadsHonest == Spec => []DownloadHonest
<1>1. IInv => DownloadHonest
  BY DEF IInv, ReaderInv, DownloadHonest
<1> QED
  BY <1>1, StoreInvariant, PTL

\* The sweep removes nothing that has not outlived its life or the sweep's maximum, and
\* leaves nothing that has outlived its own life but where a removal failed
\* (EnforceRetention).
THEOREM SweepExact == Spec => RetentionExact
<1>1. ASSUME IInv, NEW n \in Names \ doubt,
             sweep.at = "data", sweep.name = n, file[n] # None, ~(\E c \in raced : op[c].name = n)
      PROVE  Over(content[file[n]], now)
  <2>1. sweep.now \in Nat /\ now \in Nat /\ sweep.now <= now /\ MaxAge \in Nat
    BY <1>1, StoreAssumption DEF IInv, Types, DiskTypes, ProcessTypes, SweepRecord, SweepInv
  <2>2. ~Held(n)
    <3> SUFFICES ASSUME Held(n) PROVE FALSE
      OBVIOUS
    <3>1. writer \in Clients /\ op[writer].name = n
      BY <1>1 DEF Held, IInv, Types, ProcessTypes
    <3>2. Uploading(writer) \/ Deleting(writer)
      BY <1>1, <3>1 DEF IInv, LockInv
    <3>3. CASE Uploading(writer)
      BY <1>1, <3>1, <3>3 DEF IInv, UploadInv, Sweeping
    <3>4. CASE Deleting(writer)
      BY <1>1, <3>1, <3>4 DEF IInv, UploadInv
    <3> QED
      BY <3>2, <3>3, <3>4
  <2>3. content[file[n]] = meta[n].upload /\ meta[n].upload > 0
    BY <1>1, <2>2 DEF IInv, AgreeInv, Consistent, List
  <2>4. Over(meta[n].upload, sweep.now)
    BY <1>1, <2>2 DEF IInv, SweepInv
  <2>5. promise[meta[n].upload] \in PromiseRecord
    BY <1>1, <2>3, StoreAssumption
       DEF IInv, Types, DiskTypes, ProcessTypes, MetaRecord, Uploads, None, Torn
  <2>6. promise[meta[n].upload].ends \in Nat /\ promise[meta[n].upload].born \in Nat
    BY <2>5 DEF PromiseRecord
  <2> QED
    BY <2>1, <2>3, <2>4, <2>6 DEF Over, LifeOver, PastMaxAge
<1>2. ASSUME IInv, NEW n \in Names \ doubt, sweep.at = "next", sweep.todo = {}, meta[n].upload > 0
      PROVE  ~Over(meta[n].upload, sweep.now)
  BY <1>2 DEF IInv, SweepInv
<1>3. IInv /\ [Next]_vars =>
        [\A n \in Names :
           /\ /\ sweep.at = "data" /\ sweep'.at = "meta" /\ sweep.name = n
              /\ file[n] # None /\ file'[n] = None
              /\ n \notin doubt /\ ~(\E c \in raced : op[c].name = n)
              => LifeOver(content[file[n]], now) \/ PastMaxAge(content[file[n]], now)
           /\ /\ sweep.at = "next" /\ sweep.todo = {} /\ sweep' = NoSweep
              /\ n \notin doubt /\ meta[n].upload > 0
              => ~LifeOver(meta[n].upload, sweep.now)]_vars
  BY <1>1, <1>2 DEF Over
<1> QED
  BY <1>3, StoreInvariant, PTL DEF Spec, RetentionExact
=============================================================================
