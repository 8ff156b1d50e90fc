------------------------------ MODULE S3Cache ------------------------------
(***************************************************************************)
(* The S3 cache (internal/cache/s3.go): runners that share a bucket.  Each *)
(* operation is one or more calls to S3, every one an action here, between *)
(* which other runners' calls may be served; nothing locks anything.  A    *)
(* runner has one operation under way.                                     *)
(*                                                                         *)
(* Keys are numbers, in the order in which S3 lists them.  An object is    *)
(* the Put it comes from, the time its TTL means and what S3 has for its   *)
(* expires_at tag.  Stats only lists, and the counters decide nothing.     *)
(***************************************************************************)
EXTENDS Integers, FiniteSets, FiniteSetsExt

CONSTANTS
  Runners,  \* the processes that use the bucket
  East,     \* those whose local time zone is ahead of UTC
  Keys,     \* the keys
  TTLs,     \* the time-to-live of a Put, 0 for none
  PageSize, \* how many keys a listing has at most
  Faults,   \* what may go wrong, among FaultKinds
  MaxPuts,  \* bound on the Puts
  MaxTime   \* bound on the clock

FaultKinds == {"read",   \* GetObjectTagging or ListObjectsV2 fails
               "delete"} \* DeleteObject fails, and may have been served

ASSUME S3Assumption ==
  /\ East \subseteq Runners
  /\ Keys \subseteq Nat \ {0} /\ \E last \in Keys : \A k \in Keys : k <= last
  /\ TTLs \subseteq Nat
  /\ PageSize \in Nat \ {0} /\ Faults \subseteq FaultKinds
  /\ MaxPuts \in Nat /\ MaxTime \in Nat

NoKey == 0

\* An expires_at that is no RFC 3339 time.
Garbled == -1

\* No object: there is no Put of that number.
Absent == [put |-> 0, expires |-> 0, tag |-> 0]

VARIABLES
  now,     \* the clock
  bucket,  \* the object under each key
  puts,    \* the Puts so far
  pc,      \* the call each runner makes next
  key,     \* the key its operation is at
  body,    \* what GetObject returned to it
  page,    \* the keys of the listing Prune has yet to look at
  token,   \* the last key of that listing, when it was truncated
  judged,  \* the object it is about to remove for its tags (no part of the program)
  due,     \* the objects whose TTL had run out when Prune began (likewise)
  ok       \* no call of the operation has failed (likewise)

store  == <<now, bucket, puts>>
ghosts == <<judged, due, ok>>
vars   == <<store, pc, key, body, page, token, ghosts>>

\* The tag is what the program knows of expires; 0 is no TTL, and no tag.
Object ==
  {o \in [put : 0..MaxPuts, expires : Nat, tag : Nat \cup {Garbled}] : o.tag \in {o.expires, Garbled}}

TypeOK ==
  /\ now \in 0..MaxTime /\ puts \in 0..MaxPuts
  /\ bucket \in [Keys -> Object]
  /\ pc \in [Runners -> {"idle", "getTags", "getDelete", "list", "pruneTags", "pruneDelete",
                         "pruned"}]
  /\ key \in [Runners -> Keys \cup {NoKey}]
  /\ body \in [Runners -> Object] /\ judged \in [Runners -> Object]
  /\ page \in [Runners -> SUBSET Keys]
  /\ token \in [Runners -> Keys \cup {NoKey}]
  /\ due \in [Runners -> SUBSET Object]
  /\ ok \in [Runners -> BOOLEAN]

Init ==
  /\ now = 0 /\ puts = 0
  /\ bucket = [k \in Keys |-> Absent]
  /\ pc = [r \in Runners |-> "idle"]
  /\ key = [r \in Runners |-> NoKey]
  /\ body = [r \in Runners |-> Absent]
  /\ page = [r \in Runners |-> {}]
  /\ token = [r \in Runners |-> NoKey]
  /\ judged = [r \in Runners |-> Absent]
  /\ due = [r \in Runners |-> {}]
  /\ ok = [r \in Runners |-> TRUE]

Goto(r, at) == pc' = [pc EXCEPT ![r] = at]

Tick ==
  /\ now < MaxTime
  /\ now' = now + 1
  /\ UNCHANGED <<bucket, puts, pc, key, body, page, token, ghosts>>

-----------------------------------------------------------------------------
\* Put and Delete, one call each.

\* When a TTL ends.
ExpiresAt(ttl) == IF ttl > 0 THEN now + ttl ELSE 0

\* buildTags' expires_at, as S3 understands it.  The time goes in local time and unescaped
\* into a URL-encoded list, where the '+' of an offset ahead of UTC stands for a space.
ExpiresTag(r, ttl) == IF ttl > 0 /\ r \in East THEN Garbled ELSE ExpiresAt(ttl)

\* PutObject stores the content and the tags at once.
Put(r, k, ttl) ==
  /\ pc[r] = "idle" /\ puts < MaxPuts
  /\ puts' = puts + 1
  /\ bucket' = [bucket EXCEPT ![k] =
                  [put |-> puts + 1, expires |-> ExpiresAt(ttl), tag |-> ExpiresTag(r, ttl)]]
  /\ UNCHANGED <<now, pc, key, body, page, token, ghosts>>

\* What DeleteObject does to the bucket and whether it succeeds.
DeleteObject(k, success) ==
  \/ success /\ bucket' = [bucket EXCEPT ![k] = Absent]
  \/ /\ ~success /\ "delete" \in Faults
     /\ bucket' \in {bucket, [bucket EXCEPT ![k] = Absent]}

Delete(r, k) ==
  /\ pc[r] = "idle"
  /\ \E success \in BOOLEAN : DeleteObject(k, success)
  /\ UNCHANGED <<now, puts, pc, key, body, page, token, ghosts>>

-----------------------------------------------------------------------------
\* isExpiredByTags reads the tags of the object that is there now.  Without an object or
\* a tag, when the call fails or when time.Parse does, nothing is expired.

TagExpired(o) == o.tag \notin {0, Garbled} /\ now > o.tag

\* The TTL has run out.
Overdue(o) == o.expires # 0 /\ now > o.expires

\* Wrong on purpose: what cannot be read counts as expired.
FailureMeansExpired(o, success) == success => TagExpired(o)

isExpiredByTags(o, success) == success /\ TagExpired(o)

ReadTags(success) == success \/ "read" \in Faults

-----------------------------------------------------------------------------
\* Get.

\* GetObject.  No object, or an error, is a miss and changes nothing.
GetObject(r, k) ==
  /\ pc[r] = "idle" /\ bucket[k] # Absent
  /\ key' = [key EXCEPT ![r] = k]
  /\ body' = [body EXCEPT ![r] = bucket[k]]
  /\ ok' = [ok EXCEPT ![r] = TRUE]
  /\ Goto(r, "getTags")
  /\ UNCHANGED <<store, page, token, judged, due>>

\* Expired: the object goes.  Otherwise the body is the answer.
GetTags(r) ==
  /\ pc[r] = "getTags"
  /\ \E success \in BOOLEAN :
       /\ ReadTags(success)
       /\ ok' = [ok EXCEPT ![r] = success]
       /\ IF isExpiredByTags(bucket[key[r]], success)
            THEN /\ Goto(r, "getDelete")
                 /\ judged' = [judged EXCEPT ![r] = bucket[key[r]]]
                 /\ UNCHANGED <<key, body>>
            ELSE /\ Goto(r, "idle") /\ UNCHANGED judged
                 /\ key' = [key EXCEPT ![r] = NoKey]
                 /\ body' = [body EXCEPT ![r] = Absent]
  /\ UNCHANGED <<store, page, token, due>>

\* The clean-up, whose error is ignored; a miss.
GetDelete(r) ==
  /\ pc[r] = "getDelete"
  /\ \E success \in BOOLEAN : DeleteObject(key[r], success)
  /\ key' = [key EXCEPT ![r] = NoKey]
  /\ body' = [body EXCEPT ![r] = Absent]
  /\ judged' = [judged EXCEPT ![r] = Absent]
  /\ Goto(r, "idle")
  /\ UNCHANGED <<now, puts, page, token, due, ok>>

-----------------------------------------------------------------------------
\* Prune.

PruneBegin(r) ==
  /\ pc[r] = "idle"
  /\ due' = [due EXCEPT ![r] = {bucket[k] : k \in {j \in Keys : Overdue(bucket[j])}}]
  /\ ok' = [ok EXCEPT ![r] = TRUE]
  /\ token' = [token EXCEPT ![r] = NoKey]
  /\ Goto(r, "list")
  /\ UNCHANGED <<store, key, body, page, judged>>

\* The keys a listing after t has, and those of them it shows.
Remaining(t) == {k \in Keys : bucket[k] # Absent /\ k > t}

Listing(t) == {k \in Remaining(t) : Cardinality({j \in Remaining(t) : j < k}) < PageSize}

\* Wrong on purpose: one page is all.
NextTokenNone(t) == NoKey

\* NextContinuationToken, when the listing is truncated.
NextToken(t) == IF Remaining(t) = Listing(t) THEN NoKey ELSE Max(Listing(t))

\* Wrong on purpose: every listing starts anew.
ContinueFromStart(r) == NoKey

\* input.ContinuationToken.
ContinueFrom(r) == token[r]

\* Where Prune goes when it has looked at all but rest of a page.
PageLeft(r, rest, t) ==
  Goto(r, IF rest # {} THEN "pruneTags" ELSE IF t # NoKey THEN "list" ELSE "pruned")

\* ListObjectsV2; an error ends the Prune.
List(r) ==
  /\ pc[r] = "list"
  /\ \/ /\ page' = [page EXCEPT ![r] = Listing(ContinueFrom(r))]
        /\ token' = [token EXCEPT ![r] = NextToken(ContinueFrom(r))]
        /\ PageLeft(r, page'[r], token'[r])
        /\ UNCHANGED ok
     \/ /\ "read" \in Faults
        /\ ok' = [ok EXCEPT ![r] = FALSE]
        /\ Goto(r, "pruned")
        /\ UNCHANGED <<page, token>>
  /\ UNCHANGED <<store, key, body, judged, due>>

\* The next object of the page.
PruneTags(r) ==
  /\ pc[r] = "pruneTags"
  /\ LET k == Min(page[r])
         rest == page[r] \ {k}
     IN \E success \in BOOLEAN :
          /\ ReadTags(success)
          /\ ok' = [ok EXCEPT ![r] = @ /\ success]
          /\ page' = [page EXCEPT ![r] = rest]
          /\ IF isExpiredByTags(bucket[k], success)
               THEN /\ Goto(r, "pruneDelete")
                    /\ key' = [key EXCEPT ![r] = k]
                    /\ judged' = [judged EXCEPT ![r] = bucket[k]]
               ELSE PageLeft(r, rest, token[r]) /\ UNCHANGED <<key, judged>>
  /\ UNCHANGED <<store, body, token, due>>

\* A failure is logged, and the object not counted.
PruneDelete(r) ==
  /\ pc[r] = "pruneDelete"
  /\ \E success \in BOOLEAN :
       /\ DeleteObject(key[r], success)
       /\ ok' = [ok EXCEPT ![r] = @ /\ success]
  /\ key' = [key EXCEPT ![r] = NoKey]
  /\ judged' = [judged EXCEPT ![r] = Absent]
  /\ PageLeft(r, page[r], token[r])
  /\ UNCHANGED <<now, puts, body, page, token, due>>

PruneReturn(r) ==
  /\ pc[r] = "pruned"
  /\ page' = [page EXCEPT ![r] = {}]
  /\ token' = [token EXCEPT ![r] = NoKey]
  /\ due' = [due EXCEPT ![r] = {}]
  /\ Goto(r, "idle")
  /\ UNCHANGED <<store, key, body, judged, ok>>

Prune(r) == List(r) \/ PruneTags(r) \/ PruneDelete(r) \/ PruneReturn(r)

Next ==
  \/ Tick
  \/ \E r \in Runners :
       \/ \E k \in Keys, ttl \in TTLs : Put(r, k, ttl)
       \/ \E k \in Keys : Delete(r, k) \/ GetObject(r, k)
       \/ GetTags(r) \/ GetDelete(r)
       \/ PruneBegin(r) \/ Prune(r)

Spec == Init /\ [][Next]_vars

\* S3 answers every call.
FairSpec == Spec /\ \A r \in Runners : WF_vars(Prune(r))

-----------------------------------------------------------------------------
\* Safety.

\* Get and Prune remove an object only if it has expired or was put after they had read
\* the tags of an expired one: a call that fails costs nobody an object.
LiveKept ==
  [][\A r \in Runners, k \in Keys :
       /\ pc[r] \in {"getDelete", "pruneDelete"} /\ pc'[r] # pc[r] /\ key[r] = k
       /\ bucket[k] # Absent /\ bucket'[k] = Absent
       => Overdue(bucket[k]) \/ bucket[k] # judged[r]]_vars

\* A Get whose calls all succeed returns content that had not expired when it looked,
\* unless another object, or none, had taken its place by then, or the object's tag is
\* garbled: such an object is returned for ever.
HitHonest ==
  [][\A r \in Runners :
       pc[r] = "getTags" /\ pc'[r] = "idle" /\ ok'[r] /\ bucket[key[r]] = body[r]
         => ~Overdue(body[r]) \/ body[r].tag = Garbled]_vars

\* What a Prune that meets no error leaves of the objects that had expired when it began
\* are those whose tag it cannot read, however many pages there are, whatever is put or
\* deleted between two of them.
PruneThorough ==
  \A r \in Runners : pc[r] = "pruned" /\ ok[r] =>
    \A k \in Keys : bucket[k] \in due[r] => bucket[k].tag = Garbled

-----------------------------------------------------------------------------
\* Liveness, of FairSpec.

\* A Prune comes to its end, although others put objects while it pages through them.
PruneReturns == \A r \in Runners : pc[r] = "list" ~> pc[r] = "idle"
=============================================================================
