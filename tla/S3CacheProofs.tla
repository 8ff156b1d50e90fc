--------------------------- MODULE S3CacheProofs ---------------------------
(***************************************************************************)
(* Proofs about S3Cache, for any number of runners and keys, any page size *)
(* and every set of faults.                                                *)
(***************************************************************************)
EXTENDS S3Cache, NaturalsInduction, WellFoundedInduction, FiniteSetTheorems, TLAPS

-----------------------------------------------------------------------------
\* The operators.

\* A set of keys has a least element, which Min returns.
LEMMA MinKey ==
  ASSUME NEW S \in SUBSET Nat, S # {}
  PROVE  Min(S) \in S /\ \A y \in S : Min(S) <= y
<1> DEFINE Less == {ss \in Nat \X Nat : ss[1] < ss[2]}
<1>1. IsWellFoundedOn(Less, Nat)
  BY NatLessThanWellFounded, Zenon DEF OpToRel
<1> HIDE DEF Less
<1>2. PICK x \in S : \A y \in S : ~(<<y, x>> \in Less)
  BY <1>1, WFMin
<1>3. ASSUME NEW y \in S
      PROVE  x <= y
  <2>1. x \in Nat /\ y \in Nat
    OBVIOUS
  <2>2. <<y, x>> \in Less <=> y < x
    BY <2>1 DEF Less
  <2> QED
    BY <1>2, <2>1, <2>2
<1> QED
  BY <1>3 DEF Min

\* A set of keys has a greatest element, which Max returns.
LEMMA MaxKey ==
  ASSUME NEW S \in SUBSET Keys, S # {}
  PROVE  Max(S) \in S /\ \A y \in S : Max(S) >= y
<1>1. PICK last \in Nat : \A y \in S : y \in Nat \ {0} /\ y <= last
  BY S3Assumption
<1> DEFINE Upper == {n \in Nat : \A y \in S : n >= y}
<1>2. Upper \in SUBSET Nat /\ Upper # {}
  BY <1>1
<1>3. Min(Upper) \in Upper /\ \A n \in Upper : Min(Upper) <= n
  BY <1>2, MinKey
<1> DEFINE m == Min(Upper)
<1>4. m \in S
  <2>1. SUFFICES ASSUME m \notin S PROVE FALSE
    OBVIOUS
  <2>2. m \in Nat /\ \A y \in S : y \in Nat /\ y >= 1 /\ m >= y /\ m # y
    BY <1>1, <1>3, <2>1
  <2> HIDE DEF m
  <2>3. m - 1 \in Nat /\ \A y \in S : m - 1 >= y
    BY <2>2
  <2>4. m - 1 \in Upper
    BY <2>3
  <2> QED
    BY <1>3, <2>2, <2>4 DEF m
<1>5. \A y \in S : m >= y
  BY <1>3
<1> QED
  BY <1>4, <1>5 DEF Max

\* A listing of something shows something.
LEMMA ListingNonEmpty ==
  ASSUME NEW t \in Nat, Remaining(t) # {}
  PROVE  Listing(t) # {}
<1>1. Remaining(t) \in SUBSET Nat
  BY S3Assumption DEF Remaining
<1> DEFINE least == Min(Remaining(t))
<1>2. least \in Remaining(t) /\ \A y \in Remaining(t) : least <= y
  BY <1>1, MinKey
<1> HIDE DEF least
<1>3. {i \in Remaining(t) : i < least} = {}
  BY <1>1, <1>2
<1>4. Cardinality({i \in Remaining(t) : i < least}) < PageSize
  BY <1>3, FS_EmptySet, S3Assumption
<1> QED
  BY <1>2, <1>4 DEF Listing

\* What a listing leaves out comes after the token it returns.
LEMMA ListingReachesAll ==
  ASSUME NEW t \in Nat, NEW k \in Remaining(t)
  PROVE  k \in Listing(t) \/ (NextToken(t) # NoKey /\ k > NextToken(t))
<1> DEFINE Before(j) == {i \in Remaining(t) : i < j}
           Rank(j) == Cardinality(Before(j))
<1>1. Keys \subseteq Nat \ {0} /\ IsFiniteSet(Keys)
  BY S3Assumption, FS_BoundedSetOfNaturals
<1>2. Remaining(t) \subseteq Keys /\ k \in Keys /\ k \in Nat
  BY <1>1 DEF Remaining
<1>3. SUFFICES ASSUME k \notin Listing(t)
               PROVE  NextToken(t) # NoKey /\ k > NextToken(t)
  OBVIOUS
<1>4. ASSUME NEW j \in Keys
      PROVE  IsFiniteSet(Before(j)) /\ Rank(j) \in Nat
  <2>1. Before(j) \in SUBSET Keys
    BY <1>2
  <2>2. IsFiniteSet(Before(j))
    BY ONLY <1>1, <2>1, FS_Subset
  <2> QED
    BY ONLY <2>2, FS_CardinalityType
<1>5. \A j \in Keys : j \in Listing(t) <=> j \in Remaining(t) /\ Rank(j) < PageSize
  BY <1>2 DEF Listing
<1>6. ASSUME NEW i \in Keys, NEW j \in Keys, i <= j
      PROVE  Rank(i) <= Rank(j)
  <2>1. i \in Nat /\ j \in Nat /\ Remaining(t) \subseteq Nat
    BY <1>1, <1>2
  <2>2. \A n \in Remaining(t) : n < i => n < j
    BY <1>6, <2>1
  <2>3. Before(i) \in SUBSET Before(j)
    BY <2>2
  <2> QED
    BY <1>4, <2>3, FS_Subset
<1> HIDE DEF Rank
<1>7. ASSUME NEW j \in Listing(t)
      PROVE  j < k
  <2>1. j \in Keys /\ j \in Nat /\ Rank(j) < PageSize /\ Rank(j) \in Nat
    BY <1>1, <1>2, <1>4, <1>5 DEF Listing
  <2>2. ~(Rank(k) < PageSize) /\ Rank(k) \in Nat /\ PageSize \in Nat
    BY <1>2, <1>3, <1>4, <1>5, S3Assumption
  <2>3. k <= j => Rank(k) <= Rank(j)
    BY <1>2, <1>6, <2>1
  <2> QED
    BY <1>2, <2>1, <2>2, <2>3
<1>8. Listing(t) # {}
  BY ListingNonEmpty
<1>9. Listing(t) \in SUBSET Keys /\ Remaining(t) # Listing(t)
  BY <1>2, <1>3 DEF Listing
<1>10. Max(Listing(t)) \in Listing(t)
  BY <1>8, <1>9, MaxKey
<1>11. NextToken(t) = Max(Listing(t))
  BY <1>9 DEF NextToken
<1>12. NextToken(t) \in Listing(t) /\ NextToken(t) \in Nat \ {0}
  BY <1>1, <1>9, <1>10, <1>11
<1> QED
  BY <1>1, <1>2, <1>7, <1>12 DEF NoKey

-----------------------------------------------------------------------------
\* Types.  A runner that is at an object is at a key, and Prune reads tags only while
\* there is something left of its page.

InType == TypeOK
          /\ \A r \in Runners :
               /\ pc[r] \in {"getTags", "getDelete", "pruneDelete"} => key[r] \in Keys
               /\ pc[r] = "pruneTags" => page[r] # {}

LEMMA KeyFacts == Keys \subseteq Nat \ {0} /\ NoKey \in Nat /\ NoKey \notin Keys /\ Absent \in Object
  BY S3Assumption DEF NoKey, Absent, Object

\* What the tag says of an object is right, if it can be read.
LEMMA GarbledFacts ==
  /\ Garbled \notin Nat
  /\ \A o \in Object : TagExpired(o) <=> Overdue(o) /\ o.tag # Garbled
  BY DEF Garbled, Object, TagExpired, Overdue

\* What the calls to S3 return has its type.
LEMMA CallTypes ==
  ASSUME TypeOK
  PROVE  /\ \A ttl \in TTLs : ExpiresAt(ttl) \in Nat
         /\ \A r \in Runners, ttl \in TTLs : ExpiresTag(r, ttl) \in {ExpiresAt(ttl), Garbled}
         /\ \A r \in Runners : ContinueFrom(r) \in Nat
         /\ \A t \in Nat : Listing(t) \in SUBSET Keys /\ NextToken(t) \in Keys \cup {NoKey}
<1>1. \A ttl \in TTLs : ExpiresAt(ttl) \in Nat
  BY S3Assumption DEF TypeOK, ExpiresAt
<1>2. \A r \in Runners : ContinueFrom(r) \in Nat
  BY KeyFacts DEF TypeOK, ContinueFrom
<1>3. ASSUME NEW t \in Nat
      PROVE  Listing(t) \in SUBSET Keys /\ NextToken(t) \in Keys \cup {NoKey}
  <2>1. Listing(t) \in SUBSET Keys /\ Listing(t) \subseteq Remaining(t)
    BY DEF Listing, Remaining
  <2>2. CASE Remaining(t) = Listing(t)
    BY <2>1, <2>2 DEF NextToken
  <2>3. CASE Remaining(t) # Listing(t)
    <3>1. PICK k \in Remaining(t) : k \notin Listing(t)
      BY <2>1, <2>3
    <3>2. NextToken(t) = Max(Listing(t)) /\ NextToken(t) # NoKey
      BY <2>3, <3>1, ListingReachesAll DEF NextToken
    <3>3. Listing(t) # {}
      BY <3>1, ListingNonEmpty
    <3> QED
      BY <2>1, <3>2, <3>3, MaxKey
  <2> QED
    BY <2>1, <2>2, <2>3
<1> QED
  BY <1>1, <1>2, <1>3 DEF ExpiresTag

\* DeleteObject removes the object under its key, if it succeeds, and no other.
LEMMA DeleteFacts ==
  ASSUME TypeOK, NEW k \in Keys, NEW success \in BOOLEAN, DeleteObject(k, success)
  PROVE  /\ bucket' \in [Keys -> Object]
         /\ success => bucket'[k] = Absent
         /\ \A j \in Keys : bucket'[j] = bucket[j] \/ (j = k /\ bucket'[j] = Absent)
  BY KeyFacts DEF TypeOK, DeleteObject

\* What the steps do that read tags or a listing.
LEMMA GetTagsStep ==
  ASSUME TypeOK, NEW r \in Runners, GetTags(r)
  PROVE  /\ pc[r] = "getTags" /\ UNCHANGED <<now, bucket, puts, page, token, due>>
         /\ ok' \in [Runners -> BOOLEAN] /\ \A q \in Runners \ {r} : ok'[q] = ok[q]
         /\ \/ /\ TagExpired(bucket[key[r]])
               /\ pc' = [pc EXCEPT ![r] = "getDelete"]
               /\ judged' = [judged EXCEPT ![r] = bucket[key[r]]]
               /\ UNCHANGED <<key, body>>
            \/ /\ ok'[r] => ~TagExpired(bucket[key[r]])
               /\ pc' = [pc EXCEPT ![r] = "idle"]
               /\ key' = [key EXCEPT ![r] = NoKey]
               /\ body' = [body EXCEPT ![r] = Absent]
               /\ UNCHANGED judged
<1>1. pc[r] = "getTags" /\ UNCHANGED <<now, bucket, puts, page, token, due>>
  BY DEF GetTags, store
<1>2. PICK success \in BOOLEAN :
        /\ ok' = [ok EXCEPT ![r] = success]
        /\ IF isExpiredByTags(bucket[key[r]], success)
             THEN /\ Goto(r, "getDelete")
                  /\ judged' = [judged EXCEPT ![r] = bucket[key[r]]]
                  /\ UNCHANGED <<key, body>>
             ELSE /\ Goto(r, "idle") /\ UNCHANGED judged
                  /\ key' = [key EXCEPT ![r] = NoKey]
                  /\ body' = [body EXCEPT ![r] = Absent]
  BY DEF GetTags
<1>3. ok' \in [Runners -> BOOLEAN] /\ ok'[r] = success /\ \A q \in Runners \ {r} : ok'[q] = ok[q]
  BY <1>2 DEF TypeOK
<1>4. CASE isExpiredByTags(bucket[key[r]], success)
  BY <1>1, <1>2, <1>3, <1>4 DEF Goto, isExpiredByTags
<1>5. CASE ~isExpiredByTags(bucket[key[r]], success)
  <2>1. success => ~TagExpired(bucket[key[r]])
    BY <1>5 DEF isExpiredByTags
  <2> QED
    BY <1>1, <1>2, <1>3, <1>5, <2>1 DEF Goto
<1> QED
  BY <1>4, <1>5

LEMMA ListStep ==
  ASSUME TypeOK, NEW r \in Runners, List(r)
  PROVE  /\ pc[r] = "list" /\ UNCHANGED <<now, bucket, puts, key, body, judged, due>>
         /\ ok' \in [Runners -> BOOLEAN] /\ \A q \in Runners \ {r} : ok'[q] = ok[q]
         /\ \/ /\ page' = [page EXCEPT ![r] = Listing(token[r])]
               /\ token' = [token EXCEPT ![r] = NextToken(token[r])]
               /\ PageLeft(r, Listing(token[r]), NextToken(token[r]))
               /\ ok' = ok
            \/ /\ ~ok'[r] /\ pc' = [pc EXCEPT ![r] = "pruned"]
               /\ UNCHANGED <<page, token>>
<1>1. pc[r] = "list" /\ UNCHANGED <<now, bucket, puts, key, body, judged, due>>
  BY DEF List, store
<1>2. CASE /\ page' = [page EXCEPT ![r] = Listing(ContinueFrom(r))]
           /\ token' = [token EXCEPT ![r] = NextToken(ContinueFrom(r))]
           /\ PageLeft(r, page'[r], token'[r])
           /\ UNCHANGED ok
  <2>1. page'[r] = Listing(token[r]) /\ token'[r] = NextToken(token[r])
    BY <1>2 DEF TypeOK, ContinueFrom
  <2> QED
    BY <1>1, <1>2, <2>1 DEF TypeOK, ContinueFrom
<1>3. CASE /\ ok' = [ok EXCEPT ![r] = FALSE]
           /\ Goto(r, "pruned")
           /\ UNCHANGED <<page, token>>
  <2>1. ok' \in [Runners -> BOOLEAN] /\ ~ok'[r] /\ \A q \in Runners \ {r} : ok'[q] = ok[q]
    BY <1>3 DEF TypeOK
  <2> QED
    BY <1>1, <1>3, <2>1 DEF Goto
<1> QED
  BY <1>2, <1>3 DEF List

LEMMA PruneTagsStep ==
  ASSUME TypeOK, NEW r \in Runners, page[r] # {}, PruneTags(r)
  PROVE  \E k \in page[r] :
           /\ pc[r] = "pruneTags" /\ UNCHANGED <<now, bucket, puts, body, token, due>>
           /\ ok' \in [Runners -> BOOLEAN] /\ \A q \in Runners \ {r} : ok'[q] = ok[q]
           /\ ok'[r] => ok[r]
           /\ k \in Keys /\ page' = [page EXCEPT ![r] = @ \ {k}]
           /\ \/ /\ TagExpired(bucket[k])
                 /\ pc' = [pc EXCEPT ![r] = "pruneDelete"]
                 /\ key' = [key EXCEPT ![r] = k]
                 /\ judged' = [judged EXCEPT ![r] = bucket[k]]
              \/ /\ ok'[r] => ~TagExpired(bucket[k])
                 /\ PageLeft(r, page[r] \ {k}, token[r])
                 /\ UNCHANGED <<key, judged>>
<1> DEFINE k == Min(page[r])
<1>1. pc[r] = "pruneTags" /\ UNCHANGED <<now, bucket, puts, body, token, due>>
  BY DEF PruneTags, store
<1>2. k \in page[r] /\ k \in Keys
  BY KeyFacts, MinKey DEF TypeOK
<1>3. PICK success \in BOOLEAN :
        /\ ok' = [ok EXCEPT ![r] = @ /\ success]
        /\ page' = [page EXCEPT ![r] = page[r] \ {k}]
        /\ IF isExpiredByTags(bucket[k], success)
             THEN /\ Goto(r, "pruneDelete")
                  /\ key' = [key EXCEPT ![r] = k]
                  /\ judged' = [judged EXCEPT ![r] = bucket[k]]
             ELSE PageLeft(r, page[r] \ {k}, token[r]) /\ UNCHANGED <<key, judged>>
  BY DEF PruneTags
<1> HIDE DEF k
<1>4. /\ ok' \in [Runners -> BOOLEAN] /\ ok'[r] = (ok[r] /\ success)
      /\ \A q \in Runners \ {r} : ok'[q] = ok[q]
  BY <1>3 DEF TypeOK
<1>5. page' = [page EXCEPT ![r] = @ \ {k}]
  BY <1>3 DEF TypeOK
<1>6. CASE isExpiredByTags(bucket[k], success)
  BY <1>1, <1>2, <1>3, <1>4, <1>5, <1>6 DEF Goto, isExpiredByTags
<1>7. CASE ~isExpiredByTags(bucket[k], success)
  <2>1. success => ~TagExpired(bucket[k])
    BY <1>7 DEF isExpiredByTags
  <2>2. ok'[r] => ok[r] /\ ~TagExpired(bucket[k])
    BY <1>4, <2>1
  <2> QED
    BY <1>1, <1>2, <1>3, <1>4, <1>5, <1>7, <2>2
<1> QED
  BY <1>6, <1>7

LEMMA PruneDeleteStep ==
  ASSUME TypeOK, NEW r \in Runners, key[r] \in Keys, PruneDelete(r)
  PROVE  /\ pc[r] = "pruneDelete" /\ UNCHANGED <<now, puts, body, page, token, due>>
         /\ ok' \in [Runners -> BOOLEAN] /\ \A q \in Runners \ {r} : ok'[q] = ok[q]
         /\ ok'[r] => ok[r] /\ bucket'[key[r]] = Absent
         /\ bucket' \in [Keys -> Object]
         /\ \A j \in Keys : bucket'[j] = bucket[j] \/ (j = key[r] /\ bucket'[j] = Absent)
         /\ key' = [key EXCEPT ![r] = NoKey] /\ judged' = [judged EXCEPT ![r] = Absent]
         /\ PageLeft(r, page[r], token[r])
<1>1. PICK success \in BOOLEAN : DeleteObject(key[r], success) /\ ok' = [ok EXCEPT ![r] = @ /\ success]
  BY DEF PruneDelete
<1>2. /\ ok' \in [Runners -> BOOLEAN] /\ ok'[r] = (ok[r] /\ success)
      /\ \A q \in Runners \ {r} : ok'[q] = ok[q]
  BY <1>1 DEF TypeOK
<1>3. ok'[r] => ok[r] /\ bucket'[key[r]] = Absent
  BY <1>1, <1>2, DeleteFacts
<1> QED
  BY <1>1, <1>2, <1>3, DeleteFacts DEF PruneDelete

LEMMA InitTypes == Init => InType
  BY KeyFacts, S3Assumption DEF Init, InType, TypeOK, Absent, Object

LEMMA NextTypes ==
  ASSUME InType, [Next]_vars
  PROVE  InType'
<1> USE KeyFacts DEF InType
<1>1. CASE Tick
  BY <1>1, S3Assumption DEF Tick, TypeOK, ghosts
<1>2. ASSUME NEW r \in Runners, NEW k \in Keys, NEW ttl \in TTLs, Put(r, k, ttl)
      PROVE  InType'
  <2>1. puts' \in 0..MaxPuts
    BY <1>2, S3Assumption DEF Put, TypeOK
  <2>2. [put |-> puts + 1, expires |-> ExpiresAt(ttl), tag |-> ExpiresTag(r, ttl)] \in Object
    BY <1>2, <2>1, CallTypes DEF Put, TypeOK, Object
  <2>3. bucket' \in [Keys -> Object]
    BY <1>2, <2>2 DEF Put, TypeOK
  <2> QED
    BY <1>2, <2>1, <2>3 DEF Put, TypeOK, ghosts
<1>3. ASSUME NEW r \in Runners, NEW k \in Keys, Delete(r, k)
      PROVE  InType'
  <2>1. bucket' \in [Keys -> Object]
    BY <1>3, DeleteFacts DEF Delete
  <2> QED
    BY <1>3, <2>1 DEF Delete, TypeOK, ghosts
<1>4. ASSUME NEW r \in Runners, NEW k \in Keys, GetObject(r, k)
      PROVE  InType'
  BY <1>4 DEF GetObject, Goto, TypeOK, store
<1>5. ASSUME NEW r \in Runners, GetTags(r)
      PROVE  InType'
  <2>1. key[r] \in Keys
    BY <1>5 DEF GetTags
  <2>2. UNCHANGED <<now, bucket, puts, page, token, due>> /\ ok' \in [Runners -> BOOLEAN]
    BY <1>5, GetTagsStep
  <2>3. CASE /\ pc' = [pc EXCEPT ![r] = "getDelete"]
             /\ judged' = [judged EXCEPT ![r] = bucket[key[r]]]
             /\ UNCHANGED <<key, body>>
    BY <2>1, <2>2, <2>3 DEF TypeOK
  <2>4. CASE /\ pc' = [pc EXCEPT ![r] = "idle"]
             /\ key' = [key EXCEPT ![r] = NoKey]
             /\ body' = [body EXCEPT ![r] = Absent]
             /\ UNCHANGED judged
    BY <2>2, <2>4 DEF TypeOK
  <2> QED
    BY <1>5, <2>3, <2>4, GetTagsStep
<1>6. ASSUME NEW r \in Runners, GetDelete(r)
      PROVE  InType'
  <2>1. bucket' \in [Keys -> Object]
    BY <1>6, DeleteFacts DEF GetDelete
  <2> QED
    BY <1>6, <2>1 DEF GetDelete, Goto, TypeOK
<1>7. ASSUME NEW r \in Runners, PruneBegin(r)
      PROVE  InType'
  <2>1. {bucket[k] : k \in {j \in Keys : Overdue(bucket[j])}} \in SUBSET Object
    BY DEF TypeOK
  <2>2. due' \in [Runners -> SUBSET Object]
    BY <1>7, <2>1 DEF PruneBegin, TypeOK
  <2> QED
    BY <1>7, <2>2 DEF PruneBegin, Goto, TypeOK, store
<1>8. ASSUME NEW r \in Runners, List(r)
      PROVE  InType'
  <2>1. Listing(token[r]) \in SUBSET Keys /\ NextToken(token[r]) \in Keys \cup {NoKey}
    BY CallTypes DEF ContinueFrom
  <2> QED
    BY <1>8, <2>1, ListStep DEF PageLeft, Goto, TypeOK
<1>9. ASSUME NEW r \in Runners, PruneTags(r)
      PROVE  InType'
  <2>1. page[r] # {}
    BY <1>9 DEF PruneTags
  <2>2. PICK k \in page[r] :
          /\ UNCHANGED <<now, bucket, puts, body, token, due>>
          /\ ok' \in [Runners -> BOOLEAN]
          /\ k \in Keys /\ page' = [page EXCEPT ![r] = @ \ {k}]
          /\ \/ /\ pc' = [pc EXCEPT ![r] = "pruneDelete"]
                /\ key' = [key EXCEPT ![r] = k]
                /\ judged' = [judged EXCEPT ![r] = bucket[k]]
             \/ /\ PageLeft(r, page[r] \ {k}, token[r])
                /\ UNCHANGED <<key, judged>>
    BY <1>9, <2>1, PruneTagsStep
  <2>3. page' \in [Runners -> SUBSET Keys] /\ page'[r] = page[r] \ {k}
    BY <2>2 DEF TypeOK
  <2>4. CASE /\ pc' = [pc EXCEPT ![r] = "pruneDelete"]
             /\ key' = [key EXCEPT ![r] = k]
             /\ judged' = [judged EXCEPT ![r] = bucket[k]]
    BY <2>2, <2>3, <2>4 DEF TypeOK
  <2>5. CASE /\ PageLeft(r, page[r] \ {k}, token[r])
             /\ UNCHANGED <<key, judged>>
    BY <2>2, <2>3, <2>5 DEF PageLeft, Goto, TypeOK
  <2> QED
    BY <2>2, <2>4, <2>5
<1>10. ASSUME NEW r \in Runners, PruneDelete(r)
       PROVE  InType'
  <2>1. key[r] \in Keys
    BY <1>10 DEF PruneDelete
  <2> QED
    BY <1>10, <2>1, PruneDeleteStep DEF PageLeft, Goto, TypeOK
<1>11. ASSUME NEW r \in Runners, PruneReturn(r)
       PROVE  InType'
  BY <1>11 DEF PruneReturn, Goto, TypeOK, store
<1>12. CASE UNCHANGED vars
  BY <1>12 DEF vars, store, ghosts, TypeOK
<1> QED
  BY <1>1, <1>2, <1>3, <1>4, <1>5, <1>6, <1>7, <1>8, <1>9, <1>10, <1>11, <1>12 DEF Next, Prune

\* Every variable of the S3 cache keeps its type, and no operation is ever at a key that
\* does not exist.
THEOREM S3TypeCorrect == Spec => []InType
<1>1. InType /\ [Next]_vars => InType'
  BY NextTypes
<1> QED
  BY <1>1, InitTypes, PTL DEF Spec

-----------------------------------------------------------------------------
\* What is removed, and what Prune has yet to see.

\* Puts are numbered.
Numbered == \A k \in Keys : bucket[k].put <= puts /\ (bucket[k].put = 0 => bucket[k] = Absent)

\* What a runner is about to remove had expired, and what has expired stays so.
JudgedExpired ==
  \A r \in Runners : pc[r] \in {"getDelete", "pruneDelete"} => TagExpired(judged[r])

\* What was due when a Prune began is no later Put.
DueExpired == \A r \in Runners : \A o \in due[r] : Overdue(o) /\ o \in Object /\ o.put \in 1..puts

\* The keys Prune still comes to: of its page, after its token, or the one it is at.
Ahead(r) ==
  {k \in Keys :
     \/ pc[r] = "list" /\ k > token[r]
     \/ pc[r] \in {"pruneTags", "pruneDelete"}
        /\ (k \in page[r] \/ (token[r] # NoKey /\ k > token[r]))
     \/ pc[r] = "pruneDelete" /\ k = key[r]}

\* A Prune without an error still comes to everything due that is there, if it can read
\* the tag.
StillAhead ==
  \A r \in Runners :
    pc[r] \in {"list", "pruneTags", "pruneDelete", "pruned"} /\ ok[r] =>
      \A k \in Keys : bucket[k] \in due[r] /\ bucket[k].tag # Garbled => k \in Ahead(r)

S3Inv == InType /\ Numbered /\ JudgedExpired /\ DueExpired /\ StillAhead

LEMMA InitS3 == Init => S3Inv
<1> SUFFICES ASSUME Init PROVE S3Inv
  OBVIOUS
<1>1. InType
  BY InitTypes
<1> QED
  BY <1>1 DEF Init, S3Inv, Numbered, JudgedExpired, DueExpired, StillAhead, Absent

\* Removals alone do no harm: nothing new is due.
LEMMA RemovalHarmless ==
  ASSUME InType, Numbered, DueExpired, UNCHANGED <<now, puts>>,
         \A j \in Keys : bucket'[j] = bucket[j] \/ bucket'[j] = Absent
  PROVE  /\ Numbered'
         /\ \A r \in Runners, k \in Keys : bucket'[k] \in due[r] => bucket[k] = bucket'[k]
<1>1. Numbered'
  BY DEF Numbered, Absent, InType, TypeOK, Object
<1>2. \A r \in Runners : Absent \notin due[r]
  BY DEF DueExpired, Overdue, Absent
<1> QED
  BY <1>1, <1>2

LEMMA NextS3 ==
  ASSUME S3Inv, [Next]_vars
  PROVE  S3Inv'
<1> USE KeyFacts DEF S3Inv
<1>0. InType'
  BY NextTypes
<1>1. CASE Tick
  <2>1. now' = now + 1 /\ UNCHANGED <<bucket, puts, pc, key, page, token, judged, due, ok>>
    BY <1>1 DEF Tick, ghosts
  <2>2. \A o \in Object : (Overdue(o) => Overdue(o)') /\ (TagExpired(o) => TagExpired(o)')
    BY <2>1, GarbledFacts DEF TagExpired, Overdue, Object, InType, TypeOK
  <2>3. JudgedExpired' /\ DueExpired'
    BY <2>1, <2>2 DEF JudgedExpired, DueExpired, InType, TypeOK
  <2>4. Numbered' /\ StillAhead'
    BY <2>1 DEF Numbered, StillAhead, Ahead
  <2> QED
    BY <1>0, <2>3, <2>4
<1>2. ASSUME NEW r \in Runners, NEW k \in Keys, NEW ttl \in TTLs, Put(r, k, ttl)
      PROVE  S3Inv'
  <2>1. /\ puts' = puts + 1 /\ puts \in Nat
        /\ bucket'[k].put = puts + 1 /\ \A j \in Keys \ {k} : bucket'[j] = bucket[j]
        /\ UNCHANGED <<now, pc, key, page, token, judged, due, ok>>
    BY <1>2 DEF Put, ghosts, InType, TypeOK
  <2>2. Numbered'
    <3>1. \A j \in Keys : bucket[j].put \in Nat
      BY DEF InType, TypeOK, Object
    <3>2. ASSUME NEW j \in Keys
          PROVE  bucket'[j].put <= puts' /\ (bucket'[j].put = 0 => bucket'[j] = Absent)
      <4>1. CASE j = k
        BY <2>1, <4>1
      <4>2. CASE j # k
        <5>1. bucket'[j] = bucket[j] /\ bucket[j].put <= puts /\ bucket[j].put \in Nat
          BY <2>1, <3>1, <4>2 DEF Numbered
        <5>2. bucket[j].put = 0 => bucket[j] = Absent
          BY DEF Numbered
        <5>3. bucket[j].put <= puts + 1
          BY <2>1, <5>1
        <5>4. Absent' = Absent
          BY DEF Absent
        <5> QED
          BY <2>1, <5>1, <5>2, <5>3, <5>4
      <4> QED
        BY <4>1, <4>2
    <3> QED
      BY <3>2 DEF Numbered
  <2>3. JudgedExpired'
    BY <2>1 DEF JudgedExpired, TagExpired
  <2>4. DueExpired'
    BY <2>1 DEF DueExpired, Overdue
  <2>5. \A q \in Runners : bucket'[k] \notin due[q]
    BY <2>1 DEF DueExpired
  <2>6. StillAhead'
    BY <2>1, <2>5 DEF StillAhead, Ahead
  <2> QED
    BY <1>0, <2>2, <2>3, <2>4, <2>6
<1>3. ASSUME NEW r \in Runners, NEW k \in Keys, Delete(r, k)
      PROVE  S3Inv'
  <2>1. UNCHANGED <<now, puts, pc, key, page, token, judged, due, ok>>
    BY <1>3 DEF Delete, ghosts
  <2>2. \A j \in Keys : bucket'[j] = bucket[j] \/ bucket'[j] = Absent
    BY <1>3, DeleteFacts DEF Delete, InType
  <2>3. Numbered' /\ \A q \in Runners, j \in Keys : bucket'[j] \in due[q] => bucket[j] = bucket'[j]
    BY <2>1, <2>2, RemovalHarmless
  <2>4. JudgedExpired' /\ DueExpired'
    BY <2>1 DEF JudgedExpired, DueExpired, Overdue, TagExpired
  <2>5. StillAhead'
    BY <2>1, <2>3 DEF StillAhead, Ahead
  <2> QED
    BY <1>0, <2>3, <2>4, <2>5
<1>4. ASSUME NEW r \in Runners, NEW k \in Keys, GetObject(r, k)
      PROVE  S3Inv'
  <2>1. /\ UNCHANGED <<now, bucket, puts, page, token, judged, due>>
        /\ pc'[r] = "getTags"
        /\ \A q \in Runners \ {r} : pc'[q] = pc[q] /\ key'[q] = key[q] /\ ok'[q] = ok[q]
    BY <1>4 DEF GetObject, Goto, store, InType, TypeOK
  <2>2. Numbered' /\ DueExpired'
    BY <2>1 DEF Numbered, DueExpired, Overdue
  <2>3. JudgedExpired'
    BY <2>1 DEF JudgedExpired, TagExpired
  <2>4. StillAhead'
    BY <2>1 DEF StillAhead, Ahead
  <2> QED
    BY <1>0, <2>2, <2>3, <2>4
<1>5. ASSUME NEW r \in Runners, GetTags(r)
      PROVE  S3Inv'
  <2>1. UNCHANGED <<now, bucket, puts, page, token, due>> /\ \A q \in Runners \ {r} : ok'[q] = ok[q]
    BY <1>5, GetTagsStep DEF InType
  <2>2. /\ pc'[r] \in {"getDelete", "idle"}
        /\ pc'[r] = "getDelete" => TagExpired(judged'[r])
        /\ \A q \in Runners \ {r} : pc'[q] = pc[q] /\ key'[q] = key[q] /\ judged'[q] = judged[q]
    BY <1>5, GetTagsStep DEF InType, TypeOK
  <2>3. Numbered' /\ DueExpired'
    BY <2>1 DEF Numbered, DueExpired, Overdue
  <2>4. JudgedExpired'
    BY <2>1, <2>2 DEF JudgedExpired, TagExpired
  <2>5. StillAhead'
    BY <2>1, <2>2 DEF StillAhead, Ahead
  <2> QED
    BY <1>0, <2>3, <2>4, <2>5
<1>6. ASSUME NEW r \in Runners, GetDelete(r)
      PROVE  S3Inv'
  <2>1. /\ UNCHANGED <<now, puts, page, token, due, ok>> /\ pc'[r] = "idle"
        /\ \A q \in Runners \ {r} : pc'[q] = pc[q] /\ key'[q] = key[q] /\ judged'[q] = judged[q]
    BY <1>6 DEF GetDelete, Goto, InType, TypeOK
  <2>2. \A j \in Keys : bucket'[j] = bucket[j] \/ bucket'[j] = Absent
    BY <1>6, DeleteFacts DEF GetDelete, InType
  <2>3. Numbered' /\ \A q \in Runners, j \in Keys : bucket'[j] \in due[q] => bucket[j] = bucket'[j]
    BY <2>1, <2>2, RemovalHarmless
  <2>4. JudgedExpired' /\ DueExpired'
    BY <2>1 DEF JudgedExpired, DueExpired, Overdue, TagExpired
  <2>5. StillAhead'
    BY <2>1, <2>3 DEF StillAhead, Ahead
  <2> QED
    BY <1>0, <2>3, <2>4, <2>5
<1>7. ASSUME NEW r \in Runners, PruneBegin(r)
      PROVE  S3Inv'
  <2>1. /\ UNCHANGED <<now, bucket, puts, key, page, judged>>
        /\ pc'[r] = "list" /\ token'[r] = NoKey
        /\ due'[r] = {bucket[k] : k \in {j \in Keys : Overdue(bucket[j])}}
        /\ \A q \in Runners \ {r} :
             pc'[q] = pc[q] /\ token'[q] = token[q] /\ ok'[q] = ok[q] /\ due'[q] = due[q]
    BY <1>7 DEF PruneBegin, Goto, store, InType, TypeOK
  <2>2. Numbered' /\ JudgedExpired'
    BY <2>1 DEF Numbered, JudgedExpired, TagExpired
  <2>3. \A o \in due'[r] : Overdue(o) /\ o \in Object /\ o.put \in 1..puts
    BY <2>1 DEF Numbered, Overdue, Absent, InType, TypeOK, Object
  <2>4. DueExpired'
    BY <2>1, <2>3 DEF DueExpired, Overdue
  <2>5. StillAhead'
    BY <2>1 DEF StillAhead, Ahead, NoKey
  <2> QED
    BY <1>0, <2>2, <2>4, <2>5
<1>8. ASSUME NEW r \in Runners, List(r)
      PROVE  S3Inv'
  <2>1. /\ pc[r] = "list" /\ UNCHANGED <<now, bucket, puts, key, judged, due>>
        /\ \A q \in Runners \ {r} : ok'[q] = ok[q]
    BY <1>8, ListStep DEF InType
  <2>2. /\ pc'[r] \in {"pruneTags", "list", "pruned"}
        /\ \A q \in Runners \ {r} : pc'[q] = pc[q] /\ token'[q] = token[q] /\ page'[q] = page[q]
    BY <1>8, ListStep DEF InType, TypeOK, PageLeft, Goto
  <2>3. Numbered' /\ DueExpired'
    BY <2>1 DEF Numbered, DueExpired, Overdue
  <2>4. JudgedExpired'
    BY <2>1, <2>2 DEF JudgedExpired, TagExpired
  <2>5. ASSUME NEW k \in Keys, bucket[k] \in due[r], bucket[k].tag # Garbled, ok'[r]
        PROVE  k \in Ahead(r)'
    <3>1. /\ page' = [page EXCEPT ![r] = Listing(token[r])]
          /\ token' = [token EXCEPT ![r] = NextToken(token[r])]
          /\ PageLeft(r, Listing(token[r]), NextToken(token[r]))
          /\ ok' = ok
      BY <1>8, <2>5, ListStep DEF InType
    <3>2. /\ page'[r] = Listing(token[r]) /\ token'[r] = NextToken(token[r]) /\ ok[r]
      BY <2>5, <3>1 DEF InType, TypeOK
    <3>3. pc'[r] = IF Listing(token[r]) # {} THEN "pruneTags"
                    ELSE IF NextToken(token[r]) # NoKey THEN "list" ELSE "pruned"
      BY <3>1 DEF InType, TypeOK, PageLeft, Goto
    <3>4. k > token[r] /\ bucket[k] # Absent
      <4>1. k \in Ahead(r)
        BY <2>1, <2>5, <3>2 DEF StillAhead
      <4>2. k > token[r]
        BY <2>1, <4>1 DEF Ahead
      <4>3. bucket[k] # Absent
        BY <2>5 DEF DueExpired, Overdue, Absent
      <4> QED BY <4>2, <4>3
    <3>5. token[r] \in Nat
      BY DEF InType, TypeOK
    <3>6. k \in Listing(token[r]) \/ (NextToken(token[r]) # NoKey /\ k > NextToken(token[r]))
      BY <3>4, <3>5, ListingReachesAll DEF Remaining
    <3> QED
      BY <3>2, <3>3, <3>6 DEF Ahead
  <2>6. StillAhead'
    BY <2>1, <2>2, <2>5 DEF StillAhead, Ahead
  <2> QED
    BY <1>0, <2>3, <2>4, <2>6
<1>9. ASSUME NEW r \in Runners, PruneTags(r)
      PROVE  S3Inv'
  <2>1. page[r] # {} /\ TypeOK
    BY <1>9 DEF PruneTags, InType
  <2>2. PICK k \in page[r] :
          /\ pc[r] = "pruneTags" /\ UNCHANGED <<now, bucket, puts, token, due>>
          /\ \A q \in Runners \ {r} : ok'[q] = ok[q]
          /\ ok'[r] => ok[r]
          /\ k \in Keys /\ page' = [page EXCEPT ![r] = @ \ {k}]
          /\ \/ /\ TagExpired(bucket[k])
                /\ pc' = [pc EXCEPT ![r] = "pruneDelete"]
                /\ key' = [key EXCEPT ![r] = k]
                /\ judged' = [judged EXCEPT ![r] = bucket[k]]
             \/ /\ ok'[r] => ~TagExpired(bucket[k])
                /\ PageLeft(r, page[r] \ {k}, token[r])
                /\ UNCHANGED <<key, judged>>
    BY <1>9, <2>1, PruneTagsStep
  <2>3. /\ page'[r] = page[r] \ {k}
        /\ \A q \in Runners \ {r} :
             pc'[q] = pc[q] /\ page'[q] = page[q] /\ key'[q] = key[q] /\ judged'[q] = judged[q]
    BY <2>1, <2>2 DEF TypeOK, PageLeft, Goto
  <2>4. /\ pc'[r] = "pruneDelete" => key'[r] = k /\ TagExpired(judged'[r])
        /\ pc'[r] # "pruneDelete" => (ok'[r] => ~TagExpired(bucket[k]))
        /\ \/ pc'[r] = "pruneDelete"
           \/ pc'[r] = IF page[r] \ {k} # {} THEN "pruneTags"
                       ELSE IF token[r] # NoKey THEN "list" ELSE "pruned"
    BY <2>1, <2>2 DEF TypeOK, PageLeft, Goto
  <2>5. Numbered' /\ DueExpired'
    BY <2>2 DEF Numbered, DueExpired, Overdue
  <2>6. JudgedExpired'
    BY <2>2, <2>3, <2>4 DEF JudgedExpired, TagExpired
  <2>7. ASSUME NEW j \in Keys, bucket[j] \in due[r], bucket[j].tag # Garbled, ok'[r]
        PROVE  j \in Ahead(r)'
    <3>1. j \in page[r] \/ (token[r] # NoKey /\ j > token[r])
      BY <2>2, <2>7 DEF StillAhead, Ahead
    <3>2. j = k => pc'[r] = "pruneDelete"
      BY <2>4, <2>7, GarbledFacts DEF DueExpired
    <3> QED
      BY <2>2, <2>3, <2>4, <3>1, <3>2 DEF Ahead
  <2>8. StillAhead'
    BY <2>2, <2>3, <2>7 DEF StillAhead, Ahead
  <2> QED
    BY <1>0, <2>5, <2>6, <2>8
<1>10. ASSUME NEW r \in Runners, PruneDelete(r)
       PROVE  S3Inv'
  <2>1. key[r] \in Keys /\ TypeOK
    BY <1>10 DEF PruneDelete, InType
  <2>2. /\ pc[r] = "pruneDelete" /\ UNCHANGED <<now, puts, page, token, due>>
        /\ \A q \in Runners \ {r} : ok'[q] = ok[q]
        /\ ok'[r] => ok[r] /\ bucket'[key[r]] = Absent
        /\ \A j \in Keys : bucket'[j] = bucket[j] \/ bucket'[j] = Absent
    BY <1>10, <2>1, PruneDeleteStep
  <2>3. /\ pc'[r] = IF page[r] # {} THEN "pruneTags" ELSE IF token[r] # NoKey THEN "list" ELSE "pruned"
        /\ \A q \in Runners \ {r} : pc'[q] = pc[q] /\ key'[q] = key[q] /\ judged'[q] = judged[q]
    BY <1>10, <2>1, PruneDeleteStep DEF PageLeft, Goto, TypeOK
  <2>4. Numbered' /\ \A q \in Runners, j \in Keys : bucket'[j] \in due[q] => bucket[j] = bucket'[j]
    BY <2>2, RemovalHarmless
  <2>5. DueExpired'
    BY <2>2 DEF DueExpired, Overdue
  <2>6. JudgedExpired'
    BY <2>2, <2>3 DEF JudgedExpired, TagExpired
  <2>7. ASSUME NEW j \in Keys, bucket'[j] \in due[r], bucket'[j].tag # Garbled, ok'[r]
        PROVE  j \in Ahead(r)'
    <3>1. Absent \notin due[r]
      BY DEF DueExpired, Overdue, Absent
    <3>2. bucket[j] \in due[r] /\ bucket[j].tag # Garbled /\ j # key[r]
      BY <2>2, <2>4, <2>7, <3>1
    <3>3. j \in page[r] \/ (token[r] # NoKey /\ j > token[r])
      BY <2>2, <2>7, <3>2 DEF StillAhead, Ahead
    <3> QED
      BY <2>2, <2>3, <3>3 DEF Ahead
  <2>8. StillAhead'
    BY <2>2, <2>3, <2>4, <2>7 DEF StillAhead, Ahead
  <2> QED
    BY <1>0, <2>4, <2>5, <2>6, <2>8
<1>11. ASSUME NEW r \in Runners, PruneReturn(r)
       PROVE  S3Inv'
  <2>1. /\ UNCHANGED <<now, bucket, puts, key, judged, ok>> /\ pc'[r] = "idle" /\ due'[r] = {}
        /\ \A q \in Runners \ {r} :
             pc'[q] = pc[q] /\ page'[q] = page[q] /\ token'[q] = token[q] /\ due'[q] = due[q]
    BY <1>11 DEF PruneReturn, Goto, store, InType, TypeOK
  <2>2. Numbered' /\ DueExpired' /\ JudgedExpired'
    BY <2>1 DEF Numbered, DueExpired, JudgedExpired, Overdue, TagExpired
  <2>3. StillAhead'
    BY <2>1 DEF StillAhead, Ahead
  <2> QED
    BY <1>0, <2>2, <2>3
<1>12. CASE UNCHANGED vars
  BY <1>0, <1>12 DEF vars, store, ghosts, Numbered, DueExpired, JudgedExpired, Overdue, TagExpired, StillAhead, Ahead
<1> QED
  BY <1>1, <1>2, <1>3, <1>4, <1>5, <1>6, <1>7, <1>8, <1>9, <1>10, <1>11, <1>12 DEF Next, Prune

\* The invariant the results below rest on: what is due is still ahead of a Prune that
\* met no error, and what is about to be removed has expired.
THEOREM S3Invariant == Spec => []S3Inv
<1>1. S3Inv /\ [Next]_vars => S3Inv'
  BY NextS3
<1> QED
  BY <1>1, InitS3, PTL DEF Spec

\* A Prune that meets no error leaves nothing that had expired when it began but objects
\* whose tag cannot be read, for any number of keys, runners and pages.
THEOREM PruneReachesAll == Spec => []PruneThorough
<1>1. S3Inv => PruneThorough
  BY DEF S3Inv, StillAhead, Ahead, PruneThorough
<1> QED
  BY <1>1, S3Invariant, PTL

\* Get and Prune remove nothing but what has expired, unless it was put after they had
\* read the tags of what was there before.
THEOREM OnlyExpiredRemoved == Spec => LiveKept
<1>1. S3Inv /\ [Next]_vars =>
        [\A r \in Runners, k \in Keys :
           /\ pc[r] \in {"getDelete", "pruneDelete"} /\ pc'[r] # pc[r] /\ key[r] = k
           /\ bucket[k] # Absent /\ bucket'[k] = Absent
           => Overdue(bucket[k]) \/ bucket[k] # judged[r]]_vars
  BY GarbledFacts DEF S3Inv, JudgedExpired, InType, TypeOK
<1> QED
  BY <1>1, S3Invariant, PTL DEF Spec, LiveKept

\* Only the runner itself takes a Get from the tags to its end.
LEMMA GetEnds ==
  ASSUME InType, Next, NEW r \in Runners, pc[r] = "getTags", pc'[r] # pc[r]
  PROVE  GetTags(r)
<1>1. ASSUME NEW q \in Runners, \/ \E k \in Keys, ttl \in TTLs : Put(q, k, ttl)
                                \/ \E k \in Keys : Delete(q, k)
      PROVE  FALSE
  BY <1>1 DEF Put, Delete
<1>2. ~Tick
  BY DEF Tick
<1>3. PICK q \in Runners : \/ \E k \in Keys : GetObject(q, k)
                          \/ GetTags(q) \/ GetDelete(q) \/ PruneBegin(q) \/ Prune(q)
  BY <1>1, <1>2 DEF Next
<1>4. \E at : pc' = [pc EXCEPT ![q] = at]
  BY <1>3 DEF GetObject, GetTags, GetDelete, PruneBegin, Prune, List, PruneTags, PruneDelete,
              PruneReturn, PageLeft, Goto
<1>5. q = r
  BY <1>4 DEF InType, TypeOK
<1> QED
  BY <1>3, <1>5 DEF GetObject, GetDelete, PruneBegin, Prune, List, PruneTags, PruneDelete, PruneReturn

\* A Get whose calls succeed does not return what had expired when it read the tags,
\* unless the tag is garbled.
THEOREM HitsAreLive == Spec => HitHonest
<1>1. ASSUME InType, Next, NEW r \in Runners,
             pc[r] = "getTags", pc'[r] = "idle", ok'[r], bucket[key[r]] = body[r]
      PROVE  ~Overdue(body[r]) \/ body[r].tag = Garbled
  <2>1. GetTags(r)
    BY <1>1, GetEnds
  <2>2. pc'[r] # "getDelete"
    BY <1>1
  <2>3. body[r] \in Object
    BY <1>1 DEF InType, TypeOK
  <2> QED
    BY <1>1, <2>1, <2>2, <2>3, GetTagsStep, GarbledFacts DEF InType, TypeOK
<1>2. InType /\ [Next]_vars =>
        [\A r \in Runners :
           pc[r] = "getTags" /\ pc'[r] = "idle" /\ ok'[r] /\ bucket[key[r]] = body[r]
             => ~Overdue(body[r]) \/ body[r].tag = Garbled]_vars
  BY <1>1
<1> QED
  BY <1>2, S3TypeCorrect, PTL DEF Spec, HitHonest
=============================================================================
