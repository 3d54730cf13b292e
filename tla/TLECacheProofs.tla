---------------------------- MODULE TLECacheProofs ----------------------------
(***************************************************************************)
(* The marks of the shared records, for any callers, groups and number of  *)
(* failed fetches.  What makes them right: a record is marked only by a    *)
(* caller that found it expired, its date never changes while somebody can *)
(* reach it, and time goes on.                                             *)
(***************************************************************************)
EXTENDS TLECache, Integers, TLAPS

Old(r) == now - fetchedAt[r] > TTL

\* Marked records are old.
MarkedOld == \A r \in Records : stale[r] # {} => Old(r)

\* A caller fetches, and then marks, because what it found was old or nothing.
FoundOld ==
  \A c \in Callers :
    pc[c] \in {"fetch", "mark"} => cached[c] = NoRecord \/ Old(cached[c])

\* A fetched record is younger than the call that fetched it.
FetchedSince ==
  \A c \in Callers :
    /\ since[c] <= now
    /\ pc[c] = "store" => fetchedAt[result[c]] >= since[c]

IInv == TypeOK /\ MarkedOld /\ FoundOld /\ FetchedSince /\ FreshUnlessMarked

-----------------------------------------------------------------------------
LEMMA TypedValues ==
  ASSUME TypeOK
  PROVE  /\ now \in Int /\ TTL \in Int
         /\ \A r \in Records : fetchedAt[r] \in Int
         /\ \A c \in Callers : since[c] \in Int
BY BoundAssumption DEF TypeOK

LEMMA InitIInv == Init => IInv
<1> SUFFICES ASSUME Init PROVE IInv
  OBVIOUS
<1>1. TypeOK
  BY BoundAssumption DEF Init, TypeOK, Labels
<1>2. MarkedOld /\ FoundOld /\ FreshUnlessMarked
  BY DEF Init, MarkedOld, FoundOld, FreshUnlessMarked
<1>3. now = 0 /\ \A c \in Callers : since[c] = 0 /\ pc[c] = "idle"
  BY DEF Init
<1>4. FetchedSince
  <2> SUFFICES ASSUME NEW c \in Callers
               PROVE  /\ since[c] <= now
                      /\ pc[c] = "store" => fetchedAt[result[c]] >= since[c]
    BY DEF FetchedSince
  <2>1. since[c] <= now
    BY <1>3
  <2>2. pc[c] # "store"
    BY <1>3
  <2> QED BY <2>1, <2>2
<1> QED BY <1>1, <1>2, <1>4 DEF IInv

-----------------------------------------------------------------------------
\* One lemma per action of a caller.
LEMMA ReadKeeps ==
  ASSUME IInv, NEW c \in Callers, Read(c)
  PROVE  IInv'
<1>1. TypeOK /\ now \in Int /\ \A r \in Records : fetchedAt[r] \in Int
  BY TypedValues DEF IInv
<1>2. /\ pc[c] = "idle" /\ UNCHANGED <<now, cache, fetchedAt, stale, failures>>
      /\ since' = [since EXCEPT ![c] = now] /\ cached' = [cached EXCEPT ![c] = cache]
      /\ cache \in Records \cup {NoRecord}
  BY <1>1 DEF Read, TypeOK
<1>3. CASE Expired(cache)
  <2>1. pc' = [pc EXCEPT ![c] = "fetch"] /\ UNCHANGED result
    BY <1>3 DEF Read, Goto
  <2>2. TypeOK'
    BY <1>1, <1>2, <2>1 DEF TypeOK, Labels
  <2>3. cache = NoRecord \/ Old(cache)
    BY <1>3 DEF Expired, Old
  <2>4. FoundOld'
    BY <1>1, <1>2, <2>1, <2>3 DEF IInv, FoundOld, Old, TypeOK
  <2>5. MarkedOld' /\ FetchedSince' /\ FreshUnlessMarked'
    BY <1>1, <1>2, <2>1 DEF IInv, MarkedOld, Old, FetchedSince, FreshUnlessMarked, TypeOK
  <2> QED BY <2>2, <2>4, <2>5 DEF IInv
<1>4. CASE ~Expired(cache)
  <2>1. pc' = [pc EXCEPT ![c] = "returned"] /\ result' = [result EXCEPT ![c] = cache]
    BY <1>4 DEF Read, Return, Goto
  <2>2. cache \in Records /\ cache # NoRecord /\ now - fetchedAt[cache] <= TTL
    BY <1>1, <1>2, <1>4, BoundAssumption DEF Expired
  <2>3. TypeOK'
    BY <1>1, <1>2, <2>1, <2>2 DEF TypeOK, Labels
  <2>4. FoundOld' /\ MarkedOld' /\ FetchedSince'
    BY <1>1, <1>2, <2>1 DEF IInv, FoundOld, MarkedOld, Old, FetchedSince, TypeOK
  <2>5. FreshUnlessMarked'
    BY <1>1, <1>2, <2>1, <2>2 DEF IInv, FreshUnlessMarked, TypeOK
  <2> QED BY <2>3, <2>4, <2>5 DEF IInv
<1> QED BY <1>3, <1>4

LEMMA FetchKeeps ==
  ASSUME IInv, NEW c \in Callers, Fetch(c)
  PROVE  IInv'
<1>1. TypeOK /\ now \in Int /\ \A r \in Records : fetchedAt[r] \in Int
  BY TypedValues DEF IInv
<1>2. PICK r \in Records \ Reachable :
        /\ fetchedAt' = [fetchedAt EXCEPT ![r] = now]
        /\ stale' = [stale EXCEPT ![r] = {}]
        /\ result' = [result EXCEPT ![c] = r]
  BY DEF Fetch
<1>3. /\ pc[c] = "fetch" /\ pc' = [pc EXCEPT ![c] = "store"]
      /\ UNCHANGED <<now, cache, since, cached, failures>>
  BY DEF Fetch, Goto
<1>4. /\ r # cache /\ \A d \in Callers : r # cached[d] /\ r # result[d]
      /\ r # NoRecord /\ now \in 0..MaxTime
  BY <1>1, <1>2, RecordAssumption DEF Reachable, TypeOK
<1>5. TypeOK'
  BY <1>1, <1>2, <1>3, <1>4 DEF TypeOK, Labels
<1>6. MarkedOld'
  BY <1>1, <1>2, <1>3 DEF IInv, MarkedOld, Old, TypeOK
<1>7. FoundOld'
  BY <1>1, <1>2, <1>3, <1>4 DEF IInv, FoundOld, Old, TypeOK
<1>8. FetchedSince'
  <2>1. since[c] <= now /\ since' = since
    BY <1>3 DEF IInv, FetchedSince
  <2>2. ASSUME NEW d \in Callers, pc'[d] = "store" PROVE fetchedAt'[result'[d]] >= since'[d]
    <3>1. CASE d = c
      BY <1>1, <1>2, <3>1, <2>1, TypedValues DEF TypeOK
    <3>2. CASE d # c
      <4>1. pc[d] = "store" /\ result'[d] = result[d] /\ result[d] \in Records /\ result[d] # r
        BY <1>1, <1>2, <1>3, <1>4, <2>2, <3>2 DEF TypeOK
      <4> QED BY <4>1, <1>1, <1>2, <2>1 DEF IInv, FetchedSince, TypeOK
    <3> QED BY <3>1, <3>2
  <2> QED BY <2>2, <1>3 DEF IInv, FetchedSince
<1>9. FreshUnlessMarked'
  <2> SUFFICES ASSUME NEW d \in Callers, pc'[d] = "returned"
               PROVE  \/ stale'[result'[d]] = Members
                      \/ since'[d] - fetchedAt'[result'[d]] <= TTL
                      \/ fetchedAt'[result'[d]] >= since'[d]
    BY DEF FreshUnlessMarked
  <2>1. d # c /\ pc[d] = "returned" /\ result'[d] = result[d] /\ result[d] \in Records /\ result[d] # r
    BY <1>1, <1>2, <1>3, <1>4 DEF TypeOK
  <2>2. stale'[result[d]] = stale[result[d]] /\ fetchedAt'[result[d]] = fetchedAt[result[d]]
    BY <1>1, <1>2, <2>1 DEF TypeOK
  <2> QED BY <2>1, <2>2, <1>3 DEF IInv, FreshUnlessMarked
<1> QED BY <1>5, <1>6, <1>7, <1>8, <1>9 DEF IInv

LEMMA StoreKeeps ==
  ASSUME IInv, NEW c \in Callers, Store(c)
  PROVE  IInv'
<1>1. TypeOK /\ now \in Int /\ \A r \in Records : fetchedAt[r] \in Int
  BY TypedValues DEF IInv
<1>2. /\ pc[c] = "store" /\ pc' = [pc EXCEPT ![c] = "returned"]
      /\ cache' = result[c] /\ result' = result
      /\ UNCHANGED <<now, fetchedAt, stale, since, cached, failures>>
  BY <1>1 DEF Store, Return, Goto, TypeOK
<1>3. TypeOK'
  BY <1>1, <1>2 DEF TypeOK, Labels
<1>4. FoundOld' /\ MarkedOld' /\ FetchedSince'
  BY <1>1, <1>2 DEF IInv, FoundOld, MarkedOld, Old, FetchedSince, TypeOK
<1>5. FreshUnlessMarked'
  BY <1>1, <1>2 DEF IInv, FetchedSince, FreshUnlessMarked, TypeOK
<1> QED BY <1>3, <1>4, <1>5 DEF IInv

LEMMA FetchFailsKeeps ==
  ASSUME IInv, NEW c \in Callers, FetchFails(c)
  PROVE  IInv'
<1>1. TypeOK
  BY DEF IInv
<1>2. /\ pc[c] = "fetch"
      /\ pc' = [pc EXCEPT ![c] = IF cached[c] = NoRecord THEN "raised" ELSE "mark"]
      /\ UNCHANGED <<now, cache, fetchedAt, stale, since, cached, result>>
      /\ failures' \in 0..MaxFailures
  BY <1>1, BoundAssumption DEF FetchFails, Goto, TypeOK
<1>3. TypeOK'
  BY <1>1, <1>2 DEF TypeOK, Labels
<1>4. FoundOld' /\ MarkedOld'
  BY <1>1, <1>2 DEF IInv, FoundOld, MarkedOld, Old, TypeOK
<1>5. FetchedSince' /\ FreshUnlessMarked'
  BY <1>1, <1>2 DEF IInv, FetchedSince, FreshUnlessMarked, TypeOK
<1> QED BY <1>3, <1>4, <1>5 DEF IInv

LEMMA MarkKeeps ==
  ASSUME IInv, NEW c \in Callers, Mark(c)
  PROVE  IInv'
<1> DEFINE r == cached[c]
<1>1. TypeOK
  BY DEF IInv
<1>2. /\ pc[c] = "mark" /\ r \in Records /\ Old(r)
      /\ UNCHANGED <<now, cache, fetchedAt, since, cached, failures>>
  BY <1>1 DEF Mark, IInv, FoundOld, TypeOK
<1>3. CASE Members \ stale[r] = {}
  <2>1. /\ pc' = [pc EXCEPT ![c] = "returned"] /\ result' = [result EXCEPT ![c] = r]
        /\ stale' = stale
    BY <1>3 DEF Mark, Return, Goto
  <2>2. stale[r] = Members
    BY <1>1, <1>2, <1>3 DEF TypeOK
  <2>3. TypeOK'
    BY <1>1, <1>2, <2>1, RecordAssumption DEF TypeOK, Labels
  <2>4. FoundOld' /\ MarkedOld' /\ FetchedSince'
    BY <1>1, <1>2, <2>1 DEF IInv, FoundOld, MarkedOld, Old, FetchedSince, TypeOK
  <2>5. FreshUnlessMarked'
    BY <1>1, <1>2, <2>1, <2>2 DEF IInv, FreshUnlessMarked, TypeOK
  <2> QED BY <2>3, <2>4, <2>5 DEF IInv
<1>4. CASE Members \ stale[r] # {}
  <2>1. PICK m \in Members : stale' = [stale EXCEPT ![r] = @ \cup {m}]
    BY <1>4 DEF Mark
  <2>2. UNCHANGED <<pc, result>>
    BY <1>4 DEF Mark
  <2>3. TypeOK'
    BY <1>1, <1>2, <2>1, <2>2 DEF TypeOK, Labels
  <2>4. FoundOld' /\ FetchedSince'
    BY <1>1, <1>2, <2>1, <2>2 DEF IInv, FoundOld, Old, FetchedSince, TypeOK
  <2>5. MarkedOld'
    BY <1>1, <1>2, <2>1 DEF IInv, MarkedOld, Old, TypeOK
  <2>6. \A x \in Records : stale[x] = Members => stale'[x] = Members
    BY <1>1, <2>1 DEF TypeOK
  <2>7. \A d \in Callers : pc[d] = "returned" => result[d] \in Records
    BY <1>1 DEF TypeOK
  <2>8. FreshUnlessMarked'
    BY <1>2, <2>2, <2>6, <2>7 DEF IInv, FreshUnlessMarked
  <2> QED BY <2>3, <2>4, <2>5, <2>8 DEF IInv
<1> QED BY <1>3, <1>4

LEMMA FinishKeeps ==
  ASSUME IInv, NEW c \in Callers, Finish(c)
  PROVE  IInv'
<1>1. TypeOK /\ now \in 0..MaxTime /\ 0 \in 0..MaxTime
  BY BoundAssumption DEF IInv, TypeOK
<1>2. /\ pc' = [pc EXCEPT ![c] = "idle"] /\ since' = [since EXCEPT ![c] = 0]
      /\ cached' = [cached EXCEPT ![c] = NoRecord] /\ result' = [result EXCEPT ![c] = NoRecord]
      /\ UNCHANGED <<now, cache, fetchedAt, stale, failures>>
  BY DEF Finish, Goto
<1>3. TypeOK'
  BY <1>1, <1>2 DEF TypeOK, Labels
<1>4. FoundOld' /\ MarkedOld'
  BY <1>1, <1>2 DEF IInv, FoundOld, MarkedOld, Old, TypeOK
<1>5. FetchedSince' /\ FreshUnlessMarked'
  BY <1>1, <1>2 DEF IInv, FetchedSince, FreshUnlessMarked, TypeOK
<1> QED BY <1>3, <1>4, <1>5 DEF IInv

LEMMA TickKeeps == IInv /\ Tick => IInv'
<1> SUFFICES ASSUME IInv, Tick PROVE IInv'
  OBVIOUS
<1>1. TypeOK /\ now \in Int /\ TTL \in Int
  BY TypedValues DEF IInv
<1>2. /\ now' = now + 1 /\ now' \in 0..MaxTime
      /\ UNCHANGED <<cache, fetchedAt, stale, pc, since, cached, result, failures>>
  BY <1>1, BoundAssumption DEF Tick, TypeOK
<1>3. TypeOK'
  BY <1>1, <1>2 DEF TypeOK, Labels
<1>4. \A r \in Records : Old(r) => Old(r)'
  BY <1>1, <1>2, TypedValues DEF Old
<1>5. FoundOld' /\ MarkedOld'
  BY <1>1, <1>2, <1>4 DEF IInv, FoundOld, MarkedOld, TypeOK
<1>6. FetchedSince'
  BY <1>1, <1>2, TypedValues DEF IInv, FetchedSince
<1>7. FreshUnlessMarked'
  BY <1>2 DEF IInv, FreshUnlessMarked
<1> QED BY <1>3, <1>5, <1>6, <1>7 DEF IInv

LEMMA NextIInv == IInv /\ [Next]_vars => IInv'
<1> SUFFICES ASSUME IInv, [Next]_vars PROVE IInv'
  OBVIOUS
<1>1. ASSUME NEW c \in Callers, Read(c) \/ Step(c) PROVE IInv'
  BY <1>1, ReadKeeps, FetchKeeps, StoreKeeps, FetchFailsKeeps, MarkKeeps, FinishKeeps DEF Step
<1>2. CASE UNCHANGED vars
  BY <1>2 DEF vars, IInv, TypeOK, MarkedOld, FoundOld, Old, FetchedSince, FreshUnlessMarked
<1> QED BY <1>1, <1>2, TickKeeps DEF Next

LEMMA Inductive == Spec => []IInv
BY InitIInv, NextIInv, PTL DEF Spec

-----------------------------------------------------------------------------
\* The cache, its records and the locals of get_tle keep their types.
THEOREM TypeCorrect == Spec => []TypeOK
<1>1. IInv => TypeOK
  BY DEF IInv
<1> QED BY <1>1, Inductive, PTL

\* get_tle and get_group_tles mark no record that is still good, whoever fails.
THEOREM MarksAreTrue == Spec => []StaleOnlyExpired
<1>1. IInv => StaleOnlyExpired
  BY DEF IInv, TypeOK, MarkedOld, Old, StaleOnlyExpired, Reachable, Expired
<1> QED BY <1>1, Inductive, PTL

\* Neither function returns old elements without the mark.
THEOREM OldIsMarked == Spec => []FreshUnlessMarked
<1>1. IInv => FreshUnlessMarked
  BY DEF IInv
<1> QED BY <1>1, Inductive, PTL

=============================================================================
