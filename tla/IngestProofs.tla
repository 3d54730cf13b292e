----------------------------- MODULE IngestProofs -----------------------------
(***************************************************************************)
(* Theorems about Ingest, for every set of workers and requests and every  *)
(* budget of failures.                                                     *)
(***************************************************************************)
EXTENDS Ingest, TLAPS

USE RequestAssumption, KeyAssumption, NullAssumption, FaultAssumption

(* The initial values are of their types. *)
LEMMA TypeInit == Init => TypeOK
  BY DEF Init, TypeOK, Labels, Critical, Outcomes, FaultKinds

\* What a crash may leave to the store, and what it counts.
LEMMA CrashFacts ==
  ASSUME TypeOK, Crash
  PROVE  /\ inflight \subseteq inflight' /\ inflight' \subseteq Requests
         /\ faults' \in [FaultKinds -> Nat]
         /\ \A k \in FaultKinds : faults'[k] >= faults[k]
         /\ faults'["crash"] = faults["crash"] + 1
         /\ inflight' = inflight \/ faults'["late"] = faults["late"] + 1
<1>1. PICK sent \in SUBSET {req[w] : w \in {v \in Workers : pc[v] = "put"}} :
        /\ inflight' = inflight \cup sent
        /\ faults' = [faults EXCEPT !["crash"] = @ + 1,
                                    !["late"] = IF sent = {} THEN @ ELSE @ + 1]
  BY DEF Crash
<1>2. {req[w] : w \in {v \in Workers : pc[v] = "put"}} \subseteq Requests
  BY DEF TypeOK
<1>3. inflight \subseteq inflight' /\ inflight' \subseteq Requests
  BY <1>1, <1>2 DEF TypeOK
<1>4. /\ faults' \in [FaultKinds -> Nat]
      /\ \A k \in FaultKinds : faults'[k] >= faults[k]
      /\ faults'["crash"] = faults["crash"] + 1
      /\ sent = {} \/ faults'["late"] = faults["late"] + 1
  BY <1>1 DEF TypeOK, FaultKinds
<1> QED BY <1>1, <1>3, <1>4

(* Every step of every action keeps the types. *)
LEMMA TypeStep ==
  ASSUME TypeOK, [Next]_vars
  PROVE  TypeOK'
<1> USE DEF TypeOK, Labels, Critical, Outcomes, FaultKinds, Goto, Finish,
            Refusal, Released, MyId, MyKey, session, store, call, Fault
<1>1. ASSUME NEW w \in Workers, Begin(w) PROVE TypeOK'
  BY <1>1 DEF Begin, Asks
<1>2. ASSUME NEW w \in Workers, FetchRefused(w) PROVE TypeOK'
  <2>1. PICK r \in Requests : req' = [req EXCEPT ![w] = r]
    BY <1>2 DEF FetchRefused, Asks
  <2>2. PICK result \in Outcomes : Finish(w, result)
    BY <1>2 DEF FetchRefused
  <2>3. /\ pc' \in [Workers -> Labels]
        /\ req' \in [Workers -> Requests \cup {NoRequest}]
        /\ outcome' \in [Workers -> Outcomes]
        /\ pc'[w] = "close" /\ req'[w] \in Requests
        /\ \A v \in Workers \ {w} : pc'[v] = pc[v] /\ req'[v] = req[v]
    BY <2>1, <2>2
  <2>4. UNCHANGED <<existing, objectCreated, connected, session, store, orphanLog, faults>>
    BY <1>2 DEF FetchRefused
  <2>5. QED
    BY <2>3, <2>4
<1>3. ASSUME NEW w \in Workers, Open(w) PROVE TypeOK'
  <2>1. CASE AcquireLock(w) \/ LockTimeout(w)
    BY <2>1 DEF AcquireLock, LockTimeout
  <2>2. CASE SelectExisting(w)
    BY <2>2 DEF SelectExisting
  <2>3. CASE StatementFails(w)
    BY <2>3 DEF StatementFails
  <2>4. QED
    BY <1>3, <2>1, <2>2, <2>3 DEF Open
<1>4. ASSUME NEW w \in Workers, Lookup(w) PROVE TypeOK'
  <2>1. CASE StatRow(w)
    BY <2>1, SMTT(20) DEF StatRow
  <2>2. CASE VerifyRow(w)
    BY <2>2, SMTT(20) DEF VerifyRow
  <2>3. CASE StatKey(w) \/ VerifyFound(w)
    BY <2>3, SMTT(20) DEF StatKey, VerifyFound
  <2>4. CASE RestatKey(w)
    BY <2>4 DEF RestatKey
  <2>5. CASE LookupFails(w)
    BY <2>5 DEF LookupFails
  <2> QED BY <1>4, <2>1, <2>2, <2>3, <2>4, <2>5 DEF Lookup
<1>5. ASSUME NEW w \in Workers, Upload(w) PROVE TypeOK'
  <2>1. CASE Put(w)
    BY <2>1 DEF Put
  <2>2. ASSUME pc[w] = "put", FailedUpload(w)
        PROVE  /\ objects' \in [Keys -> Bytes \cup {NoBytes}]
               /\ inflight' \subseteq Requests
               /\ faults' \in [FaultKinds -> Nat]
    BY <2>2 DEF FailedUpload
  <2>3. CASE PutTimesOut(w)
    BY <2>2, <2>3 DEF PutTimesOut
  <2>4. CASE PutFails(w)
    BY <2>2, <2>4 DEF PutFails
  <2>5. QED
    BY <1>5, <2>1, <2>3, <2>4 DEF Upload
<1>6. ASSUME NEW w \in Workers, Persist(w) PROVE TypeOK'
  <2>1. CASE Commit(w)
    BY <2>1 DEF Commit
  <2>2. CASE CommitFails(w)
    BY <2>2 DEF CommitFails
  <2>3. CASE Cleanup(w) \/ CleanupFails(w)
    BY <2>3 DEF Cleanup, CleanupFails
  <2>4. QED
    BY <1>6, <2>1, <2>2, <2>3 DEF Persist
<1>7. ASSUME NEW w \in Workers, CloseSession(w) PROVE TypeOK'
  BY <1>7 DEF CloseSession
<1>8. ASSUME NEW w \in Workers, LoseConnection(w) PROVE TypeOK'
  BY <1>8 DEF LoseConnection
<1>9. CASE LateLands
  BY <1>9 DEF LateLands
<1>10. CASE Crash
  BY <1>10, CrashFacts DEF Crash
<1>11. CASE UNCHANGED vars
  BY <1>11 DEF vars
<1>12. QED
  BY <1>1, <1>2, <1>3, <1>4, <1>5, <1>6, <1>7, <1>8, <1>9, <1>10, <1>11
     DEF Next, Step

(* Every variable keeps its type, for any workers, requests and failures. *)
THEOREM TypeCorrect == Spec => []TypeOK
  BY TypeInit, TypeStep, PTL DEF Spec

(***************************************************************************)
(* The advisory lock.  Only AcquireLock takes a lock, and only a free one; *)
(* only the step of its holder that ends the transaction gives it back.    *)
(***************************************************************************)
LEMMA LockStep ==
  ASSUME TypeOK, HoldsLock, [Next]_vars
  PROVE  HoldsLock'
<1> USE DEF TypeOK, HoldsLock, Labels, Critical, Goto, Finish, Released, MyId,
            session, call
<1>1. ASSUME NEW w \in Workers, Begin(w) \/ FetchRefused(w) PROVE HoldsLock'
  BY <1>1 DEF Begin, FetchRefused
<1>2. ASSUME NEW w \in Workers, Open(w) PROVE HoldsLock'
  <2>1. CASE AcquireLock(w)
    BY <2>1 DEF AcquireLock
  <2>2. CASE LockTimeout(w) \/ SelectExisting(w) \/ StatementFails(w)
    BY <2>2 DEF LockTimeout, SelectExisting, StatementFails
  <2>3. QED
    BY <1>2, <2>1, <2>2 DEF Open
<1>3. ASSUME NEW w \in Workers, Lookup(w) PROVE HoldsLock'
  BY <1>3 DEF Lookup, StatRow, VerifyRow, StatKey, VerifyFound, RestatKey,
              LookupFails
<1>4. ASSUME NEW w \in Workers, Upload(w) PROVE HoldsLock'
  BY <1>4 DEF Upload, Put, PutTimesOut, PutFails
<1>5. ASSUME NEW w \in Workers, Persist(w) PROVE HoldsLock'
  BY <1>5 DEF Persist, Commit, CommitFails, Cleanup, CleanupFails
<1>6. ASSUME NEW w \in Workers, CloseSession(w) \/ LoseConnection(w)
      PROVE  HoldsLock'
  BY <1>6 DEF CloseSession, LoseConnection
<1>7. CASE LateLands \/ Crash
  BY <1>7 DEF LateLands, Crash
<1>8. CASE UNCHANGED vars
  BY <1>8 DEF vars
<1>9. QED
  BY <1>1, <1>2, <1>3, <1>4, <1>5, <1>6, <1>7, <1>8 DEF Next, Step

(* Two live sessions never work on the same identity. *)
THEOREM LockExcludes == Spec => []MutualExclusion
<1>1. Init => HoldsLock
  BY DEF Init, HoldsLock, Critical
<1>2. HoldsLock => MutualExclusion
  BY DEF HoldsLock, MutualExclusion
<1>3. QED
  BY <1>1, <1>2, TypeCorrect, LockStep, PTL DEF Spec

(***************************************************************************)
(* Rows are written only by a live lock holder whose SELECT found none.    *)
(***************************************************************************)

\* The only two steps that write rows, and what they write.
LEMMA RowsChange ==
  ASSUME TypeOK, HoldsLock, SelectStands, [Next]_vars, rows' # rows
  PROVE  \E w \in Workers :
           /\ pc[w] = "commit" /\ connected[w]
           /\ lock[MyId(w)] = w
           /\ MyId(w) \in Ids
           /\ rows[MyId(w)] = NoRequest
           /\ ~Duplicate(w)
           /\ Commit(w) \/ CommitFails(w)
           /\ rows' = [rows EXCEPT ![MyId(w)] = req[w]]
<1>1. PICK w \in Workers : Commit(w) \/ CommitFails(w)
  <2>1. ASSUME NEW w \in Workers,
               Begin(w) \/ FetchRefused(w) \/ Open(w) \/ Lookup(w) \/ Upload(w)
                 \/ CloseSession(w) \/ LoseConnection(w)
        PROVE  UNCHANGED rows
    BY <2>1 DEF Begin, FetchRefused, Open, AcquireLock, LockTimeout, SelectExisting,
         StatementFails, Lookup, StatRow, VerifyRow, StatKey, VerifyFound, RestatKey,
         LookupFails, Upload, Put, PutTimesOut, PutFails, CloseSession,
         LoseConnection, session
  <2>2. ASSUME NEW w \in Workers, Cleanup(w) \/ CleanupFails(w) PROVE UNCHANGED rows
    BY <2>2 DEF Cleanup, CleanupFails, session
  <2>3. LateLands \/ Crash \/ UNCHANGED vars => UNCHANGED rows
    BY DEF LateLands, Crash, vars, session
  <2>4. QED
    BY <2>1, <2>2, <2>3 DEF Next, Step, Persist
<1>2. /\ pc[w] = "commit" /\ connected[w] /\ ~Duplicate(w)
      /\ rows' = [rows EXCEPT ![MyId(w)] = req[w]]
  BY <1>1 DEF Commit, CommitFails
<1>3. lock[MyId(w)] = w /\ rows[MyId(w)] = NoRequest /\ MyId(w) \in Ids
  BY <1>2 DEF TypeOK, HoldsLock, SelectStands, Critical, Fresh, MyId
<1>4. QED
  BY <1>1, <1>2, <1>3

\* A committed row is never changed: the step form of RowsWriteOnce.
LEMMA RowsKept ==
  ASSUME TypeOK, HoldsLock, SelectStands, [Next]_vars
  PROVE  \A i \in Ids : rows[i] # NoRequest => rows'[i] = rows[i]
<1>1. CASE rows' = rows
  BY <1>1
<1>2. CASE rows' # rows
  BY <1>2, RowsChange DEF TypeOK, MyId
<1>3. QED
  BY <1>1, <1>2

\* A row is filed under the identity of its own request.
LEMMA RowsIdentifiedStep ==
  ASSUME TypeOK, HoldsLock, SelectStands, RowsIdentified, [Next]_vars
  PROVE  RowsIdentified'
<1>1. CASE rows' = rows
  BY <1>1 DEF RowsIdentified
<1>2. CASE rows' # rows
  BY <1>2, RowsChange DEF TypeOK, RowsIdentified, MyId
<1>3. QED
  BY <1>1, <1>2

\* What a worker's SELECT found is not changed by other workers while it holds
\* the lock (ingest.py 125-129).
LEMMA SelectStep ==
  ASSUME TypeOK, HoldsLock, SelectStands, [Next]_vars
  PROVE  SelectStands'
<1> USE DEF TypeOK, SelectStands, Fresh, Goto, Finish, MyId, session, call
<1>1. ASSUME NEW w \in Workers, Begin(w) \/ FetchRefused(w) PROVE SelectStands'
  BY <1>1 DEF Begin, FetchRefused
<1>2. ASSUME NEW w \in Workers, Open(w) PROVE SelectStands'
  BY <1>2 DEF Open, AcquireLock, LockTimeout, SelectExisting, StatementFails
<1>3. ASSUME NEW w \in Workers, Lookup(w) PROVE SelectStands'
  BY <1>3 DEF Lookup, StatRow, VerifyRow, StatKey, VerifyFound, RestatKey,
              LookupFails
<1>4. ASSUME NEW w \in Workers, Upload(w) PROVE SelectStands'
  BY <1>4 DEF Upload, Put, PutTimesOut, PutFails
<1>5. ASSUME NEW w \in Workers, Commit(w) \/ CommitFails(w)
      PROVE  SelectStands'
  <2>1. CASE rows' = rows
    BY <1>5, <2>1 DEF Commit, CommitFails
  <2>2. CASE rows' # rows
    <3>1. /\ pc[w] = "commit" /\ connected[w]
          /\ rows' = [rows EXCEPT ![MyId(w)] = req[w]]
      BY <1>5, <2>2 DEF Commit, CommitFails
    <3>2. lock[MyId(w)] = w /\ rows[MyId(w)] = NoRequest
      BY <3>1 DEF HoldsLock, Critical
    <3>3. \A v \in Workers : v # w /\ pc[v] \in Fresh /\ connected[v]
            => MyId(v) # MyId(w)
      BY <3>2 DEF HoldsLock, Critical
    <3>4. /\ pc' \in {[pc EXCEPT ![w] = "close"], [pc EXCEPT ![w] = "cleanup"]}
          /\ UNCHANGED <<req, existing, connected>>
      BY <1>5 DEF Commit, CommitFails
    <3>5. \A v \in Workers : pc[v] \in {"statRow", "getRow"}
            => rows'[MyId(v)] = rows[MyId(v)]
      BY <3>1, <3>2
    <3>6. QED
      BY <3>1, <3>3, <3>4, <3>5
  <2>3. QED
    BY <2>1, <2>2
<1>6. ASSUME NEW w \in Workers, Cleanup(w) \/ CleanupFails(w) PROVE SelectStands'
  BY <1>6 DEF Cleanup, CleanupFails
<1>7. ASSUME NEW w \in Workers, CloseSession(w) \/ LoseConnection(w)
      PROVE  SelectStands'
  BY <1>7 DEF CloseSession, LoseConnection
<1>8. CASE LateLands \/ Crash
  BY <1>8 DEF LateLands, Crash
<1>9. CASE UNCHANGED vars
  BY <1>9 DEF vars
<1>10. QED
  BY <1>1, <1>2, <1>3, <1>4, <1>5, <1>6, <1>7, <1>8, <1>9 DEF Next, Step, Persist

(***************************************************************************)
(* Answers.                                                                *)
(***************************************************************************)
LEMMA LocalsStep ==
  ASSUME TypeOK, LocalsInv, [Next]_vars
  PROVE  LocalsInv'
<1> USE DEF TypeOK, LocalsInv, Goto, Finish
<1>1. ASSUME NEW w \in Workers, Begin(w) \/ FetchRefused(w) \/ Open(w)
      PROVE  LocalsInv'
  BY <1>1 DEF Begin, FetchRefused, Open, AcquireLock, LockTimeout,
              SelectExisting, StatementFails
<1>2. ASSUME NEW w \in Workers, Lookup(w) PROVE LocalsInv'
  BY <1>2 DEF Lookup, StatRow, VerifyRow, StatKey, VerifyFound, RestatKey,
              LookupFails, Refusal
<1>3. ASSUME NEW w \in Workers, Upload(w) \/ Persist(w) PROVE LocalsInv'
  BY <1>3 DEF Upload, Put, PutTimesOut, PutFails, Persist, Commit, CommitFails,
              Cleanup, CleanupFails
<1>4. ASSUME NEW w \in Workers, CloseSession(w) \/ LoseConnection(w)
      PROVE  LocalsInv'
  BY <1>4 DEF CloseSession, LoseConnection
<1>5. CASE LateLands \/ Crash \/ UNCHANGED vars
  BY <1>5 DEF LateLands, Crash, vars, call
<1>6. QED
  BY <1>1, <1>2, <1>3, <1>4, <1>5 DEF Next, Step

\* A positive answer is decided by Commit, which writes the row it speaks of, or
\* by VerifyRow, which compares with a row that is still there.
LEMMA AckStep ==
  ASSUME TypeOK, HoldsLock, SelectStands, LocalsInv, AcknowledgedIsCommitted,
         [Next]_vars
  PROVE  AcknowledgedIsCommitted'
<1> USE DEF TypeOK, LocalsInv, AcknowledgedIsCommitted, Goto, Finish, MyId, MyKey,
            session, call
<1>1. \A i \in Ids : rows[i] # NoRequest => rows'[i] = rows[i]
  BY RowsKept
<1>2. ASSUME NEW w \in Workers, Begin(w) \/ FetchRefused(w) \/ Open(w)
      PROVE  AcknowledgedIsCommitted'
  BY <1>2 DEF Begin, FetchRefused, Open, AcquireLock, LockTimeout,
              SelectExisting, StatementFails
<1>3. ASSUME NEW w \in Workers, VerifyRow(w) PROVE AcknowledgedIsCommitted'
  BY <1>3 DEF VerifyRow, SelectStands, Refusal
<1>4. ASSUME NEW w \in Workers,
             StatRow(w) \/ StatKey(w) \/ VerifyFound(w) \/ RestatKey(w) \/ LookupFails(w)
      PROVE  AcknowledgedIsCommitted'
  BY <1>4 DEF StatRow, StatKey, VerifyFound, RestatKey, LookupFails, Refusal
<1>5. ASSUME NEW w \in Workers, Upload(w) PROVE AcknowledgedIsCommitted'
  BY <1>5 DEF Upload, Put, PutTimesOut, PutFails
<1>6. ASSUME NEW w \in Workers, Persist(w) PROVE AcknowledgedIsCommitted'
  <2>1. CASE Commit(w)
    BY <1>1, <2>1 DEF Commit
  <2>2. CASE CommitFails(w)
    BY <1>1, <2>2 DEF CommitFails
  <2>3. CASE Cleanup(w) \/ CleanupFails(w)
    BY <2>3 DEF Cleanup, CleanupFails
  <2>4. QED
    BY <1>6, <2>1, <2>2, <2>3 DEF Persist
<1>7. ASSUME NEW w \in Workers, CloseSession(w) \/ LoseConnection(w)
      PROVE  AcknowledgedIsCommitted'
  BY <1>7 DEF CloseSession, LoseConnection
<1>8. CASE LateLands \/ Crash \/ UNCHANGED vars
  BY <1>8 DEF LateLands, Crash, vars
<1>9. QED
  BY <1>2, <1>3, <1>4, <1>5, <1>6, <1>7, <1>8 DEF Next, Step, Lookup

(***************************************************************************)
(* Rows and their objects.                                                 *)
(***************************************************************************)

\* Two commits or uploads of different workers never meet on one key.
LEMMA KeyOfHolder ==
  ASSUME TypeOK, HoldsLock, NEW v \in Workers, NEW w \in Workers, v # w,
         pc[v] \in Critical, connected[v], pc[w] \in Critical, connected[w]
  PROVE  MyKey(v) # MyKey(w)
<1>1. MyId(v) # MyId(w)
  BY DEF HoldsLock
<1>2. req[v] \in Requests /\ req[w] \in Requests
  BY DEF TypeOK, Critical
<1>3. QED
  BY <1>1, <1>2 DEF MyId, MyKey

\* A worker that found no row uploads under a key no row refers to.
LEMMA KeyUnreferenced ==
  ASSUME TypeOK, SelectStands, RowsIdentified, NEW w \in Workers,
         pc[w] \in Fresh, connected[w], NEW i \in Ids, rows[i] # NoRequest
  PROVE  KeyOf[rows[i]] # MyKey(w)
  BY DEF TypeOK, SelectStands, RowsIdentified, Fresh, MyId, MyKey

\* Failures are counted, never forgotten.
LEMMA FaultsGrow ==
  ASSUME TypeOK, [Next]_vars
  PROVE  \A k \in FaultKinds : faults'[k] >= faults[k]
<1> USE DEF TypeOK
<1>1. ASSUME NEW kind \in FaultKinds, Fault(kind)
      PROVE  \A k \in FaultKinds : faults'[k] >= faults[k]
  BY <1>1 DEF Fault
<1>2. UNCHANGED faults => \A k \in FaultKinds : faults'[k] >= faults[k]
  OBVIOUS
<1>3. UNCHANGED faults \/ (\E k \in FaultKinds : Fault(k)) \/ Crash
  <2> USE DEF FaultKinds
  <2>1. ASSUME NEW w \in Workers, Begin(w) \/ FetchRefused(w) \/ Open(w) \/ CloseSession(w)
        PROVE  UNCHANGED faults \/ \E k \in FaultKinds : Fault(k)
    BY <2>1 DEF Begin, FetchRefused, Open, AcquireLock, LockTimeout,
                SelectExisting, StatementFails, CloseSession
  <2>2. ASSUME NEW w \in Workers, Lookup(w)
        PROVE  UNCHANGED faults \/ \E k \in FaultKinds : Fault(k)
    BY <2>2 DEF Lookup, StatRow, VerifyRow, StatKey, VerifyFound, RestatKey,
                LookupFails
  <2>3. ASSUME NEW w \in Workers, Upload(w)
        PROVE  UNCHANGED faults \/ \E k \in FaultKinds : Fault(k)
    BY <2>3 DEF Upload, Put, PutTimesOut, PutFails, FailedUpload
  <2>4. ASSUME NEW w \in Workers, Persist(w) \/ LoseConnection(w)
        PROVE  UNCHANGED faults \/ \E k \in FaultKinds : Fault(k)
    BY <2>4 DEF Persist, Commit, CommitFails, Cleanup, CleanupFails,
                LoseConnection
  <2>5. CASE LateLands \/ UNCHANGED vars
    BY <2>5 DEF LateLands, vars
  <2>6. QED
    BY <2>1, <2>2, <2>3, <2>4, <2>5 DEF Next, Step
<1>4. QED
  BY <1>1, <1>2, <1>3, CrashFacts

\* The steps that set off no failure counted by LockOutlived.
LEMMA BackedStep ==
  ASSUME TypeOK, HoldsLock, SelectStands, RowsIdentified, BackedInv,
         [Next]_vars, ~LockOutlived'
  PROVE  /\ inflight' = {}
         /\ \A w \in Workers :
              /\ connected'[w]
              /\ pc'[w] # "cleanup"
              /\ (pc[w] = "commit" => objects[MyKey(w)] = BytesOf[req[w]])'
         /\ RowBacked'
<1> DEFINE Goal ==
      /\ inflight = {}
      /\ \A w \in Workers :
           /\ connected[w]
           /\ pc[w] # "cleanup"
           /\ pc[w] = "commit" => objects[MyKey(w)] = BytesOf[req[w]]
      /\ RowBacked
<1>1. Goal
  <2>1. \A k \in FaultKinds : faults[k] \in Nat /\ faults'[k] \in Nat /\ faults'[k] >= faults[k]
    BY FaultsGrow, TypeStep DEF TypeOK
  <2>2. ~LockOutlived
    BY <2>1 DEF LockOutlived, FaultKinds
  <2>3. QED
    BY <2>2 DEF BackedInv
<1>2. \A k \in {"db", "ack", "conn", "late"} : ~Fault(k)
  BY FaultsGrow DEF LockOutlived, TypeOK, FaultKinds, Fault
<1>3. ASSUME NEW w \in Workers, pc[w] \in Fresh
      PROVE  /\ \A v \in Workers : v # w /\ pc[v] = "commit" => MyKey(v) # MyKey(w)
             /\ \A i \in Ids : rows[i] # NoRequest => KeyOf[rows[i]] # MyKey(w)
             /\ ~Duplicate(w)
  <2>1. connected[w] /\ pc[w] \in Critical
    BY <1>1, <1>3 DEF Fresh, Critical
  <2>2. \A v \in Workers : v # w /\ pc[v] = "commit" => MyKey(v) # MyKey(w)
    BY <1>1, <2>1, KeyOfHolder DEF Critical
  <2>3. \A i \in Ids : rows[i] # NoRequest => KeyOf[rows[i]] # MyKey(w)
    BY <1>3, <2>1, KeyUnreferenced
  <2>4. QED
    BY <1>3, <2>1, <2>2, <2>3 DEF Duplicate, SelectStands
<1> USE DEF TypeOK, Goto, Finish, MyId, MyKey, RowBacked, Backed, session, store, call
<1>4. ASSUME NEW w \in Workers, Begin(w) \/ FetchRefused(w) \/ Open(w) PROVE Goal'
  BY <1>1, <1>4 DEF Begin, FetchRefused, Open, AcquireLock, LockTimeout,
                    SelectExisting, StatementFails
<1>5. ASSUME NEW w \in Workers, Lookup(w) PROVE Goal'
  BY <1>1, <1>5 DEF Lookup, StatRow, VerifyRow, StatKey, VerifyFound, RestatKey,
                    LookupFails, Matches
<1>6. ASSUME NEW w \in Workers, Upload(w) PROVE Goal'
  <2>1. pc[w] = "put"
    BY <1>6 DEF Upload, Put, PutTimesOut, PutFails
  <2>2. CASE Put(w)
    BY <1>1, <1>3, <2>1, <2>2 DEF Put, Fresh
  <2>3. CASE PutTimesOut(w) \/ PutFails(w)
    BY <1>1, <1>2, <1>3, <2>1, <2>3 DEF PutTimesOut, PutFails, FailedUpload, Fresh
  <2>4. QED
    BY <1>6, <2>2, <2>3 DEF Upload
<1>7. ASSUME NEW w \in Workers, Persist(w) PROVE Goal'
  <2>1. ~Cleanup(w) /\ ~CleanupFails(w)
    BY <1>1 DEF Cleanup, CleanupFails
  <2>2. ~CommitFails(w)
    BY <1>1, <1>2, <1>3 DEF CommitFails, Fresh
  <2>3. Commit(w)
    BY <1>7, <2>1, <2>2 DEF Persist
  <2>4. QED
    BY <1>1, <2>3 DEF Commit
<1>8. ASSUME NEW w \in Workers, CloseSession(w) \/ LoseConnection(w) PROVE Goal'
  BY <1>1, <1>2, <1>8 DEF CloseSession, LoseConnection
<1>9. CASE LateLands \/ UNCHANGED vars
  BY <1>1, <1>9 DEF LateLands, vars
<1>10. CASE Crash
  <2>1. inflight' = {}
    BY <1>1, <1>10, CrashFacts DEF LockOutlived, FaultKinds
  <2> QED BY <1>1, <1>10, <2>1 DEF Crash
<1>11. QED
  BY <1>4, <1>5, <1>6, <1>7, <1>8, <1>9, <1>10 DEF Next, Step

(***************************************************************************)
(* The inductive invariant and what follows from it.                       *)
(***************************************************************************)
\* The inductive invariant holds initially.
LEMMA IInvInit == Init => IInv
  BY TypeInit DEF Init, IInv, HoldsLock, SelectStands, RowsIdentified,
       LocalsInv, AcknowledgedIsCommitted, BackedInv, RowBacked, Backed,
       Critical, Fresh

\* Every step keeps it: one lemma per conjunct.
LEMMA IInvStep ==
  ASSUME IInv, [Next]_vars
  PROVE  IInv'
<1> USE DEF IInv
<1>1. TypeOK' /\ HoldsLock' /\ SelectStands'
  BY TypeStep, LockStep, SelectStep
<1>2. RowsIdentified' /\ LocalsInv' /\ AcknowledgedIsCommitted'
  BY RowsIdentifiedStep, LocalsStep, AckStep
<1>3. BackedInv'
  BY BackedStep DEF BackedInv
<1>4. QED
  BY <1>1, <1>2, <1>3

\* So it holds throughout.
LEMMA Inductive == Spec => []IInv
  BY IInvInit, IInvStep, PTL DEF Spec

(* While no transaction is outlived by its worker, every committed row keeps *)
(* its object with the right bytes, whatever else fails (ingest.py 154-219). *)
THEOREM RowsStayBacked == Spec => []RowBackedUnlessOutlived
<1>1. IInv => RowBackedUnlessOutlived
  BY DEF IInv, BackedInv, RowBackedUnlessOutlived
<1>2. QED
  BY <1>1, Inductive, PTL

(* An answer 201 or 200 speaks of a committed row with the caller's identity, *)
(* key and bytes (ingest.py 152, 221), under every failure.                   *)
THEOREM AnswersAreCommitted == Spec => []AcknowledgedIsCommitted
<1>1. IInv => AcknowledgedIsCommitted
  BY DEF IInv
<1>2. QED
  BY <1>1, Inductive, PTL

(* A committed dataset row is never changed (the conflict branches). *)
THEOREM RowsAreWriteOnce == Spec => RowsWriteOnce
<1>1. IInv /\ [Next]_vars =>
        [\A i \in Ids : rows[i] # NoRequest => rows'[i] = rows[i]]_rows
  BY RowsKept DEF IInv
<1>2. QED
  BY <1>1, Inductive, PTL DEF Spec, RowsWriteOnce

(***************************************************************************)
(* The object a failed commit deletes is the worker's own.                 *)
(***************************************************************************)
LEMMA OwnerStep ==
  ASSUME IInv, OwnerInv, [Next]_vars
  PROVE  OwnerInv'
<1> DEFINE Goal ==
      /\ inflight = {}
      /\ \A w \in Workers :
           /\ connected[w]
           /\ pc[w] = "put" => objects[MyKey(w)] = NoBytes
           /\ pc[w] = "cleanup" => objectCreated[w]
           /\ Owner(w) => objects[MyKey(w)] = BytesOf[req[w]]
      /\ \A v, w \in Workers :
           v # w /\ Owner(v) /\ Owner(w) => MyKey(v) # MyKey(w)
<1> SUFFICES ASSUME faults'["conn"] = 0, faults'["late"] = 0
             PROVE  Goal'
  BY DEF OwnerInv
<1>1. Goal
  <2>1. \A k \in FaultKinds : faults[k] \in Nat /\ faults'[k] \in Nat /\ faults'[k] >= faults[k]
    BY FaultsGrow, TypeStep DEF TypeOK, IInv
  <2>2. faults["conn"] = 0 /\ faults["late"] = 0
    BY <2>1 DEF FaultKinds
  <2>3. QED
    BY <2>2 DEF OwnerInv
<1>2. ~Fault("conn") /\ ~Fault("late")
  BY FaultsGrow DEF TypeOK, IInv, FaultKinds, Fault
\* A worker that uploads shares its key with no other upload and no owner.
<1>3. ASSUME NEW w \in Workers, pc[w] = "put"
      PROVE  \A v \in Workers : v # w /\ (pc[v] = "put" \/ Owner(v)) => MyKey(v) # MyKey(w)
  <2>1. ASSUME NEW v \in Workers, v # w, Owner(v) PROVE MyKey(v) # MyKey(w)
    <3>1. objects[MyKey(v)] \in Bytes
      BY <1>1, <2>1 DEF Owner, IInv, TypeOK
    <3>2. QED
      BY <1>1, <1>3, <3>1
  <2>2. ASSUME NEW v \in Workers, v # w, pc[v] = "put" PROVE MyKey(v) # MyKey(w)
    BY <1>1, <1>3, <2>2, KeyOfHolder DEF IInv, Critical
  <2>3. QED
    BY <2>1, <2>2
\* A worker that deletes shares its key with no other owner.
<1>4. ASSUME NEW w \in Workers, pc[w] = "cleanup"
      PROVE  Owner(w) /\ \A v \in Workers : v # w /\ Owner(v) => MyKey(v) # MyKey(w)
  BY <1>1, <1>4 DEF Owner
<1> USE DEF IInv, TypeOK, LocalsInv, Goto, Finish, MyKey, Owner, session, store, call
<1>5. ASSUME NEW w \in Workers, Begin(w) \/ FetchRefused(w) \/ Open(w) PROVE Goal'
  BY <1>1, <1>5 DEF Begin, FetchRefused, Open, AcquireLock, LockTimeout,
                    SelectExisting, StatementFails
<1>6. ASSUME NEW w \in Workers, Lookup(w) PROVE Goal'
  BY <1>1, <1>6 DEF Lookup, StatRow, VerifyRow, StatKey, VerifyFound, RestatKey,
                    LookupFails
<1>7. ASSUME NEW w \in Workers, Put(w) PROVE Goal'
  BY <1>1, <1>3, <1>7 DEF Put
<1>8. ASSUME NEW w \in Workers, PutTimesOut(w) \/ PutFails(w) PROVE Goal'
  BY <1>1, <1>2, <1>3, <1>8 DEF PutTimesOut, PutFails, FailedUpload
<1>9. ASSUME NEW w \in Workers, Commit(w) \/ CommitFails(w) PROVE Goal'
  BY <1>1, <1>9 DEF Commit, CommitFails
<1>10. ASSUME NEW w \in Workers, Cleanup(w) \/ CleanupFails(w) PROVE Goal'
  <2>1. /\ pc[w] = "cleanup" /\ pc' = [pc EXCEPT ![w] = "close"]
        /\ UNCHANGED <<inflight, req, objectCreated, connected>>
        /\ \A k \in Keys : k # MyKey(w) => objects'[k] = objects[k]
    BY <1>10 DEF Cleanup, CleanupFails
  <2>2. \A v \in Workers : (pc[v] = "put" \/ Owner(v)) /\ v # w => MyKey(v) # MyKey(w)
    BY <1>3, <1>4, <2>1
  <2>3. QED
    BY <1>1, <2>1, <2>2
<1>11. ASSUME NEW w \in Workers, CloseSession(w) \/ LoseConnection(w) PROVE Goal'
  <2>1. CloseSession(w)
    BY <1>2, <1>11 DEF LoseConnection
  <2>2. /\ inflight' = inflight /\ objects' = objects
        /\ pc' = [pc EXCEPT ![w] = "idle"]
        /\ req' = [req EXCEPT ![w] = NoRequest]
        /\ objectCreated' = [objectCreated EXCEPT ![w] = FALSE]
        /\ connected' = [connected EXCEPT ![w] = TRUE]
    BY <2>1 DEF CloseSession
  <2>3. QED
    BY <1>1, <2>2
<1>12. CASE LateLands \/ UNCHANGED vars
  BY <1>1, <1>12 DEF LateLands, vars
<1>13. CASE Crash
  <2>1. inflight' = {}
    BY <1>1, <1>13, CrashFacts DEF FaultKinds
  <2> QED BY <1>1, <1>13, <2>1 DEF Crash
<1>14. QED
  BY <1>5, <1>6, <1>7, <1>8, <1>9, <1>10, <1>11, <1>12, <1>13
     DEF Next, Step, Upload, Persist

(* The object a failed commit is about to delete has the bytes the worker  *)
(* uploaded (ingest.py 208-210), while sessions and PUTs end in time.      *)
THEOREM CleanupDeletesOwn == Spec => []CleanupIsOwn
<1>1. Init => OwnerInv
  BY DEF Init, OwnerInv, Owner
<1>2. IInv /\ OwnerInv => CleanupIsOwn
  BY DEF OwnerInv, CleanupIsOwn, Owner
<1>3. QED
  BY <1>1, <1>2, Inductive, OwnerStep, PTL DEF Spec

(***************************************************************************)
(* Objects without a row.                                                  *)
(***************************************************************************)
LEMMA OrphanStep ==
  ASSUME IInv, OrphanInv, [Next]_vars
  PROVE  OrphanInv'
<1> DEFINE Quiet == faults["put"] = 0 /\ faults["late"] = 0 /\ faults["crash"] = 0
<1> DEFINE Known(k) ==
      \/ k \in orphanLog
      \/ \E i \in Ids : rows[i] # NoRequest /\ KeyOf[rows[i]] = k
      \/ \E w \in Workers : Owner(w) /\ MyKey(w) = k
<1>1. \A k \in FaultKinds : faults[k] \in Nat /\ faults'[k] \in Nat /\ faults'[k] >= faults[k]
  BY FaultsGrow, TypeStep DEF TypeOK, IInv
<1>2. (faults["late"] = 0 => inflight = {})'
  <2> SUFFICES ASSUME faults'["late"] = 0 PROVE inflight' = {}
    OBVIOUS
  <2>1. faults["late"] = 0 /\ inflight = {}
    BY <1>1 DEF FaultKinds, OrphanInv
  <2>2. ~Fault("late")
    BY <1>1 DEF FaultKinds, Fault, IInv, TypeOK
  <2>3. ASSUME NEW w \in Workers, Upload(w) PROVE inflight' = {}
    BY <2>1, <2>2, <2>3 DEF Upload, Put, PutTimesOut, PutFails, FailedUpload, store
  <2>4. ASSUME NEW w \in Workers, ~Upload(w), Begin(w) \/ FetchRefused(w) \/ Step(w)
                 \/ LoseConnection(w)
        PROVE  inflight' = {}
    BY <2>1, <2>4 DEF Begin, FetchRefused, Step, Open, AcquireLock, LockTimeout,
         SelectExisting, StatementFails, Lookup, StatRow, VerifyRow, StatKey,
         VerifyFound, RestatKey, LookupFails, Persist, Commit, CommitFails, Cleanup,
         CleanupFails, CloseSession, LoseConnection, store
  <2>5. CASE LateLands \/ Crash \/ UNCHANGED vars
    BY <2>1, <2>5, CrashFacts DEF LateLands, vars, store, FaultKinds, IInv, TypeOK
  <2>6. QED
    BY <2>3, <2>4, <2>5 DEF Next
<1>3. ASSUME Quiet', NEW key \in Keys, objects'[key] # NoBytes
      PROVE  Known(key)'
  <2>1. Quiet /\ inflight = {}
    BY <1>1, <1>3 DEF FaultKinds, OrphanInv
  <2>2. objects[key] # NoBytes => Known(key)
    BY <2>1 DEF OrphanInv, OrphansAccounted, Owner
  <2>3. ~Fault("put") /\ ~Fault("late") /\ ~Fault("crash")
    BY <1>1, <1>3 DEF FaultKinds, Fault, IInv, TypeOK
  <2>4. \A i \in Ids : rows[i] # NoRequest => rows'[i] = rows[i]
    BY RowsKept DEF IInv
  <2> USE DEF IInv, TypeOK, LocalsInv, Goto, Finish, MyId, MyKey, Owner, session,
              store, call
  <2>5. ASSUME NEW w \in Workers, Begin(w) \/ FetchRefused(w) \/ Open(w) PROVE Known(key)'
    BY <1>3, <2>2, <2>5 DEF Begin, FetchRefused, Open, AcquireLock, LockTimeout,
                      SelectExisting, StatementFails
  <2>6. ASSUME NEW w \in Workers, Lookup(w) PROVE Known(key)'
    BY <1>3, <2>2, <2>6 DEF Lookup, StatRow, VerifyRow, StatKey, VerifyFound,
                      RestatKey, LookupFails
  <2>7. ASSUME NEW w \in Workers, Upload(w) PROVE Known(key)'
    <3>1. Put(w)
      BY <2>3, <2>7 DEF Upload, PutTimesOut, PutFails, FailedUpload
    <3>2. QED
      BY <1>3, <2>2, <3>1 DEF Put
  <2>8. ASSUME NEW w \in Workers, Persist(w) PROVE Known(key)'
    <3>1. CASE Commit(w)
      BY <1>3, <2>2, <2>4, <3>1 DEF Commit
    <3>2. CASE CommitFails(w)
      BY <1>3, <2>2, <2>4, <3>2 DEF CommitFails
    <3>3. CASE Cleanup(w)
      BY <1>3, <2>2, <3>3 DEF Cleanup
    <3>4. CASE CleanupFails(w)
      BY <1>3, <2>2, <3>4 DEF CleanupFails
    <3>5. QED
      BY <2>8, <3>1, <3>2, <3>3, <3>4 DEF Persist
  <2>9. ASSUME NEW w \in Workers, CloseSession(w) \/ LoseConnection(w) PROVE Known(key)'
    BY <1>3, <2>2, <2>9 DEF CloseSession, LoseConnection
  <2>10. CASE LateLands \/ Crash \/ UNCHANGED vars
    <3>1. ~Crash
      BY <1>1, <1>3, <2>1, CrashFacts DEF FaultKinds
    <3> QED BY <1>3, <2>1, <2>2, <2>10, <3>1 DEF LateLands, vars
  <2>11. QED
    BY <2>5, <2>6, <2>7, <2>8, <2>9, <2>10 DEF Next, Step
<1>4. QED
  BY <1>2, <1>3 DEF OrphanInv, OrphansAccounted, Owner

(* Without failed uploads and crashes an object no row refers to belongs to  *)
(* a worker about to commit or delete it, or is in the orphan_object log.    *)
THEOREM OrphansAreAccounted == Spec => []OrphansAccounted
<1>1. Init => OrphanInv
  BY DEF Init, OrphanInv, OrphansAccounted
<1>2. OrphanInv => OrphansAccounted
  BY DEF OrphanInv
<1>3. QED
  BY <1>1, <1>2, Inductive, OrphanStep, PTL DEF Spec

-----------------------------------------------------------------------------
(* The concurrent, failing ingest calls implement the write-once registry  *)
(* of DatasetRegistry: every step of Ingest is one step of the registry or *)
(* leaves it alone.                                                        *)

\* The initial rows and answers are the registry's.
LEMMA RegistryInit == Init => Registry!Init
  BY DEF Init, Registry!Init, Answers, Asked

\* A call that ends answers its request.
LEMMA FinishAnswers ==
  ASSUME TypeOK, NEW w \in Workers, NEW r, NEW a,
         pc[w] # "close", Finish(w, a),
         req' = [req EXCEPT ![w] = r]
  PROVE  Registry!Answer(w, r, a)
  BY DEF TypeOK, Finish, Goto, Registry!Answer, Answers, Asked

\* The same of a call whose request was fixed when it began.
LEMMA CallAnswers ==
  ASSUME TypeOK, NEW w \in Workers, NEW a,
         pc[w] # "close", Finish(w, a), UNCHANGED req
  PROVE  Registry!Answer(w, req[w], a)
  BY DEF TypeOK, Finish, Goto, Registry!Answer, Answers, Asked

\* A step that ends no call and writes no row is a stutter.
LEMMA Stutter ==
  ASSUME TypeOK, UNCHANGED rows,
         NEW w \in Workers, pc[w] # "close", pc'[w] # "close",
         \A v \in Workers : v # w =>
           pc'[v] = pc[v] /\ outcome'[v] = outcome[v] /\ req'[v] = req[v]
  PROVE  UNCHANGED Registry!vars
  BY DEF TypeOK, Registry!vars, Answers, Asked

\* What a mismatch raises is a refusal of the registry.
LEMMA RefusalIsRefusal ==
  ASSUME NEW w \in Workers
  PROVE  Refusal(w) \in Registry!Refusals /\ {"unavailable", "error"} \subseteq Registry!Refusals
  BY DEF Refusal, Registry!Refusals

\* A refusal that leaves the rows alone.
LEMMA Refuses ==
  ASSUME TypeOK, NEW w \in Workers, NEW a \in Registry!Refusals,
         pc[w] \notin {"idle", "close"}, Finish(w, a), UNCHANGED <<req, rows>>
  PROVE  Registry!Next
<1>1. req[w] \in Requests
  BY DEF TypeOK
<1>2. Registry!Answer(w, req[w], a)
  BY CallAnswers
<1>3. Registry!Refuse(w, req[w])
  BY <1>2 DEF Registry!Refuse
<1>4. QED
  BY <1>1, <1>3 DEF Registry!Next

\* Every step of Ingest is a step of the registry or a stutter.
LEMMA RegistryStep ==
  ASSUME IInv, [Next]_vars
  PROVE  [Registry!Next]_(Registry!vars)
<1> USE DEF IInv
<1> DEFINE Goal == [Registry!Next]_(Registry!vars)
<1>1. ASSUME NEW w \in Workers, Begin(w) PROVE Goal
  <2>1. /\ pc[w] # "close" /\ pc' = [pc EXCEPT ![w] = "lock"]
        /\ UNCHANGED <<rows, outcome>>
        /\ \E r \in Requests : req' = [req EXCEPT ![w] = r]
    BY <1>1 DEF Begin, Asks, Goto, session
  <2>2. QED
    BY <2>1, Stutter DEF TypeOK
<1>2. ASSUME NEW w \in Workers, FetchRefused(w) PROVE Goal
  <2>1. PICK r \in Requests, a \in Registry!Refusals :
          req' = [req EXCEPT ![w] = r] /\ Finish(w, a)
    BY <1>2 DEF FetchRefused, Asks, Registry!Refusals
  <2>2. pc[w] # "close" /\ UNCHANGED rows
    BY <1>2 DEF FetchRefused, session
  <2>3. Registry!Answer(w, r, a)
    BY <2>1, <2>2, FinishAnswers
  <2>4. Registry!Refuse(w, r)
    BY <2>2, <2>3 DEF Registry!Refuse
  <2>5. QED
    BY <2>4 DEF Registry!Next
<1>3. ASSUME NEW w \in Workers, Open(w) PROVE Goal
  <2>1. CASE LockTimeout(w) \/ StatementFails(w)
    <3>1. /\ pc[w] \notin {"idle", "close"} /\ Finish(w, "error")
          /\ UNCHANGED <<req, rows>>
      BY <2>1 DEF LockTimeout, StatementFails, call, session
    <3>2. QED
      BY <3>1, Refuses, RefusalIsRefusal
  <2>2. CASE AcquireLock(w) \/ SelectExisting(w)
    <3>1. /\ pc[w] # "close" /\ UNCHANGED <<rows, outcome, req>>
          /\ \E label \in Labels \ {"close"} : pc' = [pc EXCEPT ![w] = label]
      BY <2>2 DEF AcquireLock, SelectExisting, Goto, session, call, Labels, Critical
    <3>2. QED
      BY <3>1, Stutter DEF TypeOK
  <2>3. QED
    BY <1>3, <2>1, <2>2 DEF Open
<1>4. ASSUME NEW w \in Workers, Lookup(w) PROVE Goal
  <2>1. pc[w] \notin {"idle", "close"} /\ UNCHANGED <<req, rows>>
    BY <1>4 DEF Lookup, StatRow, VerifyRow, StatKey, VerifyFound, RestatKey,
                LookupFails, session, call
  <2>2. \/ Finish(w, "unavailable") \/ Finish(w, Refusal(w))
        \/ VerifyRow(w) /\ Finish(w, "existing")
        \/ /\ UNCHANGED outcome
           /\ \E label \in Labels \ {"close"} : pc' = [pc EXCEPT ![w] = label]
    BY <1>4 DEF Lookup, StatRow, VerifyRow, StatKey, VerifyFound, RestatKey,
                LookupFails, Goto, Labels, Critical
  <2>3. CASE Finish(w, "unavailable") \/ Finish(w, Refusal(w))
    BY <2>1, <2>3, Refuses, RefusalIsRefusal
  <2>4. CASE VerifyRow(w) /\ Finish(w, "existing")
    <3>1. /\ req[w] \in Requests
          /\ rows[MyId(w)] = existing[w] /\ existing[w] # NoRequest
      BY <2>4, NullAssumption DEF VerifyRow, TypeOK, SelectStands
    <3>2. /\ KeyOf[existing[w]] = KeyOf[req[w]]
          /\ BytesOf[existing[w]] = BytesOf[req[w]]
      BY <2>4 DEF VerifyRow, Finish, TypeOK, MyKey, Refusal
    <3>3. Registry!Answer(w, req[w], "existing")
      BY <2>1, <2>4, CallAnswers
    <3>4. Registry!Recall(w, req[w])
      BY <2>1, <3>1, <3>2, <3>3 DEF Registry!Recall, MyId
    <3>5. QED
      BY <3>1, <3>4 DEF Registry!Next
  <2>5. CASE /\ UNCHANGED outcome
             /\ \E label \in Labels \ {"close"} : pc' = [pc EXCEPT ![w] = label]
    BY <2>1, <2>5, Stutter DEF TypeOK
  <2>6. QED
    BY <2>2, <2>3, <2>4, <2>5
<1>5. ASSUME NEW w \in Workers, Upload(w) PROVE Goal
  <2>1. pc[w] \notin {"idle", "close"} /\ UNCHANGED <<req, rows>>
    BY <1>5 DEF Upload, Put, PutTimesOut, PutFails, session, call
  <2>2. \/ Finish(w, "unavailable")
        \/ /\ UNCHANGED outcome
           /\ \E label \in Labels \ {"close"} : pc' = [pc EXCEPT ![w] = label]
    BY <1>5 DEF Upload, Put, PutTimesOut, PutFails, Goto, Labels, Critical
  <2>3. CASE Finish(w, "unavailable")
    BY <2>1, <2>3, Refuses, RefusalIsRefusal
  <2>4. CASE /\ UNCHANGED outcome
             /\ \E label \in Labels \ {"close"} : pc' = [pc EXCEPT ![w] = label]
    BY <2>1, <2>4, Stutter DEF TypeOK
  <2>5. QED
    BY <2>2, <2>3, <2>4
<1>6. ASSUME NEW w \in Workers, Commit(w) \/ CommitFails(w) PROVE Goal
  <2>1. /\ pc[w] \notin {"idle", "close"} /\ UNCHANGED req /\ req[w] \in Requests
    BY <1>6 DEF Commit, CommitFails, call, TypeOK
  <2>2. \/ rows' = rows
        \/ Registry!Enter(req[w])
    BY <1>6 DEF Commit, CommitFails, Duplicate, MyId, Registry!Enter
  <2>3. CASE Commit(w)
    <3>1. Registry!Enter(req[w]) /\ Finish(w, "created")
      BY <2>3 DEF Commit, Duplicate, MyId, Registry!Enter
    <3>2. Registry!Answer(w, req[w], "created")
      BY <2>1, <3>1, CallAnswers
    <3>3. QED
      BY <2>1, <3>1, <3>2 DEF Registry!Create, Registry!Next
  <2>4. CASE CommitFails(w) /\ ~objectCreated[w]
    <3>1. Finish(w, "unavailable")
      BY <2>4 DEF CommitFails
    <3>2. Registry!Answer(w, req[w], "unavailable")
      BY <2>1, <3>1, CallAnswers
    <3>3. Registry!Refuse(w, req[w])
      BY <2>2, <3>2, RefusalIsRefusal DEF Registry!Refuse
    <3>4. QED
      BY <2>1, <3>3 DEF Registry!Next
  <2>5. CASE CommitFails(w) /\ objectCreated[w]
    <3>1. pc' = [pc EXCEPT ![w] = "cleanup"] /\ UNCHANGED outcome
      BY <2>5 DEF CommitFails, Goto
    <3>2. UNCHANGED <<Answers, Asked>>
      BY <2>1, <3>1 DEF Answers, Asked, TypeOK
    <3>3. QED
      BY <2>1, <2>2, <3>2
         DEF Registry!EnterSilently, Registry!Next, Registry!vars
  <2>6. QED
    BY <1>6, <2>3, <2>4, <2>5
<1>7. ASSUME NEW w \in Workers, Cleanup(w) \/ CleanupFails(w) PROVE Goal
  <2>1. /\ pc[w] \notin {"idle", "close"} /\ Finish(w, "unavailable")
        /\ UNCHANGED <<req, rows>>
    BY <1>7 DEF Cleanup, CleanupFails, session, call
  <2>2. QED
    BY <2>1, Refuses, RefusalIsRefusal
<1>8. ASSUME NEW w \in Workers, CloseSession(w) PROVE Goal
  <2>1. /\ Answers[w] # "none" /\ UNCHANGED rows
        /\ Answers' = [Answers EXCEPT ![w] = "none"]
        /\ Asked' = [Asked EXCEPT ![w] = NoRequest]
    BY <1>8 DEF CloseSession, LocalsInv, TypeOK, Goto, Answers, Asked
  <2>2. Registry!Deliver(w)
    BY <2>1 DEF Registry!Deliver
  <2>3. QED
    BY <2>2 DEF Registry!Next
<1>9. ASSUME NEW w \in Workers, LoseConnection(w) PROVE Goal
  BY <1>9 DEF LoseConnection, Registry!vars, Answers, Asked, call
<1>10. CASE LateLands
  BY <1>10 DEF LateLands, Registry!vars, Answers, Asked, call, session
<1>11. CASE Crash
  <2>1. Registry!Restart
    BY <1>11 DEF Crash, Registry!Restart, Answers, Asked
  <2>2. QED
    BY <2>1 DEF Registry!Next
<1>12. CASE UNCHANGED vars
  BY <1>12 DEF vars, Registry!vars, Answers, Asked, call, session
<1>13. QED
  BY <1>1, <1>2, <1>3, <1>4, <1>5, <1>6, <1>7, <1>8, <1>9, <1>10, <1>11, <1>12
     DEF Next, Step, Persist

(* Ingest implements the write-once registry, under every failure. *)
THEOREM Refinement == Spec => ImplementsRegistry
  BY RegistryInit, RegistryStep, Inductive, PTL
     DEF Spec, ImplementsRegistry, Registry!Spec
=============================================================================
