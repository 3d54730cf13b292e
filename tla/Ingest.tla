-------------------------------- MODULE Ingest --------------------------------
(***************************************************************************)
(* Ingestion of one raw payload (a SatNOGS observation or a Sentinel-2     *)
(* crop) into PostgreSQL and the object store, run concurrently by API     *)
(* requests and by the scheduler's polling job.                            *)
(*                                                                         *)
(*   ingest.py           ingest_satnogs_observation, _lock_ingestion,      *)
(*                       _matching                                         *)
(*   sentinel2_ingest.py ingest_sentinel2_crop                             *)
(*   storage.py          ObjectStore.put, stat, get, delete                *)
(*                                                                         *)
(* One worker is one call of an ingest function with its own database      *)
(* session.  Every call to the database or to the object store is one      *)
(* step, so the steps of two workers interleave as the calls do.  A        *)
(* request stands for what the caller asks to store: IdOf is the           *)
(* advisory-lock identity and unique key <<source, external_id>>, KeyOf    *)
(* the object key, BytesOf the payload (its size and SHA-256 with it),     *)
(* SourceOf the ingest function.                                           *)
(***************************************************************************)
EXTENDS Naturals

CONSTANTS Workers, Requests, Ids, Keys, Bytes, IdOf, KeyOf, BytesOf, SourceOf,
          NoWorker, NoRequest, NoBytes,
          Poller,         \* the worker of the scheduler's job, or NoWorker
          MaxFaults       \* how often each kind of failure may happen

\* A stat or get that raises, a PUT that raises, a PUT applied after its client
\* gave up, a delete that raises, a statement or commit that fails, a commit
\* done but reported as failed, a session ended by the server, a process crash.
FaultKinds == {"get", "put", "late", "delete", "db", "ack", "conn", "crash"}

ASSUME RequestAssumption ==
  /\ IdOf \in [Requests -> Ids]
  /\ KeyOf \in [Requests -> Keys]
  /\ BytesOf \in [Requests -> Bytes]
  /\ SourceOf \in [Requests -> {"satnogs", "sentinel2"}]

\* Both object keys contain the external id, so a key names one identity.
ASSUME KeyAssumption ==
  \A r, s \in Requests : KeyOf[r] = KeyOf[s] => IdOf[r] = IdOf[s]

ASSUME NullAssumption ==
  NoWorker \notin Workers /\ NoRequest \notin Requests /\ NoBytes \notin Bytes

\* At most one poll runs at a time (max_instances); compose.yml disables them.
ASSUME PollerAssumption == Poller \in Workers \cup {NoWorker}

ASSUME FaultAssumption == MaxFaults \in [FaultKinds -> Nat]

VARIABLES
  pc,             \* [Workers -> Labels]: the call each worker makes next
  req,            \* [Workers -> request]: the arguments of its ingest call
  existing,       \* [Workers -> request]: the Dataset row its SELECT returned
  objectCreated,  \* [Workers -> BOOLEAN]: the local object_created
  outcome,        \* [Workers -> Outcomes]: what the call returns or raises
  connected,      \* [Workers -> BOOLEAN]: its database session is alive
  lock,           \* [Ids -> worker]: pg_advisory_xact_lock per identity
  rows,           \* [Ids -> request]: committed Dataset (and Observation) rows
  objects,        \* [Keys -> bytes]: the raw bucket
  inflight,       \* PUTs reported as failed that the store may still apply
  orphanLog,      \* keys logged as orphan_object
  faults          \* failures so far, per kind

session == <<lock, rows>>
store   == <<objects, inflight>>
call    == <<req, existing>>
vars    == <<pc, call, objectCreated, outcome, connected, session, store,
             orphanLog, faults>>

\* The calls made while the advisory lock is held.
Critical == {"select", "statRow", "getRow", "stat", "adopt", "put",
             "restat", "reget", "commit"}
Labels   == Critical \cup {"idle", "lock", "cleanup", "close"}
Outcomes == {"none", "created", "existing", "conflict", "unavailable", "unknown",
             "error"}

TypeOK ==
  /\ pc \in [Workers -> Labels]
  /\ req \in [Workers -> Requests \cup {NoRequest}]
  /\ \A w \in Workers : pc[w] # "idle" => req[w] \in Requests
  /\ existing \in [Workers -> Requests \cup {NoRequest}]
  /\ \A w \in Workers : pc[w] \in {"statRow", "getRow"} => existing[w] \in Requests
  /\ objectCreated \in [Workers -> BOOLEAN]
  /\ outcome \in [Workers -> Outcomes]
  /\ connected \in [Workers -> BOOLEAN]
  /\ lock \in [Ids -> Workers \cup {NoWorker}]
  /\ rows \in [Ids -> Requests \cup {NoRequest}]
  /\ objects \in [Keys -> Bytes \cup {NoBytes}]
  /\ inflight \subseteq Requests
  /\ orphanLog \subseteq Keys
  /\ faults \in [FaultKinds -> Nat]

Init ==
  /\ pc = [w \in Workers |-> "idle"]
  /\ req = [w \in Workers |-> NoRequest]
  /\ existing = [w \in Workers |-> NoRequest]
  /\ objectCreated = [w \in Workers |-> FALSE]
  /\ outcome = [w \in Workers |-> "none"]
  /\ connected = [w \in Workers |-> TRUE]
  /\ lock = [i \in Ids |-> NoWorker]
  /\ rows = [i \in Ids |-> NoRequest]
  /\ objects = [k \in Keys |-> NoBytes]
  /\ inflight = {}
  /\ orphanLog = {}
  /\ faults = [f \in FaultKinds |-> 0]

-----------------------------------------------------------------------------
(* Helpers.  MyId and MyKey are the identity and the object key of w's call. *)

MyId(w)  == IdOf[req[w]]
MyKey(w) == KeyOf[req[w]]

Goto(w, label) == pc' = [pc EXCEPT ![w] = label]

\* The call is over but for the closing of its session.
Finish(w, result) ==
  /\ Goto(w, "close")
  /\ outcome' = [outcome EXCEPT ![w] = result]

Fault(kind) ==
  /\ faults[kind] < MaxFaults[kind]
  /\ faults' = [faults EXCEPT ![kind] = @ + 1]

\* What a mismatch raises: IngestConflictError (409) for SatNOGS,
\* IngestUnavailableError (503) for Sentinel-2.
Refusal(w) == IF SourceOf[req[w]] = "satnogs" THEN "conflict" ELSE "unavailable"

\* _matching: the stored bytes, never the stored metadata, are compared.
Matches(key, bytes) == objects[key] = bytes

\* The locks w holds are released when its transaction or session ends.
Released(w) == [i \in Ids |-> IF lock[i] = w THEN NoWorker ELSE lock[i]]

-----------------------------------------------------------------------------
(* The session's first statements. *)

\* What w may ingest: the scheduler's job polls SatNOGS only.
Asks(w) == {r \in Requests : w = Poller => SourceOf[r] = "satnogs"}

Begin(w) ==
  /\ pc[w] = "idle"
  /\ \E r \in Asks(w) : req' = [req EXCEPT ![w] = r]
  /\ Goto(w, "lock")
  /\ UNCHANGED <<existing, objectCreated, outcome, connected, session, store,
                 orphanLog, faults>>

\* The payload cannot be fetched or read, is not of the satellite asked for, or
\* its area is unknown (404): the call ends before the session's first statement.
FetchRefused(w) ==
  /\ pc[w] = "idle"
  /\ \E r \in Asks(w) :
       /\ req' = [req EXCEPT ![w] = r]
       /\ \/ Finish(w, "unavailable")
          \/ Finish(w, "error")
          \/ Finish(w, IF SourceOf[r] = "satnogs" THEN "conflict" ELSE "unknown")
  /\ UNCHANGED <<existing, objectCreated, connected, session, store, orphanLog,
                 faults>>

\* Variant: no lock is taken, as under the SQLite dialect of the unit tests.
AcquireNoLock(w) ==
  /\ pc[w] = "lock"
  /\ lock' = [lock EXCEPT ![MyId(w)] = w]
  /\ Goto(w, "select")
  /\ UNCHANGED <<call, objectCreated, outcome, connected, rows, store,
                 orphanLog, faults>>

AcquireLock(w) ==
  /\ pc[w] = "lock"
  /\ lock[MyId(w)] = NoWorker
  /\ lock' = [lock EXCEPT ![MyId(w)] = w]
  /\ Goto(w, "select")
  /\ UNCHANGED <<call, objectCreated, outcome, connected, rows, store,
                 orphanLog, faults>>

\* Variant: no statement_timeout.
LockTimeoutNever(w) == pc[w] = "lock" /\ FALSE /\ UNCHANGED vars

\* statement_timeout (db.py) also bounds the wait for the advisory lock; the
\* OperationalError is not caught by the ingest functions.
LockTimeout(w) ==
  /\ pc[w] = "lock"
  /\ lock[MyId(w)] # NoWorker
  /\ Finish(w, "error")
  /\ UNCHANGED <<call, objectCreated, connected, session, store, orphanLog, faults>>

\* Variant: the test on the SELECT's result is inverted.
SelectInverted(w) ==
  /\ pc[w] = "select"
  /\ connected[w]
  /\ existing' = [existing EXCEPT ![w] = rows[MyId(w)]]
  /\ Goto(w, IF rows[MyId(w)] = NoRequest THEN "statRow" ELSE "stat")
  /\ UNCHANGED <<req, objectCreated, outcome, connected, session, store,
                 orphanLog, faults>>

SelectExisting(w) ==
  /\ pc[w] = "select"
  /\ connected[w]
  /\ existing' = [existing EXCEPT ![w] = rows[MyId(w)]]
  /\ Goto(w, IF rows[MyId(w)] = NoRequest THEN "stat" ELSE "statRow")
  /\ UNCHANGED <<req, objectCreated, outcome, connected, session, store,
                 orphanLog, faults>>

\* An exception of either statement is not caught either.
StatementFails(w) ==
  /\ pc[w] \in {"lock", "select"}
  /\ IF connected[w] THEN Fault("db") ELSE UNCHANGED faults
  /\ Finish(w, "error")
  /\ UNCHANGED <<call, objectCreated, connected, session, store, orphanLog>>

-----------------------------------------------------------------------------
(* The identity is already registered: its own object is verified. *)

StatRow(w) ==
  /\ pc[w] = "statRow"
  /\ IF objects[KeyOf[existing[w]]] = NoBytes
       THEN Finish(w, Refusal(w))
       ELSE Goto(w, "getRow") /\ UNCHANGED outcome
  /\ UNCHANGED <<call, objectCreated, connected, session, store, orphanLog, faults>>

\* Variant: an identity that is registered is answered "existing" unseen.
VerifyRowById(w) ==
  /\ pc[w] = "getRow"
  /\ Finish(w, "existing")
  /\ UNCHANGED <<call, objectCreated, connected, session, store, orphanLog, faults>>

\* Variant: a changed payload replaces the row's.
VerifyRowUpsert(w) ==
  /\ pc[w] = "getRow"
  /\ rows' = [rows EXCEPT ![MyId(w)] = req[w]]
  /\ Finish(w, "existing")
  /\ UNCHANGED <<call, objectCreated, connected, lock, store, orphanLog, faults>>

VerifyRow(w) ==
  LET row == existing[w] IN
  /\ pc[w] = "getRow"
  /\ IF objects[KeyOf[row]] = NoBytes THEN Finish(w, "unavailable")
     ELSE IF /\ KeyOf[row] = MyKey(w)
             /\ BytesOf[row] = BytesOf[req[w]]
             /\ Matches(KeyOf[row], BytesOf[row])
       THEN Finish(w, "existing")
       ELSE Finish(w, Refusal(w))
  /\ UNCHANGED <<call, objectCreated, connected, session, store, orphanLog, faults>>

-----------------------------------------------------------------------------
(* A new identity: find, adopt or upload its object. *)

\* Variant: the upload does not look whether the key is in use.
StatKeyBlind(w) ==
  /\ pc[w] = "stat"
  /\ Goto(w, "put")
  /\ UNCHANGED <<call, objectCreated, outcome, connected, session, store,
                 orphanLog, faults>>

StatKey(w) ==
  /\ pc[w] = "stat"
  /\ Goto(w, IF objects[MyKey(w)] = NoBytes THEN "put" ELSE "adopt")
  /\ UNCHANGED <<call, objectCreated, outcome, connected, session, store,
                 orphanLog, faults>>

\* Variant: an object found under the key is adopted unread.
VerifyFoundTrusting(w) ==
  /\ pc[w] \in {"adopt", "reget"}
  /\ Goto(w, "commit")
  /\ UNCHANGED <<call, objectCreated, outcome, connected, session, store,
                 orphanLog, faults>>

\* Variant: an object found before the upload is never adopted.
VerifyFoundRefusing(w) ==
  /\ pc[w] \in {"adopt", "reget"}
  /\ Finish(w, Refusal(w))
  /\ UNCHANGED <<call, objectCreated, connected, session, store, orphanLog, faults>>

\* The rest of _matching: the bytes are read and compared, on an object found
\* before the upload ("adopt") or after one that timed out ("reget").
VerifyFound(w) ==
  /\ pc[w] \in {"adopt", "reget"}
  /\ IF objects[MyKey(w)] = NoBytes THEN Finish(w, "unavailable")
     ELSE IF Matches(MyKey(w), BytesOf[req[w]])
       THEN Goto(w, "commit") /\ UNCHANGED outcome
       ELSE Finish(w, Refusal(w))
  /\ UNCHANGED <<call, objectCreated, connected, session, store, orphanLog, faults>>

Put(w) ==
  /\ pc[w] = "put"
  /\ objects' = [objects EXCEPT ![MyKey(w)] = BytesOf[req[w]]]
  /\ objectCreated' = [objectCreated EXCEPT ![w] = TRUE]
  /\ Goto(w, "commit")
  /\ UNCHANGED <<call, outcome, connected, session, inflight, orphanLog, faults>>

\* put raises: the store did nothing, or stored the object without answering,
\* or will store it later.
FailedUpload(w) ==
  \/ Fault("put") /\ UNCHANGED store
  \/ /\ Fault("put")
     /\ objects' = [objects EXCEPT ![MyKey(w)] = BytesOf[req[w]]]
     /\ UNCHANGED inflight
  \/ /\ Fault("late")
     /\ inflight' = inflight \cup {req[w]}
     /\ UNCHANGED objects

\* A timeout is looked into by SatNOGS ingestion only.
PutTimesOut(w) ==
  /\ pc[w] = "put"
  /\ SourceOf[req[w]] = "satnogs"
  /\ FailedUpload(w)
  /\ Goto(w, "restat")
  /\ UNCHANGED <<call, objectCreated, outcome, connected, session, orphanLog>>

PutFails(w) ==
  /\ pc[w] = "put"
  /\ FailedUpload(w)
  /\ Finish(w, "unavailable")
  /\ UNCHANGED <<call, objectCreated, connected, session, orphanLog>>

RestatKey(w) ==
  /\ pc[w] = "restat"
  /\ IF objects[MyKey(w)] = NoBytes
       THEN Finish(w, "unavailable")
       ELSE Goto(w, "reget") /\ UNCHANGED outcome
  /\ UNCHANGED <<call, objectCreated, connected, session, store, orphanLog, faults>>

\* A stat or a get that raises anything but ObjectNotFoundError.
LookupFails(w) ==
  /\ pc[w] \in {"statRow", "getRow", "stat", "adopt", "restat", "reget"}
  /\ Fault("get")
  /\ Finish(w, "unavailable")
  /\ UNCHANGED <<call, objectCreated, connected, session, store, orphanLog>>

-----------------------------------------------------------------------------
(* The rows are inserted and committed, or the upload is undone. *)

\* uq_datasets_source_external_id and uq_datasets_object_key
Duplicate(w) ==
  \/ rows[MyId(w)] # NoRequest
  \/ \E i \in Ids : rows[i] # NoRequest /\ KeyOf[rows[i]] = MyKey(w)

Commit(w) ==
  /\ pc[w] = "commit"
  /\ connected[w] /\ ~Duplicate(w)
  /\ rows' = [rows EXCEPT ![MyId(w)] = req[w]]
  /\ lock' = Released(w)
  /\ Finish(w, "created")
  /\ UNCHANGED <<call, objectCreated, connected, store, orphanLog, faults>>

\* Variant: a failed commit leaves the upload where it is.
CommitFailsOnly(w) ==
  /\ pc[w] = "commit"
  /\ \/ Fault("db") /\ UNCHANGED rows
     \/ (~connected[w] \/ Duplicate(w)) /\ UNCHANGED <<rows, faults>>
  /\ lock' = Released(w)
  /\ Finish(w, "unavailable")
  /\ UNCHANGED <<call, objectCreated, connected, store, orphanLog>>

\* SQLAlchemyError from flush or commit, then rollback.  The server may have
\* committed before the connection failed.  Either way the transaction is
\* over and its advisory lock released before the upload is undone.
CommitFails(w) ==
  /\ pc[w] = "commit"
  /\ \/ Fault("db") /\ UNCHANGED rows
     \/ /\ connected[w] /\ ~Duplicate(w)
        /\ Fault("ack")
        /\ rows' = [rows EXCEPT ![MyId(w)] = req[w]]
     \/ (~connected[w] \/ Duplicate(w)) /\ UNCHANGED <<rows, faults>>
  /\ lock' = Released(w)
  /\ IF objectCreated[w]
       THEN Goto(w, "cleanup") /\ UNCHANGED outcome
       ELSE Finish(w, "unavailable")
  /\ UNCHANGED <<call, objectCreated, connected, store, orphanLog>>

Cleanup(w) ==
  /\ pc[w] = "cleanup"
  /\ objects' = [objects EXCEPT ![MyKey(w)] = NoBytes]
  /\ Finish(w, "unavailable")
  /\ UNCHANGED <<call, objectCreated, connected, session, inflight, orphanLog, faults>>

\* delete raises: orphan_object is logged (and OrphanObjectError, a 503 too,
\* raised for SatNOGS), whether or not the store removed the object.
CleanupFails(w) ==
  /\ pc[w] = "cleanup"
  /\ Fault("delete")
  /\ \/ UNCHANGED objects
     \/ objects' = [objects EXCEPT ![MyKey(w)] = NoBytes]
  /\ orphanLog' = orphanLog \cup {MyKey(w)}
  /\ Finish(w, "unavailable")
  /\ UNCHANGED <<call, objectCreated, connected, session, inflight>>

\* The caller's "with SessionLocal()" ends: what is still open is rolled back.
CloseSession(w) ==
  /\ pc[w] = "close"
  /\ lock' = Released(w)
  /\ Goto(w, "idle")
  /\ req' = [req EXCEPT ![w] = NoRequest]
  /\ existing' = [existing EXCEPT ![w] = NoRequest]
  /\ objectCreated' = [objectCreated EXCEPT ![w] = FALSE]
  /\ outcome' = [outcome EXCEPT ![w] = "none"]
  /\ connected' = [connected EXCEPT ![w] = TRUE]
  /\ UNCHANGED <<rows, store, orphanLog, faults>>

-----------------------------------------------------------------------------
(* The surroundings. *)

\* The server ends w's session: its locks go, w learns at its next statement.
LoseConnection(w) ==
  /\ pc[w] \in Critical
  /\ connected[w]
  /\ Fault("conn")
  /\ connected' = [connected EXCEPT ![w] = FALSE]
  /\ lock' = Released(w)
  /\ UNCHANGED <<pc, call, objectCreated, outcome, rows, store, orphanLog>>

\* The store applies a PUT that its client has given up.
LateLands ==
  \E r \in inflight :
    /\ objects' = [objects EXCEPT ![KeyOf[r]] = BytesOf[r]]
    /\ inflight' = inflight \ {r}
    /\ UNCHANGED <<pc, call, objectCreated, outcome, connected, session,
                   orphanLog, faults>>

\* The one Uvicorn process dies with all its workers; PostgreSQL rolls their
\* sessions back, the object store keeps what it has, and may still apply the
\* PUTs they had sent.
Crash ==
  /\ faults["crash"] < MaxFaults["crash"]
  /\ \E sent \in SUBSET {req[w] : w \in {v \in Workers : pc[v] = "put"}} :
       /\ sent # {} => faults["late"] < MaxFaults["late"]
       /\ inflight' = inflight \cup sent
       /\ faults' = [faults EXCEPT !["crash"] = @ + 1,
                                   !["late"] = IF sent = {} THEN @ ELSE @ + 1]
  /\ pc' = [w \in Workers |-> "idle"]
  /\ req' = [w \in Workers |-> NoRequest]
  /\ existing' = [w \in Workers |-> NoRequest]
  /\ objectCreated' = [w \in Workers |-> FALSE]
  /\ outcome' = [w \in Workers |-> "none"]
  /\ connected' = [w \in Workers |-> TRUE]
  /\ lock' = [i \in Ids |-> NoWorker]
  /\ UNCHANGED <<rows, objects, orphanLog>>

Lookup(w)  == StatRow(w) \/ VerifyRow(w) \/ StatKey(w) \/ VerifyFound(w)
                \/ RestatKey(w) \/ LookupFails(w)
Upload(w)  == Put(w) \/ PutTimesOut(w) \/ PutFails(w)
Persist(w) == Commit(w) \/ CommitFails(w) \/ Cleanup(w) \/ CleanupFails(w)
Open(w)    == AcquireLock(w) \/ LockTimeout(w) \/ SelectExisting(w)
                \/ StatementFails(w)
Step(w)    == Open(w) \/ Lookup(w) \/ Upload(w) \/ Persist(w) \/ CloseSession(w)

Next ==
  \/ \E w \in Workers : Begin(w) \/ FetchRefused(w) \/ Step(w) \/ LoseConnection(w)
  \/ LateLands
  \/ Crash

Spec == Init /\ [][Next]_vars

\* A worker's calls return: each store call is bounded by the client's total
\* timeout, each statement by statement_timeout.
LiveSpec == Spec /\ \A w \in Workers : WF_vars(Step(w))

\* Where the scheduler is enabled, it starts a poll at every interval, and upstream
\* can be fetched again and again; nothing makes requests come.
PollSpec == LiveSpec /\ SF_vars(Begin(Poller))

-----------------------------------------------------------------------------
(* Properties. *)

\* Two live sessions are never both between the lock and the end of their
\* transaction for the same identity (_lock_ingestion).
MutualExclusion ==
  \A v, w \in Workers :
    (/\ v # w
     /\ pc[v] \in Critical /\ connected[v]
     /\ pc[w] \in Critical /\ connected[w]) => MyId(v) # MyId(w)

\* Every committed Dataset row has its object, with the bytes the row's
\* checksum was computed from.
Backed(i) ==
  rows[i] # NoRequest => objects[KeyOf[rows[i]]] = BytesOf[rows[i]]
RowBacked == \A i \in Ids : Backed(i)

\* The failures under which the code cannot keep RowBacked: a commit reported
\* as failed, a session lost under the lock, a PUT applied after its timeout.
LockOutlived == \E f \in {"db", "ack", "conn", "late"} : faults[f] > 0

\* Whatever the interleaving, the failed and timed-out store calls and the
\* crashes, a row keeps its object as long as every commit takes place and every
\* session and PUT ends with its call: adopting and uploading never mix.
RowBackedUnlessOutlived == ~LockOutlived => RowBacked

\* An answer 201 or 200 is backed by a committed row with the caller's
\* identity, key and bytes, whatever failed before and whoever wrote the row.
AcknowledgedIsCommitted ==
  \A w \in Workers : outcome[w] \in {"created", "existing"} =>
    LET row == rows[MyId(w)] IN
    /\ row # NoRequest
    /\ KeyOf[row] = MyKey(w) /\ BytesOf[row] = BytesOf[req[w]]

\* A row is never changed or removed once committed, even when upstream changes
\* the payload of an identity (the conflict branches of both functions).
RowsWriteOnce ==
  [][\A i \in Ids : rows[i] # NoRequest => rows'[i] = rows[i]]_rows

\* While no session is lost and no PUT is late, the object a failed commit is
\* about to delete, with the lock already released, still has the bytes that
\* worker uploaded: a pre-existing object or another payload is never deleted.
CleanupIsOwn ==
  (faults["conn"] = 0 /\ faults["late"] = 0) =>
    \A w \in Workers : pc[w] = "cleanup" =>
      objects[MyKey(w)] = BytesOf[req[w]]

\* An object no row refers to is about to be committed or deleted by the
\* worker that uploaded it, or is named in the orphan_object log: only a
\* failed upload or a crash leaves an object nobody accounts for.
OrphansAccounted ==
  (faults["put"] = 0 /\ faults["late"] = 0 /\ faults["crash"] = 0) =>
    \A k \in Keys : objects[k] # NoBytes =>
      \/ k \in orphanLog
      \/ \E i \in Ids : rows[i] # NoRequest /\ KeyOf[rows[i]] = k
      \/ \E w \in Workers :
           pc[w] \in {"commit", "cleanup"} /\ objectCreated[w] /\ MyKey(w) = k

\* What the ingest functions promise together: a write-once registry.  Its
\* answers are those of the calls that have decided their outcome.
Answers == [w \in Workers |-> IF pc[w] = "close" THEN outcome[w] ELSE "none"]
Asked   == [w \in Workers |-> IF pc[w] = "close" THEN req[w] ELSE NoRequest]

Registry == INSTANCE DatasetRegistry WITH
  Callers <- Workers, registry <- rows, answer <- Answers, asked <- Asked

\* Every behaviour of the concurrent, failing ingest calls is one of the
\* registry's: each call seems to take effect in a single step or not at all.
ImplementsRegistry == Registry!Spec

\* Every ingest call ends, whatever fails and whoever holds the lock.
CallsEnd == \A w \in Workers : pc[w] # "idle" ~> pc[w] = "idle"

\* When upstream keeps one payload per identity, the polling job registers it in
\* spite of any finite number of failures and crashes, of the orphans they leave
\* and of requests for the same observation.
EventuallyRegistered ==
  \A r \in Asks(Poller) : <>[](rows[IdOf[r]] # NoRequest)

-----------------------------------------------------------------------------
(* The inductive invariant behind the safety properties (IngestProofs). *)

\* A live session between the lock and the end of its transaction holds it.
HoldsLock ==
  \A w \in Workers : pc[w] \in Critical /\ connected[w] => lock[MyId(w)] = w

\* What the SELECT found stays true until that transaction ends.
Fresh == {"stat", "adopt", "put", "restat", "reget", "commit"}
SelectStands ==
  \A w \in Workers :
    /\ pc[w] \in Fresh /\ connected[w] => rows[MyId(w)] = NoRequest
    /\ pc[w] \in {"statRow", "getRow"} => rows[MyId(w)] = existing[w]

RowsIdentified == \A i \in Ids : rows[i] # NoRequest => IdOf[rows[i]] = i

\* An outcome is decided only by a call that ends, object_created is set only
\* by an upload that was answered.
LocalsInv ==
  \A w \in Workers :
    /\ outcome[w] # "none" <=> pc[w] = "close"
    /\ objectCreated[w] => pc[w] \in {"commit", "cleanup", "close"}

\* As long as no transaction is outlived, a commit has its object in place and
\* nothing is left that could take an object away.
BackedInv ==
  ~LockOutlived =>
    /\ inflight = {}
    /\ \A w \in Workers :
         /\ connected[w]
         /\ pc[w] # "cleanup"
         /\ pc[w] = "commit" => objects[MyKey(w)] = BytesOf[req[w]]
    /\ RowBacked

IInv ==
  /\ TypeOK
  /\ HoldsLock
  /\ SelectStands
  /\ RowsIdentified
  /\ LocalsInv
  /\ AcknowledgedIsCommitted
  /\ BackedInv

\* The strengthening of CleanupIsOwn: while sessions and PUTs end in time, an
\* upload starts on a free key, and one worker at most answers for an upload.
Owner(w) == pc[w] \in {"commit", "cleanup"} /\ objectCreated[w]
OwnerInv ==
  (faults["conn"] = 0 /\ faults["late"] = 0) =>
    /\ inflight = {}
    /\ \A w \in Workers :
         /\ connected[w]
         /\ pc[w] = "put" => objects[MyKey(w)] = NoBytes
         /\ pc[w] = "cleanup" => objectCreated[w]
         /\ Owner(w) => objects[MyKey(w)] = BytesOf[req[w]]
    /\ \A v, w \in Workers :
         v # w /\ Owner(v) /\ Owner(w) => MyKey(v) # MyKey(w)

OrphanInv ==
  /\ faults["late"] = 0 => inflight = {}
  /\ OrphansAccounted

\* All of it.
Inv == IInv /\ OwnerInv /\ OrphanInv

=============================================================================
