----------------------------- MODULE BenchmarkPair -----------------------------
(***************************************************************************)
(* A benchmark pair: one workload run on the ground target and on an edge  *)
(* target, its two results stored in the results bucket, the pair and its  *)
(* runs committed in one transaction (benchmarks.py).  Attempts are calls  *)
(* of run_benchmark_pair, named by their correlation id; several run at    *)
(* once in the threads of the one API process.                             *)
(*                                                                         *)
(* The transaction opened by the catalog's SELECTs stays open while the    *)
(* targets run, so the catalog rows it inserts or updates keep their row   *)
(* locks until it ends.                                                    *)
(***************************************************************************)
EXTENDS Naturals, Sequences

CONSTANTS Attempts, Workloads, EdgeTargets, Ground,
          EdgeOf,         \* [Workloads -> EdgeTargets]: spec.edge_target_slug
          Simulated,      \* the edge targets with is_simulated
          NoAttempt, NoWorkload,
          MaxFaults       \* how often each kind of failure may happen

Targets == {Ground} \cup EdgeTargets
Slugs   == Workloads \cup Targets

\* A statement or commit that fails, a commit done but reported as failed, a
\* run that raises, a run past its timeout, a PUT that raises, a read-back
\* that raises or differs, a delete that raises, a process crash.
FaultKinds == {"db", "ack", "run", "timeout", "put", "get", "delete", "crash"}

ASSUME SpecAssumption ==
  /\ EdgeOf \in [Workloads -> EdgeTargets]
  /\ Simulated \subseteq EdgeTargets
  /\ Ground \notin EdgeTargets /\ Workloads \cap Targets = {}

ASSUME NoneAssumption == NoAttempt \notin Attempts /\ NoWorkload \notin Workloads

ASSUME FaultAssumption == MaxFaults \in [FaultKinds -> Nat]

VARIABLES
  pc,         \* [Attempts -> Labels]
  workload,   \* [Attempts -> workload asked for]
  pos,        \* [Attempts -> 1..3]: place in the catalog's or the targets' loop
  baseline,   \* [Attempts -> BOOLEAN]: ground_baseline_ms is set
  created,    \* [Attempts -> SUBSET Targets]: created_keys
  evidence,   \* [Attempts -> SUBSET Targets]: targets with a verified result
  outcome,    \* [Attempts -> what the caller gets]
  catalog,    \* [Slugs -> committed row: "absent", "stale" or "current"]
  writer,     \* [Slugs -> attempt with an uncommitted INSERT or UPDATE]
  pairs,      \* committed (hence completed) pairs
  runs,       \* committed runs <<pair, target>>
  results,    \* objects <<pair, target>> of the results bucket
  orphanLog,  \* results logged as benchmark_orphan_result
  faults

local == <<workload, pos, baseline, created, evidence>>
db    == <<catalog, writer, pairs, runs>>
vars  == <<pc, local, outcome, db, results, orphanLog, faults>>

Seeding == {"select", "insert", "update", "pair"}
Running == {"execute", "overdue", "put", "readback", "commit"}
Labels  == Seeding \cup Running \cup {"idle", "cleanup", "serialize", "done"}
Outcomes == {"none", "created", "refused", "unavailable", "error", "lost"}

TypeOK ==
  /\ pc \in [Attempts -> Labels]
  /\ workload \in [Attempts -> Workloads \cup {NoWorkload}]
  /\ pos \in [Attempts -> 1..3]
  /\ baseline \in [Attempts -> BOOLEAN]
  /\ created \in [Attempts -> SUBSET Targets]
  /\ evidence \in [Attempts -> SUBSET Targets]
  /\ outcome \in [Attempts -> Outcomes]
  /\ catalog \in [Slugs -> {"absent", "stale", "current"}]
  /\ writer \in [Slugs -> Attempts \cup {NoAttempt}]
  /\ pairs \subseteq Attempts
  /\ runs \subseteq Attempts \X Targets
  /\ results \subseteq Attempts \X Targets
  /\ orphanLog \subseteq Attempts \X Targets
  /\ faults \in [FaultKinds -> Nat]

\* A catalog row is missing before the first pair of its workload or target,
\* and stale after a start with another configuration.
Init ==
  /\ pc = [a \in Attempts |-> "idle"]
  /\ workload = [a \in Attempts |-> NoWorkload]
  /\ pos = [a \in Attempts |-> 1]
  /\ baseline = [a \in Attempts |-> FALSE]
  /\ created = [a \in Attempts |-> {}]
  /\ evidence = [a \in Attempts |-> {}]
  /\ outcome = [a \in Attempts |-> "none"]
  /\ \E c \in {"absent", "stale", "current"} : catalog = [s \in Slugs |-> c]
  /\ writer = [s \in Slugs |-> NoAttempt]
  /\ pairs = {} /\ runs = {} /\ results = {} /\ orphanLog = {}
  /\ faults = [f \in FaultKinds |-> 0]

-----------------------------------------------------------------------------
Goto(a, label) == pc' = [pc EXCEPT ![a] = label]

Answer(a, result) ==
  /\ Goto(a, "done")
  /\ outcome' = [outcome EXCEPT ![a] = result]

Fault(kind) ==
  /\ faults[kind] < MaxFaults[kind]
  /\ faults' = [faults EXCEPT ![kind] = @ + 1]

\* Variant: a measured edge target is looked up before the ground target.
ChainByTarget(a) ==
  IF EdgeOf[workload[a]] \in Simulated
    THEN <<workload[a], Ground, EdgeOf[workload[a]]>>
    ELSE <<workload[a], EdgeOf[workload[a]], Ground>>

\* The rows _seed_catalog looks up, in its order.
Chain(a) == <<workload[a], Ground, EdgeOf[workload[a]]>>
Slug(a)  == Chain(a)[pos[a]]

\* The targets in the order they run.
TargetsOf(w) == {Ground, EdgeOf[w]}
Target(a) == IF pos[a] = 1 THEN Ground ELSE EdgeOf[workload[a]]

Unlocked(a) == [s \in Slugs |-> IF writer[s] = a THEN NoAttempt ELSE writer[s]]

\* The except clause: the transaction is rolled back, then the result objects
\* named in created_keys are deleted.
Abort(a) ==
  /\ writer' = Unlocked(a)
  /\ IF created[a] = {}
       THEN Answer(a, "unavailable")
       ELSE Goto(a, "cleanup") /\ UNCHANGED outcome

-----------------------------------------------------------------------------
(* The dataset and the catalog. *)

\* Unknown workload or dataset, ineligible source or AOI, no observation, raw
\* object unavailable or not matching its checksum; or one of the two queries
\* fails, which nothing catches.  Nothing has been written.
RefuseInput(a) ==
  /\ pc[a] = "idle"
  /\ \/ \E answer \in {"refused", "unavailable"} : Answer(a, answer) /\ UNCHANGED faults
     \/ Answer(a, "error") /\ Fault("db")
  /\ UNCHANGED <<local, db, results, orphanLog>>

Begin(a) ==
  /\ pc[a] = "idle"
  /\ \E w \in Workloads : workload' = [workload EXCEPT ![a] = w]
  /\ Goto(a, "select")
  /\ UNCHANGED <<pos, baseline, created, evidence, outcome, db, results,
                 orphanLog, faults>>

\* Variant: one row too many.
NextSlugOverrun(a) ==
  /\ Goto(a, "select")
  /\ pos' = [pos EXCEPT ![a] = @ + 1]

\* On to the next row of the catalog, or to the INSERT of the pair.
NextSlug(a) ==
  IF pos[a] < Len(Chain(a))
    THEN Goto(a, "select") /\ pos' = [pos EXCEPT ![a] = @ + 1]
    ELSE Goto(a, "pair") /\ UNCHANGED pos

\* Variant: a row another transaction has not committed is taken for present.
SelectDirty(a) ==
  /\ pc[a] = "select"
  /\ IF catalog[Slug(a)] = "current" \/ writer[Slug(a)] # NoAttempt
       THEN NextSlug(a)
       ELSE /\ Goto(a, IF catalog[Slug(a)] = "stale" THEN "update" ELSE "insert")
            /\ UNCHANGED pos
  /\ UNCHANGED <<workload, baseline, created, evidence, outcome, db, results,
                 orphanLog, faults>>

SelectSlug(a) ==
  /\ pc[a] = "select"
  /\ CASE catalog[Slug(a)] = "current" -> NextSlug(a)
       [] catalog[Slug(a)] = "stale"   -> Goto(a, "update") /\ UNCHANGED pos
       [] catalog[Slug(a)] = "absent"  -> Goto(a, "insert") /\ UNCHANGED pos
  /\ UNCHANGED <<workload, baseline, created, evidence, outcome, db, results,
                 orphanLog, faults>>

\* The flush before the next SELECT.  An INSERT waits for another uncommitted
\* INSERT of the slug, and fails if that one was committed in the meantime.
WriteSlug(a) ==
  /\ pc[a] \in {"insert", "update"}
  /\ writer[Slug(a)] = NoAttempt
  /\ IF pc[a] = "insert" /\ catalog[Slug(a)] # "absent"
       THEN Abort(a) /\ UNCHANGED pos
       ELSE /\ writer' = [writer EXCEPT ![Slug(a)] = a]
            /\ NextSlug(a)
            /\ UNCHANGED outcome
  /\ UNCHANGED <<workload, baseline, created, evidence, catalog, pairs, runs,
                 results, orphanLog, faults>>

\* Variant: no statement_timeout.
WriteTimeoutNever(a) == pc[a] \in {"insert", "update"} /\ FALSE /\ UNCHANGED vars

\* statement_timeout ends the wait for another transaction's row lock.
WriteTimeout(a) ==
  /\ pc[a] \in {"insert", "update"}
  /\ writer[Slug(a)] # NoAttempt
  /\ Abort(a)
  /\ UNCHANGED <<local, catalog, pairs, runs, results, orphanLog, faults>>

\* The pair is inserted with status "running", visible to nobody else.
InsertPair(a) ==
  /\ pc[a] = "pair"
  /\ Goto(a, "execute")
  /\ pos' = [pos EXCEPT ![a] = 1]
  /\ UNCHANGED <<workload, baseline, created, evidence, outcome, db, results,
                 orphanLog, faults>>

StatementFails(a) ==
  /\ pc[a] \in Seeding
  /\ Fault("db")
  /\ Abort(a)
  /\ UNCHANGED <<local, catalog, pairs, runs, results, orphanLog>>

-----------------------------------------------------------------------------
(* The targets, one after the other. *)

Execute(a) ==
  /\ pc[a] = "execute"
  /\ Target(a) \in Simulated => baseline[a]
  /\ baseline' = [baseline EXCEPT ![a] = @ \/ Target(a) = Ground]
  /\ Goto(a, "put")
  /\ UNCHANGED <<workload, pos, created, evidence, outcome, db, results,
                 orphanLog, faults>>

ExecuteFails(a) ==
  /\ pc[a] = "execute"
  /\ IF Target(a) \in Simulated /\ ~baseline[a]
       THEN UNCHANGED faults
       ELSE Fault("run")
  /\ Abort(a)
  /\ UNCHANGED <<local, catalog, pairs, runs, results, orphanLog>>

\* The timeout is noticed, but cancel does not stop a run that has begun and
\* leaving the executor's "with" waits for it.
ExecuteTimeout(a) ==
  /\ pc[a] = "execute"
  /\ Fault("timeout")
  /\ Goto(a, "overdue")
  /\ UNCHANGED <<local, outcome, db, results, orphanLog>>

OverdueEnds(a) ==
  /\ pc[a] = "overdue"
  /\ Abort(a)
  /\ UNCHANGED <<local, catalog, pairs, runs, results, orphanLog, faults>>

\* Variant: the key is not recorded before the result is read back.
PutUnrecorded(a) ==
  /\ pc[a] = "put"
  /\ results' = results \cup {<<a, Target(a)>>}
  /\ Goto(a, "readback")
  /\ UNCHANGED <<local, outcome, db, orphanLog, faults>>

Put(a) ==
  /\ pc[a] = "put"
  /\ results' = results \cup {<<a, Target(a)>>}
  /\ created' = [created EXCEPT ![a] = @ \cup {Target(a)}]
  /\ Goto(a, "readback")
  /\ UNCHANGED <<workload, pos, baseline, evidence, outcome, db, orphanLog, faults>>

\* put raises, the object stored or not: its key is not in created_keys yet.
PutFails(a) ==
  /\ pc[a] = "put"
  /\ Fault("put")
  /\ results' \in {results, results \cup {<<a, Target(a)>>}}
  /\ Abort(a)
  /\ UNCHANGED <<local, catalog, pairs, runs, orphanLog>>

ReadBack(a) ==
  /\ pc[a] = "readback"
  /\ evidence' = [evidence EXCEPT ![a] = @ \cup {Target(a)}]
  /\ IF pos[a] = 1
       THEN Goto(a, "execute") /\ pos' = [pos EXCEPT ![a] = 2]
       ELSE Goto(a, "commit") /\ UNCHANGED pos
  /\ UNCHANGED <<workload, baseline, created, outcome, db, results, orphanLog,
                 faults>>

ReadBackFails(a) ==
  /\ pc[a] = "readback"
  /\ Fault("get")
  /\ Abort(a)
  /\ UNCHANGED <<local, catalog, pairs, runs, results, orphanLog>>

-----------------------------------------------------------------------------
(* The end of the transaction. *)

\* Everything the transaction wrote becomes visible at once.
Committed(a) ==
  /\ pairs' = pairs \cup {a}
  /\ runs' = runs \cup ({a} \X evidence[a])
  /\ catalog' = [s \in Slugs |-> IF writer[s] = a THEN "current" ELSE catalog[s]]

Commit(a) ==
  /\ pc[a] = "commit"
  /\ Committed(a)
  /\ writer' = Unlocked(a)
  /\ Goto(a, "serialize")
  /\ UNCHANGED <<local, outcome, results, orphanLog, faults>>

CommitFails(a) ==
  /\ pc[a] = "commit"
  /\ \/ Fault("db") /\ UNCHANGED <<pairs, runs, catalog>>
     \/ Fault("ack") /\ Committed(a)
  /\ Abort(a)
  /\ UNCHANGED <<local, results, orphanLog>>

\* created_keys in their order: the ground result first.
NextKey(a, t) == t \in created[a] /\ (t # Ground => Ground \notin created[a])


\* One delete after the other, the answer after the last.
Forget(a, t) ==
  /\ created' = [created EXCEPT ![a] = @ \ {t}]
  /\ IF created[a] = {t}
       THEN Answer(a, "unavailable")
       ELSE UNCHANGED <<pc, outcome>>

Cleanup(a) ==
  /\ pc[a] = "cleanup"
  /\ \E t \in Targets :
       /\ NextKey(a, t)
       /\ results' = results \ {<<a, t>>}
       /\ Forget(a, t)
  /\ UNCHANGED <<workload, pos, baseline, evidence, db, orphanLog, faults>>

CleanupFails(a) ==
  /\ pc[a] = "cleanup"
  /\ Fault("delete")
  /\ \E t \in Targets :
       /\ NextKey(a, t)
       /\ results' \in {results, results \ {<<a, t>>}}
       /\ orphanLog' = orphanLog \cup {<<a, t>>}
       /\ Forget(a, t)
  /\ UNCHANGED <<workload, pos, baseline, evidence, db>>

\* serialize_pair reads the committed rows again; it needs exactly two runs.
Serialize(a) ==
  /\ pc[a] = "serialize"
  /\ Answer(a, IF {t \in Targets : <<a, t>> \in runs} = TargetsOf(workload[a])
                 THEN "created" ELSE "unavailable")
  /\ UNCHANGED <<local, db, results, orphanLog, faults>>

SerializeFails(a) ==
  /\ pc[a] = "serialize"
  /\ Fault("db")
  /\ Answer(a, "error")
  /\ UNCHANGED <<local, db, results, orphanLog>>

\* The process dies: open transactions are rolled back, the bucket stays.
Crash ==
  /\ Fault("crash")
  /\ pc' = [a \in Attempts |-> IF pc[a] = "idle" THEN "idle" ELSE "done"]
  /\ outcome' = [a \in Attempts |->
       IF pc[a] \in {"idle", "done"} THEN outcome[a] ELSE "lost"]
  /\ writer' = [s \in Slugs |-> NoAttempt]
  /\ UNCHANGED <<local, catalog, pairs, runs, results, orphanLog>>

\* A call goes on, or fails in one of the ways of FaultKinds.
Work(a) == SelectSlug(a) \/ WriteSlug(a) \/ WriteTimeout(a) \/ InsertPair(a)
             \/ Execute(a) \/ Put(a) \/ ReadBack(a)
             \/ Commit(a) \/ Cleanup(a) \/ Serialize(a)
Failure(a) == StatementFails(a) \/ ExecuteFails(a) \/ ExecuteTimeout(a)
                \/ PutFails(a) \/ ReadBackFails(a)
                \/ CommitFails(a) \/ CleanupFails(a) \/ SerializeFails(a)
Step(a) == Work(a) \/ Failure(a)

Next ==
  \/ \E a \in Attempts : RefuseInput(a) \/ Begin(a) \/ Step(a) \/ OverdueEnds(a)
  \/ Crash

Spec == Init /\ [][Next]_vars

\* Statements and store calls are bounded by their timeouts, and no failure is
\* needed to get on: only a run past its timeout need never end.
LiveSpec == Spec /\ \A a \in Attempts : WF_vars(Work(a))

-----------------------------------------------------------------------------
(* Properties. *)

\* A committed pair is complete: a run for the ground target and one for its
\* workload's edge target, each with its result object (unless the database
\* reported a commit as failed that was not), and the committed, up-to-date rows
\* of the catalog that they refer to, even when the first pairs of a workload or
\* a target are run at the same time.
PairsWhole ==
  \A a \in pairs :
    /\ {t \in Targets : <<a, t>> \in runs} = TargetsOf(workload[a])
    /\ faults["ack"] = 0 => {a} \X TargetsOf(workload[a]) \subseteq results
    /\ \A i \in 1..3 : catalog[Chain(a)[i]] = "current"

\* Transactions that wait for each other's catalog rows wait in one direction,
\* so PostgreSQL never has a deadlock to break.
WaitsForward ==
  \A a, b \in Attempts :
    (/\ pc[a] \in {"insert", "update"} /\ pc[b] \in {"insert", "update"}
     /\ a # b /\ writer[Slug(a)] = b) => pos[a] < pos[b]

LeftNothing(a) ==
  a \notin pairs /\ \A t \in Targets : <<a, t>> \notin runs \cup results

\* "Benchmark pair failed atomically": a pair answered with that error has no
\* row, no run and no result object, whichever step failed.  That is so but for
\* a commit or PUT whose effect the error hid and a delete that failed and was
\* logged.
FailedAtomicallyIfKnown ==
  (faults["ack"] = 0 /\ faults["put"] = 0 /\ faults["delete"] = 0)
    => \A a \in Attempts : outcome[a] = "unavailable" => LeftNothing(a)

\* Every result object belongs to a committed run or to an attempt that will
\* commit or delete it, or is in the log: only a failed PUT or a crash leaves
\* one nobody accounts for.
ResultsAccounted ==
  (faults["put"] = 0 /\ faults["crash"] = 0) =>
    \A r \in results :
      \/ r \in runs \cup orphanLog
      \/ pc[r[1]] \in Running \cup {"cleanup"} /\ r[2] \in created[r[1]]

\* A target that never returns holds up its own call only: every other call of
\* run_benchmark_pair is answered, though it may need the catalog rows that the
\* transaction of the hanging one keeps locked for ever.
HangIsLocal == \A a \in Attempts : pc[a] # "idle" ~> pc[a] \in {"overdue", "done"}

\* A run past BENCHMARK_TIMEOUT_SECONDS is answered with an error.
TimeoutAnswered == \A a \in Attempts : pc[a] = "overdue" ~> pc[a] = "done"

=============================================================================
