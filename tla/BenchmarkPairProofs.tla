-------------------------- MODULE BenchmarkPairProofs --------------------------
(***************************************************************************)
(* Benchmark pairs, for any number of attempts, workloads, edge targets    *)
(* and failures.  The invariant is a conjunction over the attempts: what   *)
(* one attempt does touches its own part only, but for catalog rows, which *)
(* never stop being current, and their locks, which are one attempt's.     *)
(***************************************************************************)
EXTENDS BenchmarkPair, TLAPS

\* The transaction of the attempt is open.
Open == Seeding \cup Running

\* The places of the catalog's loop that the attempt has behind it.
Behind(a) == {i \in 1..3 : pc[a] \in {"select", "insert", "update"} => i < pos[a]}

\* What the attempt's locals hold at each of its places.
StageInv(a) ==
  /\ pc[a] = "idle" => pos[a] = 1
  /\ pc[a] \notin {"idle", "done"} => workload[a] \in Workloads
  /\ pc[a] \in Running => pos[a] \in {1, 2}
  /\ pc[a] \in {"idle"} \cup Seeding => created[a] = {} /\ evidence[a] = {}
  /\ pc[a] \in Running \ {"commit"} =>
       evidence[a] = IF pos[a] = 1 THEN {} ELSE {Ground}
  /\ pc[a] \in {"execute", "overdue", "put"} => created[a] = evidence[a]
  /\ pc[a] = "readback" => created[a] = evidence[a] \cup {Target(a)}
  /\ pc[a] = "commit" => /\ evidence[a] = TargetsOf(workload[a])
                         /\ created[a] = TargetsOf(workload[a])
  /\ pc[a] = "done" <=> outcome[a] # "none"

\* A catalog row behind the attempt is current or locked by it, and it locks no
\* other row.
LocksInv(a) ==
  /\ pc[a] \in Open =>
       \A i \in Behind(a) : catalog[Chain(a)[i]] = "current" \/ writer[Chain(a)[i]] = a
  /\ \A s \in Slugs : writer[s] = a => /\ pc[a] \in Open
                                       /\ \E i \in Behind(a) : s = Chain(a)[i]

\* The attempt's pair is committed with all of its runs or not at all.
PairInv(a) ==
  /\ a \notin pairs => \A t \in Targets : <<a, t>> \notin runs
  /\ a \in pairs =>
       /\ pc[a] \in {"serialize", "cleanup", "done"}
       /\ workload[a] \in Workloads
       /\ \A t \in Targets : <<a, t>> \in runs <=> t \in TargetsOf(workload[a])
       /\ \A i \in 1..3 : catalog[Chain(a)[i]] = "current"
       /\ faults["ack"] = 0 =>
            /\ pc[a] # "cleanup" /\ outcome[a] \notin {"refused", "unavailable"}
            /\ \A t \in TargetsOf(workload[a]) : <<a, t>> \in results

\* Who accounts for the attempt's result objects.
ResultInv(a) ==
  /\ pc[a] \in {"idle"} \cup Open =>
       \A t \in Targets : <<a, t>> \in results <=> t \in created[a]
  /\ pc[a] = "serialize" \/ outcome[a] = "created" => a \in pairs
  /\ pc[a] = "serialize" \/ outcome[a] \in {"created", "error"} =>
       \A t \in Targets : <<a, t>> \in results => <<a, t>> \in runs
  /\ faults["put"] = 0 =>
       /\ pc[a] = "cleanup" =>
            \A t \in Targets : <<a, t>> \in results => t \in created[a] \/ <<a, t>> \in orphanLog
       /\ outcome[a] \in {"refused", "unavailable"} =>
            \A t \in Targets : <<a, t>> \in results => <<a, t>> \in orphanLog
  /\ faults["crash"] = 0 => outcome[a] # "lost"

AttemptInv(a) == StageInv(a) /\ LocksInv(a) /\ PairInv(a) /\ ResultInv(a)

IInv ==
  /\ TypeOK
  /\ \A a \in Attempts : AttemptInv(a)
  /\ faults["delete"] = 0 => orphanLog = {}
-----------------------------------------------------------------------------
LEMMA ChainFacts ==
  ASSUME NEW a \in Attempts, workload[a] \in Workloads
  PROVE  /\ Len(Chain(a)) = 3
         /\ Chain(a)[1] = workload[a] /\ Chain(a)[2] = Ground
         /\ Chain(a)[3] = EdgeOf[workload[a]]
         /\ \A i \in 1..3 : Chain(a)[i] \in Slugs
         /\ EdgeOf[workload[a]] \in EdgeTargets
         /\ TargetsOf(workload[a]) \subseteq Targets
<1>1. EdgeOf[workload[a]] \in EdgeTargets
  BY SpecAssumption
<1>2. /\ Len(Chain(a)) = 3
      /\ Chain(a)[1] = workload[a] /\ Chain(a)[2] = Ground
      /\ Chain(a)[3] = EdgeOf[workload[a]]
  BY DEF Chain
<1>3. \A i \in 1..3 : i = 1 \/ i = 2 \/ i = 3
  OBVIOUS
<1>4. \A i \in 1..3 : Chain(a)[i] \in Slugs
  BY <1>1, <1>2, <1>3 DEF Slugs, Targets
<1> QED BY <1>1, <1>2, <1>4 DEF TargetsOf, Targets

\* The rows of the chain are of three kinds, so a row has one place in all chains.
LEMMA ChainPlaces ==
  ASSUME NEW a \in Attempts, NEW b \in Attempts, NEW i \in 1..3, NEW j \in 1..3,
         workload[a] \in Workloads, workload[b] \in Workloads,
         Chain(a)[i] = Chain(b)[j]
  PROVE  i = j
<1>1. (i = 1 \/ i = 2 \/ i = 3) /\ (j = 1 \/ j = 2 \/ j = 3)
  OBVIOUS
<1>2. /\ workload[a] \notin Targets /\ workload[b] \notin Targets
      /\ Ground \in Targets /\ EdgeTargets \subseteq Targets /\ Ground \notin EdgeTargets
  BY SpecAssumption DEF Targets
<1> QED BY <1>1, <1>2, ChainFacts

LEMMA FaultFacts ==
  ASSUME TypeOK, NEW kind \in FaultKinds, Fault(kind)
  PROVE  /\ faults' \in [FaultKinds -> Nat]
         /\ faults'[kind] # 0
         /\ \A f \in FaultKinds : faults'[f] = 0 => faults[f] = 0
BY DEF Fault, TypeOK

LEMMA InitIInv == Init => IInv
<1> SUFFICES ASSUME Init PROVE IInv
  OBVIOUS
<1>1. TypeOK
  BY DEF Init, TypeOK, Labels, Outcomes, Seeding, Running
<1>2. ASSUME NEW a \in Attempts PROVE AttemptInv(a)
  <2>1. /\ pc[a] = "idle" /\ pos[a] = 1 /\ created[a] = {} /\ evidence[a] = {}
        /\ outcome[a] = "none" /\ pairs = {} /\ runs = {} /\ results = {}
        /\ \A s \in Slugs : writer[s] = NoAttempt
    BY DEF Init
  <2>2. StageInv(a)
    BY <2>1 DEF StageInv, Seeding, Running
  <2>3. LocksInv(a)
    BY <2>1, NoneAssumption DEF LocksInv, Open, Seeding, Running
  <2>4. PairInv(a) /\ ResultInv(a)
    BY <2>1 DEF PairInv, ResultInv
  <2> QED BY <2>2, <2>3, <2>4 DEF AttemptInv
<1> QED BY <1>1, <1>2 DEF IInv, Init

-----------------------------------------------------------------------------
(* What one attempt's step leaves of the others. *)

Frame(a) ==
  /\ \A b \in Attempts \ {a} :
       /\ pc'[b] = pc[b] /\ workload'[b] = workload[b] /\ pos'[b] = pos[b]
       /\ created'[b] = created[b] /\ evidence'[b] = evidence[b]
       /\ outcome'[b] = outcome[b]
       /\ b \in pairs' <=> b \in pairs
       /\ \A t \in Targets : /\ <<b, t>> \in runs' <=> <<b, t>> \in runs
                             /\ <<b, t>> \in results' <=> <<b, t>> \in results
                             /\ <<b, t>> \in orphanLog => <<b, t>> \in orphanLog'
       /\ \A s \in Slugs : writer'[s] = b <=> writer[s] = b
  /\ \A s \in Slugs : catalog[s] = "current" => catalog'[s] = "current"
  /\ \A f \in FaultKinds : faults'[f] = 0 => faults[f] = 0

LEMMA OthersKeep ==
  ASSUME NEW a \in Attempts, Frame(a), NEW b \in Attempts \ {a}, AttemptInv(b)
  PROVE  AttemptInv(b)'
<1>1. /\ pc'[b] = pc[b] /\ workload'[b] = workload[b] /\ pos'[b] = pos[b]
      /\ created'[b] = created[b] /\ evidence'[b] = evidence[b] /\ outcome'[b] = outcome[b]
  BY DEF Frame
<1>2. Chain(b)' = Chain(b) /\ Behind(b)' = Behind(b) /\ Target(b)' = Target(b)
  BY <1>1 DEF Chain, Behind, Target
<1>3. Behind(b) \subseteq 1..3
  BY DEF Behind
<1>4. StageInv(b)'
  BY <1>1, <1>2 DEF AttemptInv, StageInv
<1>5. pc[b] \in Open \/ b \in pairs => \A i \in 1..3 : Chain(b)[i] \in Slugs
  BY ChainFacts DEF AttemptInv, StageInv, PairInv, Open, Seeding, Running
<1>6. LocksInv(b)'
  BY <1>1, <1>2, <1>3, <1>5 DEF AttemptInv, LocksInv, Frame
<1>7. b \in pairs => TargetsOf(workload[b]) \subseteq Targets
  BY ChainFacts DEF AttemptInv, PairInv
<1>8. PairInv(b)'
  BY <1>1, <1>2, <1>5, <1>7 DEF AttemptInv, PairInv, Frame, FaultKinds
<1>9. ResultInv(b)'
  BY <1>1 DEF AttemptInv, ResultInv, Frame, FaultKinds
<1> QED BY <1>4, <1>6, <1>8, <1>9 DEF AttemptInv

LEMMA StepOfOne ==
  ASSUME IInv, NEW a \in Attempts, TypeOK', Frame(a), AttemptInv(a)',
         faults'["delete"] = 0 => orphanLog' = {}
  PROVE  IInv'
<1>1. ASSUME NEW b \in Attempts PROVE AttemptInv(b)'
  BY OthersKeep, b = a \/ b # a DEF IInv
<1> QED BY <1>1 DEF IInv

-----------------------------------------------------------------------------
(* An attempt whose transaction ends before its pair is committed. *)

\* Abort after a step that changed no row, and no object but by a failed PUT.
LEMMA AbortKeeps ==
  ASSUME IInv, NEW a \in Attempts, pc[a] \in Open, Abort(a),
         UNCHANGED <<local, catalog, pairs, runs, orphanLog>>,
         \/ results' = results
         \/ /\ faults'["put"] # 0
            /\ results' = results \cup {<<a, Target(a)>>},
         faults' \in [FaultKinds -> Nat],
         \A f \in FaultKinds : faults'[f] = 0 => faults[f] = 0
  PROVE  IInv'
<1>0. TypeOK /\ StageInv(a) /\ LocksInv(a) /\ PairInv(a) /\ ResultInv(a)
  BY DEF IInv, AttemptInv
<1>1. a \notin pairs /\ \A t \in Targets : <<a, t>> \notin runs
  BY <1>0 DEF PairInv, Open, Seeding, Running
<1>2. workload[a] \in Workloads /\ Target(a) \in Targets
  BY <1>0, ChainFacts DEF StageInv, Open, Seeding, Running, Target, Targets
<1>3. \/ /\ created[a] = {} /\ pc' = [pc EXCEPT ![a] = "done"]
         /\ outcome' = [outcome EXCEPT ![a] = "unavailable"]
      \/ created[a] # {} /\ pc' = [pc EXCEPT ![a] = "cleanup"] /\ outcome' = outcome
  BY DEF Abort, Answer, Goto
<1>4. /\ writer' = [s \in Slugs |-> IF writer[s] = a THEN NoAttempt ELSE writer[s]]
      /\ \A s \in Slugs : writer'[s] # a
  BY NoneAssumption DEF Abort, Unlocked
<1>5. TypeOK'
  <2>1. pc' \in [Attempts -> Labels] /\ outcome' \in [Attempts -> Outcomes]
    BY <1>0, <1>3 DEF TypeOK, Labels, Outcomes
  <2>2. writer' \in [Slugs -> Attempts \cup {NoAttempt}]
    BY <1>0, <1>4 DEF TypeOK
  <2>3. results' \subseteq Attempts \X Targets
    BY <1>0, <1>2 DEF TypeOK
  <2> QED BY <1>0, <2>1, <2>2, <2>3 DEF TypeOK, local
<1>6. Frame(a)
  <2>1. ASSUME NEW b \in Attempts \ {a}
        PROVE  pc'[b] = pc[b] /\ outcome'[b] = outcome[b]
    BY <1>0, <1>3 DEF TypeOK
  <2>2. ASSUME NEW b \in Attempts \ {a}, NEW t \in Targets
        PROVE  <<b, t>> \in results' <=> <<b, t>> \in results
    OBVIOUS
  <2>3. ASSUME NEW b \in Attempts \ {a}, NEW s \in Slugs
        PROVE  writer'[s] = b <=> writer[s] = b
    BY <1>4, NoneAssumption
  <2> QED BY <2>1, <2>2, <2>3 DEF Frame, local
<1>7. StageInv(a)'
  BY <1>0, <1>2, <1>3 DEF StageInv, TypeOK, local, Open, Running, Seeding
<1>8. LocksInv(a)'
  <2>1. pc'[a] \notin Open
    BY <1>0, <1>3 DEF TypeOK, Open, Running, Seeding
  <2> QED BY <1>4, <2>1 DEF LocksInv
<1>9. PairInv(a)'
  BY <1>1 DEF PairInv
<1>10. ResultInv(a)'
  <2>1. \A t \in Targets : <<a, t>> \in results => t \in created[a]
    BY <1>0 DEF ResultInv
  <2>2. outcome[a] = "none" /\ pc[a] # "cleanup"
    BY <1>0 DEF StageInv, Open, Running, Seeding
  <2> QED BY <1>0, <1>3, <2>1, <2>2 DEF ResultInv, TypeOK, local, Open, Running, Seeding
<1> QED BY <1>5, <1>6, <1>7, <1>8, <1>9, <1>10, StepOfOne DEF IInv, AttemptInv, FaultKinds

LEMMA RefuseKeeps ==
  ASSUME IInv, NEW a \in Attempts, RefuseInput(a)
  PROVE  IInv'
<1>0. TypeOK /\ StageInv(a) /\ LocksInv(a) /\ PairInv(a) /\ ResultInv(a)
  BY DEF IInv, AttemptInv
<1>1. PICK answer \in {"refused", "unavailable", "error"} :
        outcome' = [outcome EXCEPT ![a] = answer]
  BY DEF RefuseInput, Answer
<1>2. /\ pc[a] = "idle" /\ pc' = [pc EXCEPT ![a] = "done"]
      /\ UNCHANGED <<local, db, results, orphanLog>>
  BY DEF RefuseInput, Answer, Goto
<1>2a. /\ faults' \in [FaultKinds -> Nat]
       /\ \A f \in FaultKinds : faults'[f] = 0 => faults[f] = 0
  BY <1>0, FaultFacts, "db" \in FaultKinds DEF RefuseInput, TypeOK, FaultKinds
<1>3. TypeOK'
  <2>1. pc' \in [Attempts -> Labels] /\ outcome' \in [Attempts -> Outcomes]
    BY <1>0, <1>1, <1>2 DEF TypeOK, Labels, Outcomes
  <2> QED BY <1>0, <1>2, <1>2a, <2>1 DEF TypeOK, local, db
<1>4. Frame(a)
  BY <1>0, <1>1, <1>2, <1>2a DEF Frame, TypeOK, local, db
<1>5. StageInv(a)'
  BY <1>0, <1>1, <1>2 DEF StageInv, TypeOK, local, Running, Seeding
<1>6. LocksInv(a)'
  BY <1>0, <1>2 DEF LocksInv, TypeOK, db, Open, Running, Seeding
<1>7. a \notin pairs
  BY <1>0, <1>2 DEF PairInv
<1>8. PairInv(a)'
  BY <1>0, <1>2, <1>7 DEF PairInv, db
<1>9. ResultInv(a)'
  BY <1>0, <1>1, <1>2 DEF ResultInv, StageInv, TypeOK, local, db
<1> QED BY <1>2, <1>2a, <1>3, <1>4, <1>5, <1>6, <1>8, <1>9, StepOfOne
        DEF IInv, AttemptInv, FaultKinds

LEMMA BeginKeeps ==
  ASSUME IInv, NEW a \in Attempts, Begin(a)
  PROVE  IInv'
<1>0. TypeOK /\ StageInv(a) /\ LocksInv(a) /\ PairInv(a) /\ ResultInv(a)
  BY DEF IInv, AttemptInv
<1>1. PICK w \in Workloads : workload' = [workload EXCEPT ![a] = w]
  BY DEF Begin
<1>2. /\ pc[a] = "idle" /\ pc' = [pc EXCEPT ![a] = "select"]
      /\ UNCHANGED <<pos, baseline, created, evidence, outcome, db, results, orphanLog, faults>>
  BY DEF Begin, Goto
<1>3. TypeOK'
  BY <1>0, <1>1, <1>2 DEF TypeOK, db, Labels, Seeding
<1>4. Frame(a)
  BY <1>0, <1>1, <1>2 DEF Frame, TypeOK, db
<1>5. StageInv(a)'
  BY <1>0, <1>1, <1>2 DEF StageInv, TypeOK, Running, Seeding
<1>6. pos'[a] = 1 /\ Behind(a)' = {}
  BY <1>0, <1>2 DEF Behind, StageInv, TypeOK
<1>7. LocksInv(a)'
  BY <1>0, <1>2, <1>6 DEF LocksInv, TypeOK, db, Open, Running, Seeding
<1>8. PairInv(a)'
  BY <1>0, <1>2 DEF PairInv, db
<1>9. ResultInv(a)'
  BY <1>0, <1>2 DEF ResultInv, StageInv, TypeOK, db, Open, Running, Seeding
<1> QED BY <1>2, <1>3, <1>4, <1>5, <1>7, <1>8, <1>9, StepOfOne DEF IInv, AttemptInv

-----------------------------------------------------------------------------
(* The catalog's loop. *)

\* A step inside the loop, or out of its end, that leaves at most one more row
\* behind: one that is current or that the attempt has locked.
LEMMA SeedKeeps ==
  ASSUME IInv, NEW a \in Attempts, NEW l \in Seeding, NEW p \in 1..3,
         pc[a] \in {"select", "insert", "update"},
         pc' = [pc EXCEPT ![a] = l], pos' = [pos EXCEPT ![a] = p],
         \/ writer' = writer
         \/ writer[Slug(a)] = NoAttempt /\ writer' = [writer EXCEPT ![Slug(a)] = a],
         \/ p = pos[a] /\ l # "pair" /\ writer' = writer
         \/ /\ catalog[Slug(a)] = "current" \/ writer'[Slug(a)] = a
            /\ \/ p = pos[a] + 1 /\ l = "select"
               \/ pos[a] = 3 /\ l = "pair",
         UNCHANGED <<workload, baseline, created, evidence, outcome, catalog, pairs, runs,
                     results, orphanLog, faults>>
  PROVE  IInv'
<1>0. TypeOK /\ StageInv(a) /\ LocksInv(a) /\ PairInv(a) /\ ResultInv(a)
  BY DEF IInv, AttemptInv
<1>1. pc'[a] = l /\ pos'[a] = p /\ pos[a] \in 1..3
  BY <1>0 DEF TypeOK
<1>2. workload[a] \in Workloads /\ pc[a] \in Open
  BY <1>0 DEF StageInv, Open, Seeding
<1>3. /\ Slug(a) = Chain(a)[pos[a]] /\ Slug(a) \in Slugs
      /\ \A i \in 1..3 : Chain(a)[i] \in Slugs
  BY <1>1, <1>2, ChainFacts DEF Slug
<1>4. TypeOK'
  BY <1>0, <1>3 DEF TypeOK, Labels
<1>5. \A s \in Slugs : s # Slug(a) => writer'[s] = writer[s]
  BY <1>0 DEF TypeOK
<1>6. \A s \in Slugs : writer[s] = a => writer'[s] = a
  BY <1>0, <1>3, <1>5, NoneAssumption DEF TypeOK
<1>7. Frame(a)
  <2>1. ASSUME NEW b \in Attempts \ {a}, NEW s \in Slugs
        PROVE  writer'[s] = b <=> writer[s] = b
    BY <1>0, <1>3, <1>5, NoneAssumption DEF TypeOK
  <2>2. ASSUME NEW b \in Attempts \ {a} PROVE pc'[b] = pc[b] /\ pos'[b] = pos[b]
    BY <1>0 DEF TypeOK
  <2> QED BY <2>1, <2>2 DEF Frame
<1>8. StageInv(a)'
  BY <1>0, <1>1, <1>2 DEF StageInv, Seeding, Running
<1>9. LocksInv(a)'
  <2>1. Chain(a)' = Chain(a)
    BY DEF Chain
  <2>2. CASE p = pos[a] /\ l # "pair" /\ writer' = writer
    <3>1. Behind(a)' = Behind(a)
      BY <1>1, <2>2 DEF Behind, Seeding
    <3> QED BY <1>0, <1>1, <1>2, <2>1, <2>2, <3>1 DEF LocksInv, Open
  <2>3. CASE /\ catalog[Slug(a)] = "current" \/ writer'[Slug(a)] = a
             /\ \/ p = pos[a] + 1 /\ l = "select"
                \/ pos[a] = 3 /\ l = "pair"
    <3>1. Behind(a)' = Behind(a) \cup {pos[a]}
      BY <1>1, <2>3 DEF Behind
    <3>2. \A i \in Behind(a) : i \in 1..3
      BY DEF Behind
    <3>3. \A i \in Behind(a)' :
            catalog'[Chain(a)'[i]] = "current" \/ writer'[Chain(a)'[i]] = a
      BY <1>0, <1>2, <1>3, <1>6, <2>1, <2>3, <3>1, <3>2 DEF LocksInv
    <3>4. ASSUME NEW s \in Slugs, writer'[s] = a
          PROVE  \E i \in Behind(a)' : s = Chain(a)'[i]
      <4>1. CASE s = Slug(a)
        BY <1>3, <2>1, <3>1, <4>1
      <4>2. CASE s # Slug(a)
        BY <1>0, <1>5, <2>1, <3>1, <3>4, <4>2 DEF LocksInv
      <4> QED BY <4>1, <4>2
    <3> QED BY <1>1, <3>3, <3>4 DEF LocksInv, Open
  <2> QED BY <2>2, <2>3
<1>10. a \notin pairs
  BY <1>0 DEF PairInv
<1>11. PairInv(a)'
  BY <1>0, <1>10 DEF PairInv
<1>12. ResultInv(a)'
  BY <1>0, <1>1, <1>2 DEF ResultInv, StageInv, Open, Seeding, Running
<1> QED BY <1>4, <1>7, <1>8, <1>9, <1>11, <1>12, StepOfOne DEF IInv, AttemptInv

LEMMA NextSlugFacts ==
  ASSUME TypeOK, NEW a \in Attempts, workload[a] \in Workloads, NextSlug(a)
  PROVE  \E l \in Seeding, p \in 1..3 :
           /\ pc' = [pc EXCEPT ![a] = l] /\ pos' = [pos EXCEPT ![a] = p]
           /\ \/ p = pos[a] + 1 /\ l = "select"
              \/ pos[a] = 3 /\ l = "pair"
<1>1. pos[a] \in 1..3 /\ Len(Chain(a)) = 3
  BY ChainFacts DEF TypeOK
<1>2. CASE pos[a] < 3
  BY <1>1, <1>2 DEF NextSlug, Goto, Seeding
<1>3. CASE pos[a] = 3
  <2>1. pc' = [pc EXCEPT ![a] = "pair"] /\ pos' = [pos EXCEPT ![a] = pos[a]]
    BY <1>1, <1>3 DEF NextSlug, Goto, TypeOK
  <2> QED BY <1>1, <1>3, <2>1 DEF Seeding
<1> QED BY <1>1, <1>2, <1>3

LEMMA SelectKeeps ==
  ASSUME IInv, NEW a \in Attempts, SelectSlug(a)
  PROVE  IInv'
<1>0. TypeOK /\ pc[a] = "select" /\ workload[a] \in Workloads /\ pos[a] \in 1..3
  BY DEF IInv, AttemptInv, StageInv, SelectSlug, TypeOK
<1>1. /\ catalog[Slug(a)] \in {"absent", "stale", "current"}
      /\ writer' = writer
      /\ UNCHANGED <<workload, baseline, created, evidence, outcome, catalog, pairs, runs,
                     results, orphanLog, faults>>
  BY <1>0, ChainFacts DEF SelectSlug, Slug, TypeOK, db
<1>2. CASE catalog[Slug(a)] = "current"
  <2>1. NextSlug(a)
    BY <1>2 DEF SelectSlug
  <2> QED BY <1>0, <1>1, <1>2, <2>1, NextSlugFacts, SeedKeeps
<1>3. CASE catalog[Slug(a)] # "current"
  <2>1. PICK l \in {"update", "insert"} : pc' = [pc EXCEPT ![a] = l] /\ UNCHANGED pos
    BY <1>1, <1>3 DEF SelectSlug, Goto
  <2>2. l \in Seeding /\ l # "pair" /\ pos' = [pos EXCEPT ![a] = pos[a]]
    BY <1>0, <2>1 DEF Seeding, TypeOK
  <2> QED BY <1>0, <1>1, <2>1, <2>2, SeedKeeps
<1> QED BY <1>2, <1>3

LEMMA WriteKeeps ==
  ASSUME IInv, NEW a \in Attempts, WriteSlug(a)
  PROVE  IInv'
<1>0. /\ TypeOK /\ pc[a] \in {"insert", "update"} /\ workload[a] \in Workloads
      /\ pos[a] \in 1..3 /\ pc[a] \in Open
  BY DEF IInv, AttemptInv, StageInv, WriteSlug, TypeOK, Open, Seeding
<1>1. /\ writer[Slug(a)] = NoAttempt
      /\ UNCHANGED <<workload, baseline, created, evidence, catalog, pairs, runs,
                     results, orphanLog, faults>>
  BY DEF WriteSlug
<1>2. CASE pc[a] = "insert" /\ catalog[Slug(a)] # "absent"
  <2>1. Abort(a) /\ UNCHANGED pos
    BY <1>2 DEF WriteSlug
  <2> QED BY <1>0, <1>1, <2>1, AbortKeeps DEF local, TypeOK
<1>3. CASE ~(pc[a] = "insert" /\ catalog[Slug(a)] # "absent")
  <2>1. writer' = [writer EXCEPT ![Slug(a)] = a] /\ NextSlug(a) /\ UNCHANGED outcome
    BY <1>3 DEF WriteSlug
  <2>2. writer'[Slug(a)] = a
    BY <1>0, <2>1, ChainFacts DEF TypeOK, Slug
  <2> QED BY <1>0, <1>1, <2>1, <2>2, NextSlugFacts, SeedKeeps
<1> QED BY <1>2, <1>3

LEMMA InsertPairKeeps ==
  ASSUME IInv, NEW a \in Attempts, InsertPair(a)
  PROVE  IInv'
<1>0. TypeOK /\ StageInv(a) /\ LocksInv(a) /\ PairInv(a) /\ ResultInv(a)
  BY DEF IInv, AttemptInv
<1>1. /\ pc[a] = "pair" /\ pc' = [pc EXCEPT ![a] = "execute"]
      /\ pos' = [pos EXCEPT ![a] = 1]
      /\ UNCHANGED <<workload, baseline, created, evidence, outcome, db, results,
                     orphanLog, faults>>
  BY DEF InsertPair, Goto
<1>2. pc'[a] = "execute" /\ pos'[a] = 1
  BY <1>0, <1>1 DEF TypeOK
<1>3. TypeOK'
  BY <1>0, <1>1 DEF TypeOK, db, Labels, Running
<1>4. Frame(a)
  BY <1>0, <1>1 DEF Frame, TypeOK, db
<1>5. StageInv(a)'
  BY <1>0, <1>1, <1>2 DEF StageInv, Seeding, Running
<1>6. Behind(a)' = Behind(a) /\ Chain(a)' = Chain(a)
  BY <1>1, <1>2 DEF Behind, Chain
<1>7. LocksInv(a)'
  BY <1>0, <1>1, <1>2, <1>6 DEF LocksInv, db, Open, Seeding, Running
<1>8. PairInv(a)'
  BY <1>0, <1>1 DEF PairInv, db
<1>9. ResultInv(a)'
  BY <1>0, <1>1, <1>2 DEF ResultInv, StageInv, db, Open, Seeding, Running
<1> QED BY <1>1, <1>3, <1>4, <1>5, <1>7, <1>8, <1>9, StepOfOne DEF IInv, AttemptInv

-----------------------------------------------------------------------------
(* The targets. *)

LEMMA FailureKeeps ==
  ASSUME IInv, NEW a \in Attempts,
         \/ WriteTimeout(a) \/ StatementFails(a) \/ ExecuteFails(a)
         \/ OverdueEnds(a) \/ PutFails(a) \/ ReadBackFails(a)
  PROVE  IInv'
<1>0. TypeOK /\ {"db", "run", "put", "get"} \subseteq FaultKinds
  BY DEF IInv, FaultKinds
<1>1. CASE WriteTimeout(a)
  BY <1>0, <1>1, AbortKeeps DEF WriteTimeout, local, TypeOK, Open, Seeding
<1>2. CASE StatementFails(a)
  BY <1>0, <1>2, AbortKeeps, FaultFacts DEF StatementFails, local, Open
<1>3. CASE ExecuteFails(a)
  <2>1. /\ faults' \in [FaultKinds -> Nat]
        /\ \A f \in FaultKinds : faults'[f] = 0 => faults[f] = 0
    BY <1>0, <1>3, FaultFacts DEF ExecuteFails, TypeOK
  <2> QED BY <1>3, <2>1, AbortKeeps DEF ExecuteFails, local, Open, Running
<1>4. CASE OverdueEnds(a)
  BY <1>0, <1>4, AbortKeeps DEF OverdueEnds, local, TypeOK, Open, Running
<1>5. CASE PutFails(a)
  <2>1. /\ faults' \in [FaultKinds -> Nat] /\ faults'["put"] # 0
        /\ \A f \in FaultKinds : faults'[f] = 0 => faults[f] = 0
    BY <1>0, <1>5, FaultFacts DEF PutFails
  <2>2. results' = results \/ results' = results \cup {<<a, Target(a)>>}
    BY <1>5 DEF PutFails
  <2> QED BY <1>5, <2>1, <2>2, AbortKeeps DEF PutFails, local, Open, Running
<1>6. CASE ReadBackFails(a)
  BY <1>0, <1>6, AbortKeeps, FaultFacts DEF ReadBackFails, local, Open, Running
<1> QED BY <1>1, <1>2, <1>3, <1>4, <1>5, <1>6

\* A step of the targets' loop keeps what the catalog's loop left behind.
LEMMA LocksStay ==
  ASSUME NEW a \in Attempts, LocksInv(a), pc[a] \in Running, pc'[a] \in Running,
         UNCHANGED <<workload, catalog, writer>>
  PROVE  LocksInv(a)'
<1>1. Chain(a)' = Chain(a)
  BY DEF Chain
<1>2. Behind(a)' = Behind(a)
  BY DEF Behind, Running
<1> QED BY <1>1, <1>2 DEF LocksInv, Open

LEMMA RunKeeps ==
  ASSUME IInv, NEW a \in Attempts, Execute(a) \/ ExecuteTimeout(a)
  PROVE  IInv'
<1>0. TypeOK /\ StageInv(a) /\ LocksInv(a) /\ PairInv(a) /\ ResultInv(a)
  BY DEF IInv, AttemptInv
<1>1. PICK l \in {"put", "overdue"} : pc' = [pc EXCEPT ![a] = l]
  BY DEF Execute, ExecuteTimeout, Goto
<1>2. /\ pc[a] = "execute" /\ pc'[a] = l
      /\ UNCHANGED <<workload, pos, created, evidence, outcome, db, results, orphanLog>>
  BY <1>0, <1>1 DEF Execute, ExecuteTimeout, TypeOK, local
<1>3. /\ faults' \in [FaultKinds -> Nat]
      /\ \A f \in FaultKinds : faults'[f] = 0 => faults[f] = 0
  BY <1>0, FaultFacts, "timeout" \in FaultKinds DEF Execute, ExecuteTimeout, TypeOK, FaultKinds
<1>4. TypeOK'
  <2>1. baseline' \in [Attempts -> BOOLEAN]
    BY <1>0 DEF Execute, ExecuteTimeout, TypeOK, local
  <2>2. pc' \in [Attempts -> Labels]
    BY <1>0, <1>1 DEF TypeOK, Labels, Running
  <2> QED BY <1>0, <1>2, <1>3, <2>1, <2>2 DEF TypeOK, db
<1>5. Frame(a)
  <2>1. ASSUME NEW b \in Attempts \ {a} PROVE pc'[b] = pc[b]
    BY <1>0, <1>1 DEF TypeOK
  <2> QED BY <1>2, <1>3, <2>1 DEF Frame, db
<1>6. StageInv(a)'
  BY <1>0, <1>2 DEF StageInv, Seeding, Running
<1>7. LocksInv(a)'
  BY <1>0, <1>2, LocksStay DEF db, Running
<1>8. PairInv(a)'
  BY <1>0, <1>2 DEF PairInv, db
<1>9. ResultInv(a)'
  BY <1>0, <1>2 DEF ResultInv, StageInv, db, Open, Seeding, Running
<1> QED BY <1>2, <1>3, <1>4, <1>5, <1>6, <1>7, <1>8, <1>9, StepOfOne
        DEF IInv, AttemptInv, FaultKinds

LEMMA PutKeeps ==
  ASSUME IInv, NEW a \in Attempts, Put(a)
  PROVE  IInv'
<1>0. TypeOK /\ StageInv(a) /\ LocksInv(a) /\ PairInv(a) /\ ResultInv(a)
  BY DEF IInv, AttemptInv
<1>1. /\ pc[a] = "put" /\ pc' = [pc EXCEPT ![a] = "readback"]
      /\ results' = results \cup {<<a, Target(a)>>}
      /\ created' = [created EXCEPT ![a] = @ \cup {Target(a)}]
      /\ UNCHANGED <<workload, pos, baseline, evidence, outcome, db, orphanLog, faults>>
  BY DEF Put, Goto
<1>2. /\ workload[a] \in Workloads /\ Target(a)' = Target(a) /\ Target(a) \in Targets
      /\ pc'[a] = "readback" /\ created'[a] = created[a] \cup {Target(a)}
  BY <1>0, <1>1, ChainFacts DEF StageInv, Target, Targets, TypeOK
<1>3. TypeOK'
  <2>1. created' \in [Attempts -> SUBSET Targets] /\ results' \subseteq Attempts \X Targets
    BY <1>0, <1>1, <1>2 DEF TypeOK
  <2> QED BY <1>0, <1>1, <2>1 DEF TypeOK, db, Labels, Running
<1>4. Frame(a)
  <2>1. ASSUME NEW b \in Attempts \ {a}
        PROVE  /\ pc'[b] = pc[b] /\ created'[b] = created[b]
               /\ \A t \in Targets : <<b, t>> \in results' <=> <<b, t>> \in results
    BY <1>0, <1>1 DEF TypeOK
  <2> QED BY <1>1, <2>1 DEF Frame, db
<1>5. StageInv(a)'
  BY <1>0, <1>1, <1>2 DEF StageInv, Seeding, Running
<1>6. LocksInv(a)'
  BY <1>0, <1>1, <1>2, LocksStay DEF db, Running
<1>7. PairInv(a)'
  BY <1>0, <1>1 DEF PairInv, db
<1>8. ResultInv(a)'
  <2>1. \A t \in Targets : <<a, t>> \in results' <=> t \in created'[a]
    BY <1>0, <1>1, <1>2 DEF ResultInv, Open, Running
  <2> QED BY <1>0, <1>1, <1>2, <2>1 DEF ResultInv, StageInv, db, Open, Seeding, Running
<1> QED BY <1>1, <1>3, <1>4, <1>5, <1>6, <1>7, <1>8, StepOfOne DEF IInv, AttemptInv

LEMMA ReadBackKeeps ==
  ASSUME IInv, NEW a \in Attempts, ReadBack(a)
  PROVE  IInv'
<1>0. TypeOK /\ StageInv(a) /\ LocksInv(a) /\ PairInv(a) /\ ResultInv(a)
  BY DEF IInv, AttemptInv
<1>1. /\ pc[a] = "readback"
      /\ evidence' = [evidence EXCEPT ![a] = @ \cup {Target(a)}]
      /\ UNCHANGED <<workload, baseline, created, outcome, db, results, orphanLog, faults>>
  BY DEF ReadBack
<1>2. /\ workload[a] \in Workloads /\ pos[a] \in {1, 2} /\ Target(a) \in Targets
      /\ evidence'[a] = evidence[a] \cup {Target(a)}
  BY <1>0, <1>1, ChainFacts DEF StageInv, Target, Targets, TypeOK, Running
<1>3. \/ /\ pos[a] = 1 /\ pc' = [pc EXCEPT ![a] = "execute"]
         /\ pos' = [pos EXCEPT ![a] = 2]
      \/ pos[a] = 2 /\ pc' = [pc EXCEPT ![a] = "commit"] /\ pos' = pos
  BY <1>2 DEF ReadBack, Goto
<1>4. TypeOK'
  <2>1. evidence' \in [Attempts -> SUBSET Targets]
    BY <1>0, <1>1, <1>2 DEF TypeOK
  <2>2. pc' \in [Attempts -> Labels] /\ pos' \in [Attempts -> 1..3]
    BY <1>0, <1>3 DEF TypeOK, Labels, Running
  <2> QED BY <1>0, <1>1, <2>1, <2>2 DEF TypeOK, db
<1>5. Frame(a)
  <2>1. ASSUME NEW b \in Attempts \ {a}
        PROVE  pc'[b] = pc[b] /\ pos'[b] = pos[b] /\ evidence'[b] = evidence[b]
    BY <1>0, <1>1, <1>3 DEF TypeOK
  <2> QED BY <1>1, <2>1 DEF Frame, db
<1>6. pc'[a] \in Running /\ pc'[a] # "readback"
  BY <1>0, <1>3 DEF TypeOK, Running
<1>7. StageInv(a)'
  <2>1. CASE pos[a] = 1
    <3>1. /\ pc'[a] = "execute" /\ pos'[a] = 2
          /\ evidence'[a] = {Ground} /\ created'[a] = {Ground}
      BY <1>0, <1>1, <1>2, <1>3, <2>1 DEF StageInv, Target, TypeOK, Running
    <3> QED BY <1>0, <1>1, <1>2, <3>1 DEF StageInv, Running, Seeding
  <2>2. CASE pos[a] = 2
    <3>1. /\ pc'[a] = "commit" /\ pos'[a] = 2
          /\ evidence'[a] = TargetsOf(workload[a]) /\ created'[a] = TargetsOf(workload[a])
      BY <1>0, <1>1, <1>2, <1>3, <2>2 DEF StageInv, Target, TargetsOf, TypeOK, Running
    <3> QED BY <1>0, <1>1, <1>2, <3>1 DEF StageInv, Running, Seeding, TargetsOf
  <2> QED BY <1>2, <2>1, <2>2
<1>8. LocksInv(a)'
  BY <1>0, <1>1, <1>6, LocksStay DEF db, Running
<1>9. PairInv(a)'
  BY <1>0, <1>1 DEF PairInv, db
<1>10. ResultInv(a)'
  BY <1>0, <1>1, <1>6 DEF ResultInv, StageInv, db, Open, Seeding, Running
<1> QED BY <1>1, <1>4, <1>5, <1>7, <1>8, <1>9, <1>10, StepOfOne DEF IInv, AttemptInv

-----------------------------------------------------------------------------
(* The end of the transaction. *)

\* The commit takes effect; what the attempt is told decides where it goes on.
LEMMA CommittedKeeps ==
  ASSUME IInv, NEW a \in Attempts, pc[a] = "commit",
         Committed(a), writer' = Unlocked(a), NEW l \in {"serialize", "cleanup"},
         pc' = [pc EXCEPT ![a] = l], outcome' = outcome,
         l = "cleanup" => faults'["ack"] # 0,
         UNCHANGED <<local, results, orphanLog>>,
         faults' \in [FaultKinds -> Nat],
         \A f \in FaultKinds : faults'[f] = 0 => faults[f] = 0
  PROVE  IInv'
<1>0. TypeOK /\ StageInv(a) /\ LocksInv(a) /\ PairInv(a) /\ ResultInv(a)
  BY DEF IInv, AttemptInv
<1>1. /\ workload[a] \in Workloads /\ TargetsOf(workload[a]) \subseteq Targets
      /\ evidence[a] = TargetsOf(workload[a]) /\ created[a] = TargetsOf(workload[a])
      /\ \A i \in 1..3 : Chain(a)[i] \in Slugs
  BY <1>0, ChainFacts DEF StageInv
<1>2. /\ pc'[a] = l /\ Chain(a)' = Chain(a) /\ outcome[a] = "none"
      /\ workload' = workload /\ created' = created
  BY <1>0 DEF TypeOK, Chain, local, StageInv
<1>3. /\ pairs' = pairs \cup {a}
      /\ runs' = runs \cup ({a} \X TargetsOf(workload[a]))
      /\ catalog' = [s \in Slugs |-> IF writer[s] = a THEN "current" ELSE catalog[s]]
      /\ writer' = [s \in Slugs |-> IF writer[s] = a THEN NoAttempt ELSE writer[s]]
  BY <1>1 DEF Committed, Unlocked
<1>4. TypeOK'
  <2>1. runs' \subseteq Attempts \X Targets /\ pairs' \subseteq Attempts
    BY <1>0, <1>1, <1>3 DEF TypeOK
  <2>2. /\ catalog' \in [Slugs -> {"absent", "stale", "current"}]
        /\ writer' \in [Slugs -> Attempts \cup {NoAttempt}]
    BY <1>0, <1>3 DEF TypeOK
  <2>3. pc' \in [Attempts -> Labels]
    BY <1>0 DEF TypeOK, Labels
  <2> QED BY <1>0, <2>1, <2>2, <2>3 DEF TypeOK, local
<1>5. Frame(a)
  <2>1. ASSUME NEW b \in Attempts \ {a}
        PROVE  /\ pc'[b] = pc[b] /\ b \in pairs' <=> b \in pairs
               /\ \A t \in Targets : <<b, t>> \in runs' <=> <<b, t>> \in runs
               /\ \A s \in Slugs : writer'[s] = b <=> writer[s] = b
    BY <1>0, <1>3, NoneAssumption DEF TypeOK
  <2> QED BY <1>3, <2>1 DEF Frame, local
<1>6. StageInv(a)'
  BY <1>0, <1>1, <1>2 DEF StageInv, Seeding, Running
<1>7. LocksInv(a)'
  <2>1. \A s \in Slugs : writer'[s] # a
    BY <1>3, NoneAssumption
  <2> QED BY <1>2, <2>1 DEF LocksInv, Open, Seeding, Running
<1>8. \A t \in Targets : <<a, t>> \in results' <=> t \in TargetsOf(workload[a])
  BY <1>0, <1>1 DEF ResultInv, Open, Running
<1>9. \A t \in Targets : <<a, t>> \in runs' <=> t \in TargetsOf(workload[a])
  <2>1. \A t \in Targets : <<a, t>> \notin runs
    BY <1>0 DEF PairInv
  <2> QED BY <1>3, <2>1
<1>10. \A i \in 1..3 : catalog'[Chain(a)[i]] = "current"
  <2>1. Behind(a) = 1..3
    BY DEF Behind
  <2> QED BY <1>0, <1>1, <1>3, <2>1 DEF LocksInv, Open, Running
<1>11. PairInv(a)'
  BY <1>1, <1>2, <1>3, <1>8, <1>9, <1>10 DEF PairInv
<1>12. ResultInv(a)'
  BY <1>1, <1>2, <1>3, <1>8, <1>9 DEF ResultInv, Open, Seeding, Running
<1> QED BY <1>4, <1>5, <1>6, <1>7, <1>11, <1>12, StepOfOne DEF IInv, AttemptInv, FaultKinds

LEMMA CommitKeeps ==
  ASSUME IInv, NEW a \in Attempts, Commit(a) \/ CommitFails(a)
  PROVE  IInv'
<1>0. TypeOK /\ StageInv(a)
  BY DEF IInv, AttemptInv
<1>1. CASE Commit(a)
  BY <1>0, <1>1, CommittedKeeps DEF Commit, Goto, TypeOK
<1>2. CASE CommitFails(a)
  <2>1. CASE Fault("db") /\ UNCHANGED <<pairs, runs, catalog>>
    BY <1>0, <1>2, <2>1, AbortKeeps, FaultFacts, "db" \in FaultKinds
       DEF CommitFails, local, Open, Running, FaultKinds
  <2>2. CASE Fault("ack") /\ Committed(a)
    <3>1. created[a] # {}
      BY <1>0, <1>2 DEF CommitFails, StageInv, TargetsOf
    <3>2. /\ writer' = Unlocked(a) /\ outcome' = outcome
          /\ pc' = [pc EXCEPT ![a] = "cleanup"]
      BY <1>2, <3>1 DEF CommitFails, Abort, Goto
    <3> QED BY <1>0, <1>2, <2>2, <3>2, CommittedKeeps, FaultFacts, "ack" \in FaultKinds
            DEF CommitFails, FaultKinds
  <2> QED BY <1>2, <2>1, <2>2 DEF CommitFails
<1> QED BY <1>1, <1>2

LEMMA CleanupKeeps ==
  ASSUME IInv, NEW a \in Attempts, Cleanup(a) \/ CleanupFails(a)
  PROVE  IInv'
<1>0. TypeOK /\ StageInv(a) /\ LocksInv(a) /\ PairInv(a) /\ ResultInv(a)
  BY DEF IInv, AttemptInv
<1>1. PICK t \in Targets :
        /\ Forget(a, t)
        /\ \/ /\ results' = results \ {<<a, t>>} /\ orphanLog' = orphanLog
              /\ faults' = faults
           \/ /\ results' \in {results, results \ {<<a, t>>}}
              /\ orphanLog' = orphanLog \cup {<<a, t>>} /\ Fault("delete")
  BY DEF Cleanup, CleanupFails
<1>2. pc[a] = "cleanup" /\ UNCHANGED <<workload, pos, baseline, evidence, db>>
  BY DEF Cleanup, CleanupFails
<1>3. created' = [created EXCEPT ![a] = @ \ {t}]
  BY <1>1 DEF Forget
<1>4. \/ /\ created[a] = {t} /\ pc' = [pc EXCEPT ![a] = "done"]
         /\ outcome' = [outcome EXCEPT ![a] = "unavailable"]
      \/ pc' = pc /\ outcome' = outcome
  BY <1>1 DEF Forget, Answer, Goto
<1>5. /\ faults' \in [FaultKinds -> Nat]
      /\ \A f \in FaultKinds : faults'[f] = 0 => faults[f] = 0
      /\ faults'["delete"] = 0 => orphanLog' = orphanLog
  BY <1>0, <1>1, FaultFacts, "delete" \in FaultKinds DEF TypeOK, FaultKinds
<1>6. TypeOK'
  <2>1. created' \in [Attempts -> SUBSET Targets]
    BY <1>0, <1>3 DEF TypeOK
  <2>2. pc' \in [Attempts -> Labels] /\ outcome' \in [Attempts -> Outcomes]
    BY <1>0, <1>4 DEF TypeOK, Labels, Outcomes
  <2>3. results' \subseteq Attempts \X Targets /\ orphanLog' \subseteq Attempts \X Targets
    BY <1>0, <1>1 DEF TypeOK
  <2> QED BY <1>0, <1>2, <1>5, <2>1, <2>2, <2>3 DEF TypeOK, db
<1>7. Frame(a)
  <2>1. ASSUME NEW b \in Attempts \ {a}
        PROVE  pc'[b] = pc[b] /\ outcome'[b] = outcome[b] /\ created'[b] = created[b]
    BY <1>0, <1>3, <1>4 DEF TypeOK
  <2>2. ASSUME NEW b \in Attempts \ {a}, NEW u \in Targets
        PROVE  /\ <<b, u>> \in results' <=> <<b, u>> \in results
               /\ <<b, u>> \in orphanLog => <<b, u>> \in orphanLog'
    BY <1>1
  <2> QED BY <1>2, <1>5, <2>1, <2>2 DEF Frame, db
<1>8. \/ pc'[a] = "cleanup" /\ outcome'[a] = "none"
      \/ pc'[a] = "done" /\ outcome'[a] = "unavailable" /\ created[a] = {t}
  <2>1. pc[a] = "cleanup" /\ outcome[a] = "none"
    BY <1>0, <1>2 DEF StageInv
  <2> QED BY <1>0, <1>4, <2>1 DEF TypeOK
<1>9. StageInv(a)'
  BY <1>0, <1>2, <1>8 DEF StageInv, Seeding, Running
<1>10. LocksInv(a)'
  BY <1>0, <1>2, <1>8 DEF LocksInv, db, Open, Seeding, Running
<1>11. PairInv(a)'
  <2>1. a \in pairs => faults["ack"] # 0
    BY <1>0, <1>2 DEF PairInv
  <2>2. Chain(a)' = Chain(a)
    BY <1>2 DEF Chain
  <2> QED BY <1>0, <1>2, <1>5, <1>8, <2>1, <2>2 DEF PairInv, db, FaultKinds
<1>12. ResultInv(a)'
  <2>1. ASSUME faults'["put"] = 0, NEW u \in Targets, <<a, u>> \in results'
        PROVE  u \in created[a] \ {t} \/ <<a, u>> \in orphanLog'
    <3>1. u \in created[a] \/ <<a, u>> \in orphanLog
      BY <1>0, <1>1, <1>2, <1>5, <2>1 DEF ResultInv, FaultKinds
    <3>2. u = t => <<a, u>> \in orphanLog'
      BY <1>1, <2>1
    <3> QED BY <1>1, <3>1, <3>2
  <2>2. created'[a] = created[a] \ {t}
    BY <1>0, <1>3 DEF TypeOK
  <2>3. CASE pc'[a] = "cleanup" /\ outcome'[a] = "none"
    BY <2>1, <2>2, <2>3 DEF ResultInv, Open, Seeding, Running
  <2>4. CASE pc'[a] = "done" /\ outcome'[a] = "unavailable" /\ created[a] = {t}
    <3>1. \A u \in Targets :
            faults'["put"] = 0 /\ <<a, u>> \in results' => <<a, u>> \in orphanLog'
      BY <2>1, <2>4
    <3> QED BY <2>4, <3>1 DEF ResultInv, Open, Seeding, Running
  <2> QED BY <1>8, <2>3, <2>4
<1> QED BY <1>5, <1>6, <1>7, <1>9, <1>10, <1>11, <1>12, StepOfOne DEF IInv, AttemptInv, FaultKinds

LEMMA SerializeKeeps ==
  ASSUME IInv, NEW a \in Attempts, Serialize(a) \/ SerializeFails(a)
  PROVE  IInv'
<1>0. TypeOK /\ StageInv(a) /\ LocksInv(a) /\ PairInv(a) /\ ResultInv(a)
  BY DEF IInv, AttemptInv
<1>1. /\ pc[a] = "serialize" /\ a \in pairs /\ workload[a] \in Workloads
      /\ UNCHANGED <<local, db, results, orphanLog>>
  BY <1>0 DEF Serialize, SerializeFails, ResultInv, PairInv
<1>2. {t \in Targets : <<a, t>> \in runs} = TargetsOf(workload[a])
  BY <1>0, <1>1, ChainFacts DEF PairInv
<1>3. PICK answer \in {"created", "error"} :
        /\ pc' = [pc EXCEPT ![a] = "done"]
        /\ outcome' = [outcome EXCEPT ![a] = answer]
  BY <1>2 DEF Serialize, SerializeFails, Answer, Goto
<1>4. /\ faults' \in [FaultKinds -> Nat]
      /\ \A f \in FaultKinds : faults'[f] = 0 => faults[f] = 0
  BY <1>0, FaultFacts, "db" \in FaultKinds DEF Serialize, SerializeFails, TypeOK, FaultKinds
<1>5. TypeOK'
  <2>1. pc' \in [Attempts -> Labels] /\ outcome' \in [Attempts -> Outcomes]
    BY <1>0, <1>3 DEF TypeOK, Labels, Outcomes
  <2> QED BY <1>0, <1>1, <1>4, <2>1 DEF TypeOK, local, db
<1>6. Frame(a)
  <2>1. ASSUME NEW b \in Attempts \ {a} PROVE pc'[b] = pc[b] /\ outcome'[b] = outcome[b]
    BY <1>0, <1>3 DEF TypeOK
  <2> QED BY <1>1, <1>4, <2>1 DEF Frame, local, db
<1>7. pc'[a] = "done" /\ outcome'[a] = answer
  BY <1>0, <1>3 DEF TypeOK
<1>8. StageInv(a)'
  BY <1>0, <1>7 DEF StageInv, Seeding, Running
<1>9. LocksInv(a)'
  BY <1>0, <1>1, <1>7 DEF LocksInv, db, Open, Seeding, Running
<1>10. PairInv(a)'
  <2>1. Chain(a)' = Chain(a) /\ workload' = workload
    BY <1>1 DEF Chain, local
  <2> QED BY <1>0, <1>1, <1>4, <1>7, <2>1 DEF PairInv, db, FaultKinds
<1>11. ResultInv(a)'
  BY <1>0, <1>1, <1>7 DEF ResultInv, local, db, Open, Seeding, Running
<1> QED BY <1>1, <1>4, <1>5, <1>6, <1>8, <1>9, <1>10, <1>11, StepOfOne
        DEF IInv, AttemptInv, FaultKinds

\* A crash ends every attempt that is under way at once.
LEMMA CrashKeeps == IInv /\ Crash => IInv'
<1> SUFFICES ASSUME IInv, Crash PROVE IInv'
  OBVIOUS
<1>0. TypeOK
  BY DEF IInv
<1>1. /\ \A f \in FaultKinds : faults'[f] = 0 => faults[f] = 0
      /\ faults' \in [FaultKinds -> Nat] /\ faults'["crash"] # 0
  BY <1>0, FaultFacts, "crash" \in FaultKinds DEF Crash, FaultKinds
<1>2. /\ \A a \in Attempts : pc'[a] = IF pc[a] = "idle" THEN "idle" ELSE "done"
      /\ \A a \in Attempts : outcome'[a] = IF pc[a] \in {"idle", "done"} THEN outcome[a] ELSE "lost"
      /\ \A s \in Slugs : writer'[s] = NoAttempt
      /\ UNCHANGED <<local, catalog, pairs, runs, results, orphanLog>>
  BY DEF Crash
<1>3. TypeOK'
  <2>1. pc' \in [Attempts -> Labels] /\ outcome' \in [Attempts -> Outcomes]
    BY <1>0 DEF Crash, TypeOK, Labels, Outcomes
  <2>2. writer' \in [Slugs -> Attempts \cup {NoAttempt}]
    BY DEF Crash
  <2> QED BY <1>0, <1>1, <1>2, <2>1, <2>2 DEF TypeOK, local
<1>4. ASSUME NEW a \in Attempts PROVE AttemptInv(a)'
  <2>1. StageInv(a) /\ PairInv(a) /\ ResultInv(a)
    BY DEF IInv, AttemptInv
  <2>2. StageInv(a)'
    BY <1>2, <2>1 DEF StageInv, local, Seeding, Running
  <2>3. LocksInv(a)'
    BY <1>2, NoneAssumption DEF LocksInv, Open, Seeding, Running
  <2>4. Chain(a)' = Chain(a)
    BY <1>2 DEF Chain, local
  <2>5. PairInv(a)'
    BY <1>1, <1>2, <2>1, <2>4 DEF PairInv, local, FaultKinds
  <2>6. ResultInv(a)'
    BY <1>1, <1>2, <2>1 DEF ResultInv, StageInv, local, FaultKinds, Open, Seeding, Running
  <2> QED BY <2>2, <2>3, <2>5, <2>6 DEF AttemptInv
<1> QED BY <1>1, <1>2, <1>3, <1>4 DEF IInv, FaultKinds

LEMMA NextIInv == IInv /\ [Next]_vars => IInv'
<1> SUFFICES ASSUME IInv, [Next]_vars PROVE IInv'
  OBVIOUS
<1>1. ASSUME NEW a \in Attempts, RefuseInput(a) \/ Begin(a) \/ Step(a) \/ OverdueEnds(a)
      PROVE  IInv'
  BY <1>1, RefuseKeeps, BeginKeeps, SelectKeeps, WriteKeeps, InsertPairKeeps, FailureKeeps,
     RunKeeps, PutKeeps, ReadBackKeeps, CommitKeeps, CleanupKeeps, SerializeKeeps
     DEF Step, Work, Failure
<1>2. CASE UNCHANGED vars
  <2>1. UNCHANGED <<pc, workload, pos, baseline, created, evidence, outcome, catalog, writer,
                    pairs, runs, results, orphanLog, faults>>
    BY <1>2 DEF vars, local, db
  <2>2. TypeOK'
    BY <2>1 DEF IInv, TypeOK
  <2>3. ASSUME NEW a \in Attempts PROVE AttemptInv(a)'
    <3>1. Chain(a)' = Chain(a) /\ Behind(a)' = Behind(a) /\ Target(a)' = Target(a)
      BY <2>1 DEF Chain, Behind, Target
    <3>2. StageInv(a) /\ LocksInv(a) /\ PairInv(a) /\ ResultInv(a)
      BY DEF IInv, AttemptInv
    <3>3. StageInv(a)'
      BY <2>1, <3>1, <3>2 DEF StageInv
    <3>4. LocksInv(a)'
      BY <2>1, <3>1, <3>2 DEF LocksInv
    <3>5. PairInv(a)' /\ ResultInv(a)'
      BY <2>1, <3>1, <3>2 DEF PairInv, ResultInv
    <3> QED BY <3>3, <3>4, <3>5 DEF AttemptInv
  <2> QED BY <2>1, <2>2, <2>3 DEF IInv
<1> QED BY <1>1, <1>2, CrashKeeps DEF Next

LEMMA Inductive == Spec => []IInv
BY InitIInv, NextIInv, PTL DEF Spec

-----------------------------------------------------------------------------
\* The locals of run_benchmark_pair and the two stores keep their types.
THEOREM TypeCorrect == Spec => []TypeOK
<1>1. IInv => TypeOK
  BY DEF IInv
<1> QED BY <1>1, Inductive, PTL

\* commit of run_benchmark_pair: a pair is visible with both of its runs, their
\* results and its catalog rows, or not at all.
THEOREM PairsAreWhole == Spec => []PairsWhole
<1>1. IInv => PairsWhole
  <2> SUFFICES ASSUME IInv, NEW a \in pairs
               PROVE  /\ {t \in Targets : <<a, t>> \in runs} = TargetsOf(workload[a])
                      /\ faults["ack"] = 0 => {a} \X TargetsOf(workload[a]) \subseteq results
                      /\ \A i \in 1..3 : catalog[Chain(a)[i]] = "current"
    BY DEF PairsWhole
  <2>1. a \in Attempts /\ PairInv(a)
    BY DEF IInv, TypeOK, AttemptInv
  <2>2. TargetsOf(workload[a]) \subseteq Targets
    BY <2>1, ChainFacts DEF PairInv
  <2> QED BY <2>1, <2>2 DEF PairInv
<1> QED BY <1>1, Inductive, PTL

\* The rows behind an attempt are the ones it may have locked.
LEMMA ForwardIfInv == IInv => WaitsForward
<1> SUFFICES ASSUME IInv, NEW a \in Attempts, NEW b \in Attempts,
                    pc[a] \in {"insert", "update"}, pc[b] \in {"insert", "update"},
                    writer[Slug(a)] = b
             PROVE  pos[a] < pos[b]
  BY DEF WaitsForward
<1>1. /\ pos[a] \in 1..3 /\ pos[b] \in 1..3 /\ LocksInv(b)
      /\ workload[a] \in Workloads /\ workload[b] \in Workloads
  BY DEF IInv, AttemptInv, StageInv, TypeOK
<1>2. Slug(a) = Chain(a)[pos[a]] /\ Slug(a) \in Slugs
  BY <1>1, ChainFacts DEF Slug
<1>3. PICK i \in Behind(b) : Slug(a) = Chain(b)[i]
  BY <1>1, <1>2 DEF LocksInv
<1>4. i \in 1..3 /\ i < pos[b]
  BY DEF Behind
<1> QED BY <1>1, <1>2, <1>3, <1>4, ChainPlaces

\* _seed_catalog: an attempt waits only for one that is further in the catalog's
\* order.
THEOREM WaitsAreForward == Spec => []WaitsForward
BY ForwardIfInv, Inductive, PTL

\* The INSERT or UPDATE that a has to make waits for b's transaction.
WaitsFor(a, b) ==
  pc[a] \in {"insert", "update"} /\ a # b /\ writer[Slug(a)] = b

NoCircle == \A S \in SUBSET Attempts : S # {} => \E a \in S : \A b \in S : ~WaitsFor(a, b)

\* Concurrent run_benchmark_pair calls never deadlock on catalog rows: among any
\* attempts there is one that waits for none of the others, however many there
\* are.  A circle would climb past the last of the three places of a chain.
THEOREM WaitsHaveAnEnd == Spec => []NoCircle
<1>1. IInv => NoCircle
  <2> SUFFICES ASSUME IInv, WaitsForward, NEW S \in SUBSET Attempts, S # {},
                      \A a \in S : \E b \in S : WaitsFor(a, b)
               PROVE  FALSE
    BY ForwardIfInv DEF NoCircle
  <2>1. \A a \in S : pc[a] \in {"insert", "update"} /\ pos[a] \in 1..3
    <3>1. \A a \in Attempts : pos[a] \in 1..3
      BY DEF IInv, TypeOK
    <3> QED BY <3>1 DEF WaitsFor
  <2>2. \A a \in S : \E b \in S : pos[a] < pos[b]
    BY <2>1 DEF WaitsFor, WaitsForward
  <2>3. PICK a \in S : TRUE
    OBVIOUS
  <2>4. PICK b \in S : pos[a] < pos[b]
    BY <2>2
  <2>5. PICK c \in S : pos[b] < pos[c]
    BY <2>2
  <2>6. PICK d \in S : pos[c] < pos[d]
    BY <2>2
  <2> QED BY <2>1, <2>4, <2>5, <2>6
<1> QED BY <1>1, Inductive, PTL

\* "Benchmark pair failed atomically" is true but for the failures that hide what
\* they did.
THEOREM FailuresAreAtomic == Spec => []FailedAtomicallyIfKnown
<1>1. IInv => FailedAtomicallyIfKnown
  <2> SUFFICES ASSUME IInv, faults["ack"] = 0, faults["put"] = 0, faults["delete"] = 0,
                      NEW a \in Attempts, outcome[a] = "unavailable"
               PROVE  LeftNothing(a)
    BY DEF FailedAtomicallyIfKnown
  <2>1. PairInv(a) /\ ResultInv(a) /\ orphanLog = {}
    BY DEF IInv, AttemptInv
  <2>2. a \notin pairs /\ \A t \in Targets : <<a, t>> \notin runs
    BY <2>1 DEF PairInv
  <2>3. \A t \in Targets : <<a, t>> \notin results
    BY <2>1 DEF ResultInv
  <2> QED BY <2>2, <2>3 DEF LeftNothing
<1> QED BY <1>1, Inductive, PTL

\* created_keys and benchmark_orphan_result: no result object is forgotten but by
\* a failed PUT or a crash.
THEOREM ResultsAreAccounted == Spec => []ResultsAccounted
<1>1. IInv => ResultsAccounted
  <2> SUFFICES ASSUME IInv, faults["put"] = 0, faults["crash"] = 0,
                      NEW a \in Attempts, NEW t \in Targets, <<a, t>> \in results
               PROVE  \/ <<a, t>> \in runs \cup orphanLog
                      \/ pc[a] \in Running \cup {"cleanup"} /\ t \in created[a]
    BY DEF ResultsAccounted, IInv, TypeOK
  <2>1. StageInv(a) /\ ResultInv(a) /\ pc[a] \in Labels /\ outcome[a] \in Outcomes
    BY DEF IInv, AttemptInv, TypeOK
  <2>2. CASE pc[a] \in {"idle"} \cup Open
    <3>1. t \in created[a] /\ pc[a] \notin {"idle"} \cup Seeding
      BY <2>1, <2>2 DEF ResultInv, StageInv
    <3> QED BY <2>2, <3>1 DEF Open
  <2>3. CASE pc[a] = "cleanup"
    BY <2>1, <2>3 DEF ResultInv
  <2>4. CASE pc[a] = "serialize"
    BY <2>1, <2>4 DEF ResultInv
  <2>5. CASE pc[a] = "done"
    <3>1. outcome[a] \in {"created", "error", "refused", "unavailable"}
      BY <2>1, <2>5 DEF StageInv, ResultInv, Outcomes
    <3> QED BY <2>1, <3>1 DEF ResultInv
  <2> QED BY <2>1, <2>2, <2>3, <2>4, <2>5 DEF Labels, Open
<1> QED BY <1>1, Inductive, PTL
=============================================================================
