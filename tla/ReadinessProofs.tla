---------------------------- MODULE ReadinessProofs ----------------------------
(***************************************************************************)
(* The shared pools of the readiness checks, for any requests, any panels, *)
(* any number of threads and of connections and any timeout: their types,  *)
(* and what is behind an alarm.  What makes them inductive: no check is    *)
(* queued twice, a request has at most one check beside the one it waits   *)
(* for, the clock of a check starts at zero, and that of a run that        *)
(* nothing hindered stops at Quick.                                        *)
(***************************************************************************)
EXTENDS Readiness, FiniteSetTheorems, TLAPS

Elements(q) == {q[i] : i \in DOMAIN q}
NoneTwice(q) == \A i, j \in DOMAIN q : q[i] = q[j] => i = j

TypeInv ==
  /\ up \subseteq Deps
  /\ at \in [Requests -> {"idle"} \cup Deps]
  /\ failing \subseteq Checks
  /\ state \in [Checks -> {"none", "queued", "running", "ok", "raised", "cancelled"}]
  /\ queue \in Seq(Checks)
  /\ clock \in [Checks -> [waited : 0..Patience, ran : 0..Patience]]
  /\ hurt \subseteq Checks /\ blocked \subseteq Checks

QueueInv ==
  /\ NoneTwice(queue)
  /\ \A c \in Checks : state[c] \in {"queued", "cancelled"} <=> c \in Elements(queue)

PoolInv == IsFiniteSet(Running) /\ Cardinality(Running) <= PoolSize

\* A check whose result is to be fetched is awaited, and one that raised was hurt.
FutureInv ==
  \A c \in Checks :
    /\ state[c] \in {"queued", "ok", "raised"} => Awaited(c)
    /\ Awaited(c) => state[c] \notin {"none", "cancelled"}
    /\ state[c] = "raised" => c \in hurt

\* A request that waits for PostgreSQL has no other check; a readiness request
\* that waits for MinIO has none, for it goes on only when PostgreSQL is ready.
RequestInv ==
  \A r \in Requests :
    /\ at[r] = "postgresql" => state[<<r, "minio">>] = "none"
    /\ (at[r] = "minio" /\ r \notin Panels) => state[<<r, "postgresql">>] = "none"

\* Connections are held by running checks and by others.
ConnInv ==
  /\ linked \subseteq Running /\ IsFiniteSet(linked)
  /\ others \in Nat /\ others + Cardinality(linked) <= Conns

\* No run is counted before it starts, and none is left from an earlier request;
\* the first check of a request keeps its clock until the second has ended.
ClockInv ==
  \A c \in Checks :
    /\ state[c] = "running" /\ c \notin hurt => clock[c].ran <= Quick
    /\ state[c] \in {"queued", "cancelled"} => clock[c].ran = 0
    /\ state[c] = "none" => clock[c] = Zero \/ (at[c[1]] = "minio" /\ c[2] = "postgresql")

PoolsInv == TypeInv /\ QueueInv /\ PoolInv /\ FutureInv /\ RequestInv
IInv == PoolsInv /\ ConnInv /\ ClockInv

-----------------------------------------------------------------------------
\* The head of a queue leaves it, and nothing else does.
LEMMA TailFacts ==
  ASSUME NEW S, NEW q \in Seq(S), q # <<>>, NoneTwice(q)
  PROVE  /\ Tail(q) \in Seq(S) /\ NoneTwice(Tail(q)) /\ Head(q) \in S
         /\ Head(q) \in Elements(q)
         /\ Elements(Tail(q)) = Elements(q) \ {Head(q)}
<1>1. /\ Len(q) \in Nat \ {0} /\ DOMAIN q = 1..Len(q)
      /\ Tail(q) \in Seq(S) /\ Len(Tail(q)) = Len(q) - 1
      /\ DOMAIN Tail(q) = 1..(Len(q) - 1)
      /\ \A i \in 1..(Len(q) - 1) : Tail(q)[i] = q[i + 1]
      /\ Head(q) = q[1] /\ Head(q) \in S
  OBVIOUS
<1>2. NoneTwice(Tail(q))
  <2> SUFFICES ASSUME NEW i \in 1..(Len(q) - 1), NEW j \in 1..(Len(q) - 1),
                      Tail(q)[i] = Tail(q)[j]
               PROVE  i = j
    BY <1>1 DEF NoneTwice
  <2>1. i + 1 \in 1..Len(q) /\ j + 1 \in 1..Len(q) /\ q[i + 1] = q[j + 1]
    BY <1>1
  <2> QED BY <2>1, <1>1 DEF NoneTwice
<1>3. Head(q) \in Elements(q)
  BY <1>1 DEF Elements
<1>4. ASSUME NEW x \in Elements(Tail(q))
      PROVE  x \in Elements(q) \ {Head(q)}
  <2>1. PICK i \in 1..(Len(q) - 1) : x = Tail(q)[i]
    BY <1>1 DEF Elements
  <2>2. i + 1 \in 1..Len(q) /\ x = q[i + 1] /\ i + 1 # 1 /\ 1 \in 1..Len(q)
    BY <2>1, <1>1
  <2> QED BY <2>2, <1>1 DEF Elements, NoneTwice
<1>5. ASSUME NEW x \in Elements(q), x # Head(q)
      PROVE  x \in Elements(Tail(q))
  <2>1. PICK i \in 1..Len(q) : x = q[i]
    BY <1>1 DEF Elements
  <2>2. i - 1 \in 1..(Len(q) - 1) /\ (i - 1) + 1 = i
    BY <2>1, <1>5, <1>1
  <2>3. Tail(q)[i - 1] = x
    BY <2>1, <2>2, <1>1
  <2> QED BY <2>2, <2>3, <1>1 DEF Elements
<1> QED BY <1>1, <1>2, <1>3, <1>4, <1>5

\* What enters a queue is in it beside the others.
LEMMA AppendFacts ==
  ASSUME NEW S, NEW q \in Seq(S), NEW x \in S, NoneTwice(q), x \notin Elements(q)
  PROVE  /\ Append(q, x) \in Seq(S) /\ NoneTwice(Append(q, x))
         /\ Elements(Append(q, x)) = Elements(q) \cup {x}
<1> DEFINE Q == Append(q, x)
<1>1. /\ Len(q) \in Nat /\ DOMAIN q = 1..Len(q)
      /\ Q \in Seq(S) /\ DOMAIN Q = 1..(Len(q) + 1)
      /\ \A i \in 1..Len(q) : Q[i] = q[i]
      /\ Q[Len(q) + 1] = x
      /\ \A i \in 1..(Len(q) + 1) : i \in 1..Len(q) \/ i = Len(q) + 1
      /\ 1..Len(q) \subseteq 1..(Len(q) + 1) /\ Len(q) + 1 \in 1..(Len(q) + 1)
  OBVIOUS
<1> HIDE DEF Q
<1>2. NoneTwice(Q)
  BY <1>1 DEF NoneTwice, Elements
<1>3. Elements(Q) = Elements(q) \cup {x}
  BY <1>1 DEF Elements
<1> QED BY <1>1, <1>2, <1>3 DEF Q

\* A queue without repetitions is as long as it has elements.
LEMMA LengthFacts ==
  ASSUME NEW S, NEW q \in Seq(S), NoneTwice(q)
  PROVE  Len(q) = Cardinality(Elements(q))
<1>1. Len(q) \in Nat /\ DOMAIN q = 1..Len(q)
  OBVIOUS
<1>2. q \in [1..Len(q) -> Elements(q)]
  BY <1>1 DEF Elements
<1>3. q \in Bijection(1..Len(q), Elements(q))
  BY <1>1, <1>2 DEF Bijection, Injection, Surjection, Elements, NoneTwice, IsInjective
<1>4. ExistsBijection(1..Len(q), Elements(q))
  BY <1>3 DEF ExistsBijection
<1>5. IsFiniteSet(1..Len(q)) /\ Cardinality(1..Len(q)) = Len(q)
  <2> DEFINE n == Len(q)
  <2>1. n \in Nat
    BY <1>1
  <2> HIDE DEF n
  <2>2. IsFiniteSet(1..n) /\ Cardinality(1..n) = n
    BY <2>1, FS_Interval
  <2> QED BY <2>2 DEF n
<1> QED BY <1>4, <1>5, FS_Bijection

LEMMA CheckFacts ==
  /\ \A c \in Checks : c[1] \in Requests /\ c[2] \in Deps /\ c = <<c[1], c[2]>>
  /\ \A r \in Requests, d \in Deps : <<r, d>> \in Checks /\ <<r, d>>[1] = r /\ <<r, d>>[2] = d
  /\ Deps = {"postgresql", "minio"} /\ "idle" \notin Deps
BY DEF Checks, Deps

\* The checks of another request are other checks.
LEMMA OthersDiffer ==
  ASSUME NEW q \in Requests, NEW d \in Deps, NEW c \in Checks, c[1] # q
  PROVE  <<q, d>> \in Checks /\ <<q, d>> # c
<1>1. <<q, d>> \in Checks /\ <<q, d>>[1] = q
  BY CheckFacts
<1>2. <<q, d>> # c
  <2> SUFFICES ASSUME <<q, d>> = c PROVE FALSE
    OBVIOUS
  <2> QED BY <1>1
<1> QED BY <1>1, <1>2

-----------------------------------------------------------------------------
LEMMA InitPools == Init => PoolsInv
<1> SUFFICES ASSUME Init PROVE PoolsInv
  OBVIOUS
<1>1. TypeInv
  BY PoolAssumption DEF Init, TypeInv, Zero
<1>2. QueueInv
  BY DEF Init, QueueInv, NoneTwice, Elements
<1>3. PoolInv
  <2>1. Running = {}
    BY DEF Init, Running
  <2> QED BY <2>1, FS_EmptySet, PoolAssumption DEF PoolInv
<1>4. FutureInv /\ RequestInv
  BY CheckFacts DEF Init, FutureInv, RequestInv, Awaited
<1> QED BY <1>1, <1>2, <1>3, <1>4 DEF PoolsInv

\* Threads that end leave the pool within its bound.
LEMMA PoolShrinks ==
  ASSUME PoolInv, Running' \subseteq Running
  PROVE  PoolInv'
<1>1. IsFiniteSet(Running') /\ Cardinality(Running') <= Cardinality(Running)
  BY FS_Subset DEF PoolInv
<1>2. Cardinality(Running') \in Nat /\ Cardinality(Running) \in Nat
  BY <1>1, FS_CardinalityType DEF PoolInv
<1> QED BY <1>1, <1>2, PoolAssumption DEF PoolInv

\* What the surroundings do leaves requests, futures and threads alone.
Surroundings == \/ \E d \in Deps : GoDown(d) \/ ComeUp(d)
                \/ OthersTake \/ OthersReturn \/ Tick
                \/ \E c \in Checks : Connect(c)

LEMMA LaterFacts == \A t \in 0..Patience : Later(t) \in 0..Patience /\ Later(t) <= t + 1
BY PoolAssumption DEF Later

LEMMA SurroundingsKeep ==
  ASSUME PoolsInv, Surroundings
  PROVE  PoolsInv'
<1>1. /\ UNCHANGED <<at, failing, state, queue>>
      /\ hurt \subseteq hurt' /\ hurt' \subseteq Checks
      /\ blocked' \subseteq Checks /\ up' \subseteq Deps
  BY DEF PoolsInv, TypeInv, Surroundings, GoDown, ComeUp, OthersTake, OthersReturn,
         Tick, Connect, Running, Starved
<1>2. clock' \in [Checks -> [waited : 0..Patience, ran : 0..Patience]]
  <2>1. CASE Tick
    <3> SUFFICES ASSUME NEW c \in Checks
                 PROVE  /\ [clock[c] EXCEPT !.waited = Later(@)]
                              \in [waited : 0..Patience, ran : 0..Patience]
                        /\ [clock[c] EXCEPT !.ran = Later(@)]
                              \in [waited : 0..Patience, ran : 0..Patience]
      BY <2>1 DEF Tick, PoolsInv, TypeInv
    <3> QED BY LaterFacts DEF PoolsInv, TypeInv
  <2>2. CASE ~Tick
    BY <2>2 DEF PoolsInv, TypeInv, Surroundings, GoDown, ComeUp, OthersTake, OthersReturn,
                Connect
  <2> QED BY <2>1, <2>2
<1>3. TypeInv' /\ QueueInv' /\ FutureInv' /\ RequestInv'
  BY <1>1, <1>2 DEF PoolsInv, TypeInv, QueueInv, FutureInv, RequestInv, Awaited
<1>4. PoolInv'
  BY <1>1 DEF PoolsInv, PoolInv, Running
<1> QED BY <1>3, <1>4 DEF PoolsInv

LEMMA ArriveKeeps ==
  ASSUME PoolsInv, NEW r \in Requests, Arrive(r)
  PROVE  PoolsInv'
<1> DEFINE c == <<r, "postgresql">>
<1>1. /\ c \in Checks /\ c[1] = r /\ c[2] = "postgresql"
      /\ at[r] = "idle" /\ state[c] = "none" /\ state[<<r, "minio">>] = "none"
      /\ at' = [at EXCEPT ![r] = "postgresql"]
      /\ state' = [state EXCEPT ![c] = "queued"]
      /\ queue' = Append(queue, c)
      /\ failing' \subseteq failing /\ UNCHANGED <<up, clock, hurt, blocked>>
  BY CheckFacts DEF Arrive, Submit
<1> HIDE DEF c
<1>2. c \notin Elements(queue)
  BY <1>1 DEF PoolsInv, QueueInv
<1>3. /\ queue' \in Seq(Checks) /\ NoneTwice(queue')
      /\ Elements(queue') = Elements(queue) \cup {c}
  BY <1>1, <1>2, AppendFacts DEF PoolsInv, TypeInv, QueueInv
<1>4. /\ state'[c] = "queued"
      /\ \A e \in Checks \ {c} : state'[e] = state[e]
  BY <1>1 DEF PoolsInv, TypeInv
<1>5. TypeInv'
  BY <1>1, <1>3, CheckFacts DEF PoolsInv, TypeInv
<1>6. QueueInv'
  BY <1>3, <1>4 DEF PoolsInv, QueueInv
<1>7. PoolInv'
  <2>1. Running' \subseteq Running
    BY <1>4 DEF Running
  <2> QED BY <2>1, PoolShrinks DEF PoolsInv
<1>8. at'[r] = "postgresql" /\ \A q \in Requests \ {r} : at'[q] = at[q]
  BY <1>1 DEF PoolsInv, TypeInv
<1>9. FutureInv'
  <2> SUFFICES ASSUME NEW e \in Checks
               PROVE  /\ state'[e] \in {"queued", "ok", "raised"} => at'[e[1]] = e[2]
                      /\ at'[e[1]] = e[2] => state'[e] \notin {"none", "cancelled"}
                      /\ state'[e] = "raised" => e \in hurt'
    BY DEF FutureInv, Awaited
  <2>1. CASE e = c
    BY <2>1, <1>1, <1>4, <1>8
  <2>2. CASE e = <<r, "minio">>
    BY <2>2, <1>1, <1>4, <1>8, CheckFacts
  <2>3. CASE e[1] # r
    BY <2>3, <1>1, <1>4, <1>8, CheckFacts DEF PoolsInv, FutureInv, Awaited
  <2> QED BY <2>1, <2>2, <2>3, CheckFacts DEF c
<1>10. RequestInv'
  <2>1. \A q \in Requests \ {r} : /\ state'[<<q, "minio">>] = state[<<q, "minio">>]
                                  /\ state'[<<q, "postgresql">>] = state[<<q, "postgresql">>]
    <3>1. \A q \in Requests \ {r}, d \in Deps : <<q, d>> \in Checks \ {c}
      BY <1>1, OthersDiffer
    <3> QED BY <3>1, <1>4, CheckFacts
  <2>2. state'[<<r, "minio">>] = "none"
    BY <1>1, <1>4, CheckFacts
  <2> QED BY <2>1, <2>2, <1>8 DEF PoolsInv, RequestInv
<1> QED BY <1>5, <1>6, <1>7, <1>9, <1>10 DEF PoolsInv

\* What is forgotten leaves sets of checks and a clock at zero.
LEMMA ForgetFacts ==
  ASSUME TypeInv, NEW c \in Checks, Forget(c)
  PROVE  /\ clock' \in [Checks -> [waited : 0..Patience, ran : 0..Patience]]
         /\ hurt' \subseteq Checks /\ blocked' \subseteq Checks
<1>1. Zero \in [waited : 0..Patience, ran : 0..Patience]
  BY PoolAssumption DEF Zero
<1> QED BY <1>1 DEF TypeInv, Forget

LEMMA StartKeeps ==
  ASSUME PoolsInv, Start
  PROVE  PoolsInv'
<1> DEFINE c == Head(queue)
<1>1. /\ queue # <<>> /\ Cardinality(Running) < PoolSize
      /\ queue' = Tail(queue)
      /\ Take(c)
      /\ UNCHANGED <<up, at, failing>>
  BY DEF Start, Take
<1>2. /\ c \in Checks /\ c \in Elements(queue)
      /\ queue' \in Seq(Checks) /\ NoneTwice(queue')
      /\ Elements(queue') = Elements(queue) \ {c}
  BY <1>1, TailFacts DEF PoolsInv, TypeInv, QueueInv
<1> HIDE DEF c
<1>3. state[c] \in {"queued", "cancelled"}
  BY <1>2 DEF PoolsInv, QueueInv
<1>4. /\ state' = [state EXCEPT ![c] = IF state[c] = "queued" THEN "running" ELSE "none"]
      /\ state'[c] = IF state[c] = "queued" THEN "running" ELSE "none"
      /\ \A e \in Checks \ {c} : state'[e] = state[e] /\ (e \in hurt => e \in hurt')
  BY <1>1, <1>2 DEF PoolsInv, TypeInv, Take, Forget
<1>5. TypeInv'
  <2>1. /\ clock' \in [Checks -> [waited : 0..Patience, ran : 0..Patience]]
        /\ hurt' \subseteq Checks /\ blocked' \subseteq Checks
    <3>1. CASE Forget(c)
      BY <3>1, <1>2, ForgetFacts DEF PoolsInv
    <3>2. CASE hurt' \subseteq hurt \cup {c} /\ UNCHANGED <<clock, blocked>>
      BY <3>2, <1>2 DEF PoolsInv, TypeInv
    <3> QED BY <3>1, <3>2, <1>1 DEF Take
  <2> QED BY <2>1, <1>1, <1>2, <1>4 DEF PoolsInv, TypeInv
<1>6. QueueInv'
  BY <1>2, <1>4 DEF PoolsInv, QueueInv
<1>7. PoolInv'
  <2>1. Running' \subseteq Running \cup {c}
    BY <1>4 DEF Running
  <2>2. /\ IsFiniteSet(Running \cup {c})
        /\ Cardinality(Running \cup {c}) <= Cardinality(Running) + 1
        /\ Cardinality(Running) \in Nat
    BY FS_AddElement, FS_CardinalityType DEF PoolsInv, PoolInv
  <2>3. /\ IsFiniteSet(Running')
        /\ Cardinality(Running') <= Cardinality(Running \cup {c})
        /\ Cardinality(Running') \in Nat
        /\ Cardinality(Running \cup {c}) \in Nat
    BY <2>1, <2>2, FS_Subset, FS_CardinalityType
  <2> QED BY <2>2, <2>3, <1>1, PoolAssumption DEF PoolInv
<1>8. FutureInv'
  BY <1>1, <1>2, <1>3, <1>4 DEF PoolsInv, FutureInv, Awaited
<1>9. RequestInv'
  <2>1. \A e \in Checks : state[e] = "none" => state'[e] = "none"
    BY <1>3, <1>4
  <2> QED BY <2>1, <1>1, CheckFacts DEF PoolsInv, RequestInv
<1> QED BY <1>5, <1>6, <1>7, <1>8, <1>9 DEF PoolsInv

LEMMA EndKeeps ==
  ASSUME PoolsInv, NEW c \in Checks, Succeed(c) \/ Raise(c)
  PROVE  PoolsInv'
<1>1. /\ state[c] = "running"
      /\ \E outcome \in {"ok", "raised"} :
           /\ outcome = "raised" => c \in hurt
           /\ state' = [state EXCEPT ![c] = IF Awaited(c) THEN outcome ELSE "none"]
      /\ IF Awaited(c) THEN UNCHANGED <<clock, hurt, blocked>> ELSE Forget(c)
      /\ UNCHANGED <<up, at, failing, queue>>
  BY DEF Succeed, Raise, End, Running
<1>2. /\ state'[c] \in {"none", "ok", "raised"}
      /\ state'[c] \in {"ok", "raised"} <=> Awaited(c)
      /\ state'[c] = "raised" => c \in hurt'
      /\ \A e \in Checks \ {c} : state'[e] = state[e]
      /\ state' \in [Checks -> {"none", "queued", "running", "ok", "raised", "cancelled"}]
      /\ Awaited(c)' <=> Awaited(c)
      /\ hurt \ {c} \subseteq hurt'
  BY <1>1 DEF PoolsInv, TypeInv, Awaited, Forget
<1>3. TypeInv'
  <2>1. /\ clock' \in [Checks -> [waited : 0..Patience, ran : 0..Patience]]
        /\ hurt' \subseteq Checks /\ blocked' \subseteq Checks
    BY <1>1, ForgetFacts DEF PoolsInv, TypeInv
  <2> QED BY <2>1, <1>1, <1>2 DEF PoolsInv, TypeInv
<1>4. QueueInv'
  BY <1>1, <1>2 DEF PoolsInv, QueueInv
<1>5. PoolInv'
  <2>1. Running' \subseteq Running
    BY <1>1, <1>2 DEF Running
  <2> QED BY <2>1, PoolShrinks DEF PoolsInv
<1>6. FutureInv'
  BY <1>1, <1>2 DEF PoolsInv, FutureInv, Awaited
<1>7. RequestInv'
  <2>1. \A e \in Checks : state[e] = "none" => state'[e] = "none"
    BY <1>1, <1>2
  <2>2. \A r \in Requests : <<r, "minio">> \in Checks /\ <<r, "postgresql">> \in Checks
    BY CheckFacts
  <2>3. at' = at
    BY <1>1
  <2> QED BY <2>1, <2>2, <2>3 DEF PoolsInv, RequestInv
<1> QED BY <1>3, <1>4, <1>5, <1>6, <1>7 DEF PoolsInv

-----------------------------------------------------------------------------
\* How the future of the check a request waited for is left: fetched, cancelled
\* in the queue, or running on once its time is over.
Left(c, ok, f) ==
  \/ state[c] \in {"ok", "raised"} /\ ok = (state[c] = "ok") /\ f = "none"
  \/ state[c] = "queued" /\ ok = FALSE /\ f = "cancelled"
  \/ state[c] = "running" /\ Due(c) /\ ok = FALSE /\ f = "running"

\* The verdict on one dependency, with what follows it: the check of the other
\* one or the answer.
LEMMA ReportKeeps ==
  ASSUME PoolsInv, NEW r \in Requests, NEW c \in Checks, c[1] = r, Awaited(c),
         NEW ok \in BOOLEAN, NEW f, Left(c, ok, f), Report(r, c, ok, f)
  PROVE  PoolsInv'
<1> DEFINE futures == [state EXCEPT ![c] = f]
           m       == <<r, "minio">>
<1>1. /\ failing' = IF ok THEN failing ELSE failing \cup {c}
      /\ IF c[2] = "postgresql" /\ (ok \/ r \in Panels)
         THEN Submit(r, "minio", futures)
         ELSE at' = [at EXCEPT ![r] = "idle"] /\ state' = futures /\ UNCHANGED queue
      /\ up' = up
  BY DEF Report
<1>2. /\ futures \in [Checks -> {"none", "queued", "running", "ok", "raised", "cancelled"}]
      /\ futures[c] = f /\ \A e \in Checks \ {c} : futures[e] = state[e]
      /\ f \in {"none", "cancelled", "running"}
      /\ f = "running" <=> state[c] = "running"
      /\ f = "cancelled" <=> state[c] = "queued"
  BY DEF PoolsInv, TypeInv, Left
<1>3. /\ hurt' \subseteq Checks /\ hurt \subseteq hurt' \cup {c} /\ blocked' \subseteq Checks
      /\ clock' \in [Checks -> [waited : 0..Patience, ran : 0..Patience]]
  BY PoolAssumption DEF PoolsInv, TypeInv, Report, Zero
<1>4. /\ at[r] = c[2] /\ c[2] \in Deps /\ c = <<r, c[2]>>
      /\ m \in Checks /\ m[1] = r /\ m[2] = "minio"
  BY CheckFacts DEF Awaited
<1> HIDE DEF futures, m
<1>5. \A e \in Checks : futures[e] \in {"queued", "cancelled"} <=> e \in Elements(queue)
  BY <1>2 DEF PoolsInv, QueueInv, Left
<1>6. CASE c[2] = "postgresql" /\ (ok \/ r \in Panels)
  <2>1. /\ at' = [at EXCEPT ![r] = "minio"]
        /\ state' = [futures EXCEPT ![m] = "queued"]
        /\ queue' = Append(queue, m)
    BY <1>1, <1>6 DEF Submit, m
  <2>2. c # m /\ state[m] = "none" /\ futures[m] = "none"
    <3>1. state[m] = "none"
      BY <1>4, <1>6 DEF PoolsInv, RequestInv, m
    <3> QED BY <3>1, <1>2, <1>4, <1>6
  <2>3. m \notin Elements(queue)
    BY <2>2, <1>4, <1>5
  <2>4. /\ queue' \in Seq(Checks) /\ NoneTwice(queue')
        /\ Elements(queue') = Elements(queue) \cup {m}
    BY <2>1, <2>3, <1>4, AppendFacts DEF PoolsInv, TypeInv, QueueInv
  <2>5. /\ state'[m] = "queued" /\ state'[c] = f
        /\ \A e \in Checks \ {c, m} : state'[e] = state[e]
        /\ \A e \in Checks \ {m} : state'[e] = futures[e]
        /\ state' \in [Checks -> {"none", "queued", "running", "ok", "raised", "cancelled"}]
    BY <2>1, <2>2, <1>2, <1>4
  <2>6. at'[r] = "minio" /\ \A q \in Requests \ {r} : at'[q] = at[q]
    BY <2>1 DEF PoolsInv, TypeInv
  <2>7. TypeInv'
    BY <2>1, <2>4, <2>5, <1>1, <1>3, <1>4, CheckFacts DEF PoolsInv, TypeInv
  <2>8. QueueInv'
    BY <2>4, <2>5, <1>4, <1>5 DEF QueueInv
  <2>9. PoolInv'
    <3>1. Running' \subseteq Running
      BY <2>5, <1>2 DEF Running
    <3> QED BY <3>1, PoolShrinks DEF PoolsInv
  <2>10. FutureInv'
    <3> SUFFICES ASSUME NEW e \in Checks
                 PROVE  /\ state'[e] \in {"queued", "ok", "raised"} => at'[e[1]] = e[2]
                        /\ at'[e[1]] = e[2] => state'[e] \notin {"none", "cancelled"}
                        /\ state'[e] = "raised" => e \in hurt'
      BY DEF FutureInv, Awaited
    <3>1. CASE e = m
      BY <3>1, <2>5, <2>6, <1>4
    <3>2. CASE e = c
      BY <3>2, <2>5, <2>6, <1>2, <1>4, <1>6
    <3>3. CASE e[1] # r
      <4>1. e # c /\ e # m /\ e[1] \in Requests
        BY <3>3, <1>4, CheckFacts
      <4>2. state'[e] = state[e] /\ at'[e[1]] = at[e[1]] /\ (e \in hurt => e \in hurt')
        BY <4>1, <3>3, <2>5, <2>6, <1>3
      <4> QED BY <4>2 DEF PoolsInv, FutureInv, Awaited
    <3>4. e[1] = r => e = m \/ e = c
      BY <1>4, <1>6, CheckFacts DEF m
    <3> QED BY <3>1, <3>2, <3>3, <3>4
  <2>11. RequestInv'
    <3>1. \A q \in Requests \ {r}, d \in Deps : <<q, d>> \in Checks \ {c, m}
      BY <1>4, OthersDiffer
    <3>2. \A q \in Requests \ {r}, d \in Deps : state'[<<q, d>>] = state[<<q, d>>]
      BY <3>1, <2>5
    <3>3. r \notin Panels => state'[<<r, "postgresql">>] = "none"
      <4>1. r \notin Panels => f = "none"
        BY <1>6 DEF Left
      <4> QED BY <4>1, <2>5, <1>4, <1>6
    <3>4. /\ "postgresql" \in Deps /\ "minio" \in Deps
          /\ at'[r] # "postgresql"
      BY <2>6, CheckFacts
    <3> QED BY <3>2, <3>3, <3>4, <2>6 DEF PoolsInv, RequestInv
  <2> QED BY <2>7, <2>8, <2>9, <2>10, <2>11 DEF PoolsInv
<1>7. CASE ~(c[2] = "postgresql" /\ (ok \/ r \in Panels))
  <2>1. /\ at' = [at EXCEPT ![r] = "idle"]
        /\ state' = futures /\ queue' = queue
    BY <1>1, <1>7
  <2>2. at'[r] = "idle" /\ \A q \in Requests \ {r} : at'[q] = at[q]
    BY <2>1 DEF PoolsInv, TypeInv
  <2>3. TypeInv'
    BY <2>1, <1>1, <1>2, <1>3 DEF PoolsInv, TypeInv
  <2>4. QueueInv'
    BY <2>1, <1>5 DEF PoolsInv, QueueInv
  <2>5. PoolInv'
    <3>1. Running' \subseteq Running
      BY <2>1, <1>2 DEF Running
    <3> QED BY <3>1, PoolShrinks DEF PoolsInv
  <2>6. FutureInv'
    <3> SUFFICES ASSUME NEW e \in Checks
                 PROVE  /\ state'[e] \in {"queued", "ok", "raised"} => at'[e[1]] = e[2]
                        /\ at'[e[1]] = e[2] => state'[e] \notin {"none", "cancelled"}
                        /\ state'[e] = "raised" => e \in hurt'
      BY DEF FutureInv, Awaited
    <3>1. CASE e = c
      BY <3>1, <2>1, <2>2, <1>2, <1>4, CheckFacts
    <3>2. CASE e # c /\ e[1] = r
      <4>1. state'[e] = state[e] /\ ~Awaited(e)
        BY <3>2, <2>1, <1>2, <1>4, CheckFacts DEF Awaited
      <4> QED BY <4>1, <3>2, <2>2, CheckFacts DEF PoolsInv, FutureInv
    <3>3. CASE e[1] # r
      BY <3>3, <2>1, <2>2, <1>2, <1>3, <1>4, CheckFacts DEF PoolsInv, FutureInv, Awaited
    <3> QED BY <3>1, <3>2, <3>3
  <2>7. RequestInv'
    <3>1. \A q \in Requests \ {r}, d \in Deps : <<q, d>> \in Checks \ {c}
      BY OthersDiffer
    <3>2. \A q \in Requests \ {r}, d \in Deps : state'[<<q, d>>] = state[<<q, d>>]
      BY <3>1, <2>1, <1>2
    <3>3. "postgresql" \in Deps /\ "minio" \in Deps
      BY CheckFacts
    <3> QED BY <3>2, <3>3, <2>2 DEF PoolsInv, RequestInv
  <2> QED BY <2>3, <2>4, <2>5, <2>6, <2>7 DEF PoolsInv
<1> QED BY <1>6, <1>7

LEMMA ResultReports ==
  ASSUME NEW r \in Requests, Result(r) \/ Timeout(r)
  PROVE  \E c \in Checks, ok \in BOOLEAN, f \in {"none", "cancelled", "running"} :
           c[1] = r /\ Awaited(c) /\ Left(c, ok, f) /\ Report(r, c, ok, f)
<1>1. CASE Result(r)
  BY <1>1 DEF Result, Left
<1>2. CASE Timeout(r)
  <2>1. PICK c \in Checks :
          /\ c[1] = r /\ Awaited(c) /\ state[c] \in {"queued", "running"} /\ Due(c)
          /\ Report(r, c, FALSE, IF state[c] = "queued" THEN "cancelled" ELSE state[c])
    BY <1>2 DEF Timeout
  <2>2. CASE state[c] = "queued"
    BY <2>1, <2>2 DEF Left
  <2>3. CASE state[c] = "running"
    BY <2>1, <2>3 DEF Left
  <2> QED BY <2>1, <2>2, <2>3
<1> QED BY <1>1, <1>2

LEMMA NextPools == PoolsInv /\ [Next]_vars => PoolsInv'
<1> SUFFICES ASSUME PoolsInv, [Next]_vars PROVE PoolsInv'
  OBVIOUS
<1>1. CASE Surroundings
  BY <1>1, SurroundingsKeep
<1>2. ASSUME NEW r \in Requests, Arrive(r) PROVE PoolsInv'
  BY <1>2, ArriveKeeps
<1>3. ASSUME NEW r \in Requests, Result(r) \/ Timeout(r) PROVE PoolsInv'
  BY <1>3, ResultReports, ReportKeeps
<1>4. CASE Start
  BY <1>4, StartKeeps
<1>5. ASSUME NEW c \in Checks, Succeed(c) \/ Raise(c) PROVE PoolsInv'
  BY <1>5, EndKeeps
<1>6. CASE UNCHANGED vars
  BY <1>6 DEF vars, PoolsInv, TypeInv, QueueInv, PoolInv, FutureInv, RequestInv, Running, Awaited
<1> QED BY <1>1, <1>2, <1>3, <1>4, <1>5, <1>6 DEF Next, Surroundings

-----------------------------------------------------------------------------
(* The connections. *)

\* What a step does to the threads that run checks.
LEMMA RunningChanges ==
  ASSUME PoolsInv, [Next]_vars
  PROVE  \/ \E c \in Running : Running' = Running \ {c} /\ linked' = linked \ {c}
         \/ Running \subseteq Running' /\ UNCHANGED linked
         \/ \E c \in Starved : /\ FreeConns > 0 /\ linked' = linked \cup {c}
                               /\ Running' = Running
<1>1. CASE Surroundings
  <2>1. state' = state /\ Running' = Running
    BY <1>1 DEF Surroundings, GoDown, ComeUp, OthersTake, OthersReturn, Tick, Connect, Running
  <2> QED BY <1>1, <2>1 DEF Surroundings, GoDown, ComeUp, OthersTake, OthersReturn, Tick, Connect
<1>2. ASSUME NEW r \in Requests, Arrive(r)
      PROVE  Running \subseteq Running' /\ UNCHANGED linked
  <2>1. /\ state' = [state EXCEPT ![<<r, "postgresql">>] = "queued"] /\ UNCHANGED linked
        /\ state[<<r, "postgresql">>] = "none"
    BY <1>2, CheckFacts DEF Arrive, Submit
  <2> QED BY <2>1 DEF PoolsInv, TypeInv, Running
<1>3. ASSUME NEW r \in Requests, Result(r) \/ Timeout(r)
      PROVE  Running \subseteq Running' /\ UNCHANGED linked
  <2> DEFINE m == <<r, "minio">>
  <2>1. PICK c \in Checks, ok \in BOOLEAN, f \in {"none", "cancelled", "running"} :
          c[1] = r /\ Awaited(c) /\ Left(c, ok, f) /\ Report(r, c, ok, f)
    BY <1>3, ResultReports
  <2>2. /\ linked' = linked
        /\ \/ state' = [state EXCEPT ![c] = f]
           \/ c[2] = "postgresql" /\ state' = [[state EXCEPT ![c] = f] EXCEPT ![m] = "queued"]
    BY <2>1 DEF Report, Submit
  <2>3. c[2] = "postgresql" => state[m] = "none"
    BY <2>1, CheckFacts DEF PoolsInv, RequestInv, Awaited
  <2>4. state[c] = "running" => f = "running"
    BY <2>1 DEF Left
  <2> HIDE DEF m
  <2> SUFFICES ASSUME NEW e \in Running PROVE state'[e] = "running"
    BY <2>2 DEF Running
  <2>5. state[e] = "running" /\ e \in Checks
    BY DEF Running
  <2> QED BY <2>2, <2>3, <2>4, <2>5 DEF PoolsInv, TypeInv
<1>4. ASSUME Start
      PROVE  Running \subseteq Running' /\ UNCHANGED linked
  <2>1. Head(queue) \in Elements(queue) /\ Head(queue) \in Checks
    BY <1>4, TailFacts DEF Start, PoolsInv, TypeInv, QueueInv
  <2>2. state[Head(queue)] \in {"queued", "cancelled"}
    BY <2>1 DEF PoolsInv, QueueInv
  <2>3. \E v : state' = [state EXCEPT ![Head(queue)] = v]
    BY <1>4 DEF Start, Take
  <2> QED BY <1>4, <2>1, <2>2, <2>3 DEF Start, Take, PoolsInv, TypeInv, Running
<1>5. ASSUME NEW c \in Checks, Succeed(c) \/ Raise(c)
      PROVE  c \in Running /\ Running' = Running \ {c} /\ linked' = linked \ {c}
  <2>1. /\ c \in Running /\ linked' = linked \ {c}
        /\ \E v \in {"ok", "raised", "none"} : state' = [state EXCEPT ![c] = v]
    BY <1>5 DEF Succeed, Raise, End, Starved
  <2> QED BY <2>1 DEF PoolsInv, TypeInv, Running
<1>6. CASE UNCHANGED vars
  BY <1>6 DEF vars, Running
<1> QED BY <1>1, <1>2, <1>3, <1>4, <1>5, <1>6 DEF Next, Surroundings

\* Only sessions that take or return a connection change how many others hold.
LEMMA OthersChange ==
  ASSUME [Next]_vars
  PROVE  \/ UNCHANGED others
         \/ FreeConns > 0 /\ others' = others + 1 /\ UNCHANGED <<linked, state>>
         \/ others > 0 /\ others' = others - 1 /\ UNCHANGED <<linked, state>>
BY DEF Next, vars, GoDown, ComeUp, OthersTake, OthersReturn, Arrive, Result, Timeout, Report,
       Start, Take, Connect, Succeed, Raise, End, Tick

LEMMA NextConns == PoolsInv /\ ConnInv /\ [Next]_vars => ConnInv'
<1> SUFFICES ASSUME PoolsInv, ConnInv, [Next]_vars PROVE ConnInv'
  OBVIOUS
<1>1. /\ IsFiniteSet(linked) /\ Cardinality(linked) \in Nat
      /\ others \in Nat /\ Conns \in Nat
  BY PoolAssumption, FS_CardinalityType DEF ConnInv
<1>2. CASE UNCHANGED others
  <2>1. ASSUME NEW c \in Running, Running' = Running \ {c}, linked' = linked \ {c}
        PROVE  ConnInv'
    <3>1. IsFiniteSet(linked') /\ Cardinality(linked') <= Cardinality(linked)
      BY <2>1, <1>1, FS_Subset
    <3>2. Cardinality(linked') \in Nat
      BY <3>1, FS_CardinalityType
    <3> QED BY <3>1, <3>2, <2>1, <1>1, <1>2 DEF ConnInv
  <2>2. ASSUME Running \subseteq Running', UNCHANGED linked
        PROVE  ConnInv'
    BY <2>2, <1>2 DEF ConnInv
  <2>3. ASSUME NEW c \in Starved, FreeConns > 0, linked' = linked \cup {c}, Running' = Running
        PROVE  ConnInv'
    <3>1. c \in Running /\ c \notin linked
      BY DEF Starved
    <3>2. IsFiniteSet(linked') /\ Cardinality(linked') = Cardinality(linked) + 1
      BY <2>3, <3>1, <1>1, FS_AddElement
    <3> QED BY <2>3, <3>1, <3>2, <1>1, <1>2 DEF ConnInv, FreeConns
  <2> QED BY <2>1, <2>2, <2>3, RunningChanges
<1>3. CASE FreeConns > 0 /\ others' = others + 1 /\ UNCHANGED <<linked, state>>
  BY <1>1, <1>3 DEF ConnInv, FreeConns, Running
<1>4. CASE others > 0 /\ others' = others - 1 /\ UNCHANGED <<linked, state>>
  BY <1>1, <1>4 DEF ConnInv, Running
<1> QED BY <1>2, <1>3, <1>4, OthersChange

-----------------------------------------------------------------------------
(* The clocks. *)

\* What the clocks say of one check.
ClockOf(c) ==
  /\ state[c] = "running" /\ c \notin hurt => clock[c].ran <= Quick
  /\ state[c] \in {"queued", "cancelled"} => clock[c].ran = 0
  /\ state[c] = "none" => clock[c] = Zero \/ (at[c[1]] = "minio" /\ c[2] = "postgresql")

LEMMA TickClocks ==
  ASSUME PoolsInv, ClockInv, Tick, NEW c \in Checks
  PROVE  ClockOf(c)'
<1>1. /\ UNCHANGED <<state, at>> /\ hurt \subseteq hurt' /\ ClockOf(c)
      /\ clock' = [e \in Checks |->
           CASE state[e] = "queued" -> [clock[e] EXCEPT !.waited = Later(@)]
             [] state[e] = "running" -> [clock[e] EXCEPT !.ran = Later(@)]
             [] OTHER -> clock[e]]
      /\ state[c] = "running" /\ c \notin hurt' => clock[c].ran < Quick
      /\ clock[c] \in [waited : 0..Patience, ran : 0..Patience]
  BY DEF Tick, ClockInv, ClockOf, Running, PoolsInv, TypeInv
<1>2. CASE state[c] = "queued"
  BY <1>1, <1>2 DEF ClockOf
<1>3. CASE state[c] = "running"
  <2>1. clock'[c].ran = Later(clock[c].ran)
    BY <1>1, <1>3
  <2>2. clock[c].ran \in 0..Patience /\ clock'[c].ran \in 0..Patience
        /\ clock'[c].ran <= clock[c].ran + 1
    BY <2>1, <1>1, LaterFacts
  <2> QED BY <2>2, <1>1, <1>3, PoolAssumption DEF ClockOf
<1>4. CASE state[c] \notin {"queued", "running"}
  BY <1>1, <1>4 DEF ClockOf
<1> QED BY <1>2, <1>3, <1>4

LEMMA ArriveClocks ==
  ASSUME PoolsInv, ClockInv, NEW r \in Requests, Arrive(r), NEW c \in Checks
  PROVE  ClockOf(c)'
<1>1. /\ at[r] = "idle" /\ state[<<r, "postgresql">>] = "none"
      /\ at' = [at EXCEPT ![r] = "postgresql"]
      /\ state' = [state EXCEPT ![<<r, "postgresql">>] = "queued"]
      /\ UNCHANGED <<clock, hurt>> /\ ClockOf(c)
  BY CheckFacts DEF Arrive, Submit, ClockInv, ClockOf
<1>2. CASE c = <<r, "postgresql">>
  <2>1. state'[c] = "queued" /\ clock[c] = Zero
    BY <1>1, <1>2, CheckFacts DEF ClockOf, PoolsInv, TypeInv
  <2> QED BY <1>1, <2>1 DEF ClockOf, Zero
<1>3. CASE c # <<r, "postgresql">>
  <2>1. state'[c] = state[c] /\ (at[c[1]] = "minio" => at'[c[1]] = "minio")
    BY <1>1, <1>3, CheckFacts DEF PoolsInv, TypeInv
  <2> QED BY <1>1, <2>1 DEF ClockOf
<1> QED BY <1>2, <1>3

LEMMA StartClocks ==
  ASSUME PoolsInv, ClockInv, Start, NEW c \in Checks
  PROVE  ClockOf(c)'
<1> DEFINE h == Head(queue)
<1>1. Take(h) /\ h \in Checks /\ UNCHANGED at /\ ClockOf(c)
  BY TailFacts DEF Start, Take, PoolsInv, TypeInv, QueueInv, ClockInv, ClockOf
<1> HIDE DEF h
<1>2. CASE state[h] = "queued"
  <2>1. /\ state' = [state EXCEPT ![h] = "running"]
        /\ UNCHANGED clock /\ hurt \subseteq hurt'
    BY <1>1, <1>2 DEF Take
  <2>2. CASE c = h
    <3>1. state'[c] = "running" /\ clock'[c].ran = 0
      BY <2>1, <2>2, <1>1, <1>2 DEF ClockOf, PoolsInv, TypeInv
    <3> QED BY <3>1, PoolAssumption DEF ClockOf
  <2>3. CASE c # h
    BY <2>1, <2>3, <1>1 DEF ClockOf, PoolsInv, TypeInv
  <2> QED BY <2>2, <2>3
<1>3. CASE state[h] = "cancelled"
  <2>1. state' = [state EXCEPT ![h] = "none"] /\ Forget(h)
    BY <1>1, <1>3 DEF Take
  <2> QED BY <2>1, <1>1 DEF Forget, ClockOf, PoolsInv, TypeInv
<1> QED BY <1>1, <1>2, <1>3 DEF Take

LEMMA EndClocks ==
  ASSUME PoolsInv, ClockInv, NEW d \in Checks, Succeed(d) \/ Raise(d), NEW c \in Checks
  PROVE  ClockOf(c)'
<1>1. /\ \E outcome \in {"ok", "raised"} :
           state' = [state EXCEPT ![d] = IF Awaited(d) THEN outcome ELSE "none"]
      /\ IF Awaited(d) THEN UNCHANGED <<clock, hurt, blocked>> ELSE Forget(d)
      /\ UNCHANGED at /\ ClockOf(c)
  BY DEF Succeed, Raise, End, ClockInv, ClockOf
<1>2. CASE Awaited(d)
  BY <1>1, <1>2 DEF ClockOf, PoolsInv, TypeInv
<1>3. CASE ~Awaited(d)
  BY <1>1, <1>3 DEF ClockOf, Forget, PoolsInv, TypeInv
<1> QED BY <1>2, <1>3

LEMMA ReportClocks ==
  ASSUME PoolsInv, ClockInv, NEW r \in Requests, NEW d \in Checks, d[1] = r, Awaited(d),
         NEW ok \in BOOLEAN, NEW f \in {"none", "cancelled", "running"},
         Left(d, ok, f), Report(r, d, ok, f), NEW c \in Checks
  PROVE  ClockOf(c)'
<1> DEFINE futures == [state EXCEPT ![d] = f]
           m       == <<r, "minio">>
<1>1. /\ IF d[2] = "postgresql" /\ (ok \/ r \in Panels)
         THEN Submit(r, "minio", futures) /\ UNCHANGED clock
         ELSE /\ at' = [at EXCEPT ![r] = "idle"]
              /\ state' = futures
              /\ clock' = [e \in Checks |->
                   IF e[1] = r /\ futures[e] # "running" THEN Zero ELSE clock[e]]
      /\ c # d => (c \in hurt => c \in hurt')
      /\ f = "running" => hurt' = hurt
      /\ ClockOf(c) /\ ClockOf(d)
  BY DEF Report, ClockInv, ClockOf
<1>2. /\ futures[d] = f /\ (c # d => futures[c] = state[c])
      /\ f = "running" <=> state[d] = "running"
      /\ f = "cancelled" <=> state[d] = "queued"
      /\ futures \in [Checks -> {"none", "queued", "running", "ok", "raised", "cancelled"}]
      /\ at[r] = d[2] /\ at \in [Requests -> {"idle"} \cup Deps]
      /\ m \in Checks /\ m[1] = r /\ m[2] = "minio" /\ c[1] \in Requests
  <2>1. /\ futures[d] = f /\ (c # d => futures[c] = state[c])
        /\ futures \in [Checks -> {"none", "queued", "running", "ok", "raised", "cancelled"}]
    BY DEF PoolsInv, TypeInv
  <2>2. /\ f = "running" <=> state[d] = "running"
        /\ f = "cancelled" <=> state[d] = "queued"
    BY DEF Left
  <2>3. /\ at[r] = d[2] /\ at \in [Requests -> {"idle"} \cup Deps]
        /\ m \in Checks /\ m[1] = r /\ m[2] = "minio" /\ c[1] \in Requests
    BY CheckFacts DEF PoolsInv, TypeInv, Awaited
  <2> QED BY <2>1, <2>2, <2>3
<1>3. CASE d[2] = "postgresql" /\ (ok \/ r \in Panels)
  <2>1. /\ at' = [at EXCEPT ![r] = "minio"]
        /\ state' = [futures EXCEPT ![m] = "queued"] /\ UNCHANGED clock
    BY <1>1, <1>3 DEF Submit
  <2>2. state[m] = "none" /\ at[r] = "postgresql" /\ m # d
    BY <1>2, <1>3, CheckFacts DEF PoolsInv, RequestInv
  <2> HIDE DEF futures, m
  <2>3. CASE c = m
    <3>1. clock[c] = Zero
      BY <1>1, <1>2, <2>2, <2>3 DEF ClockOf
    <3>2. state'[c] = "queued"
      BY <1>2, <2>1, <2>3
    <3> QED BY <3>1, <3>2, <2>1 DEF ClockOf, Zero
  <2>4. CASE c = d
    <3>1. state'[c] = f /\ at'[c[1]] = "minio" /\ c[2] = "postgresql"
      BY <1>2, <1>3, <2>1, <2>2, <2>4
    <3> QED BY <3>1, <2>1, <2>4, <1>1, <1>2 DEF ClockOf
  <2>5. CASE c # m /\ c # d
    <3>1. state'[c] = state[c] /\ (at[c[1]] = "minio" => at'[c[1]] = "minio")
      BY <1>2, <2>1, <2>5
    <3> QED BY <3>1, <2>1, <2>5, <1>1 DEF ClockOf
  <2> QED BY <2>3, <2>4, <2>5
<1>4. CASE ~(d[2] = "postgresql" /\ (ok \/ r \in Panels))
  <2>1. /\ at' = [at EXCEPT ![r] = "idle"]
        /\ state' = futures
        /\ clock'[c] = IF c[1] = r /\ futures[c] # "running" THEN Zero ELSE clock[c]
    BY <1>1, <1>4
  <2> HIDE DEF futures, m
  <2>2. CASE c[1] = r /\ futures[c] # "running"
    BY <2>1, <2>2, <1>2 DEF ClockOf, Zero
  <2>3. CASE c[1] = r /\ futures[c] = "running"
    BY <2>1, <2>3, <1>1, <1>2 DEF ClockOf
  <2>4. CASE c[1] # r
    <3>1. state'[c] = state[c] /\ at'[c[1]] = at[c[1]] /\ c # d
      BY <2>1, <2>4, <1>2
    <3> QED BY <3>1, <2>1, <2>4, <1>1 DEF ClockOf
  <2> QED BY <2>2, <2>3, <2>4
<1> QED BY <1>3, <1>4

LEMMA NextClocks == PoolsInv /\ ClockInv /\ [Next]_vars => ClockInv'
<1> SUFFICES ASSUME PoolsInv, ClockInv, [Next]_vars, NEW c \in Checks
             PROVE  ClockOf(c)'
  BY DEF ClockInv, ClockOf
<1>1. ASSUME Surroundings, ~Tick PROVE ClockOf(c)'
  <2>1. UNCHANGED <<state, at, clock>> /\ hurt \subseteq hurt' /\ ClockOf(c)
    BY <1>1 DEF Surroundings, GoDown, ComeUp, OthersTake, OthersReturn, Connect, ClockInv, ClockOf
  <2> QED BY <2>1 DEF ClockOf
<1>2. CASE Tick
  BY <1>2, TickClocks
<1>3. ASSUME NEW r \in Requests, Arrive(r) PROVE ClockOf(c)'
  BY <1>3, ArriveClocks
<1>4. ASSUME NEW r \in Requests, Result(r) \/ Timeout(r) PROVE ClockOf(c)'
  BY <1>4, ResultReports, ReportClocks
<1>5. CASE Start
  BY <1>5, StartClocks
<1>6. ASSUME NEW d \in Checks, Succeed(d) \/ Raise(d) PROVE ClockOf(c)'
  BY <1>6, EndClocks
<1>7. CASE UNCHANGED vars
  BY <1>7 DEF vars, ClockInv, ClockOf
<1> QED BY <1>1, <1>2, <1>3, <1>4, <1>5, <1>6, <1>7 DEF Next, Surroundings

-----------------------------------------------------------------------------
LEMMA InitIInv == Init => IInv
<1> SUFFICES ASSUME Init PROVE IInv
  OBVIOUS
<1>1. ConnInv
  BY FS_EmptySet, PoolAssumption DEF Init, ConnInv
<1>2. ClockInv
  BY DEF Init, ClockInv
<1> QED BY <1>1, <1>2, InitPools DEF IInv

LEMMA Inductive == Spec => []IInv
<1>1. IInv /\ [Next]_vars => IInv'
  BY NextPools, NextConns, NextClocks DEF IInv
<1> QED BY <1>1, InitIInv, PTL DEF Spec

\* The futures, the queue and the two pools fit each other: no check is queued
\* twice, no more run than there are threads, no more connections are held than the
\* engine opens, and only what has a waiting request is queued uncancelled.
THEOREM TypeCorrect == Spec => []TypeOK
<1>1. IInv => TypeOK
  <2> SUFFICES ASSUME IInv PROVE TypeOK
    OBVIOUS
  <2>1. Queued = Elements(queue) /\ Queued \subseteq Checks
    BY DEF IInv, PoolsInv, TypeInv, Queued, Elements
  <2>2. Len(queue) = Cardinality(Queued)
    BY <2>1, LengthFacts DEF IInv, PoolsInv, TypeInv, QueueInv
  <2> QED BY <2>1, <2>2 DEF IInv, PoolsInv, TypeInv, QueueInv, PoolInv, FutureInv, ConnInv, TypeOK
<1> QED BY <1>1, Inductive, PTL

\* Whom a request calls failing, and why.
LEMMA AlarmStep ==
  ASSUME IInv, [Next]_vars, NEW c \in Alarms
  PROVE  c \in hurt \/ clock[c].waited + Quick >= Patience
<1>1. PICK r \in Requests : Result(r) \/ Timeout(r)
  <2>1. failing' \subseteq failing \/ \E r \in Requests : Result(r) \/ Timeout(r)
    BY DEF Next, vars, GoDown, ComeUp, OthersTake, OthersReturn, Arrive, Start, Take, Connect,
           Succeed, Raise, End, Tick
  <2> QED BY <2>1 DEF Alarms
<1>2. CASE Result(r)
  <2>1. PICK e \in Checks :
          /\ state[e] \in {"ok", "raised"} /\ Report(r, e, state[e] = "ok", "none")
    BY <1>2 DEF Result
  <2>2. c = e /\ state[e] = "raised"
    BY <2>1 DEF Report, Alarms
  <2> QED BY <2>2 DEF IInv, PoolsInv, FutureInv
<1>3. CASE Timeout(r)
  <2>1. PICK e \in Checks :
          /\ state[e] \in {"queued", "running"} /\ Due(e)
          /\ Report(r, e, FALSE, IF state[e] = "queued" THEN "cancelled" ELSE state[e])
    BY <1>3 DEF Timeout
  <2>2. c = e /\ c \in Checks
    BY <2>1 DEF Report, Alarms
  <2>3. /\ clock[c].waited \in 0..Patience /\ clock[c].ran \in 0..Patience
        /\ clock[c].waited + clock[c].ran >= Patience
    BY <2>1, <2>2 DEF Due, Age, IInv, PoolsInv, TypeInv
  <2>4. c \in hurt \/ clock[c].ran <= Quick
    BY <2>1, <2>2, PoolAssumption DEF IInv, ClockInv
  <2> QED BY <2>3, <2>4, PoolAssumption
<1> QED BY <1>1, <1>2, <1>3

\* For any timeout and any pools, a check that nothing hindered is called failing
\* only if the queue of the threads left it no time for a healthy run.
THEOREM AlarmsHaveCause == Spec => AlarmHasCause
<1>1. IInv /\ [Next]_vars =>
        [\A c \in Alarms : c \in hurt \/ clock[c].waited + Quick >= Patience]_vars
  BY AlarmStep
<1> QED BY <1>1, Inductive, PTL DEF Spec, AlarmHasCause

-----------------------------------------------------------------------------
(* A thread for each request. *)

Room == IsFiniteSet(Requests) /\ Cardinality(Requests) <= PoolSize

\* A check that had to wait was blocked, and one that outlives its request without
\* having met trouble had to wait.
BlockOf(c) ==
  /\ state[c] # "none" /\ clock[c].waited > 0 => c \in blocked
  /\ state[c] = "running" /\ ~Awaited(c) /\ c \notin hurt => clock[c].waited > 0

BlockInv == \A c \in Checks : BlockOf(c)

\* With a thread for each request, a queued check finds one free if no check runs
\* for a request that has given it up: no two run for one request, and none for its own.
LEMMA ThreadIsFree ==
  ASSUME PoolsInv, Room, NEW c \in Checks, state[c] = "queued", \A e \in Running : Awaited(e)
  PROVE  Cardinality(Running) < PoolSize
<1> DEFINE T    == Requests \ {c[1]}
           f[e \in Running] == e[1]
<1>1. c[1] \in Requests /\ Awaited(c)
  BY CheckFacts DEF PoolsInv, FutureInv
<1>2. IsFiniteSet(T) /\ Cardinality(T) = Cardinality(Requests) - 1 /\ Cardinality(T) \in Nat
  BY <1>1, FS_RemoveElement, FS_CardinalityType DEF Room
<1>3. \A e \in Running : e[1] \in T
  <2> SUFFICES ASSUME NEW e \in Running, e[1] = c[1] PROVE FALSE
    BY CheckFacts DEF Running
  <2>1. e[2] = c[2] /\ state[e] = "running" /\ e \in Checks
    BY <1>1 DEF Awaited, Running
  <2> QED BY <2>1, CheckFacts
<1>4. \A d, e \in Running : d[1] = e[1] => d = e
  <2> SUFFICES ASSUME NEW d \in Running, NEW e \in Running, d[1] = e[1] PROVE d = e
    OBVIOUS
  <2>1. d[2] = e[2] /\ d \in Checks /\ e \in Checks
    BY DEF Awaited, Running
  <2> QED BY <2>1, CheckFacts
<1>5. f \in [Running -> T] /\ \A e \in Running : f[e] = e[1]
  BY <1>3
<1> HIDE DEF f, T
<1>6. f \in Injection(Running, T)
  BY <1>4, <1>5 DEF Injection, IsInjective
<1>7. Cardinality(Running) <= Cardinality(T) /\ Cardinality(Running) \in Nat
  BY <1>2, <1>6, FS_Injection, FS_CardinalityType
<1> QED BY <1>2, <1>7, PoolAssumption, FS_CardinalityType DEF Room

LEMMA TickBlocks ==
  ASSUME IInv, Room, BlockInv, Tick, NEW c \in Checks
  PROVE  BlockOf(c)'
<1>1. /\ UNCHANGED <<state, at>> /\ hurt \subseteq hurt' /\ blocked \subseteq blocked'
      /\ BlockOf(c) /\ (Awaited(c)' <=> Awaited(c))
      /\ clock' = [e \in Checks |->
           CASE state[e] = "queued" -> [clock[e] EXCEPT !.waited = Later(@)]
             [] state[e] = "running" -> [clock[e] EXCEPT !.ran = Later(@)]
             [] OTHER -> clock[e]]
      /\ clock[c] \in [waited : 0..Patience, ran : 0..Patience]
  BY DEF Tick, BlockInv, IInv, PoolsInv, TypeInv, Awaited
<1>2. CASE state[c] = "queued"
  <2>1. c \in blocked'
    <3> SUFFICES ASSUME c \notin blocked' PROVE FALSE
      OBVIOUS
    <3>1. Running \cap (hurt \cup blocked) = {}
      BY <1>2 DEF Tick
    <3>2. ASSUME NEW e \in Running PROVE Awaited(e)
      <4>1. e \in Checks /\ state[e] = "running" /\ e \notin hurt /\ e \notin blocked
        BY <3>1 DEF Running
      <4> QED BY <4>1 DEF BlockInv, BlockOf
    <3>3. Cardinality(Running) < PoolSize
      BY <3>2, <1>2, ThreadIsFree DEF IInv
    <3>4. queue # <<>>
      BY <1>2 DEF IInv, PoolsInv, QueueInv, Elements
    <3>5. Cardinality(Running) = PoolSize
      BY <3>4 DEF Tick
    <3> QED BY <3>3, <3>5, PoolAssumption
  <2> QED BY <2>1, <1>1, <1>2 DEF BlockOf
<1>3. CASE state[c] # "queued"
  <2>1. clock'[c].waited = clock[c].waited
    BY <1>1, <1>3
  <2> QED BY <2>1, <1>1 DEF BlockOf
<1> QED BY <1>2, <1>3

LEMMA ArriveBlocks ==
  ASSUME IInv, BlockInv, NEW r \in Requests, Arrive(r), NEW c \in Checks
  PROVE  BlockOf(c)'
<1>1. /\ at[r] = "idle" /\ state[<<r, "postgresql">>] = "none"
      /\ at' = [at EXCEPT ![r] = "postgresql"]
      /\ state' = [state EXCEPT ![<<r, "postgresql">>] = "queued"]
      /\ UNCHANGED <<clock, hurt, blocked>> /\ BlockOf(c)
      /\ state[<<r, "minio">>] = "none"
  BY CheckFacts DEF Arrive, Submit, BlockInv
<1>2. CASE c = <<r, "postgresql">>
  <2>1. state'[c] = "queued" /\ clock[c] = Zero
    BY <1>1, <1>2, CheckFacts DEF IInv, PoolsInv, TypeInv, ClockInv
  <2> QED BY <1>1, <2>1 DEF BlockOf, Zero
<1>3. CASE c # <<r, "postgresql">>
  <2>1. state'[c] = state[c] /\ (state[c] = "running" => at'[c[1]] = at[c[1]])
    <3>1. state'[c] = state[c]
      BY <1>1, <1>3 DEF IInv, PoolsInv, TypeInv
    <3>2. c[1] = r => c = <<r, "minio">>
      BY <1>3, CheckFacts
    <3>3. c[1] # r => at'[c[1]] = at[c[1]]
      BY <1>1, CheckFacts DEF IInv, PoolsInv, TypeInv
    <3> QED BY <3>1, <3>2, <3>3, <1>1
  <2> QED BY <1>1, <2>1 DEF BlockOf, Awaited
<1> QED BY <1>2, <1>3

LEMMA StartBlocks ==
  ASSUME IInv, BlockInv, Start, NEW c \in Checks
  PROVE  BlockOf(c)'
<1> DEFINE h == Head(queue)
<1>1. Take(h) /\ h \in Checks /\ UNCHANGED at /\ BlockOf(c)
  BY TailFacts DEF Start, Take, IInv, PoolsInv, TypeInv, QueueInv, BlockInv
<1> HIDE DEF h
<1>2. CASE state[h] = "queued"
  <2>1. /\ state' = [state EXCEPT ![h] = "running"]
        /\ UNCHANGED <<clock, blocked>> /\ hurt \subseteq hurt' /\ Awaited(h)
    BY <1>1, <1>2 DEF Take, IInv, PoolsInv, FutureInv
  <2> QED BY <2>1, <1>1, <1>2 DEF BlockOf, Awaited, IInv, PoolsInv, TypeInv
<1>3. CASE state[h] = "cancelled"
  <2>1. state' = [state EXCEPT ![h] = "none"] /\ Forget(h)
    BY <1>1, <1>3 DEF Take
  <2> QED BY <2>1, <1>1 DEF Forget, BlockOf, Awaited, IInv, PoolsInv, TypeInv
<1> QED BY <1>1, <1>2, <1>3 DEF Take

LEMMA EndBlocks ==
  ASSUME IInv, BlockInv, NEW d \in Checks, Succeed(d) \/ Raise(d), NEW c \in Checks
  PROVE  BlockOf(c)'
<1>1. /\ state[d] = "running"
      /\ \E outcome \in {"ok", "raised"} :
           state' = [state EXCEPT ![d] = IF Awaited(d) THEN outcome ELSE "none"]
      /\ IF Awaited(d) THEN UNCHANGED <<clock, hurt, blocked>> ELSE Forget(d)
      /\ UNCHANGED at /\ BlockOf(c)
  BY DEF Succeed, Raise, End, Running, BlockInv
<1>2. CASE Awaited(d)
  BY <1>1, <1>2 DEF BlockOf, Awaited, IInv, PoolsInv, TypeInv
<1>3. CASE ~Awaited(d)
  BY <1>1, <1>3 DEF BlockOf, Awaited, Forget, IInv, PoolsInv, TypeInv
<1> QED BY <1>2, <1>3

\* A check whose time is over, though nothing hindered its run, had to wait.
LEMMA DueWaited ==
  ASSUME IInv, NEW c \in Checks, state[c] \in {"queued", "running"}, Due(c), c \notin hurt
  PROVE  clock[c].waited > 0
<1>1. clock[c].waited \in 0..Patience /\ clock[c].ran \in 0..Patience
  BY DEF IInv, PoolsInv, TypeInv
<1>2. clock[c].ran <= Quick
  BY PoolAssumption DEF IInv, ClockInv
<1> QED BY <1>1, <1>2, PoolAssumption DEF Due, Age

LEMMA ReportBlocks ==
  ASSUME IInv, BlockInv, NEW r \in Requests, NEW d \in Checks, d[1] = r, Awaited(d),
         NEW ok \in BOOLEAN, NEW f \in {"none", "cancelled", "running"},
         Left(d, ok, f), Report(r, d, ok, f), NEW c \in Checks
  PROVE  BlockOf(c)'
<1> DEFINE futures == [state EXCEPT ![d] = f]
           m       == <<r, "minio">>
<1>1. /\ IF d[2] = "postgresql" /\ (ok \/ r \in Panels)
         THEN Submit(r, "minio", futures) /\ UNCHANGED clock
         ELSE /\ at' = [at EXCEPT ![r] = "idle"]
              /\ state' = futures
              /\ clock' = [e \in Checks |->
                   IF e[1] = r /\ futures[e] # "running" THEN Zero ELSE clock[e]]
      /\ c # d => (c \in hurt => c \in hurt') /\ (c \in blocked => c \in blocked')
      /\ f # "none" => UNCHANGED <<hurt, blocked>>
      /\ BlockOf(c)
  BY DEF Report, BlockInv
<1>2. /\ futures[d] = f /\ (c # d => futures[c] = state[c])
      /\ futures \in [Checks -> {"none", "queued", "running", "ok", "raised", "cancelled"}]
      /\ f = "none" \/ state[d] # "none"
      /\ f = "running" /\ d \notin hurt => clock[d].waited > 0
  <2>1. /\ futures[d] = f /\ (c # d => futures[c] = state[c])
        /\ futures \in [Checks -> {"none", "queued", "running", "ok", "raised", "cancelled"}]
    BY DEF IInv, PoolsInv, TypeInv
  <2>2. f = "none" \/ state[d] # "none"
    BY DEF Left
  <2>3. f = "running" /\ d \notin hurt => clock[d].waited > 0
    BY DueWaited DEF Left
  <2> QED BY <2>1, <2>2, <2>3
<1>3. /\ at[r] = d[2] /\ at \in [Requests -> {"idle"} \cup Deps]
      /\ m \in Checks /\ m[1] = r /\ m[2] = "minio" /\ c[1] \in Requests
      /\ c # d => c[1] # r \/ c[2] # d[2]
  <2>1. /\ at[r] = d[2] /\ at \in [Requests -> {"idle"} \cup Deps]
        /\ m \in Checks /\ m[1] = r /\ m[2] = "minio" /\ c[1] \in Requests
    BY CheckFacts DEF IInv, PoolsInv, TypeInv, Awaited
  <2>2. c # d => c[1] # r \/ c[2] # d[2]
    BY CheckFacts
  <2> QED BY <2>1, <2>2
<1>4. CASE d[2] = "postgresql" /\ (ok \/ r \in Panels)
  <2>1. /\ at' = [at EXCEPT ![r] = "minio"]
        /\ state' = [futures EXCEPT ![m] = "queued"] /\ UNCHANGED clock
    BY <1>1, <1>4 DEF Submit
  <2>2. state[m] = "none" /\ m # d
    BY <1>3, <1>4, CheckFacts DEF IInv, PoolsInv, RequestInv
  <2> HIDE DEF futures, m
  <2>3. CASE c = m
    <3>1. clock[c] = Zero
      BY <1>3, <1>4, <2>2, <2>3 DEF IInv, ClockInv
    <3>2. state'[c] = "queued"
      BY <1>2, <1>3, <2>1, <2>3
    <3> QED BY <3>1, <3>2, <2>1 DEF BlockOf, Zero
  <2>4. CASE c = d
    <3>1. state'[c] = f
      BY <1>2, <2>1, <2>2, <2>4
    <3> QED BY <3>1, <2>1, <2>4, <1>1, <1>2 DEF BlockOf
  <2>5. CASE c # m /\ c # d
    <3>1. state'[c] = state[c]
      BY <1>2, <2>1, <2>5
    <3>2. ~Awaited(c)' => ~Awaited(c)
      BY <1>3, <2>1, <2>5, CheckFacts DEF Awaited
    <3> QED BY <3>1, <3>2, <2>1, <2>5, <1>1 DEF BlockOf
  <2> QED BY <2>3, <2>4, <2>5
<1>5. CASE ~(d[2] = "postgresql" /\ (ok \/ r \in Panels))
  <2>1. /\ at' = [at EXCEPT ![r] = "idle"]
        /\ state' = futures
        /\ clock'[c] = IF c[1] = r /\ futures[c] # "running" THEN Zero ELSE clock[c]
    BY <1>1, <1>5
  <2> HIDE DEF futures, m
  <2>2. CASE c[1] = r /\ futures[c] # "running"
    BY <2>1, <2>2 DEF BlockOf, Zero
  <2>3. CASE c = d /\ futures[c] = "running"
    BY <2>1, <2>3, <1>1, <1>2 DEF BlockOf
  <2>4. CASE c # d /\ (c[1] # r \/ futures[c] = "running")
    <3>1. state'[c] = state[c] /\ clock'[c] = clock[c]
      BY <2>1, <2>4, <1>2
    <3>2. ~Awaited(c)' => ~Awaited(c)
      BY <2>1, <2>4, <1>3 DEF Awaited
    <3> QED BY <3>1, <3>2, <2>4, <1>1 DEF BlockOf
  <2> QED BY <2>2, <2>3, <2>4, <1>2
<1> QED BY <1>4, <1>5

LEMMA NextBlocks == IInv /\ Room /\ BlockInv /\ [Next]_vars => BlockInv'
<1> SUFFICES ASSUME IInv, Room, BlockInv, [Next]_vars, NEW c \in Checks
             PROVE  BlockOf(c)'
  BY DEF BlockInv
<1>1. ASSUME Surroundings, ~Tick PROVE BlockOf(c)'
  <2>1. UNCHANGED <<state, at, clock, blocked>> /\ hurt \subseteq hurt' /\ BlockOf(c)
    BY <1>1 DEF Surroundings, GoDown, ComeUp, OthersTake, OthersReturn, Connect, BlockInv
  <2> QED BY <2>1 DEF BlockOf, Awaited
<1>2. CASE Tick
  BY <1>2, TickBlocks
<1>3. ASSUME NEW r \in Requests, Arrive(r) PROVE BlockOf(c)'
  BY <1>3, ArriveBlocks
<1>4. ASSUME NEW r \in Requests, Result(r) \/ Timeout(r) PROVE BlockOf(c)'
  BY <1>4, ResultReports, ReportBlocks
<1>5. CASE Start
  BY <1>5, StartBlocks
<1>6. ASSUME NEW d \in Checks, Succeed(d) \/ Raise(d) PROVE BlockOf(c)'
  BY <1>6, EndBlocks
<1>7. CASE UNCHANGED vars
  BY <1>7 DEF vars, BlockInv, BlockOf, Awaited
<1> QED BY <1>1, <1>2, <1>3, <1>4, <1>5, <1>6, <1>7 DEF Next, Surroundings

\* With room for all, an alarm over a check that was not hurt is one over a check
\* that was blocked.
LEMMA RoomyAlarm ==
  ASSUME IInv, BlockInv, [Next]_vars
  PROVE  Alarms \subseteq hurt \cup blocked
<1> SUFFICES ASSUME NEW c \in Alarms, c \notin hurt PROVE c \in blocked
  OBVIOUS
<1>1. clock[c].waited + Quick >= Patience
  BY AlarmStep
<1>2. c \in Checks /\ state[c] # "none"
  <2>1. PICK r \in Requests : Result(r) \/ Timeout(r)
    <3>1. failing' \subseteq failing \/ \E r \in Requests : Result(r) \/ Timeout(r)
      BY DEF Next, vars, GoDown, ComeUp, OthersTake, OthersReturn, Arrive, Start, Take, Connect,
             Succeed, Raise, End, Tick
    <3> QED BY <3>1 DEF Alarms
  <2>2. PICK d \in Checks, ok \in BOOLEAN, f \in {"none", "cancelled", "running"} :
          Left(d, ok, f) /\ Report(r, d, ok, f)
    BY <2>1, ResultReports
  <2>3. c = d
    BY <2>2 DEF Report, Alarms
  <2> QED BY <2>2, <2>3 DEF Left
<1>3. clock[c].waited \in 0..Patience
  BY <1>2 DEF IInv, PoolsInv, TypeInv
<1>4. clock[c].waited > 0
  BY <1>1, <1>3, PoolAssumption
<1> QED BY <1>2, <1>4 DEF BlockInv, BlockOf

\* With a thread for each request, however many there are, load alone never makes
\* a healthy dependency fail: each false alarm ends a chain of held threads that
\* starts at a check in trouble.
THEOREM NoFalseAlarmByLoad ==
  ASSUME IsFiniteSet(Requests)
  PROVE  Spec => NoAlarmByLoad
<1> DEFINE Roomy == Cardinality(Requests) <= PoolSize
           Blocks == Roomy => BlockInv
<1>1. Init => Blocks
  <2> SUFFICES ASSUME Init PROVE BlockInv
    BY DEF Blocks
  <2> QED BY DEF Init, BlockInv, BlockOf, Zero
<1>2. IInv /\ Blocks /\ [Next]_vars => Blocks'
  BY NextBlocks DEF Room
<1>3. IInv /\ Blocks /\ [Next]_vars => [Roomy => Alarms \subseteq hurt \cup blocked]_vars
  BY RoomyAlarm
<1> HIDE DEF Blocks
<1>4. IInv /\ Blocks /\ [Next]_vars =>
        [Cardinality(Requests) <= PoolSize => Alarms \subseteq hurt \cup blocked]_vars
  BY <1>3
<1> QED BY <1>1, <1>2, <1>4, Inductive, PTL DEF Spec, NoAlarmByLoad

=============================================================================
