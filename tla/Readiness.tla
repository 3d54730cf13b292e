------------------------------- MODULE Readiness ------------------------------
(***************************************************************************)
(* GET /health/ready and the health panel of the dashboard (main.py): each *)
(* request checks PostgreSQL, then MinIO, through one pool of PoolSize     *)
(* threads, and waits for each check for READINESS_TIMEOUT_SECONDS, from   *)
(* the moment it is submitted.  A check that timed out is cancelled if it  *)
(* is still queued; one that runs keeps its thread until it returns.  The  *)
(* check of PostgreSQL needs a connection of the engine's pool, which all  *)
(* requests of the service share (db.py).                                  *)
(*                                                                         *)
(* Time passes in ticks.  A check whose dependency is up, and that has its *)
(* connection, runs for Quick ticks at most.                               *)
(***************************************************************************)
EXTENDS Naturals, Sequences, FiniteSets

CONSTANTS Requests,
          Panels,      \* the requests for the dashboard, which run both checks
          PoolSize,    \* the threads for checks
          Conns,       \* the connections the engine can have open
          Patience,    \* READINESS_TIMEOUT_SECONDS, also the engine's pool_timeout
          Quick        \* the longest run of a check that nothing hinders

ASSUME PoolAssumption ==
  /\ Panels \subseteq Requests /\ PoolSize \in Nat \ {0} /\ Conns \in Nat
  /\ Patience \in Nat /\ Quick \in Nat \ {0} /\ Quick < Patience

Deps == {"postgresql", "minio"}
Checks == Requests \X Deps
Zero == [waited |-> 0, ran |-> 0]

VARIABLES
  up,       \* the dependencies that answer; the others refuse or hang
  others,   \* the connections that sessions of requests hold
  at,       \* where a request is: "idle", or waiting for a dependency
  failing,  \* the checks its request has reported as failing
  state,    \* the future of each check; "none" once nobody holds it
  queue,    \* the pool's queue; cancelled checks stay in it
  linked,   \* the running checks of PostgreSQL that have a connection
  clock,    \* the ticks a check has spent in the queue and in a thread
  hurt,     \* checks that met their dependency down, or no connection, as they ran
  blocked   \* checks that spent a tick in the queue while a hurt or blocked one ran

vars == <<up, others, at, failing, state, queue, linked, clock, hurt, blocked>>

Running == {c \in Checks : state[c] = "running"}
Queued == {queue[i] : i \in DOMAIN queue}
Awaited(c) == at[c[1]] = c[2]
Age(c) == clock[c].waited + clock[c].ran
Later(t) == IF t < Patience THEN t + 1 ELSE t
FreeConns == Conns - others - Cardinality(linked)
Starved == {c \in Running : c[2] = "postgresql" /\ c \notin linked}

TypeOK ==
  /\ up \subseteq Deps
  /\ at \in [Requests -> {"idle"} \cup Deps]
  /\ failing \subseteq Checks
  /\ state \in [Checks -> {"none", "queued", "running", "ok", "raised", "cancelled"}]
  /\ Queued \subseteq Checks /\ Len(queue) = Cardinality(Queued)
  /\ clock \in [Checks -> [waited : 0..Patience, ran : 0..Patience]]
  /\ hurt \subseteq Checks /\ blocked \subseteq Checks
  /\ Cardinality(Running) <= PoolSize
  /\ linked \subseteq Running /\ others \in Nat /\ others + Cardinality(linked) <= Conns
  /\ \A c \in Checks : /\ state[c] \in {"queued", "cancelled"} <=> c \in Queued
                       /\ state[c] \in {"queued", "ok", "raised"} => Awaited(c)
                       /\ Awaited(c) => state[c] \notin {"none", "cancelled"}

Init ==
  /\ up = Deps /\ others = 0
  /\ at = [r \in Requests |-> "idle"]
  /\ failing = {}
  /\ state = [c \in Checks |-> "none"]
  /\ queue = <<>> /\ linked = {}
  /\ clock = [c \in Checks |-> Zero]
  /\ hurt = {} /\ blocked = {}

-----------------------------------------------------------------------------
(* The surroundings. *)

GoDown(d) ==
  /\ d \in up /\ up' = up \ {d}
  /\ hurt' = hurt \cup {c \in Running : c[2] = d}
  /\ UNCHANGED <<others, at, failing, state, queue, linked, clock, blocked>>

ComeUp(d) ==
  /\ d \notin up /\ up' = up \cup {d}
  /\ UNCHANGED <<others, at, failing, state, queue, linked, clock, hurt, blocked>>

\* Sessions take connections and return them; the panel's own request holds one
\* while its check waits for another.
OthersTake ==
  /\ FreeConns > 0 /\ others' = others + 1
  /\ UNCHANGED <<up, at, failing, state, queue, linked, clock, hurt, blocked>>

OthersReturn ==
  /\ others > 0 /\ others' = others - 1
  /\ UNCHANGED <<up, at, failing, state, queue, linked, clock, hurt, blocked>>

\* Variant: one deadline for both checks of a request.
DueShared(c) ==
  Age(<<c[1], "postgresql">>) + (IF c[2] = "minio" THEN Age(c) ELSE 0) >= Patience

\* Variant: the time counts from the start of the check.
DueOfRunning(c) == clock[c].ran >= Patience

\* FutureTimeoutError: the time counts from the submission.
Due(c) == Age(c) >= Patience

\* A check that ran Quick ticks unhindered has ended, a thread that is free has
\* taken what is queued, a connection that is free is given to who waits for it,
\* and a wait that is over has ended, before time passes.
Tick ==
  LET harmed == hurt \cup Starved IN
  /\ \A c \in Running \ harmed : clock[c].ran < Quick
  /\ queue # <<>> => Cardinality(Running) = PoolSize
  /\ Starved # {} => FreeConns = 0
  /\ \A c \in Checks : Awaited(c) /\ state[c] \in {"queued", "running"} => ~Due(c)
  /\ clock' = [c \in Checks |->
       CASE state[c] = "queued" -> [clock[c] EXCEPT !.waited = Later(@)]
         [] state[c] = "running" -> [clock[c] EXCEPT !.ran = Later(@)]
         [] OTHER -> clock[c]]
  /\ hurt' = harmed
  /\ blocked' = IF Running \cap (harmed \cup blocked) = {} THEN blocked
                ELSE blocked \cup {c \in Checks : state[c] = "queued"}
  /\ UNCHANGED <<up, others, at, failing, state, queue, linked>>

-----------------------------------------------------------------------------
(* The pool of threads. *)

\* Nothing is left of a check that is over.
Forget(c) ==
  /\ clock' = [clock EXCEPT ![c] = Zero]
  /\ hurt' = hurt \ {c} /\ blocked' = blocked \ {c}

\* The thread that takes check c runs it, or drops it if it is cancelled.
Take(c) ==
  /\ queue' = Tail(queue)
  /\ \/ /\ state[c] = "queued" /\ state' = [state EXCEPT ![c] = "running"]
        /\ hurt' = IF c[2] \in up THEN hurt ELSE hurt \cup {c}
        /\ UNCHANGED <<clock, blocked>>
     \/ /\ state[c] = "cancelled" /\ state' = [state EXCEPT ![c] = "none"]
        /\ Forget(c)
  /\ UNCHANGED <<up, others, at, failing, linked>>

\* Variant: one thread more than the pool has.
StartUnbounded ==
  queue # <<>> /\ Cardinality(Running) <= PoolSize /\ Take(Head(queue))

Start ==
  queue # <<>> /\ Cardinality(Running) < PoolSize /\ Take(Head(queue))

\* engine.connect: a free connection goes to a check that waits for one.
Connect(c) ==
  /\ c \in Starved /\ FreeConns > 0
  /\ linked' = linked \cup {c}
  /\ UNCHANGED <<up, others, at, failing, state, queue, clock, hurt, blocked>>

\* A check ends; its outcome is lost if its request has given up.
End(c, outcome) ==
  /\ state' = [state EXCEPT ![c] = IF Awaited(c) THEN outcome ELSE "none"]
  /\ linked' = linked \ {c}
  /\ IF Awaited(c) THEN UNCHANGED <<clock, hurt, blocked>> ELSE Forget(c)
  /\ UNCHANGED <<up, others, at, failing, queue>>

Succeed(c) == c \in Running \ Starved /\ c[2] \in up /\ End(c, "ok")

\* A check that met its dependency down raises: at once if it refuses, by the
\* timeouts of the database connection or the HTTP client if it hangs.  One that
\* gets no connection raises by the engine's pool_timeout, and no sooner.
Raise(c) ==
  /\ c \in Running \cap hurt
  /\ c \in Starved => clock[c].ran = Patience
  /\ End(c, "raised")

-----------------------------------------------------------------------------
(* The request. *)

\* submit: r's check of d enters the queue, and r waits for it.
Submit(r, d, futures) ==
  /\ at' = [at EXCEPT ![r] = d]
  /\ state' = [futures EXCEPT ![<<r, d>>] = "queued"]
  /\ queue' = Append(queue, <<r, d>>)

\* A request comes when the pool has nothing left of the one before it.
Arrive(r) ==
  /\ at[r] = "idle"
  /\ \A d \in Deps : state[<<r, d>>] = "none"
  /\ failing' = {c \in failing : c[1] # r}
  /\ Submit(r, "postgresql", state)
  /\ UNCHANGED <<up, others, linked, clock, hurt, blocked>>

\* r has its verdict on the dependency of c, whose future becomes f: the first
\* failure ends a readiness request, the panel goes on to MinIO.
Report(r, c, ok, f) ==
  LET futures == [state EXCEPT ![c] = f] IN
  /\ failing' = IF ok THEN failing ELSE failing \cup {c}
  /\ IF c[2] = "postgresql" /\ (ok \/ r \in Panels)
     THEN Submit(r, "minio", futures) /\ UNCHANGED clock
     ELSE /\ at' = [at EXCEPT ![r] = "idle"]
          /\ state' = futures /\ UNCHANGED queue
          /\ clock' = [e \in Checks |->
               IF e[1] = r /\ futures[e] # "running" THEN Zero ELSE clock[e]]
  /\ IF f = "none" THEN hurt' = hurt \ {c} /\ blocked' = blocked \ {c}
                   ELSE UNCHANGED <<hurt, blocked>>
  /\ UNCHANGED <<up, others, linked>>

\* future.result returns or raises.
Result(r) ==
  \E c \in Checks :
    /\ c[1] = r /\ Awaited(c) /\ state[c] \in {"ok", "raised"}
    /\ Report(r, c, state[c] = "ok", "none")

\* r has waited for its check as long as it may: a queued check is cancelled, a
\* running one goes on.
Timeout(r) ==
  \E c \in Checks :
    /\ c[1] = r /\ Awaited(c) /\ state[c] \in {"queued", "running"} /\ Due(c)
    /\ Report(r, c, FALSE, IF state[c] = "queued" THEN "cancelled" ELSE state[c])

Next ==
  \/ \E d \in Deps : GoDown(d) \/ ComeUp(d)
  \/ OthersTake \/ OthersReturn
  \/ \E r \in Requests : Arrive(r) \/ Result(r) \/ Timeout(r)
  \/ Start
  \/ \E c \in Checks : Connect(c) \/ Succeed(c) \/ Raise(c)
  \/ Tick

Spec == Init /\ [][Next]_vars

\* Threads and waits go on, and time passes whenever it may again and again;
\* nothing is assumed of a check that met its dependency down, which may hang even
\* when the dependency is back, nor of those who hold connections.
LiveSpec ==
  /\ Spec
  /\ WF_vars(Start) /\ SF_vars(Tick)
  /\ \A c \in Checks : WF_vars(Connect(c)) /\ WF_vars(c \notin hurt /\ Succeed(c))
  /\ \A r \in Requests : WF_vars(Result(r)) /\ WF_vars(Timeout(r))

-----------------------------------------------------------------------------
(* Properties. *)

\* Whom a request calls failing for the first time.
Alarms == failing' \ failing

\* A request calls a dependency failing only if it was down, or gave no connection,
\* while the check ran, or if the check waited so long for a thread that a healthy
\* run no longer fits into the timeout: time the other check of the request took
\* does not count.
AlarmHasCause ==
  [][\A c \in Alarms : c \in hurt \/ clock[c].waited + Quick >= Patience]_vars

\* While there is a thread for each request, load alone raises no alarm: behind a
\* false one is a check that met its own dependency down, or no connection, and
\* held a thread while the other one, or one that held a thread later, was queued.
NoAlarmByLoad ==
  [][Cardinality(Requests) <= PoolSize => Alarms \subseteq hurt \cup blocked]_vars

\* "bounded timeouts": every request is answered, even if both dependencies hang,
\* no check ever returns and all connections are taken.
AllAnswered == \A r \in Requests : at[r] \in Deps ~> at[r] = "idle"

=============================================================================
