--------------------------------- MODULE Pages ---------------------------------
(***************************************************************************)
(* What the read-only routes show (main.py, status.py, dashboard_data.py,  *)
(* latest_completed_pair and serialize_pair of benchmarks.py).  A page is  *)
(* put together from several statements of one session; PostgreSQL runs    *)
(* each of them on what is committed by then (READ COMMITTED), while       *)
(* ingests and benchmarks commit between them and any statement may fail.  *)
(*                                                                         *)
(* Requests only read, so one client that makes them one after the other   *)
(* stands for all of them.  Rows are never changed or removed.             *)
(***************************************************************************)
EXTENDS Naturals, Sequences, FiniteSets, SequencesExt

CONSTANTS
  Observations,
  Timestamp,     \* [Observations -> Nat]: start of the observation upstream
  Registry,      \* WORKLOAD_REGISTRY's keys, a sequence
  PairIds,       \* ids of benchmark pairs, given before the pair is committed
  Times,         \* readings of the wall clock, which may be set back
  PageSize,      \* limit of /api/observations
  RecentLimit,   \* observations on a dashboard
  MaxRows,       \* bound on committed observations and pairs together
  NoPair

ASSUME PagesAssumption ==
  /\ Timestamp \in [Observations -> Nat]
  /\ PairIds \subseteq Nat /\ Times \subseteq Nat \ {0}
  /\ PageSize \in Nat \ {0} /\ RecentLimit \in Nat \ {0} /\ MaxRows \in Nat

Workloads == {Registry[i] : i \in DOMAIN Registry}

Pair == [id : PairIds, workload : Workloads, at : Times]

\* The reads that are not of one workload; its key names that one.
NamedReads ==
  {"count", "last", "total", "recent", "headline", "passes", "rows", "size"}

\* Workloads are not named like a read or a panel.
ASSUME RegistryAssumption ==
  /\ Registry \in Seq(Workloads)
  /\ Workloads \cap (NamedReads \cup {"mission", "benchmark"}) = {}

\* None is no row.
ASSUME NoPairAssumption == NoPair \notin Pair

VARIABLES
  ingestedAt,  \* the observations table: [Observations -> Times], 0 for no row
  pairs,       \* the completed pairs
  page,        \* the page being put together, or put together last
  todo,        \* its reads still to be made
  session,     \* "fresh" without a connection, "broken" after a failed statement
  view,        \* what has been read
  down,        \* its panels shown as unavailable, its workloads skipped as such
  answer,      \* "none" until the request is answered
  known,       \* the pairs committed when the request began (history)
  walk         \* a client's walk through /api/observations

stored  == <<ingestedAt, pairs>>
request == <<page, todo, session, view, down, answer, known>>
vars    == <<stored, request, walk>>

Stored == {o \in Observations : ingestedAt[o] # 0}

-----------------------------------------------------------------------------
(* The reads of the pages, in their order.  "headline" and the workloads stand *)
(* for latest_completed_pair with serialize_pair, whose other rows never       *)
(* change once the pair is there.                                              *)

\* Variant: the total is counted before the last 24 hours.
StatusTotalFirst == <<"total", "count", "last">>

StatusReads == <<"count", "last", "total">>

\* Variant: the observations are counted before they are read.
ListingSizeFirst == <<"size", "rows">>

ListingReads == <<"rows", "size">>

ContextReads == StatusReads \o <<"recent", "headline", "passes">>

Pages == {"status", "listing", "latest", "matrix", "dashboard", "orbital"}

ReadsOf(p) ==
  CASE p = "status"    -> {StatusReads}
    [] p = "listing"   -> {ListingReads}
    [] p = "latest"    -> {<<w>> : w \in Workloads}
    [] p = "matrix"    -> {Registry}
    [] p = "dashboard" -> {ContextReads}
    [] p = "orbital"   -> {ContextReads \o Registry}

\* The try statements of _dashboard_context; a workload has its own.
Panel(read) ==
  CASE read \in {"count", "last", "total", "recent"} -> "mission"
    [] read = "headline" -> "benchmark"
    [] OTHER -> read

\* Variant: of the benchmark panel only the error of a missing pair is caught.
CatchesMissing(p, read) == p \in {"dashboard", "orbital"} /\ Panel(read) \in {"mission", "passes"}

\* The error of a failed statement, and that of elements that cannot be had, is
\* caught for the panels of _dashboard_context and nowhere else.
Catches(p, read) == p \in {"dashboard", "orbital"} /\ read \notin Workloads

\* The rest of s after its first n reads.
Rest(s, n) == [i \in 1..(Len(s) - n) |-> s[n + i]]

\* The first n reads of s are what is left of a try statement.
PanelEnds(s, n) ==
  /\ \A i \in 1..n : Panel(s[i]) = Panel(s[1])
  /\ n < Len(s) => Panel(s[n + 1]) # Panel(s[1])

-----------------------------------------------------------------------------
\* Status 500 or 503 on account of the database; 500 on account of the passes.
Errors == {"error", "passesError"}

NoWalk == [offset |-> 0, known |-> {}, seen |-> {}, done |-> FALSE]

TypeOK ==
  /\ ingestedAt \in [Observations -> Times \cup {0}]
  /\ pairs \subseteq Pair /\ known \subseteq pairs
  /\ \A p, q \in pairs : p.id = q.id => p = q
  /\ page \in Pages
  /\ \E s \in ReadsOf(page) : \E n \in 0..Len(s) : todo = Rest(s, n)
  /\ session \in {"fresh", "open", "broken"}
  /\ down \subseteq {"mission", "benchmark", "passes"} \cup Workloads
  /\ answer \in {"none", "page", "missing"} \cup Errors
  /\ answer \notin Errors => DOMAIN view \subseteq UNION {ToSet(s) : s \in ReadsOf(page)}
  /\ walk \in [offset : Nat, known : SUBSET Observations,
               seen : SUBSET Observations, done : BOOLEAN]
  /\ walk.seen \subseteq Stored /\ walk.offset % PageSize = 0

\* Nothing has been asked for yet.
Init ==
  /\ ingestedAt = [o \in Observations |-> 0]
  /\ pairs = {} /\ known = {}
  /\ page = "status" /\ todo = <<>> /\ session = "fresh"
  /\ view = <<>> /\ down = {} /\ answer = "error"
  /\ walk = NoWalk

-----------------------------------------------------------------------------
(* Other sessions. *)

RoomForRow == Cardinality(Stored) + Cardinality(pairs) < MaxRows

\* ingested_at and completed_at are read from the clock before the commit.
CommitObservation(o) ==
  /\ o \notin Stored /\ RoomForRow
  /\ \E t \in Times : ingestedAt' = [ingestedAt EXCEPT ![o] = t]
  /\ UNCHANGED <<pairs, request, walk>>

CommitPair(id) ==
  /\ RoomForRow /\ \A p \in pairs : p.id # id
  /\ \E w \in Workloads, t \in Times :
       pairs' = pairs \cup {[id |-> id, workload |-> w, at |-> t]}
  /\ UNCHANGED <<ingestedAt, request, walk>>

-----------------------------------------------------------------------------
(* What a statement returns. *)

AtLeastAsNew(p, q) == p.at > q.at \/ (p.at = q.at /\ p.id >= q.id)

\* Variant: the pair inserted last.
LatestById(S) ==
  IF S = {} THEN NoPair ELSE CHOOSE p \in S : \A q \in S : p.id >= q.id

\* latest_completed_pair: by completed_at, then by id.
Latest(S) ==
  IF S = {} THEN NoPair ELSE CHOOSE p \in S : \A q \in S : AtLeastAsNew(p, q)

\* The rows from offset n on, at most m.  Observations with one timestamp come
\* in any order, in another one with every statement.
Slices(n, m) ==
  LET newestFirst == {s \in SetToSeqs(Stored) :
        \A i, j \in DOMAIN s : i < j => Timestamp[s[i]] >= Timestamp[s[j]]}
  IN {{s[i] : i \in (n + 1)..(n + m) \cap DOMAIN s} : s \in newestFirst}

Values(read) ==
  CASE read = "count"  -> {[since |-> t,
                            rows |-> Cardinality({o \in Stored : ingestedAt[o] >= t})] : t \in Times}
    [] read = "last"   -> {Max({0} \cup {ingestedAt[o] : o \in Stored})}
    [] read \in {"total", "size"} -> {Cardinality(Stored)}
    [] read = "recent" -> Slices(0, RecentLimit)
    [] read = "rows"   -> Slices(walk.offset, PageSize)
    [] read = "headline" -> {Latest(pairs)}
    [] read = "passes" -> {TRUE}
    [] OTHER -> {Latest({p \in pairs : p.workload = read})}

-----------------------------------------------------------------------------
(* A request. *)

\* Variant: a request starts with the panels of the one before it.
RequestStale(p) ==
  /\ answer # "none"
  /\ p = "listing" \/ walk.offset = 0
  /\ page' = p
  /\ todo' \in ReadsOf(p)
  /\ session' = "fresh" /\ answer' = "none"
  /\ known' = pairs
  /\ UNCHANGED <<stored, view, down, walk>>

\* A walk through the observations begins at offset 0 and is not interrupted.
Request(p) ==
  /\ answer # "none"
  /\ p = "listing" \/ walk.offset = 0
  /\ page' = p
  /\ todo' \in ReadsOf(p)
  /\ session' = "fresh"
  /\ view' = <<>> /\ down' = {} /\ answer' = "none"
  /\ known' = pairs
  /\ walk' = IF walk.offset > 0 THEN walk
             ELSE [NoWalk EXCEPT !.known = IF p = "listing" THEN Stored ELSE {}]
  /\ UNCHANGED stored

WithRead(read, v) ==
  [r \in DOMAIN view \cup {read} |-> IF r = read THEN v ELSE view[r]]

\* The passes need no statement.
Read ==
  /\ todo # <<>>
  /\ session # "broken" \/ Head(todo) = "passes"
  /\ \E v \in Values(Head(todo)) : view' = WithRead(Head(todo), v)
  /\ session' = IF Head(todo) = "passes" THEN session ELSE "open"
  /\ todo' = Tail(todo)
  /\ UNCHANGED <<stored, page, down, answer, known, walk>>

\* A statement that fails leaves a session that refuses every other one until it
\* is rolled back, which no page does; without a connection the next statement
\* asks for one again.
Breaks == session' \in IF session = "fresh" THEN {"fresh", "broken"} ELSE {"broken"}

RequestFails(status) == answer' = status /\ todo' = <<>> /\ view' = <<>> /\ UNCHANGED down

\* Elements that cannot be had make the passes fail, a statement any other read:
\* its panel is given up, or the request if nothing catches the error.
Fail ==
  /\ todo # <<>>
  /\ IF Head(todo) = "passes" THEN UNCHANGED session ELSE Breaks
  /\ IF Catches(page, Head(todo))
       THEN /\ down' = down \cup {Panel(Head(todo))}
            /\ \E n \in 1..Len(todo) : PanelEnds(todo, n) /\ todo' = Rest(todo, n)
            /\ view' = Restrict(view, {read \in DOMAIN view : Panel(read) # Panel(Head(todo))})
            /\ UNCHANGED answer
       ELSE RequestFails("error")
  /\ UNCHANGED <<stored, page, known, walk>>

\* Elements that are there but cannot be computed with: no HTTPException, so
\* nothing catches the error.
PassesRaise ==
  /\ todo # <<>> /\ Head(todo) = "passes"
  /\ RequestFails("passesError")
  /\ UNCHANGED <<stored, page, session, known, walk>>

\* serialize_pair finds a pair without its two runs, its workload or its dataset.
\* Every statement has succeeded: the workload is skipped in a matrix, the panel
\* of a dashboard given up, the request for that pair alone refused.
Incomplete ==
  /\ todo # <<>> /\ session # "broken"
  /\ Head(todo) \in {"headline"} \cup Workloads
  /\ Values(Head(todo)) # {NoPair}
  /\ IF page = "latest"
       THEN RequestFails("error")
       ELSE /\ down' = down \cup {Panel(Head(todo))}
            /\ todo' = Tail(todo)
            /\ UNCHANGED <<view, answer>>
  /\ session' = "open"
  /\ UNCHANGED <<stored, page, known, walk>>

\* The client asks for the next page while total says that there is one.
Walked ==
  LET next == walk.offset + PageSize
      more == next < view["size"]
  IN [walk EXCEPT !.seen = @ \cup view["rows"],
                  !.offset = IF more THEN next ELSE 0, !.done = ~more]

Serve ==
  /\ todo = <<>> /\ answer = "none"
  /\ answer' = IF page = "latest" /\ \E w \in DOMAIN view : view[w] = NoPair
                 THEN "missing" ELSE "page"
  /\ walk' = IF page = "listing" THEN Walked ELSE walk
  /\ UNCHANGED <<stored, page, todo, session, view, down, known>>

Step == Read \/ Fail \/ PassesRaise \/ Incomplete \/ Serve

Next ==
  \/ \E o \in Observations : CommitObservation(o)
  \/ \E id \in PairIds : CommitPair(id)
  \/ \E p \in Pages : Request(p)
  \/ Step

Spec == Init /\ [][Next]_vars

\* Every statement returns or fails, by the timeouts of the connection, the pool
\* and the statement.
LiveSpec == Spec /\ WF_vars(Step)

-----------------------------------------------------------------------------
(* Properties. *)

Served == answer \in {"page", "missing"}
Shows(read) == Served /\ read \in DOMAIN view

\* compute_status and the dashboard's list: the numbers of one answer fit each
\* other although rows are committed between their statements.  No more were
\* ingested in 24 hours than in all, the last ingestion is one of those, and the
\* list is not shorter than the total shown above it.
StatusConsistent ==
  Shows("total") =>
    /\ view["count"].rows <= view["total"]
    /\ view["count"].rows > 0 => view["last"] >= view["count"].since
    /\ view["last"] > 0 => view["total"] > 0
    /\ Shows("recent") => \/ Cardinality(view["recent"]) >= view["total"]
                          \/ Cardinality(view["recent"]) = RecentLimit

Covers(shown, S) == S # {} => shown # NoPair /\ \A p \in S : AtLeastAsNew(shown, p)
OfWorkload(w, S) == {p \in S : p.workload = w}

\* "Workloads with no completed pair yet (or a transiently unavailable one) are
\* skipped" (dashboard_data.py): a read that an answer lacks was given up with its
\* panel, or skipped because its pair was incomplete, and what the answer shows is
\* at least as new as every pair that was there when the request began, the matrix
\* as new as the headline beside it, however completions overtake each other and
\* whichever statement fails.
NewestShown ==
  Served =>
    /\ \E s \in ReadsOf(page) : \A i \in DOMAIN s : Shows(s[i]) \/ Panel(s[i]) \in down
    /\ \A w \in Workloads : Shows(w) => Covers(view[w], OfWorkload(w, known))
    /\ Shows("headline") =>
         /\ Covers(view["headline"], known)
         /\ \A w \in Workloads : (Shows(w) /\ view["headline"] # NoPair) =>
              Covers(view[w], OfWorkload(w, {view["headline"]}))

\* /api/observations: a client that asks for page after page until the total is
\* reached has been shown every observation that was there when it began,
\* whatever is ingested meanwhile, except one that shares its timestamp.
WalkComplete ==
  walk.done =>
    \A o \in walk.known :
      o \in walk.seen \/ \E x \in Stored \ {o} : Timestamp[x] = Timestamp[o]

\* "degrades cleanly when PostgreSQL fails" (a test of the repository): every
\* request for the dashboard is answered, and with a page whichever statements
\* fail; only passes that cannot be computed make it an error.
DashboardServed ==
  (page = "dashboard" /\ answer = "none")
    ~> (page = "dashboard" /\ answer \in {"page", "passesError"})

=============================================================================
