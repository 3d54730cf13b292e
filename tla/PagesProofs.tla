------------------------------ MODULE PagesProofs ------------------------------
(***************************************************************************)
(* The pages of the read-only routes, for any rows, registry, clock and    *)
(* page size, however commits and failures fall between their statements.  *)
(* What makes the properties inductive: how far a page has been read       *)
(* (ProgressInv), what its numbers say of the rows now (CountInv), what    *)
(* its pairs are worth to the pairs then (PairInv), and how many rows are  *)
(* above one that a walk has not shown yet (WalkInv).                      *)
(***************************************************************************)
EXTENDS Pages, FiniteSetTheorems, SequenceTheorems, TLAPS

TypeInv ==
  /\ ingestedAt \in [Observations -> Times \cup {0}]
  /\ IsFiniteSet(Stored)
  /\ pairs \subseteq Pair /\ known \subseteq pairs
  /\ \A p, q \in pairs : p.id = q.id => p = q
  /\ page \in Pages
  /\ session \in {"fresh", "open", "broken"}
  /\ down \subseteq {"mission", "benchmark", "passes"} \cup Workloads
  /\ answer \in {"none", "page", "missing"} \cup Errors

-----------------------------------------------------------------------------
(* The page: n reads of s are done, each is shown or its panel is down, and *)
(* no read that is shown or still to be made is of a panel that is down.  A *)
(* workload may be registered twice, and be skipped once only.              *)

Progress(s, n) ==
  /\ todo = Rest(s, n)
  /\ answer # "none" => n = Len(s)
  /\ answer \notin Errors =>
       /\ \A i \in 1..n : s[i] \in DOMAIN view \/ Panel(s[i]) \in down
       /\ \A read \in DOMAIN view : \E i \in 1..n : read = s[i]
       /\ \A read \in DOMAIN view \cap NamedReads : Panel(read) \notin down
       /\ \A i \in (n + 1)..Len(s) : s[i] \in NamedReads => Panel(s[i]) \notin down

ProgressInv ==
  /\ \E s \in ReadsOf(page) : \E n \in 0..Len(s) : Progress(s, n)
  /\ page = "listing" => down = {}

-----------------------------------------------------------------------------
(* What was counted is there still, and more. *)

Has(read) == answer \notin Errors /\ read \in DOMAIN view

CountInv ==
  /\ Has("count") =>
       /\ view["count"].rows \in Nat /\ view["count"].since \in Nat
       /\ view["count"].rows <= Cardinality(Stored)
  /\ Has("last") => view["last"] \in Nat /\ (view["last"] > 0 => Stored # {})
  /\ Has("total") => view["total"] \in Nat /\ view["total"] <= Cardinality(Stored)
  /\ Has("recent") => Cardinality(view["recent"]) \in Nat

\* The later number against the earlier one.
FitInv ==
  /\ (Has("count") /\ view["count"].rows > 0)
       => \E o \in Stored : ingestedAt[o] >= view["count"].since
  /\ (Has("count") /\ Has("last") /\ view["count"].rows > 0)
       => view["last"] >= view["count"].since
  /\ (Has("count") /\ Has("total")) => view["count"].rows <= view["total"]
  /\ (Has("last") /\ Has("total") /\ view["last"] > 0) => view["total"] > 0
  /\ (Has("total") /\ Has("recent")) =>
       \/ Cardinality(view["recent"]) >= view["total"]
       \/ Cardinality(view["recent"]) = RecentLimit

-----------------------------------------------------------------------------
(* The newest of a set of rows: it exists, for rows came one by one. *)

HasNewest(S) == S = {} \/ \E p \in S : \A q \in S : AtLeastAsNew(p, q)

HasMax(S) == \E m \in S : \A x \in S : m >= x

Ingestions == {0} \cup {ingestedAt[o] : o \in Stored}

NewestInv ==
  /\ HasNewest(pairs) /\ \A w \in Workloads : HasNewest(OfWorkload(w, pairs))
  /\ HasMax(Ingestions)

PairInv ==
  /\ \A w \in Workloads : Has(w) =>
       /\ Covers(view[w], OfWorkload(w, known))
       /\ (Has("headline") /\ view["headline"] # NoPair)
            => Covers(view[w], OfWorkload(w, {view["headline"]}))
  /\ Has("headline") =>
       view["headline"] \in pairs \cup {NoPair} /\ Covers(view["headline"], known)

-----------------------------------------------------------------------------
(* The walk: a row that it has not shown and that has a timestamp of its own *)
(* has at least as many rows above it as were skipped.                       *)

Tied(o) == \E x \in Stored \ {o} : Timestamp[x] = Timestamp[o]
Above(o) == {x \in Stored : Timestamp[x] > Timestamp[o]}
Ahead(o, n) == Cardinality(Above(o)) >= n

Reached == walk.offset + PageSize

WalkInv ==
  /\ walk \in [offset : Nat, known : SUBSET Observations,
               seen : SUBSET Observations, done : BOOLEAN]
  /\ walk.offset % PageSize = 0 /\ (walk.done => walk.offset = 0)
  /\ walk.seen \subseteq Stored /\ walk.known \subseteq Stored
  /\ \A o \in walk.known : \/ o \in walk.seen \/ Tied(o)
                           \/ ~walk.done /\ Ahead(o, walk.offset)

ListingInv ==
  (page = "listing" /\ answer = "none") =>
    /\ ~walk.done
    /\ "rows" \in DOMAIN view =>
         /\ view["rows"] \subseteq Stored
         /\ \A o \in walk.known :
              o \in walk.seen \cup view["rows"] \/ Tied(o) \/ Ahead(o, Reached)
    /\ ("rows" \in DOMAIN view /\ "size" \in DOMAIN view) =>
         /\ view["size"] \in Nat
         /\ Reached >= view["size"] =>
              \A o \in walk.known : o \in walk.seen \cup view["rows"] \/ Tied(o)

IInv ==
  TypeInv /\ ProgressInv /\ CountInv /\ FitInv /\ NewestInv /\ PairInv /\ WalkInv /\ ListingInv

-----------------------------------------------------------------------------
(* Sequences of reads. *)

LEMMA RestFacts ==
  ASSUME NEW S, NEW s \in Seq(S), NEW n \in 0..Len(s)
  PROVE  /\ Rest(s, n) \in Seq(S) /\ Len(Rest(s, n)) = Len(s) - n
         /\ \A i \in 1..(Len(s) - n) : Rest(s, n)[i] = s[n + i] /\ s[n + i] \in S
         /\ Rest(s, n) = <<>> <=> n = Len(s)
<1>1. Len(s) \in Nat /\ Len(s) - n \in Nat
  OBVIOUS
<1>2. \A i \in 1..(Len(s) - n) : n + i \in 1..Len(s)
  BY <1>1
<1>3. \A i \in 1..(Len(s) - n) : s[n + i] \in S
  BY <1>2
<1>4. Rest(s, n) \in [1..(Len(s) - n) -> S]
  BY <1>3 DEF Rest
<1>5. Rest(s, n) \in Seq(S) /\ Len(Rest(s, n)) = Len(s) - n
  BY <1>1, <1>4
<1>6. Rest(s, n) = <<>> <=> n = Len(s)
  <2>1. CASE n = Len(s)
    BY <2>1, <1>1, <1>5
  <2>2. CASE n # Len(s)
    <3>1. Len(Rest(s, n)) # 0
      BY <2>2, <1>1, <1>5
    <3> QED BY <3>1, <2>2
  <2> QED BY <2>1, <2>2
<1> QED BY <1>3, <1>5, <1>6 DEF Rest

\* Reads made one after the other.
LEMMA RestOfRest ==
  ASSUME NEW S, NEW s \in Seq(S), NEW n \in 0..Len(s), NEW m \in 0..(Len(s) - n)
  PROVE  Rest(Rest(s, n), m) = Rest(s, n + m)
<1>1. Len(Rest(s, n)) = Len(s) - n /\ Len(s) \in Nat
  BY RestFacts
<1>2. (Len(s) - n) - m = Len(s) - (n + m)
  BY <1>1
<1>3. ASSUME NEW i \in 1..(Len(s) - (n + m))
      PROVE  Rest(s, n)[m + i] = s[(n + m) + i]
  <2>1. m + i \in 1..(Len(s) - n) /\ n + (m + i) = (n + m) + i
    BY <1>1
  <2>2. \A k \in 1..(Len(s) - n) : Rest(s, n)[k] = s[n + k]
    BY RestFacts
  <2>3. Rest(s, n)[m + i] = s[n + (m + i)]
    BY <2>1, <2>2
  <2> QED BY <2>1, <2>3
<1> QED BY <1>1, <1>2, <1>3 DEF Rest

LEMMA TailOfRest ==
  ASSUME NEW S, NEW s \in Seq(S), NEW n \in 0..Len(s), Rest(s, n) # <<>>
  PROVE  /\ n + 1 \in 1..Len(s) /\ Head(Rest(s, n)) = s[n + 1]
         /\ Tail(Rest(s, n)) = Rest(s, n + 1)
<1>1. /\ Rest(s, n) \in Seq(S) /\ Len(Rest(s, n)) = Len(s) - n /\ Len(s) \in Nat
      /\ n # Len(s)
  BY RestFacts
<1>2. n + 1 \in 1..Len(s) /\ 1 \in 1..(Len(s) - n)
  BY <1>1
<1>3. Head(Rest(s, n)) = s[n + 1]
  BY <1>1, <1>2, RestFacts
<1>4. Tail(Rest(s, n)) = [i \in 1..(Len(s) - n - 1) |-> Rest(s, n)[i + 1]]
  <2> DEFINE r == Rest(s, n)
             t == Tail(r)
  <2>1. r \in Seq(S) /\ r # <<>> /\ Len(r) = Len(s) - n
    BY <1>1
  <2> HIDE DEF r
  <2>2. /\ t \in Seq(S) /\ Len(t) = Len(r) - 1
        /\ \A i \in 1..Len(t) : t[i] = r[i + 1]
    BY <2>1
  <2>3. Len(r) \in Nat /\ Len(t) = Len(s) - n - 1
    BY <2>1, <2>2, <1>1
  <2> HIDE DEF t
  <2>4. t = [i \in 1..Len(t) |-> t[i]]
    BY <2>2
  <2>5. t = [i \in 1..Len(t) |-> r[i + 1]]
    BY <2>2, <2>4
  <2> QED BY <2>3, <2>5 DEF r, t
<1>5. ASSUME NEW i \in 1..(Len(s) - n - 1)
      PROVE  Rest(s, n)[i + 1] = s[(n + 1) + i]
  <2> DEFINE j == n + (i + 1)
  <2>1. i + 1 \in 1..(Len(s) - n) /\ j = (n + 1) + i
    BY <1>1
  <2>2. \A k \in 1..(Len(s) - n) : Rest(s, n)[k] = s[n + k]
    BY RestFacts
  <2>3. Rest(s, n)[i + 1] = s[j]
    BY <2>1, <2>2
  <2> HIDE DEF j
  <2> QED BY <2>1, <2>3
<1>6. Len(s) - n - 1 = Len(s) - (n + 1)
  BY <1>1
<1>7. Tail(Rest(s, n)) = [i \in 1..(Len(s) - (n + 1)) |-> s[(n + 1) + i]]
  BY <1>4, <1>5, <1>6
<1>8. Tail(Rest(s, n)) = Rest(s, n + 1)
  BY <1>7 DEF Rest
<1> QED BY <1>2, <1>3, <1>8

\* Nothing is read yet.
LEMMA RestOfAll ==
  ASSUME NEW S, NEW s \in Seq(S)
  PROVE  Rest(s, 0) = s
<1>1. Len(s) \in Nat /\ 0 \in 0..Len(s)
  OBVIOUS
<1>2. Rest(s, 0) = [i \in 1..Len(s) |-> s[i]]
  <2>1. Len(s) - 0 = Len(s) /\ \A i \in 1..Len(s) : 0 + i = i
    BY <1>1
  <2> QED BY <2>1 DEF Rest
<1> QED BY <1>2

-----------------------------------------------------------------------------
(* The reads of the pages, and which of them come before which. *)

Reads == NamedReads \cup Workloads

LEMMA RegistryFacts ==
  /\ Registry \in Seq(Workloads) /\ Len(Registry) \in Nat
  /\ \A i \in 1..Len(Registry) : Registry[i] \in Workloads
  /\ \A w \in Workloads :
       w \notin NamedReads /\ w \notin {"mission", "benchmark"} /\ Panel(w) = w
<1>1. \A w \in Workloads : w \notin NamedReads /\ w \notin {"mission", "benchmark"}
  BY RegistryAssumption
<1> QED BY <1>1, RegistryAssumption DEF NamedReads, Panel

LEMMA ContextFacts ==
  /\ ContextReads \in Seq(NamedReads) /\ Len(ContextReads) = 6
  /\ ContextReads[1] = "count" /\ ContextReads[2] = "last" /\ ContextReads[3] = "total"
  /\ ContextReads[4] = "recent" /\ ContextReads[5] = "headline" /\ ContextReads[6] = "passes"
BY DEF ContextReads, StatusReads, NamedReads

LEMMA ConcatFacts ==
  ASSUME NEW S, NEW a \in Seq(S), NEW b \in Seq(S)
  PROVE  /\ a \o b \in Seq(S) /\ Len(a \o b) = Len(a) + Len(b)
         /\ \A i \in 1..Len(a) : (a \o b)[i] = a[i]
         /\ \A i \in 1..Len(b) : (a \o b)[Len(a) + i] = b[i]
BY ConcatProperties

LEMMA LongFacts ==
  LET s == ContextReads \o Registry IN
  /\ s \in Seq(Reads) /\ Len(s) = 6 + Len(Registry)
  /\ \A i \in 1..6 : s[i] = ContextReads[i]
  /\ \A i \in 1..Len(s) : i > 6 => s[i] \in Workloads
<1>1. ContextReads \in Seq(Reads) /\ Registry \in Seq(Reads)
  BY ContextFacts, RegistryFacts DEF Reads
<1> DEFINE s == ContextReads \o Registry
<1>2. /\ s \in Seq(Reads) /\ Len(s) = 6 + Len(Registry)
      /\ \A i \in 1..6 : s[i] = ContextReads[i]
      /\ \A i \in 1..Len(Registry) : s[6 + i] = Registry[i]
  <2>1. /\ s \in Seq(Reads) /\ Len(s) = Len(ContextReads) + Len(Registry)
        /\ \A i \in 1..Len(ContextReads) : s[i] = ContextReads[i]
        /\ \A i \in 1..Len(Registry) : s[Len(ContextReads) + i] = Registry[i]
    BY <1>1, ConcatFacts
  <2> QED BY <2>1, ContextFacts
<1> HIDE DEF s
<1>3. ASSUME NEW i \in 1..Len(s), i > 6
      PROVE  s[i] \in Workloads
  <2>1. i - 6 \in 1..Len(Registry) /\ 6 + (i - 6) = i
    BY <1>2, <1>3, RegistryFacts
  <2>2. s[i] = Registry[i - 6]
    BY <1>2, <2>1
  <2> QED BY <2>1, <2>2, RegistryFacts
<1> QED BY <1>2, <1>3 DEF s

\* Where each read stands in each page.
LEMMA ReadFacts ==
  ASSUME NEW p \in Pages, NEW s \in ReadsOf(p)
  PROVE  /\ s \in Seq(Reads) /\ Len(s) \in Nat
         /\ \A i \in 1..Len(s) :
              /\ s[i] = "count" => i = 1
              /\ s[i] = "last" => i = 2 /\ s[1] = "count"
              /\ s[i] = "total" => i = 3 /\ s[1] = "count" /\ s[2] = "last"
              /\ s[i] = "recent" => i = 4
              /\ s[i] = "headline" => i = 5
              /\ s[i] = "rows" => i = 1 /\ p = "listing"
              /\ s[i] = "size" => i = 2 /\ s[1] = "rows" /\ p = "listing"
         /\ \A i, j \in 1..Len(s) :
              (s[i] = "headline" /\ s[j] \in Workloads) => i < j
         /\ p = "listing" => s = <<"rows", "size">>
<1>1. CASE p = "status"
  <2>1. s = <<"count", "last", "total">>
    BY <1>1 DEF ReadsOf, StatusReads
  <2> QED BY <1>1, <2>1, RegistryFacts DEF Reads, NamedReads
<1>2. CASE p = "listing"
  <2>1. s = <<"rows", "size">>
    BY <1>2 DEF ReadsOf, ListingReads
  <2> QED BY <1>2, <2>1, RegistryFacts DEF Reads, NamedReads
<1>3. CASE p = "latest"
  <2>1. PICK w \in Workloads : s = <<w>>
    BY <1>3 DEF ReadsOf
  <2> QED BY <1>3, <2>1, RegistryFacts DEF Reads, NamedReads
<1>4. CASE p = "matrix"
  <2>1. s = Registry
    BY <1>4 DEF ReadsOf
  <2>2. \A i \in 1..Len(s) : s[i] \notin NamedReads
    BY <2>1, RegistryFacts
  <2> QED BY <1>4, <2>1, <2>2, RegistryFacts DEF Reads, NamedReads
<1>5. CASE p = "dashboard"
  <2>1. s = ContextReads
    BY <1>5 DEF ReadsOf
  <2>2. \A i \in 1..Len(s) : i \in {1, 2, 3, 4, 5, 6}
    BY <2>1, ContextFacts
  <2> QED BY <1>5, <2>1, <2>2, ContextFacts, RegistryFacts DEF Reads, NamedReads
<1>6. CASE p = "orbital"
  <2>1. s = ContextReads \o Registry
    BY <1>6 DEF ReadsOf
  <2>2. /\ s \in Seq(Reads) /\ Len(s) \in Nat /\ Len(s) >= 6
        /\ s[1] = "count" /\ s[2] = "last" /\ s[3] = "total"
        /\ s[4] = "recent" /\ s[5] = "headline" /\ s[6] = "passes"
        /\ \A i \in 1..Len(s) : i > 6 => s[i] \in Workloads
    BY <2>1, LongFacts, ContextFacts, RegistryFacts
  <2>3. \A i \in 1..Len(s) : i \in {1, 2, 3, 4, 5, 6} \/ (i > 6 /\ s[i] \notin NamedReads)
    BY <2>2, RegistryFacts
  <2>4. \A i \in 1..Len(s) : s[i] \in Workloads => i > 6
    BY <2>2, <2>3, RegistryFacts DEF NamedReads
  <2>5. \A i \in 1..Len(s) :
          /\ s[i] = "count" => i = 1
          /\ s[i] = "last" => i = 2
          /\ s[i] = "total" => i = 3
          /\ s[i] = "recent" => i = 4
          /\ s[i] = "headline" => i = 5
          /\ s[i] # "rows" /\ s[i] # "size"
    BY <2>2, <2>3 DEF NamedReads
  <2> QED BY <1>6, <2>2, <2>4, <2>5
<1> QED BY <1>1, <1>2, <1>3, <1>4, <1>5, <1>6 DEF Pages

\* The try statements lie one after the other: a read behind the end of one is
\* of another panel than those before it.
LEMMA PanelFacts ==
  ASSUME NEW p \in {"dashboard", "orbital"}, NEW s \in ReadsOf(p),
         NEW i \in 1..Len(s), NEW j \in 1..Len(s), NEW k \in 1..Len(s),
         i < j, j <= k, s[i] \notin Workloads, Panel(s[j]) # Panel(s[i])
  PROVE  Panel(s[k]) # Panel(s[i])
<1>1. /\ Len(s) \in Nat /\ Len(s) >= 6
      /\ s[1] = "count" /\ s[2] = "last" /\ s[3] = "total"
      /\ s[4] = "recent" /\ s[5] = "headline" /\ s[6] = "passes"
      /\ \A n \in 1..Len(s) : n > 6 => s[n] \in Workloads
  <2>1. CASE p = "dashboard"
    <3>1. s = ContextReads
      BY <2>1 DEF ReadsOf
    <3> QED BY <3>1, ContextFacts
  <2>2. CASE p = "orbital"
    <3>1. s = ContextReads \o Registry
      BY <2>2 DEF ReadsOf
    <3> QED BY <3>1, LongFacts, ContextFacts, RegistryFacts
  <2> QED BY <2>1, <2>2
<1>2. \A n \in 1..Len(s) :
        /\ n <= 4 => Panel(s[n]) = "mission"
        /\ n = 5 => Panel(s[n]) = "benchmark"
        /\ n = 6 => Panel(s[n]) = "passes"
        /\ n > 6 => Panel(s[n]) \in Workloads /\ Panel(s[n]) = s[n]
  <2>1. \A n \in 1..Len(s) : n \in {1, 2, 3, 4, 5, 6} \/ n > 6
    BY <1>1
  <2>2. /\ Panel("count") = "mission" /\ Panel("last") = "mission"
        /\ Panel("total") = "mission" /\ Panel("recent") = "mission"
        /\ Panel("headline") = "benchmark" /\ Panel("passes") = "passes"
    BY DEF Panel
  <2>3. \A n \in 1..Len(s) : n > 6 => Panel(s[n]) \in Workloads /\ Panel(s[n]) = s[n]
    BY <1>1, RegistryFacts
  <2> QED BY <1>1, <2>1, <2>2, <2>3
<1>3. i <= 6
  BY <1>1
<1>4. CASE k > 6
  <2>1. Panel(s[k]) \in Workloads /\ Panel(s[i]) \in {"mission", "benchmark", "passes"}
    BY <1>1, <1>2, <1>3, <1>4
  <2> QED BY <2>1, RegistryFacts DEF NamedReads
<1>5. CASE k <= 6
  BY <1>1, <1>2, <1>3, <1>5
<1> QED BY <1>1, <1>4, <1>5

-----------------------------------------------------------------------------
(* Rows in order and their slices. *)

\* All rows, newest first.
Listed(s) ==
  /\ s \in [1..Cardinality(Stored) -> Stored]
  /\ \A i, j \in 1..Cardinality(Stored) : i # j => s[i] # s[j]
  /\ \A i, j \in 1..Cardinality(Stored) : i < j => Timestamp[s[i]] >= Timestamp[s[j]]

\* Its first k rows are k.
LEMMA ListedPrefix ==
  ASSUME IsFiniteSet(Stored), NEW s, Listed(s), NEW k \in 0..Cardinality(Stored)
  PROVE  Cardinality({s[i] : i \in 1..k}) = k
<1> DEFINE T == {s[i] : i \in 1..k}
           f == [i \in 1..k |-> s[i]]
<1>1. Cardinality(Stored) \in Nat /\ k \in Nat /\ 1..k \subseteq 1..Cardinality(Stored)
  BY FS_CardinalityType
<1>2. f \in Bijection(1..k, T)
  BY <1>1 DEF Bijection, Injection, Surjection, IsInjective, Listed
<1>3. ExistsBijection(1..k, T)
  BY <1>2 DEF ExistsBijection
<1>4. IsFiniteSet(1..k) /\ Cardinality(1..k) = k
  BY <1>1, FS_Interval
<1> HIDE DEF T
<1>5. IsFiniteSet(T) /\ Cardinality(T) = k
  BY <1>3, <1>4, FS_Bijection
<1> QED BY <1>5 DEF T

LEMMA SliceIsOfList ==
  ASSUME NEW n, NEW m, NEW v \in Slices(n, m)
  PROVE  \E s : Listed(s) /\ v = {s[i] : i \in (n + 1)..(n + m) \cap 1..Cardinality(Stored)}
<1>1. PICK s \in SetToSeqs(Stored) :
        /\ \A i, j \in DOMAIN s : i < j => Timestamp[s[i]] >= Timestamp[s[j]]
        /\ v = {s[i] : i \in (n + 1)..(n + m) \cap DOMAIN s}
  BY DEF Slices
<1>2. /\ s \in [1..Cardinality(Stored) -> Stored]
      /\ \A i, j \in 1..Cardinality(Stored) : i # j => s[i] # s[j]
  BY DEF SetToSeqs
<1>3. DOMAIN s = 1..Cardinality(Stored)
  BY <1>2
<1> QED BY <1>1, <1>2, <1>3 DEF Listed

\* A list shows every row.
LEMMA ListedAll ==
  ASSUME IsFiniteSet(Stored), NEW s, Listed(s), NEW o \in Stored
  PROVE  \E i \in 1..Cardinality(Stored) : o = s[i]
<1> DEFINE N == Cardinality(Stored)
<1>1. N \in Nat /\ IsFiniteSet(1..N) /\ Cardinality(1..N) = N
  BY FS_CardinalityType, FS_Interval
<1>2. s \in Injection(1..N, Stored)
  BY DEF Listed, Injection, IsInjective
<1>3. s \in Surjection(1..N, Stored)
  BY <1>1, <1>2, FS_Injection
<1> QED BY <1>3 DEF Surjection

\* A row whose timestamp is its own has its place below the rows above it.
LEMMA PlaceOfRow ==
  ASSUME IsFiniteSet(Stored), NEW s, Listed(s), Stored \subseteq Observations,
         NEW k \in 1..Cardinality(Stored), ~Tied(s[k])
  PROVE  Cardinality(Above(s[k])) = k - 1
<1> DEFINE N == Cardinality(Stored)
<1>1. /\ N \in Nat /\ s \in [1..N -> Stored]
      /\ \A i, j \in 1..N : i # j => s[i] # s[j]
      /\ \A i, j \in 1..N : i < j => Timestamp[s[i]] >= Timestamp[s[j]]
  BY FS_CardinalityType DEF Listed
<1>2. \A i \in 1..N : s[i] \in Stored /\ Timestamp[s[i]] \in Nat
  BY <1>1, PagesAssumption
<1>3. \A i \in 1..N : i # k => Timestamp[s[i]] # Timestamp[s[k]]
  BY <1>1, <1>2 DEF Tied
<1>4. \A i \in 1..N : Timestamp[s[i]] > Timestamp[s[k]] <=> i < k
  <2> SUFFICES ASSUME NEW i \in 1..N
               PROVE  Timestamp[s[i]] > Timestamp[s[k]] <=> i < k
    OBVIOUS
  <2>1. CASE i < k
    <3>1. Timestamp[s[i]] >= Timestamp[s[k]] /\ Timestamp[s[i]] # Timestamp[s[k]]
      BY <2>1, <1>1, <1>3
    <3> QED BY <3>1, <2>1, <1>2
  <2>2. CASE i = k
    BY <2>2, <1>2
  <2>3. CASE i > k
    <3>1. Timestamp[s[k]] >= Timestamp[s[i]]
      BY <2>3, <1>1
    <3> QED BY <3>1, <2>3, <1>1, <1>2
  <2> QED BY <2>1, <2>2, <2>3, <1>1
<1>5. Above(s[k]) = {s[i] : i \in 1..(k - 1)}
  <2>1. ASSUME NEW x \in Above(s[k]) PROVE x \in {s[i] : i \in 1..(k - 1)}
    <3>1. PICK i \in 1..N : x = s[i]
      BY <2>1, ListedAll DEF Above
    <3>2. i < k
      BY <2>1, <3>1, <1>4 DEF Above
    <3>3. i \in 1..(k - 1)
      BY <3>2, <1>1
    <3> QED BY <3>1, <3>3
  <2>2. ASSUME NEW i \in 1..(k - 1) PROVE s[i] \in Above(s[k])
    <3>1. i \in 1..N /\ i < k
      BY <1>1
    <3> QED BY <3>1, <1>2, <1>4 DEF Above
  <2> QED BY <2>1, <2>2
<1>6. k - 1 \in 0..N
  BY <1>1
<1> QED BY <1>5, <1>6, ListedPrefix

\* What a slice shows: rows; from the start as many as asked for or all of them;
\* and each row with a timestamp of its own unless it is above or below.
LEMMA SliceFacts ==
  ASSUME IsFiniteSet(Stored), Stored \subseteq Observations,
         NEW n \in Nat, NEW m \in Nat, NEW v \in Slices(n, m)
  PROVE  /\ v \subseteq Stored
         /\ n = 0 => /\ Cardinality(v) \in Nat
                     /\ Cardinality(v) >= Cardinality(Stored) \/ Cardinality(v) = m
         /\ \A o \in Stored : \/ o \in v \/ Tied(o)
                              \/ ~Ahead(o, n) \/ Ahead(o, n + m)
<1> DEFINE N == Cardinality(Stored)
<1>1. N \in Nat
  BY FS_CardinalityType
<1>2. PICK s : Listed(s) /\ v = {s[i] : i \in (n + 1)..(n + m) \cap 1..N}
  BY SliceIsOfList
<1>3. /\ s \in [1..N -> Stored]
      /\ \A i, j \in 1..N : i # j => s[i] # s[j]
  BY <1>2 DEF Listed
<1>4. v \subseteq Stored
  BY <1>2, <1>3
<1>5. ASSUME n = 0
      PROVE  Cardinality(v) \in Nat /\ (Cardinality(v) >= N \/ Cardinality(v) = m)
  <2> DEFINE k == IF m < N THEN m ELSE N
  <2>1. k \in 0..N /\ (n + 1)..(n + m) \cap 1..N = 1..k
    BY <1>1, <1>5
  <2>2. v = {s[i] : i \in 1..k}
    BY <1>2, <2>1
  <2> HIDE DEF k
  <2>3. Cardinality(v) = k
    BY <1>2, <2>1, <2>2, ListedPrefix
  <2> QED BY <2>1, <2>3, <1>1 DEF k
<1>6. ASSUME NEW o \in Stored, o \notin v, ~Tied(o), Ahead(o, n)
      PROVE  Ahead(o, n + m)
  <2>1. PICK k \in 1..N : o = s[k]
    BY <1>2, ListedAll
  <2>2. Cardinality(Above(o)) = k - 1
    BY <1>2, <1>6, <2>1, PlaceOfRow
  <2>3. k \notin (n + 1)..(n + m)
    BY <1>2, <1>6, <2>1
  <2>4. k \in Nat /\ k - 1 >= n
    BY <1>1, <1>6, <2>2 DEF Ahead
  <2> QED BY <2>2, <2>3, <2>4 DEF Ahead
<1> QED BY <1>4, <1>5, <1>6

\* The rows above one are fewer than all, and do not become fewer.
LEMMA AboveFacts ==
  ASSUME IsFiniteSet(Stored), NEW o \in Stored
  PROVE  /\ Cardinality(Above(o)) \in Nat /\ Cardinality(Stored) \in Nat
         /\ Stored \subseteq Observations => Cardinality(Above(o)) + 1 <= Cardinality(Stored)
<1>1. Above(o) \subseteq Stored
  BY DEF Above
<1>2. IsFiniteSet(Above(o)) /\ Cardinality(Above(o)) \in Nat /\ Cardinality(Stored) \in Nat
  BY <1>1, FS_Subset, FS_CardinalityType
<1>3. ASSUME Stored \subseteq Observations
      PROVE  Cardinality(Above(o)) + 1 <= Cardinality(Stored)
  <2>1. Above(o) \subseteq Stored \ {o}
    BY <1>1, <1>3, PagesAssumption DEF Above
  <2>2. IsFiniteSet(Stored \ {o}) /\ Cardinality(Stored \ {o}) = Cardinality(Stored) - 1
    BY FS_RemoveElement
  <2>3. Cardinality(Above(o)) <= Cardinality(Stored \ {o})
    BY <2>1, <2>2, FS_Subset
  <2> QED BY <2>2, <2>3, <1>2
<1> QED BY <1>2, <1>3

\* One page on, an offset is still a multiple of the page size.
LEMMA NextMultiple ==
  ASSUME NEW n \in Nat, n % PageSize = 0
  PROVE  (n + PageSize) % PageSize = 0 /\ n + PageSize \in Nat
<1>1. PageSize \in Nat \ {0}
  BY PagesAssumption
<1>2. n = PageSize * (n \div PageSize) /\ n \div PageSize \in Nat
  BY <1>1
<1>3. n + PageSize = PageSize * ((n \div PageSize) + 1)
  BY <1>1, <1>2
<1>4. \A q \in Nat : (PageSize * q) % PageSize = 0
  BY <1>1
<1>5. (PageSize * ((n \div PageSize) + 1)) % PageSize = 0
  <2>1. (n \div PageSize) + 1 \in Nat
    BY <1>2
  <2> QED BY <1>4, <2>1
<1> QED BY <1>1, <1>3, <1>5

-----------------------------------------------------------------------------
LEMMA InitIInv == Init => IInv
<1> SUFFICES ASSUME Init PROVE IInv
  OBVIOUS
<1>1. /\ ingestedAt = [o \in Observations |-> 0]
      /\ pairs = {} /\ known = {} /\ page = "status" /\ todo = <<>> /\ answer = "error"
      /\ session = "fresh" /\ down = {} /\ walk = NoWalk
  BY DEF Init
<1>7. ingestedAt \in [Observations -> Times \cup {0}]
  BY <1>1
<1>8. Stored = {}
  BY <1>1 DEF Stored
<1>9. IsFiniteSet(Stored)
  BY <1>8, FS_EmptySet
<1>2. TypeInv
  BY <1>1, <1>7, <1>9 DEF TypeInv, Pages, Errors
<1>3. ProgressInv
  <2> DEFINE s == StatusReads
  <2>1. s \in ReadsOf(page) /\ s \in Seq(NamedReads) /\ Len(s) = 3
    BY <1>1 DEF ReadsOf, StatusReads, NamedReads
  <2> HIDE DEF s
  <2>2. 3 \in 0..Len(s)
    BY <2>1
  <2>3. Rest(s, 3) = <<>>
    BY <2>1, <2>2, RestFacts
  <2>4. Progress(s, 3)
    BY <1>1, <2>1, <2>3 DEF Progress, Errors
  <2> QED BY <1>1, <2>1, <2>2, <2>4 DEF ProgressInv
<1>4. CountInv /\ FitInv /\ PairInv /\ ListingInv
  BY <1>1 DEF CountInv, FitInv, PairInv, ListingInv, Has, Errors
<1>5. NewestInv
  <2>1. Ingestions = {0}
    BY <1>8 DEF Ingestions
  <2> QED BY <1>1, <2>1 DEF NewestInv, HasNewest, HasMax, OfWorkload
<1>6. WalkInv
  BY <1>1, PagesAssumption DEF WalkInv, NoWalk
<1> QED BY <1>2, <1>3, <1>4, <1>5, <1>6 DEF IInv

-----------------------------------------------------------------------------
(* Commits of others. *)

\* What a row that is added changes of the others: nothing but their number.
LEMMA StoredGrows ==
  ASSUME IInv, NEW o \in Observations, CommitObservation(o)
  PROVE  /\ \E t \in Times : Ingestions' = Ingestions \cup {t}
         /\ ingestedAt' \in [Observations -> Times \cup {0}]
         /\ Stored' = Stored \cup {o} /\ IsFiniteSet(Stored')
         /\ \A x \in Stored : ingestedAt'[x] = ingestedAt[x]
         /\ Cardinality(Stored) \in Nat /\ Cardinality(Stored') = Cardinality(Stored) + 1
         /\ \A x \in Stored : Tied(x) => Tied(x)'
         /\ \A x \in Stored, n \in Nat : Ahead(x, n) => Ahead(x, n)'
<1>1. PICK t \in Times : /\ o \notin Stored
                         /\ ingestedAt' = [ingestedAt EXCEPT ![o] = t]
  BY DEF CommitObservation
<1>2. /\ ingestedAt \in [Observations -> Times \cup {0}] /\ t # 0
      /\ IsFiniteSet(Stored) /\ Stored \subseteq Observations
  BY PagesAssumption DEF IInv, TypeInv, Stored
<1>3. /\ ingestedAt' \in [Observations -> Times \cup {0}] /\ ingestedAt'[o] = t
      /\ \A x \in Observations \ {o} : ingestedAt'[x] = ingestedAt[x]
  BY <1>1, <1>2
<1>4. Stored' = Stored \cup {o}
  BY <1>1, <1>2, <1>3 DEF Stored
<1>5. /\ IsFiniteSet(Stored') /\ Cardinality(Stored) \in Nat
      /\ Cardinality(Stored') = Cardinality(Stored) + 1
  BY <1>1, <1>2, <1>4, FS_AddElement, FS_CardinalityType
<1>6. \A x \in Stored : ingestedAt'[x] = ingestedAt[x]
  BY <1>1, <1>2, <1>3
<1>7. Ingestions' = Ingestions \cup {t}
  BY <1>3, <1>4, <1>6 DEF Ingestions
<1>8. \A x \in Stored : Tied(x) => Tied(x)'
  BY <1>4 DEF Tied
<1>9. ASSUME NEW x \in Stored, NEW n \in Nat, Ahead(x, n)
      PROVE  Ahead(x, n)'
  <2>1. Above(x) \subseteq Above(x)' /\ Above(x)' \subseteq Stored'
    BY <1>4 DEF Above
  <2>2. /\ IsFiniteSet(Above(x)') /\ Cardinality(Above(x)') \in Nat
        /\ Cardinality(Above(x)) <= Cardinality(Above(x)') /\ Cardinality(Above(x)) \in Nat
    BY <1>5, <2>1, FS_Subset, FS_CardinalityType
  <2>3. Cardinality(Above(x)') >= n
    BY <1>9, <2>2 DEF Ahead
  <2> QED BY <2>3 DEF Ahead
<1> QED BY <1>3, <1>4, <1>5, <1>6, <1>7, <1>8, <1>9

LEMMA ObservationKeeps ==
  ASSUME IInv, NEW o \in Observations, CommitObservation(o)
  PROVE  IInv'
<1>1. UNCHANGED <<pairs, page, todo, session, view, down, answer, known, walk>>
  BY DEF CommitObservation, request
<1>2. PICK t \in Times : Ingestions' = Ingestions \cup {t}
  BY StoredGrows
<1>3. TypeInv'
  BY <1>1, StoredGrows DEF IInv, TypeInv
<1>4. ProgressInv'
  BY <1>1 DEF IInv, ProgressInv, Progress
<1>5. CountInv'
  BY <1>1, StoredGrows DEF IInv, CountInv, Has
<1>6. FitInv'
  BY <1>1, StoredGrows DEF IInv, FitInv, Has
<1>7. PairInv'
  BY <1>1 DEF IInv, PairInv, Has
<1>8. NewestInv'
  <2>1. HasMax(Ingestions')
    <3>1. PICK m \in Ingestions : \A x \in Ingestions : m >= x
      BY DEF IInv, NewestInv, HasMax
    <3>2. Ingestions \subseteq Nat /\ t \in Nat
      <4>1. Times \subseteq Nat
        BY PagesAssumption
      <4>2. \A x \in Stored : ingestedAt[x] \in Nat
        BY <4>1 DEF IInv, TypeInv, Stored
      <4> QED BY <4>1, <4>2 DEF Ingestions
    <3>3. CASE m >= t
      BY <1>2, <3>1, <3>2, <3>3 DEF HasMax
    <3>4. CASE t > m
      BY <1>2, <3>1, <3>2, <3>4 DEF HasMax
    <3> QED BY <3>1, <3>2, <3>3, <3>4
  <2> QED BY <1>1, <2>1 DEF IInv, NewestInv, HasMax
<1>9. WalkInv'
  BY <1>1, StoredGrows DEF IInv, WalkInv
<1>10. ListingInv'
  <2>1. Reached' = Reached /\ Reached \in Nat /\ walk.known \subseteq Stored
    BY <1>1, PagesAssumption DEF IInv, WalkInv, Reached
  <2> QED BY <1>1, <2>1, StoredGrows DEF IInv, ListingInv
<1> QED BY <1>3, <1>4, <1>5, <1>6, <1>7, <1>8, <1>9, <1>10 DEF IInv

\* One more row of a set that has a newest one.
LEMMA NewestOfMore ==
  ASSUME NEW S, S \subseteq Pair, HasNewest(S), NEW r \in Pair
  PROVE  HasNewest(S \cup {r})
<1>0. /\ \A p \in Pair : p.at \in Nat /\ p.id \in Nat
      /\ AtLeastAsNew(r, r)
  <2>1. PairIds \subseteq Nat /\ Times \subseteq Nat
    BY PagesAssumption
  <2>2. \A p \in Pair : p.at \in Nat /\ p.id \in Nat
    BY <2>1 DEF Pair
  <2> QED BY <2>2 DEF AtLeastAsNew
<1>1. CASE S = {}
  BY <1>0, <1>1 DEF HasNewest
<1>2. CASE S # {}
  <2>1. PICK p \in S : \A q \in S : AtLeastAsNew(p, q)
    BY <1>2 DEF HasNewest
  <2>2. CASE AtLeastAsNew(p, r)
    BY <2>1, <2>2 DEF HasNewest
  <2>3. CASE ~AtLeastAsNew(p, r)
    <3>1. \A q \in S : AtLeastAsNew(r, q)
      BY <1>0, <2>1, <2>3 DEF AtLeastAsNew
    <3> QED BY <1>0, <3>1 DEF HasNewest
  <2> QED BY <2>2, <2>3
<1> QED BY <1>1, <1>2

LEMMA PairKeeps ==
  ASSUME IInv, NEW id \in PairIds, CommitPair(id)
  PROVE  IInv'
<1>1. UNCHANGED <<ingestedAt, page, todo, session, view, down, answer, known, walk>>
  BY DEF CommitPair, request
<1>2. PICK w \in Workloads, t \in Times :
        pairs' = pairs \cup {[id |-> id, workload |-> w, at |-> t]}
  BY DEF CommitPair
<1> DEFINE r == [id |-> id, workload |-> w, at |-> t]
<1>3. r \in Pair /\ \A p \in pairs : p.id # r.id
  BY DEF Pair, CommitPair
<1> HIDE DEF r
<1>4. pairs' = pairs \cup {r}
  BY <1>2 DEF r
<1>5. TypeInv'
  BY <1>1, <1>3, <1>4 DEF IInv, TypeInv, Stored
<1>6. ProgressInv'
  BY <1>1 DEF IInv, ProgressInv, Progress
<1>7. CountInv' /\ FitInv'
  BY <1>1 DEF IInv, CountInv, FitInv, Has, Stored
<1>8. NewestInv'
  <2>1. HasNewest(pairs')
    BY <1>3, <1>4, NewestOfMore DEF IInv, TypeInv, NewestInv
  <2>2. ASSUME NEW v \in Workloads
        PROVE  HasNewest(OfWorkload(v, pairs'))
    <3>1. OfWorkload(v, pairs) \subseteq Pair /\ HasNewest(OfWorkload(v, pairs))
      BY DEF IInv, TypeInv, NewestInv, OfWorkload
    <3>2. CASE r.workload = v
      <4>1. OfWorkload(v, pairs') = OfWorkload(v, pairs) \cup {r}
        BY <1>4, <3>2 DEF OfWorkload
      <4> QED BY <1>3, <3>1, <4>1, NewestOfMore
    <3>3. CASE r.workload # v
      <4>1. OfWorkload(v, pairs') = OfWorkload(v, pairs)
        BY <1>4, <3>3 DEF OfWorkload
      <4> QED BY <3>1, <4>1
    <3> QED BY <3>2, <3>3
  <2>3. HasMax(Ingestions)'
    BY <1>1 DEF IInv, NewestInv, HasMax, Ingestions, Stored
  <2> QED BY <2>1, <2>2, <2>3 DEF NewestInv, HasNewest, OfWorkload
<1>9. PairInv'
  BY <1>1, <1>4 DEF IInv, PairInv, Has
<1>10. WalkInv' /\ ListingInv'
  BY <1>1 DEF IInv, WalkInv, ListingInv, Stored, Tied, Ahead, Above, Reached
<1> QED BY <1>5, <1>6, <1>7, <1>8, <1>9, <1>10 DEF IInv

-----------------------------------------------------------------------------
(* The request. *)

LEMMA RequestKeeps ==
  ASSUME IInv, NEW p \in Pages, Request(p)
  PROVE  IInv'
<1>1. /\ UNCHANGED <<ingestedAt, pairs>> /\ page' = p
      /\ session' = "fresh" /\ view' = <<>> /\ down' = {} /\ answer' = "none"
      /\ known' = pairs /\ (p = "listing" \/ walk.offset = 0)
      /\ walk' = IF walk.offset > 0 THEN walk
                 ELSE [NoWalk EXCEPT !.known = IF p = "listing" THEN Stored ELSE {}]
  BY DEF Request, stored
<1>2. Stored' = Stored /\ DOMAIN view' = {}
  BY <1>1 DEF Stored
<1>3. TypeInv'
  BY <1>1, <1>2 DEF IInv, TypeInv
<1>4. ProgressInv'
  <2>1. PICK s \in ReadsOf(p) : todo' = s
    BY DEF Request
  <2>2. s \in Seq(Reads) /\ Len(s) \in Nat
    BY <2>1, ReadFacts
  <2>3. todo' = Rest(s, 0) /\ 0 \in 0..Len(s)
    BY <2>1, <2>2, RestOfAll
  <2>4. Progress(s, 0)'
    BY <1>1, <1>2, <2>3 DEF Progress
  <2> QED BY <1>1, <2>1, <2>3, <2>4 DEF ProgressInv
<1>5. CountInv' /\ FitInv' /\ PairInv'
  BY <1>2 DEF CountInv, FitInv, PairInv, Has
<1>6. NewestInv'
  BY <1>1, <1>2 DEF IInv, NewestInv, HasMax, Ingestions
<1>7. WalkInv' /\ ~walk'.done
  <2>1. CASE walk.offset > 0
    <3>1. walk' = walk /\ walk.offset # 0
      BY <1>1, <2>1 DEF IInv, WalkInv
    <3> QED BY <1>2, <3>1 DEF IInv, WalkInv, Tied, Ahead, Above
  <2>2. CASE ~(walk.offset > 0)
    <3>1. /\ walk'.offset = 0 /\ walk'.seen = {} /\ walk'.done = FALSE
          /\ walk'.known \subseteq Stored
          /\ walk' \in [offset : Nat, known : SUBSET Stored,
                        seen : SUBSET Observations, done : BOOLEAN]
      BY <1>1, <2>2 DEF NoWalk
    <3>2. 0 % PageSize = 0 /\ Stored \subseteq Observations
      BY PagesAssumption DEF Stored
    <3>3. \A o \in Stored : Ahead(o, 0)'
      <4>1. \A o \in Stored : Cardinality(Above(o)) \in Nat
        BY AboveFacts DEF IInv, TypeInv
      <4> QED BY <1>2, <4>1 DEF Ahead, Above
    <3> QED BY <1>2, <3>1, <3>2, <3>3 DEF WalkInv
  <2> QED BY <2>1, <2>2
<1>8. ListingInv'
  BY <1>2, <1>7 DEF ListingInv
<1> QED BY <1>3, <1>4, <1>5, <1>6, <1>7, <1>8 DEF IInv

-----------------------------------------------------------------------------
(* A statement. *)

\* What each of them returns.
LEMMA ValueFacts ==
  ASSUME IInv
  PROVE  /\ \A v \in Values("count") :
              /\ v.rows \in Nat /\ v.since \in Nat /\ v.rows <= Cardinality(Stored)
              /\ v.rows > 0 => \E o \in Stored : ingestedAt[o] >= v.since
         /\ \A v \in Values("last") :
              /\ v \in Nat /\ (v > 0 => Stored # {})
              /\ \A o \in Stored : v >= ingestedAt[o] /\ ingestedAt[o] \in Nat
         /\ \A v \in Values("total") \cup Values("size") : v = Cardinality(Stored) /\ v \in Nat
         /\ Values("recent") = Slices(0, RecentLimit)
         /\ Values("rows") = Slices(walk.offset, PageSize)
         /\ \A v \in Values("headline") : v \in pairs \cup {NoPair} /\ Covers(v, pairs)
         /\ \A w \in Workloads : \A v \in Values(w) : Covers(v, OfWorkload(w, pairs))
<1>0. /\ IsFiniteSet(Stored) /\ Cardinality(Stored) \in Nat
      /\ Times \subseteq Nat /\ pairs \subseteq Pair
  BY FS_CardinalityType, PagesAssumption DEF IInv, TypeInv
<1>1. ASSUME NEW v \in Values("count")
      PROVE  /\ v.rows \in Nat /\ v.since \in Nat /\ v.rows <= Cardinality(Stored)
             /\ v.rows > 0 => \E o \in Stored : ingestedAt[o] >= v.since
  <2>1. PICK t \in Times :
          v = [since |-> t, rows |-> Cardinality({o \in Stored : ingestedAt[o] >= t})]
    BY DEF Values
  <2> DEFINE C == {o \in Stored : ingestedAt[o] >= t}
  <2>2. IsFiniteSet(C) /\ Cardinality(C) \in Nat /\ Cardinality(C) <= Cardinality(Stored)
    <3>1. C \subseteq Stored
      OBVIOUS
    <3> HIDE DEF C
    <3> QED BY <3>1, <1>0, FS_Subset, FS_CardinalityType
  <2>3. Cardinality(C) > 0 => C # {}
    <3> HIDE DEF C
    <3> QED BY FS_EmptySet
  <2>4. v.since = t /\ v.rows = Cardinality(C)
    BY <2>1
  <2> QED BY <1>0, <2>2, <2>3, <2>4
<1>2. ASSUME NEW v \in Values("last")
      PROVE  /\ v \in Nat /\ (v > 0 => Stored # {})
             /\ \A o \in Stored : v >= ingestedAt[o] /\ ingestedAt[o] \in Nat
  <2>1. v = Max(Ingestions)
    BY DEF Values, Ingestions
  <2>2. PICK m \in Ingestions : \A x \in Ingestions : m >= x
    BY DEF IInv, NewestInv, HasMax
  <2>3. v \in Ingestions /\ \A x \in Ingestions : v >= x
    BY <2>1, <2>2 DEF Max
  <2>4. \A o \in Stored : ingestedAt[o] \in Ingestions /\ ingestedAt[o] \in Nat
    BY <1>0 DEF IInv, TypeInv, Stored, Ingestions
  <2> QED BY <2>3, <2>4 DEF Ingestions
<1>3. /\ Values("total") = {Cardinality(Stored)} /\ Values("size") = {Cardinality(Stored)}
      /\ Values("recent") = Slices(0, RecentLimit)
      /\ Values("rows") = Slices(walk.offset, PageSize)
      /\ Values("headline") = {Latest(pairs)}
  BY DEF Values
<1>4. ASSUME NEW S, S \subseteq Pair, HasNewest(S)
      PROVE  Latest(S) \in S \cup {NoPair} /\ Covers(Latest(S), S)
  <2>1. CASE S = {}
    BY <2>1 DEF Latest, Covers
  <2>2. CASE S # {}
    <3>1. Latest(S) \in S /\ \A q \in S : AtLeastAsNew(Latest(S), q)
      BY <1>4, <2>2 DEF HasNewest, Latest
    <3> QED BY <1>4, <3>1, NoPairAssumption DEF Covers
  <2> QED BY <2>1, <2>2
<1>5. Latest(pairs) \in pairs \cup {NoPair} /\ Covers(Latest(pairs), pairs)
  BY <1>0, <1>4 DEF IInv, NewestInv
<1>6. ASSUME NEW w \in Workloads, NEW v \in Values(w)
      PROVE  Covers(v, OfWorkload(w, pairs))
  <2>1. v = Latest(OfWorkload(w, pairs))
    BY RegistryFacts DEF Values, OfWorkload, NamedReads
  <2>2. OfWorkload(w, pairs) \subseteq Pair /\ HasNewest(OfWorkload(w, pairs))
    BY <1>0 DEF OfWorkload, IInv, NewestInv
  <2> QED BY <1>4, <2>1, <2>2
<1> QED BY <1>0, <1>1, <1>2, <1>3, <1>5, <1>6

\* What is newer than all is newer than some.
LEMMA CoversFewer ==
  ASSUME NEW p, NEW S, NEW T, T \subseteq S, Covers(p, S)
  PROVE  Covers(p, T)
BY DEF Covers

\* A read: which one of its page it is, and what is read before it.
LEMMA ReadStep ==
  ASSUME IInv, Read
  PROVE  \E s \in ReadsOf(page) : \E n \in 0..Len(s) : \E v \in Values(s[n + 1]) :
           LET h == s[n + 1] IN
           /\ Progress(s, n) /\ n + 1 \in 1..Len(s) /\ Progress(s, n + 1)'
           /\ answer = "none"
           /\ DOMAIN view' = DOMAIN view \cup {h}
           /\ view'[h] = v /\ \A r \in DOMAIN view \ {h} : view'[r] = view[r]
           /\ h = "count" => DOMAIN view = {}
           /\ h = "last" => "total" \notin DOMAIN view
           /\ h = "total" => "recent" \notin DOMAIN view
           /\ h = "headline" => \A w \in Workloads : w \notin DOMAIN view
           /\ page = "listing" => h \in {"rows", "size"}
           /\ h = "rows" => "size" \notin DOMAIN view
<1>0. PICK s \in ReadsOf(page) : \E n \in 0..Len(s) : Progress(s, n)
  BY DEF IInv, ProgressInv
<1>1. PICK n \in 0..Len(s) : Progress(s, n)
  BY <1>0
<1>2. page \in Pages /\ s \in Seq(Reads) /\ Len(s) \in Nat
  BY ReadFacts DEF IInv, TypeInv
<1>3. todo = Rest(s, n) /\ todo # <<>>
  BY <1>1 DEF Progress, Read
<1>4. n + 1 \in 1..Len(s) /\ Head(todo) = s[n + 1] /\ Tail(todo) = Rest(s, n + 1)
  BY <1>2, <1>3, TailOfRest
<1>5. n # Len(s) /\ answer = "none" /\ answer \notin Errors
  BY <1>1, <1>2, <1>4 DEF Progress, IInv, TypeInv, Errors
<1> DEFINE h == s[n + 1]
<1>6. PICK v \in Values(h) : view' = WithRead(h, v)
  BY <1>4 DEF Read
<1>7. UNCHANGED <<page, down, answer>> /\ todo' = Rest(s, n + 1)
  BY <1>4 DEF Read
<1>8. /\ DOMAIN view' = DOMAIN view \cup {h}
      /\ view'[h] = v /\ \A r \in DOMAIN view \ {h} : view'[r] = view[r]
  BY <1>6 DEF WithRead
<1>9. /\ \A i \in 1..n : s[i] \in DOMAIN view \/ Panel(s[i]) \in down
      /\ \A r \in DOMAIN view : \E i \in 1..n : r = s[i]
      /\ \A r \in DOMAIN view \cap NamedReads : Panel(r) \notin down
      /\ \A i \in (n + 1)..Len(s) : s[i] \in NamedReads => Panel(s[i]) \notin down
  BY <1>1, <1>5 DEF Progress
<1>10. \A i \in 1..n : i \in 1..Len(s) /\ i # n + 1 /\ i < n + 1
  BY <1>2, <1>4
<1>11. Progress(s, n + 1)'
  <2>1. \A i \in 1..(n + 1) : i \in 1..n \/ i = n + 1
    BY <1>2
  <2>2. \A i \in (n + 1 + 1)..Len(s) : i \in (n + 1)..Len(s)
    BY <1>2
  <2>3. n + 1 \in (n + 1)..Len(s) /\ n + 1 \in 1..(n + 1) /\ \A i \in 1..n : i \in 1..(n + 1)
    BY <1>2, <1>4
  <2>4. \A i \in 1..(n + 1) : s[i] \in DOMAIN view' \/ Panel(s[i]) \in down'
    BY <1>7, <1>8, <1>9, <2>1
  <2>5. /\ \A r \in DOMAIN view' : \E i \in 1..(n + 1) : r = s[i]
        /\ \A r \in DOMAIN view' \cap NamedReads : Panel(r) \notin down'
    BY <1>7, <1>8, <1>9, <2>3
  <2> QED BY <1>5, <1>7, <1>9, <2>2, <2>4, <2>5 DEF Progress
<1>12. ASSUME NEW r \in DOMAIN view
       PROVE  \E i \in 1..Len(s) : i < n + 1 /\ r = s[i]
  BY <1>9, <1>10
<1>13. /\ h = "count" => n + 1 = 1
       /\ h = "last" => n + 1 = 2
       /\ h = "total" => n + 1 = 3
       /\ h = "recent" => n + 1 = 4
       /\ h = "headline" => n + 1 = 5
       /\ h = "rows" => n + 1 = 1
       /\ h = "size" => n + 1 = 2
  BY <1>2, <1>4, ReadFacts
<1>14. \A i \in 1..Len(s) :
         /\ s[i] = "count" => i = 1
         /\ s[i] = "last" => i = 2
         /\ s[i] = "total" => i = 3
         /\ s[i] = "recent" => i = 4
         /\ s[i] = "headline" => i = 5
         /\ s[i] = "rows" => i = 1
         /\ s[i] = "size" => i = 2
  BY <1>2, ReadFacts

<1>16. \A w \in Workloads : h = "headline" => w \notin DOMAIN view
  BY <1>2, <1>4, <1>12, ReadFacts
<1>17. page = "listing" => h \in {"rows", "size"}
  <2>1. page = "listing" => s = <<"rows", "size">>
    BY <1>2, ReadFacts
  <2>2. s = <<"rows", "size">> => n + 1 \in {1, 2}
    BY <1>4
  <2> QED BY <2>1, <2>2
<1>18. /\ h = "count" => DOMAIN view = {}
       /\ h = "last" => "total" \notin DOMAIN view
       /\ h = "total" => "recent" \notin DOMAIN view
       /\ h = "rows" => "size" \notin DOMAIN view
  <2>1. ASSUME h = "count", NEW r \in DOMAIN view PROVE FALSE
    <3>1. PICK i \in 1..Len(s) : i < n + 1
      BY <2>1, <1>12
    <3> QED BY <2>1, <3>1, <1>13
  <2>2. h = "last" => "total" \notin DOMAIN view
    BY <1>12, <1>13, <1>14
  <2>3. h = "total" => "recent" \notin DOMAIN view
    BY <1>12, <1>13, <1>14
  <2>4. h = "rows" => "size" \notin DOMAIN view
    BY <1>12, <1>13, <1>14
  <2> QED BY <2>1, <2>2, <2>3, <2>4
<1> HIDE DEF Rest, Progress
<1> QED BY <1>1, <1>4, <1>5, <1>6, <1>8, <1>11, <1>16, <1>17, <1>18

LEMMA ReadKeeps ==
  ASSUME IInv, Read
  PROVE  IInv'
<1>1. PICK s \in ReadsOf(page) : \E n \in 0..Len(s) : \E v \in Values(s[n + 1]) :
        LET h == s[n + 1] IN
        /\ Progress(s, n) /\ n + 1 \in 1..Len(s) /\ Progress(s, n + 1)'
        /\ answer = "none"
        /\ DOMAIN view' = DOMAIN view \cup {h}
        /\ view'[h] = v /\ \A r \in DOMAIN view \ {h} : view'[r] = view[r]
        /\ h = "count" => DOMAIN view = {}
        /\ h = "last" => "total" \notin DOMAIN view
        /\ h = "total" => "recent" \notin DOMAIN view
        /\ h = "headline" => \A w \in Workloads : w \notin DOMAIN view
        /\ page = "listing" => h \in {"rows", "size"}
        /\ h = "rows" => "size" \notin DOMAIN view
  BY ReadStep
<1>2. PICK n, h, v :
        /\ n + 1 \in 1..Len(s) /\ Progress(s, n + 1)' /\ v \in Values(h)
        /\ DOMAIN view' = DOMAIN view \cup {h}
        /\ view'[h] = v /\ \A r \in DOMAIN view \ {h} : view'[r] = view[r]
        /\ h = "count" => DOMAIN view = {}
        /\ h = "last" => "total" \notin DOMAIN view
        /\ h = "total" => "recent" \notin DOMAIN view
        /\ h = "headline" => \A w \in Workloads : w \notin DOMAIN view
        /\ page = "listing" => h \in {"rows", "size"}
        /\ h = "rows" => "size" \notin DOMAIN view
  BY <1>1
<1>3. answer = "none"
  BY <1>1
<1>4. /\ UNCHANGED <<ingestedAt, pairs, page, down, answer, known, walk>>
      /\ session' \in {session, "open"}
  BY DEF Read, stored
<1>5. /\ Stored' = Stored /\ IsFiniteSet(Stored) /\ Stored \subseteq Observations
      /\ Cardinality(Stored) \in Nat
  BY <1>4, FS_CardinalityType DEF Stored, IInv, TypeInv
<1>6. /\ \A r : Has(r)' <=> Has(r) \/ r = h
      /\ \A r : Has(r) /\ r # h => view'[r] = view[r]
      /\ \A r : Has(r) <=> r \in DOMAIN view
  BY <1>2, <1>3, <1>4 DEF Has, Errors
<1>7. TypeInv'
  BY <1>4, <1>5 DEF IInv, TypeInv
<1>8. ProgressInv'
  <2>1. n + 1 \in 0..Len(s)
    BY <1>2
  <2> QED BY <1>2, <1>4, <2>1 DEF IInv, ProgressInv
<1>9. CountInv'
  <2>1. Has("count")' => /\ view'["count"].rows \in Nat /\ view'["count"].since \in Nat
                         /\ view'["count"].rows <= Cardinality(Stored)
    BY <1>2, <1>6, ValueFacts DEF IInv, CountInv
  <2>2. Has("last")' => view'["last"] \in Nat /\ (view'["last"] > 0 => Stored # {})
    BY <1>2, <1>6, ValueFacts DEF IInv, CountInv
  <2>3. Has("total")' => view'["total"] \in Nat /\ view'["total"] <= Cardinality(Stored)
    BY <1>2, <1>5, <1>6, ValueFacts DEF IInv, CountInv
  <2>4. Has("recent")' => Cardinality(view'["recent"]) \in Nat
    <3>1. CASE h = "recent"
      <4>1. v \in Slices(0, RecentLimit) /\ RecentLimit \in Nat /\ view'["recent"] = v
        BY <1>2, <3>1, ValueFacts, PagesAssumption
      <4>2. Cardinality(v) \in Nat
        BY <1>5, <4>1, SliceFacts
      <4> QED BY <4>1, <4>2
    <3> QED BY <1>6, <3>1 DEF IInv, CountInv
  <2> QED BY <1>5, <2>1, <2>2, <2>3, <2>4 DEF CountInv
<1>10. FitInv'
  <2>1. (Has("count")' /\ view'["count"].rows > 0)
           => \E o \in Stored : ingestedAt[o] >= view'["count"].since
    BY <1>2, <1>6, ValueFacts DEF IInv, FitInv
  <2>2. (Has("count")' /\ Has("last")' /\ view'["count"].rows > 0)
           => view'["last"] >= view'["count"].since
    <3>1. CASE h = "last"
      <4>1. SUFFICES ASSUME Has("count"), view["count"].rows > 0
                     PROVE  v >= view["count"].since
        BY <1>2, <1>6, <3>1
      <4>2. PICK o \in Stored : ingestedAt[o] >= view["count"].since
        BY <4>1 DEF IInv, FitInv
      <4>3. v \in Nat /\ v >= ingestedAt[o] /\ ingestedAt[o] \in Nat
        BY <1>2, <3>1, ValueFacts
      <4> QED BY <4>1, <4>2, <4>3 DEF IInv, CountInv
    <3>2. CASE h # "last"
      BY <1>2, <1>6, <3>2 DEF IInv, FitInv
    <3> QED BY <3>1, <3>2
  <2>3. (Has("count")' /\ Has("total")') => view'["count"].rows <= view'["total"]
    <3>1. CASE h = "total"
      <4>1. v = Cardinality(Stored)
        BY <1>2, <3>1, ValueFacts
      <4> QED BY <1>2, <1>6, <3>1, <4>1 DEF IInv, CountInv
    <3>2. CASE h # "total"
      BY <1>2, <1>6, <3>2 DEF IInv, FitInv
    <3> QED BY <3>1, <3>2
  <2>4. (Has("last")' /\ Has("total")' /\ view'["last"] > 0) => view'["total"] > 0
    <3>1. CASE h = "total"
      <4>1. v = Cardinality(Stored) /\ (Stored # {} => Cardinality(Stored) > 0)
        BY <1>2, <1>5, <3>1, ValueFacts, FS_EmptySet
      <4> QED BY <1>2, <1>6, <3>1, <4>1 DEF IInv, CountInv
    <3>2. CASE h # "total"
      BY <1>2, <1>6, <3>2 DEF IInv, FitInv
    <3> QED BY <3>1, <3>2
  <2>5. (Has("total")' /\ Has("recent")') =>
           \/ Cardinality(view'["recent"]) >= view'["total"]
           \/ Cardinality(view'["recent"]) = RecentLimit
    <3>1. CASE h = "recent"
      <4>1. v \in Slices(0, RecentLimit) /\ RecentLimit \in Nat /\ view'["recent"] = v
        BY <1>2, <3>1, ValueFacts, PagesAssumption
      <4>2. /\ Cardinality(v) \in Nat
            /\ Cardinality(v) >= Cardinality(Stored) \/ Cardinality(v) = RecentLimit
        BY <1>5, <4>1, SliceFacts
      <4>3. Has("total")' => view'["total"] = view["total"] /\ Has("total")
        BY <1>6, <3>1
      <4>4. Has("total") => view["total"] \in Nat /\ view["total"] <= Cardinality(Stored)
        BY DEF IInv, CountInv
      <4> QED BY <1>5, <4>1, <4>2, <4>3, <4>4
    <3>2. CASE h # "recent"
      BY <1>2, <1>6, <3>2 DEF IInv, FitInv
    <3> QED BY <3>1, <3>2
  <2>6. Stored' = Stored /\ ingestedAt' = ingestedAt
    BY <1>4, <1>5
  <2> QED BY <2>1, <2>2, <2>3, <2>4, <2>5, <2>6 DEF FitInv
<1>11. NewestInv'
  BY <1>4, <1>5 DEF IInv, NewestInv, HasMax, Ingestions
<1>12. PairInv'
  <2>1. known \subseteq pairs
    BY DEF IInv, TypeInv
  <2>2. /\ Has("headline")' => /\ view'["headline"] \in pairs \cup {NoPair}
                               /\ Covers(view'["headline"], known)
        /\ Has("headline")' /\ h # "headline" => Has("headline")
    BY <1>2, <1>6, <2>1, ValueFacts, CoversFewer DEF IInv, PairInv
  <2>3. ASSUME NEW w \in Workloads, Has(w)'
        PROVE  /\ Covers(view'[w], OfWorkload(w, known))
               /\ (Has("headline")' /\ view'["headline"] # NoPair)
                    => Covers(view'[w], OfWorkload(w, {view'["headline"]}))
    <3>1. CASE h = w
      <4>1. Covers(view'[w], OfWorkload(w, pairs))
        BY <1>2, <3>1, ValueFacts
      <4>2. OfWorkload(w, known) \subseteq OfWorkload(w, pairs)
        BY <2>1 DEF OfWorkload
      <4>3. (Has("headline")' /\ view'["headline"] # NoPair) =>
              OfWorkload(w, {view'["headline"]}) \subseteq OfWorkload(w, pairs)
        BY <2>2 DEF OfWorkload
      <4> QED BY <4>1, <4>2, <4>3, CoversFewer
    <3>2. CASE h # w
      <4>1. Has(w) /\ view'[w] = view[w] /\ h # "headline"
        BY <1>2, <1>6, <2>3, <3>2
      <4>2. Has("headline")' => Has("headline") /\ view'["headline"] = view["headline"]
        BY <1>6, <4>1
      <4> QED BY <4>1, <4>2 DEF IInv, PairInv
    <3> QED BY <3>1, <3>2
  <2> QED BY <1>4, <2>2, <2>3 DEF PairInv
<1>13. WalkInv'
  BY <1>4, <1>5 DEF IInv, WalkInv, Tied, Ahead, Above
<1>14. ListingInv'
  <2> SUFFICES ASSUME page = "listing"
               PROVE  ListingInv'
    BY <1>4 DEF ListingInv
  <2>0. /\ ~walk.done /\ walk.offset \in Nat /\ PageSize \in Nat /\ Reached \in Nat
        /\ walk.known \subseteq Stored
    BY <1>3, PagesAssumption DEF IInv, ListingInv, WalkInv, Reached
  <2>1. Reached' = Reached /\ \A o : Tied(o)' = Tied(o) /\ Ahead(o, Reached)' = Ahead(o, Reached)
    BY <1>4, <1>5 DEF Reached, Tied, Ahead, Above
  <2>2. CASE h = "rows"
    <3>1. v \in Slices(walk.offset, PageSize) /\ view'["rows"] = v /\ "size" \notin DOMAIN view'
      BY <1>2, <2>2, ValueFacts
    <3>2. /\ v \subseteq Stored
          /\ \A o \in Stored : o \in v \/ Tied(o) \/ ~Ahead(o, walk.offset) \/ Ahead(o, Reached)
      BY <1>5, <2>0, <3>1, SliceFacts DEF Reached
    <3>3. \A o \in walk.known : o \in walk.seen \/ Tied(o) \/ Ahead(o, walk.offset)
      BY DEF IInv, WalkInv
    <3> QED BY <1>4, <1>5, <2>0, <2>1, <3>1, <3>2, <3>3 DEF ListingInv
  <2>3. CASE h = "size"
    <3>1. "rows" \in DOMAIN view' => "rows" \in DOMAIN view /\ view'["rows"] = view["rows"]
      BY <1>2, <2>3
    <3>2. view'["size"] = Cardinality(Stored)
      BY <1>2, <2>3, ValueFacts
    <3>3. \A o \in walk.known : Ahead(o, Reached) => ~(Reached >= Cardinality(Stored))
      <4>1. ASSUME NEW o \in walk.known, Ahead(o, Reached), Reached >= Cardinality(Stored)
            PROVE  FALSE
        <5>1. /\ Cardinality(Above(o)) \in Nat
              /\ Cardinality(Above(o)) + 1 <= Cardinality(Stored)
          BY <1>5, <2>0, AboveFacts
        <5> QED BY <1>5, <2>0, <4>1, <5>1 DEF Ahead
      <4> QED BY <4>1
    <3>4. "rows" \in DOMAIN view =>
            /\ view["rows"] \subseteq Stored
            /\ \A o \in walk.known :
                 o \in walk.seen \cup view["rows"] \/ Tied(o) \/ Ahead(o, Reached)
      BY <1>3 DEF IInv, ListingInv
    <3> QED BY <1>4, <1>5, <2>0, <2>1, <3>1, <3>2, <3>3, <3>4 DEF ListingInv
  <2> QED BY <1>2, <2>2, <2>3
<1> QED BY <1>7, <1>8, <1>9, <1>10, <1>11, <1>12, <1>13, <1>14 DEF IInv

\* A failure that is caught ends the reads of its try statement.
LEMMA CaughtStep ==
  ASSUME IInv, Fail, Catches(page, Head(todo)),
         NEW s \in ReadsOf(page), NEW n \in 0..Len(s), Progress(s, n)
  PROVE  \E k \in 0..Len(s) : Progress(s, k)'
<1>1. page \in Pages /\ page \in {"dashboard", "orbital"} /\ s \in Seq(Reads) /\ Len(s) \in Nat
  BY ReadFacts DEF IInv, TypeInv, Catches
<1>2. todo = Rest(s, n) /\ todo # <<>>
  BY DEF Progress, Fail
<1>3. n + 1 \in 1..Len(s) /\ Head(todo) = s[n + 1]
  BY <1>1, <1>2, TailOfRest
<1>4. n # Len(s) /\ answer = "none" /\ answer \notin Errors
  BY <1>1, <1>3 DEF Progress, IInv, TypeInv, Errors
<1> DEFINE P == Panel(s[n + 1])
<1>5. s[n + 1] \notin Workloads
  BY <1>3 DEF Catches
<1>6. PICK m \in 1..Len(todo) : PanelEnds(todo, m) /\ todo' = Rest(todo, m)
  BY DEF Fail
<1>7. /\ UNCHANGED <<page, answer>> /\ down' = down \cup {P}
      /\ view' = Restrict(view, {read \in DOMAIN view : Panel(read) # P})
  BY <1>3 DEF Fail
<1>8. Len(todo) = Len(s) - n /\ \A i \in 1..(Len(s) - n) : todo[i] = s[n + i]
  BY <1>1, <1>2, RestFacts
<1>9. m \in 0..(Len(s) - n) /\ n + m \in 0..Len(s) /\ m \in Nat /\ m > 0
  BY <1>1, <1>6, <1>8
<1>10. todo' = Rest(s, n + m)
  BY <1>1, <1>2, <1>6, <1>9, RestOfRest
<1>11. /\ \A i \in 1..n : s[i] \in DOMAIN view \/ Panel(s[i]) \in down
       /\ \A r \in DOMAIN view : \E i \in 1..n : r = s[i]
       /\ \A r \in DOMAIN view \cap NamedReads : Panel(r) \notin down
       /\ \A i \in (n + 1)..Len(s) : s[i] \in NamedReads => Panel(s[i]) \notin down
  BY <1>4 DEF Progress
<1>12. DOMAIN view' = {r \in DOMAIN view : Panel(r) # P}
  BY <1>7 DEF Restrict
<1>13. todo[1] = s[n + 1]
  BY <1>1, <1>3, <1>8
<1>14. ASSUME NEW i \in 1..(n + m)
       PROVE  s[i] \in DOMAIN view' \/ Panel(s[i]) \in down'
  <2>1. CASE i <= n
    <3>1. i \in 1..n
      BY <2>1
    <3> QED BY <3>1, <1>7, <1>11, <1>12
  <2>2. CASE i > n
    <3>1. i - n \in 1..m /\ i - n \in 1..(Len(s) - n) /\ n + (i - n) = i
      BY <2>2, <1>1, <1>9
    <3>2. Panel(todo[i - n]) = P /\ todo[i - n] = s[n + (i - n)]
      BY <3>1, <1>6, <1>8, <1>13 DEF PanelEnds
    <3> QED BY <3>1, <3>2, <1>7
  <2> QED BY <2>1, <2>2, <1>9
<1>15. ASSUME NEW r \in DOMAIN view'
       PROVE  /\ \E i \in 1..(n + m) : r = s[i]
              /\ r \in NamedReads => Panel(r) \notin down'
  <2>1. \A i \in 1..n : i \in 1..(n + m)
    BY <1>9
  <2> QED BY <2>1, <1>7, <1>11, <1>12
<1>16. ASSUME NEW i \in (n + m + 1)..Len(s), s[i] \in NamedReads
       PROVE  Panel(s[i]) \notin down'
  <2>1. /\ i \in (n + 1)..Len(s) /\ i \in 1..Len(s) /\ m < Len(todo)
        /\ n + m + 1 \in 1..Len(s) /\ n + 1 < n + m + 1 /\ n + m + 1 <= i
        /\ m + 1 \in 1..(Len(s) - n) /\ n + (m + 1) = n + m + 1
    BY <1>1, <1>8, <1>9
  <2>2. Panel(s[n + m + 1]) # P
    BY <2>1, <1>6, <1>8, <1>13 DEF PanelEnds
  <2>3. Panel(s[i]) # P
    BY <2>1, <2>2, <1>1, <1>3, <1>5, PanelFacts
  <2> QED BY <2>1, <2>3, <1>7, <1>11, <1>16
<1>17. Progress(s, n + m)'
  BY <1>4, <1>7, <1>10, <1>14, <1>15, <1>16 DEF Progress
<1> QED BY <1>9, <1>17

\* What a step that shows less than before, or an error, has to keep itself.
Losing ==
  /\ UNCHANGED <<ingestedAt, pairs, page, known, walk>>
  /\ \A r : Has(r)' => Has(r) /\ view'[r] = view[r]
  /\ page = "listing" => answer' # "none"
  /\ session' \in {"fresh", "open", "broken"}
  /\ down' \subseteq {"mission", "benchmark", "passes"} \cup Workloads
  /\ answer' \in {"none", "page", "missing"} \cup Errors

LEMMA LossKeeps ==
  ASSUME IInv, Losing, ProgressInv'
  PROVE  IInv'
<1>1. Stored' = Stored
  BY DEF Losing, Stored
<1>2. TypeInv'
  BY <1>1 DEF IInv, TypeInv, Losing
<1>3. CountInv'
  BY <1>1 DEF IInv, CountInv, Losing
<1>4. FitInv'
  BY <1>1 DEF IInv, FitInv, Losing
<1>5. PairInv'
  BY DEF IInv, PairInv, Losing
<1>6. NewestInv'
  BY <1>1 DEF IInv, NewestInv, HasMax, Ingestions, Losing
<1>7. WalkInv'
  BY <1>1 DEF IInv, WalkInv, Tied, Ahead, Above, Losing
<1>8. ListingInv'
  BY DEF ListingInv, Losing
<1> QED BY <1>2, <1>3, <1>4, <1>5, <1>6, <1>7, <1>8 DEF IInv

\* An answer that is an error shows nothing and leaves nothing to be read.
LEMMA ErrorKeeps ==
  ASSUME IInv, NEW status \in Errors, RequestFails(status),
         UNCHANGED <<ingestedAt, pairs, page, known, walk>>,
         session' \in {"fresh", "open", "broken"}
  PROVE  IInv'
<1>1. answer' \in Errors /\ todo' = <<>> /\ down' = down
  BY DEF RequestFails
<1>2. PICK s \in ReadsOf(page) : \E n \in 0..Len(s) : Progress(s, n)
  BY DEF IInv, ProgressInv
<1>3. s \in Seq(Reads) /\ Len(s) \in Nat /\ Len(s) \in 0..Len(s)
  BY <1>2, ReadFacts DEF IInv, TypeInv
<1>4. Rest(s, Len(s)) = <<>>
  BY <1>3, RestFacts
<1>5. Progress(s, Len(s))'
  BY <1>1, <1>4 DEF Progress
<1>6. ProgressInv'
  BY <1>1, <1>2, <1>3, <1>5 DEF IInv, ProgressInv
<1>7. Losing
  BY <1>1 DEF Losing, Has, Errors, IInv, TypeInv
<1> QED BY <1>6, <1>7, LossKeeps

LEMMA FailKeeps ==
  ASSUME IInv, Fail
  PROVE  IInv'
<1>1. /\ UNCHANGED <<ingestedAt, pairs, page, known, walk>>
      /\ session' \in {"fresh", "open", "broken"}
  BY DEF Fail, Breaks, stored, IInv, TypeInv
<1>2. CASE Catches(page, Head(todo))
  <2>1. /\ UNCHANGED answer /\ down' = down \cup {Panel(Head(todo))}
        /\ view' = Restrict(view, {r \in DOMAIN view : Panel(r) # Panel(Head(todo))})
        /\ page \in {"dashboard", "orbital"}
    BY <1>2 DEF Fail, Catches
  <2>2. PICK s \in ReadsOf(page) : \E n \in 0..Len(s) : Progress(s, n)
    BY DEF IInv, ProgressInv
  <2>3. PICK n \in 0..Len(s) : Progress(s, n)
    BY <2>2
  <2>4. s \in Seq(Reads) /\ todo = Rest(s, n) /\ todo # <<>>
    BY <2>2, <2>3, ReadFacts DEF IInv, TypeInv, Progress, Fail
  <2>5. n + 1 \in 1..Len(s) /\ Head(todo) = s[n + 1] /\ s[n + 1] # "rows" /\ s[n + 1] # "size"
    <3>1. n + 1 \in 1..Len(s) /\ Head(todo) = s[n + 1]
      BY <2>4, TailOfRest
    <3> QED BY <2>1, <2>2, <3>1, ReadFacts DEF IInv, TypeInv
  <2>6. Head(todo) \in Reads
    BY <2>4, <2>5
  <2>7. Panel(Head(todo)) \in {"mission", "benchmark", "passes"}
    BY <1>2, <2>5, <2>6 DEF Catches, Panel, Reads, NamedReads
  <2>8. \E k \in 0..Len(s) : Progress(s, k)'
    BY <1>2, <2>2, <2>3, CaughtStep
  <2>9. ProgressInv'
    BY <1>1, <2>1, <2>2, <2>8 DEF ProgressInv
  <2>10. /\ DOMAIN view' \subseteq DOMAIN view
         /\ \A r \in DOMAIN view' : view'[r] = view[r]
    BY <2>1 DEF Restrict
  <2>11. Losing
    BY <1>1, <2>1, <2>7, <2>10 DEF Losing, Has, IInv, TypeInv
  <2> QED BY <2>9, <2>11, LossKeeps
<1>3. CASE ~Catches(page, Head(todo))
  <2>1. RequestFails("error") /\ "error" \in Errors
    BY <1>3 DEF Fail, Errors
  <2> QED BY <1>1, <2>1, ErrorKeeps
<1> QED BY <1>2, <1>3

LEMMA PassesRaiseKeeps ==
  ASSUME IInv, PassesRaise
  PROVE  IInv'
<1>1. /\ UNCHANGED <<ingestedAt, pairs, page, known, walk>>
      /\ session' \in {"fresh", "open", "broken"}
      /\ RequestFails("passesError") /\ "passesError" \in Errors
  BY DEF PassesRaise, Errors, stored, IInv, TypeInv
<1> QED BY <1>1, ErrorKeeps

\* A pair that is incomplete is skipped alone: no other read is of its panel.
LEMMA SkipStep ==
  ASSUME IInv, Incomplete, page # "latest",
         NEW s \in ReadsOf(page), NEW n \in 0..Len(s), Progress(s, n)
  PROVE  n + 1 \in 0..Len(s) /\ Progress(s, n + 1)' /\ page # "listing"
<1>1. page \in Pages /\ s \in Seq(Reads) /\ Len(s) \in Nat
  BY ReadFacts DEF IInv, TypeInv
<1>2. todo = Rest(s, n) /\ todo # <<>>
  BY DEF Progress, Incomplete
<1>3. n + 1 \in 1..Len(s) /\ Head(todo) = s[n + 1] /\ Tail(todo) = Rest(s, n + 1)
  BY <1>1, <1>2, TailOfRest
<1>4. n # Len(s) /\ answer = "none" /\ answer \notin Errors
  BY <1>1, <1>3 DEF Progress, IInv, TypeInv, Errors
<1> DEFINE h == s[n + 1]
<1>5. /\ UNCHANGED <<page, view, answer>> /\ down' = down \cup {Panel(h)}
      /\ todo' = Rest(s, n + 1) /\ h \in {"headline"} \cup Workloads
  BY <1>3 DEF Incomplete
<1>6. \A r \in NamedReads : Panel(r) = Panel(h) => r = h
  <2>1. CASE h = "headline"
    BY <2>1 DEF Panel, NamedReads
  <2>2. CASE h \in Workloads
    <3>1. Panel(h) = h /\ h \notin NamedReads /\ h \notin {"mission", "benchmark"}
      BY <2>2, RegistryFacts
    <3>2. \A r \in NamedReads : Panel(r) \in NamedReads \cup {"mission", "benchmark"}
      BY DEF Panel, NamedReads
    <3> QED BY <3>1, <3>2
  <2> QED BY <1>5, <2>1, <2>2
<1>7. /\ \A i \in 1..n : s[i] \in DOMAIN view \/ Panel(s[i]) \in down
      /\ \A r \in DOMAIN view : \E i \in 1..n : r = s[i]
      /\ \A r \in DOMAIN view \cap NamedReads : Panel(r) \notin down
      /\ \A i \in (n + 1)..Len(s) : s[i] \in NamedReads => Panel(s[i]) \notin down
  BY <1>4 DEF Progress
<1>8. \A i \in 1..Len(s) : s[i] = h /\ h \in NamedReads => i = n + 1
  <2>1. h \in NamedReads => h = "headline"
    BY <1>5, RegistryFacts
  <2>2. h = "headline" => n + 1 = 5
    BY <1>1, <1>3, ReadFacts
  <2>3. \A i \in 1..Len(s) : s[i] = "headline" => i = 5
    BY <1>1, ReadFacts
  <2> QED BY <2>1, <2>2, <2>3
<1>9. ASSUME NEW i \in 1..(n + 1)
      PROVE  s[i] \in DOMAIN view' \/ Panel(s[i]) \in down'
  <2>1. i \in 1..n \/ i = n + 1
    BY <1>1
  <2> QED BY <2>1, <1>5, <1>7
<1>10. ASSUME NEW r \in DOMAIN view'
       PROVE  /\ \E i \in 1..(n + 1) : r = s[i]
              /\ r \in NamedReads => Panel(r) \notin down'
  <2>1. PICK i \in 1..n : r = s[i]
    BY <1>5, <1>7
  <2>2. i \in 1..Len(s) /\ i # n + 1 /\ i \in 1..(n + 1)
    BY <1>1, <1>3
  <2>3. r \in NamedReads => Panel(r) # Panel(h)
    BY <1>6, <1>8, <2>1, <2>2
  <2> QED BY <1>5, <1>7, <2>1, <2>2, <2>3
<1>11. ASSUME NEW i \in (n + 1 + 1)..Len(s), s[i] \in NamedReads
       PROVE  Panel(s[i]) \notin down'
  <2>1. i \in 1..Len(s) /\ i # n + 1 /\ i \in (n + 1)..Len(s)
    BY <1>1, <1>3
  <2>2. Panel(s[i]) # Panel(h)
    BY <1>6, <1>8, <1>11, <2>1
  <2> QED BY <1>5, <1>7, <1>11, <2>1, <2>2
<1>12. Progress(s, n + 1)'
  BY <1>4, <1>5, <1>9, <1>10, <1>11 DEF Progress
<1>13. page # "listing"
  <2>1. page = "listing" => h \in {"rows", "size"}
    <3>1. page = "listing" => s = <<"rows", "size">>
      BY <1>1, ReadFacts
    <3>2. s = <<"rows", "size">> => n + 1 \in {1, 2}
      BY <1>3
    <3> QED BY <3>1, <3>2
  <2> QED BY <1>5, <2>1, RegistryFacts DEF NamedReads
<1> QED BY <1>1, <1>3, <1>12, <1>13

LEMMA IncompleteKeeps ==
  ASSUME IInv, Incomplete
  PROVE  IInv'
<1>1. UNCHANGED <<ingestedAt, pairs, page, known, walk>> /\ session' = "open"
  BY DEF Incomplete, stored
<1>2. CASE page = "latest"
  <2>1. RequestFails("error") /\ "error" \in Errors
    BY <1>2 DEF Incomplete, Errors
  <2> QED BY <1>1, <2>1, ErrorKeeps
<1>3. CASE page # "latest"
  <2>1. /\ UNCHANGED <<view, answer>> /\ down' = down \cup {Panel(Head(todo))}
        /\ Head(todo) \in {"headline"} \cup Workloads
    BY <1>3 DEF Incomplete
  <2>2. Panel(Head(todo)) \in {"benchmark"} \cup Workloads
    <3>1. Panel("headline") = "benchmark"
      BY DEF Panel
    <3> QED BY <2>1, <3>1, RegistryFacts
  <2>3. PICK s \in ReadsOf(page) : \E n \in 0..Len(s) : Progress(s, n)
    BY DEF IInv, ProgressInv
  <2>4. PICK n \in 0..Len(s) : Progress(s, n)
    BY <2>3
  <2>5. n + 1 \in 0..Len(s) /\ Progress(s, n + 1)' /\ page # "listing"
    BY <1>3, <2>3, <2>4, SkipStep
  <2>6. ProgressInv'
    BY <1>1, <2>3, <2>5 DEF ProgressInv
  <2>7. Losing
    BY <1>1, <2>1, <2>2, <2>5 DEF Losing, Has, IInv, TypeInv
  <2> QED BY <2>6, <2>7, LossKeeps
<1> QED BY <1>2, <1>3

-----------------------------------------------------------------------------
(* The answer. *)

\* The page of a walk: it moves on, or everything below has been shown.
LEMMA WalkedKeeps ==
  ASSUME IInv, Serve, page = "listing"
  PROVE  WalkInv'
<1>1. ingestedAt' = ingestedAt /\ walk' = Walked /\ todo = <<>> /\ answer = "none"
  BY DEF Serve, stored
<1>2. "rows" \in DOMAIN view /\ "size" \in DOMAIN view
  <2>1. PICK s \in ReadsOf(page) : \E n \in 0..Len(s) : Progress(s, n)
    BY DEF IInv, ProgressInv
  <2>2. PICK n \in 0..Len(s) : Progress(s, n)
    BY <2>1
  <2>3. s \in Seq(Reads)
    BY <2>1, ReadFacts DEF IInv, TypeInv
  <2>4. n = Len(s)
    BY <1>1, <2>2, <2>3, RestFacts DEF Progress
  <2>5. s = <<"rows", "size">>
    BY <2>1, ReadFacts DEF IInv, TypeInv
  <2>6. n = 2 /\ s[1] = "rows" /\ s[2] = "size" /\ down = {}
    BY <2>4, <2>5 DEF IInv, ProgressInv
  <2> QED BY <1>1, <2>2, <2>6 DEF Progress, Errors
<1>3. /\ ~walk.done /\ view["rows"] \subseteq Stored /\ view["size"] \in Nat
      /\ \A o \in walk.known :
           o \in walk.seen \cup view["rows"] \/ Tied(o) \/ Ahead(o, Reached)
      /\ Reached >= view["size"] =>
           \A o \in walk.known : o \in walk.seen \cup view["rows"] \/ Tied(o)
  BY <1>1, <1>2 DEF IInv, ListingInv
<1>4. /\ walk \in [offset : Nat, known : SUBSET Observations,
                   seen : SUBSET Observations, done : BOOLEAN]
      /\ walk.seen \subseteq Stored /\ walk.known \subseteq Stored
      /\ walk.offset % PageSize = 0
  BY DEF IInv, WalkInv
<1>5. Reached \in Nat /\ Reached % PageSize = 0 /\ 0 % PageSize = 0
  BY <1>4, NextMultiple, PagesAssumption DEF Reached
<1> DEFINE more == Reached < view["size"]
<1>6. /\ walk'.seen = walk.seen \cup view["rows"] /\ walk'.known = walk.known
      /\ walk'.offset = IF more THEN Reached ELSE 0
      /\ walk'.done = ~more
      /\ walk' \in [offset : Nat, known : SUBSET Observations,
                    seen : SUBSET Observations, done : BOOLEAN]
  <2>1. walk' = [walk EXCEPT !.seen = @ \cup view["rows"],
                             !.offset = IF more THEN Reached ELSE 0, !.done = ~more]
    BY <1>1 DEF Walked, Reached
  <2>2. more \in BOOLEAN /\ view["rows"] \subseteq Observations
    BY <1>3 DEF Stored
  <2> HIDE DEF more
  <2> QED BY <1>4, <1>5, <2>1, <2>2
<1>7. Stored' = Stored /\ \A o, k : Tied(o)' = Tied(o) /\ Ahead(o, k)' = Ahead(o, k)
  BY <1>1 DEF Stored, Tied, Ahead, Above
<1>8. ASSUME NEW o \in walk.known
      PROVE  o \in walk'.seen \/ Tied(o) \/ (~walk'.done /\ Ahead(o, walk'.offset))
  <2>1. CASE more
    BY <1>3, <1>6, <2>1
  <2>2. CASE ~more
    <3>1. Reached >= view["size"]
      BY <1>3, <1>5, <2>2
    <3> QED BY <1>3, <1>6, <3>1
  <2> QED BY <2>1, <2>2
<1> HIDE DEF more
<1>9. walk'.offset % PageSize = 0 /\ (walk'.done => walk'.offset = 0)
  BY <1>5, <1>6
<1> QED BY <1>3, <1>4, <1>6, <1>7, <1>8, <1>9 DEF WalkInv

LEMMA ServeKeeps ==
  ASSUME IInv, Serve
  PROVE  IInv'
<1>1. /\ UNCHANGED <<ingestedAt, pairs, page, todo, session, view, down, known>>
      /\ todo = <<>> /\ answer = "none" /\ answer' \in {"page", "missing"}
      /\ answer \notin Errors /\ answer' \notin Errors
  BY DEF Serve, stored, Errors
<1>2. Stored' = Stored /\ \A r : Has(r)' <=> Has(r)
  BY <1>1 DEF Stored, Has
<1>3. TypeInv'
  BY <1>1, <1>2 DEF IInv, TypeInv
<1>4. ProgressInv'
  <2>1. PICK s \in ReadsOf(page) : \E n \in 0..Len(s) : Progress(s, n)
    BY DEF IInv, ProgressInv
  <2>2. PICK n \in 0..Len(s) : Progress(s, n)
    BY <2>1
  <2>3. s \in Seq(Reads)
    BY <2>1, ReadFacts DEF IInv, TypeInv
  <2>4. n = Len(s)
    BY <1>1, <2>2, <2>3, RestFacts DEF Progress
  <2>5. Progress(s, n)'
    BY <1>1, <2>2, <2>4 DEF Progress
  <2> QED BY <1>1, <2>1, <2>2, <2>5 DEF IInv, ProgressInv
<1>5. CountInv' /\ FitInv'
  BY <1>1, <1>2 DEF IInv, CountInv, FitInv
<1>6. PairInv'
  BY <1>1, <1>2 DEF IInv, PairInv
<1>7. NewestInv'
  BY <1>1, <1>2 DEF IInv, NewestInv, HasMax, Ingestions
<1>8. WalkInv'
  <2>1. CASE page = "listing"
    BY <2>1, WalkedKeeps
  <2>2. CASE page # "listing"
    <3>1. walk' = walk
      BY <2>2 DEF Serve
    <3> QED BY <1>1, <1>2, <3>1 DEF IInv, WalkInv, Tied, Ahead, Above
  <2> QED BY <2>1, <2>2
<1>9. ListingInv'
  BY <1>1 DEF ListingInv
<1> QED BY <1>3, <1>4, <1>5, <1>6, <1>7, <1>8, <1>9 DEF IInv

-----------------------------------------------------------------------------
LEMMA NextIInv == IInv /\ [Next]_vars => IInv'
<1> SUFFICES ASSUME IInv, [Next]_vars PROVE IInv'
  OBVIOUS
<1>1. CASE UNCHANGED vars
  <2>1. UNCHANGED <<ingestedAt, pairs, page, todo, session, view, down, answer, known, walk>>
    BY <1>1 DEF vars, stored, request
  <2>2. TypeInv' /\ ProgressInv' /\ CountInv' /\ FitInv'
    BY <2>1 DEF IInv, TypeInv, ProgressInv, Progress, CountInv, FitInv, Has, Stored
  <2>3. NewestInv' /\ PairInv'
    BY <2>1 DEF IInv, NewestInv, HasMax, Ingestions, Stored, PairInv, Has
  <2>4. WalkInv' /\ ListingInv'
    BY <2>1 DEF IInv, WalkInv, ListingInv, Stored, Tied, Ahead, Above, Reached
  <2> QED BY <2>2, <2>3, <2>4 DEF IInv
<1>2. CASE Next
  <2>1. CASE \E o \in Observations : CommitObservation(o)
    BY <2>1, ObservationKeeps
  <2>2. CASE \E id \in PairIds : CommitPair(id)
    BY <2>2, PairKeeps
  <2>3. CASE \E p \in Pages : Request(p)
    BY <2>3, RequestKeeps
  <2>4. CASE Read
    BY <2>4, ReadKeeps
  <2>5. CASE Fail
    BY <2>5, FailKeeps
  <2>6. CASE PassesRaise
    BY <2>6, PassesRaiseKeeps
  <2>7. CASE Incomplete
    BY <2>7, IncompleteKeeps
  <2>8. CASE Serve
    BY <2>8, ServeKeeps
  <2> QED BY <1>2, <2>1, <2>2, <2>3, <2>4, <2>5, <2>6, <2>7, <2>8 DEF Next, Step
<1> QED BY <1>1, <1>2

\* The invariant on which the theorems below rest.
THEOREM Inductive == Spec => []IInv
BY InitIInv, NextIInv, PTL DEF Spec

-----------------------------------------------------------------------------
\* TypeOK holds throughout: the reads still to be made are the end of the reads
\* of the page, and nothing is read that is not of it.
THEOREM TypeCorrect == Spec => []TypeOK
<1>1. IInv => TypeOK
  <2> SUFFICES ASSUME IInv PROVE TypeOK
    OBVIOUS
  <2>1. PICK s \in ReadsOf(page) : \E n \in 0..Len(s) : Progress(s, n)
    BY DEF IInv, ProgressInv
  <2>2. PICK n \in 0..Len(s) : Progress(s, n)
    BY <2>1
  <2>3. s \in Seq(Reads) /\ Len(s) \in Nat
    BY <2>1, ReadFacts DEF IInv, TypeInv
  <2>4. \A i \in 1..n : i \in DOMAIN s
    BY <2>3
  <2>5. answer \notin Errors => DOMAIN view \subseteq UNION {ToSet(q) : q \in ReadsOf(page)}
    <3>1. answer \notin Errors => DOMAIN view \subseteq ToSet(s)
      BY <2>2, <2>4 DEF Progress, ToSet
    <3> QED BY <3>1
  <2>6. todo = Rest(s, n)
    BY <2>2 DEF Progress
  <2> QED BY <2>5, <2>6 DEF IInv, TypeInv, WalkInv, TypeOK
<1> QED BY <1>1, Inductive, PTL

\* compute_status and the dashboard, which count in several statements: whatever
\* is ingested between them, the numbers of an answer fit each other.
THEOREM StatusFits == Spec => []StatusConsistent
<1>1. IInv => StatusConsistent
  <2> SUFFICES ASSUME IInv, Shows("total") PROVE StatusConsistent
    BY DEF StatusConsistent
  <2>1. PICK s \in ReadsOf(page) : \E n \in 0..Len(s) : Progress(s, n)
    BY DEF IInv, ProgressInv
  <2>2. PICK n \in 0..Len(s) : Progress(s, n)
    BY <2>1
  <2>3. Has("total") /\ answer \notin Errors
    BY DEF Shows, Served, Has, Errors
  <2>4. /\ \A i \in 1..n : s[i] \in DOMAIN view \/ Panel(s[i]) \in down
        /\ "mission" \notin down /\ \E i \in 1..n : "total" = s[i]
    BY <2>2, <2>3 DEF Progress, Has, Panel, NamedReads
  <2>5. Len(s) \in Nat /\ \A i \in 1..Len(s) :
          s[i] = "total" => i = 3 /\ s[1] = "count" /\ s[2] = "last"
    BY <2>1, ReadFacts DEF IInv, TypeInv
  <2>6. /\ s[1] = "count" /\ s[2] = "last" /\ 1 \in 1..n /\ 2 \in 1..n
    BY <2>4, <2>5
  <2>7. Has("count") /\ Has("last")
    BY <2>3, <2>4, <2>6 DEF Has, Panel
  <2> QED BY <2>3, <2>7 DEF IInv, FitInv, StatusConsistent, Shows, Has
<1> QED BY <1>1, Inductive, PTL

\* The matrix, the latest pair and the dashboard show the newest pair of what was
\* completed when the request began; a read that an answer lacks was given up with
\* its panel, or skipped because the pair it found was incomplete.
THEOREM NewestIsShown == Spec => []NewestShown
<1>1. IInv => NewestShown
  <2> SUFFICES ASSUME IInv, Served PROVE NewestShown
    BY DEF NewestShown
  <2>1. PICK s \in ReadsOf(page) : \E n \in 0..Len(s) : Progress(s, n)
    BY DEF IInv, ProgressInv
  <2>2. PICK n \in 0..Len(s) : Progress(s, n)
    BY <2>1
  <2>3. s \in Seq(Reads) /\ DOMAIN s = 1..Len(s)
    BY <2>1, ReadFacts DEF IInv, TypeInv
  <2>4. answer \notin Errors /\ answer # "none" /\ \A r : Shows(r) <=> Has(r)
    BY DEF Served, Shows, Has, Errors
  <2>5. n = Len(s)
    BY <2>2, <2>4 DEF Progress
  <2>6. \A i \in DOMAIN s : Shows(s[i]) \/ Panel(s[i]) \in down
    BY <2>2, <2>3, <2>4, <2>5 DEF Progress, Has
  <2> QED BY <2>1, <2>4, <2>6 DEF IInv, PairInv, NewestShown
<1> QED BY <1>1, Inductive, PTL

\* A client that follows the pages of /api/observations to their end has seen
\* every observation that was there at the start and that shares its timestamp
\* with no other, however many are ingested on the way.
THEOREM WalkShowsAll == Spec => []WalkComplete
<1>1. IInv => WalkComplete
  BY DEF IInv, WalkInv, Tied, WalkComplete
<1> QED BY <1>1, Inductive, PTL

-----------------------------------------------------------------------------
DashboardNeverFails == page = "dashboard" => answer \in {"none", "page", "passesError"}

\* "degrades cleanly": a request for the dashboard is never answered with an error
\* on account of the database, whichever of its statements fail or pairs are
\* incomplete, for each of them is of a panel; passes that cannot be computed are
\* caught by none.  That it is answered at all is DashboardServed, which needs
\* fairness.
THEOREM DashboardDegrades == Spec => []DashboardNeverFails
<1>1. Init => DashboardNeverFails
  BY DEF Init, DashboardNeverFails
<1>2. ASSUME IInv, Fail, page = "dashboard"
      PROVE  Catches(page, Head(todo))
  <2>1. PICK n \in 0..Len(ContextReads) : Progress(ContextReads, n)
    BY <1>2 DEF IInv, ProgressInv, ReadsOf
  <2>2. todo = Rest(ContextReads, n) /\ todo # <<>>
    BY <1>2, <2>1 DEF Progress, Fail
  <2>3. n + 1 \in 1..Len(ContextReads) /\ Head(todo) = ContextReads[n + 1]
    BY <2>2, ContextFacts, TailOfRest
  <2>4. n + 1 \in {1, 2, 3, 4, 5, 6}
    BY <2>3, ContextFacts
  <2>5. Head(todo) \in {"count", "last", "total", "recent", "headline", "passes"}
    BY <2>3, <2>4, ContextFacts
  <2> QED BY <1>2, <2>5, RegistryFacts DEF Catches, NamedReads
<1>3. IInv /\ DashboardNeverFails /\ [Next]_vars => DashboardNeverFails'
  <2> SUFFICES ASSUME IInv, DashboardNeverFails, [Next]_vars PROVE DashboardNeverFails'
    OBVIOUS
  <2>1. CASE Fail
    <3>1. page' = page /\ (page = "dashboard" => answer' = answer)
      BY <1>2, <2>1 DEF Fail
    <3> QED BY <3>1 DEF DashboardNeverFails
  <2>2. CASE Serve
    BY <2>2 DEF Serve, DashboardNeverFails
  <2>3. CASE \E p \in Pages : Request(p)
    BY <2>3 DEF Request, DashboardNeverFails
  <2>4. CASE PassesRaise
    BY <2>4 DEF PassesRaise, RequestFails, DashboardNeverFails
  <2>5. CASE Incomplete
    BY <2>5 DEF Incomplete, RequestFails, DashboardNeverFails
  <2>6. CASE UNCHANGED <<page, answer>>
    BY <2>6 DEF DashboardNeverFails
  <2> QED
    BY <2>1, <2>2, <2>3, <2>4, <2>5, <2>6
    DEF Next, Step, CommitObservation, CommitPair, Read, vars, request
<1> QED BY <1>1, <1>3, Inductive, PTL DEF Spec

=============================================================================
