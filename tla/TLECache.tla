------------------------------- MODULE TLECache -------------------------------
(***************************************************************************)
(* The cache of orbital elements (tle.py).  One key of _cache, or one      *)
(* group of _group_cache: a group's records have one fetched_at and are    *)
(* marked stale one after the other, a satellite's record is a group of    *)
(* one member.  The route threads and the scheduler's refresh job call     *)
(* get_tle and get_group_tles at the same time and share the records       *)
(* themselves, so a record marked stale is so for everybody who has it.    *)
(***************************************************************************)
EXTENDS Naturals

CONSTANTS Callers, Members,
          TTL,           \* TLE_REFRESH_HOURS, in ticks
          Records,       \* the record objects alive at the same time
          NoRecord,
          MaxTime,       \* bound on the clock
          MaxFailures    \* bound on failed fetches

ASSUME RecordAssumption == NoRecord \notin Records
ASSUME BoundAssumption == TTL \in Nat /\ MaxTime \in Nat /\ MaxFailures \in Nat

VARIABLES
  now,        \* the clock
  cache,      \* the cached record (or list of records), or NoRecord
  fetchedAt,  \* [Records -> time]
  stale,      \* [Records -> SUBSET Members]: the members with stale = True
  pc,         \* [Callers -> Labels]
  since,      \* [Callers -> time]: when the call began (history)
  cached,     \* [Callers -> record]: the local of that name
  result,     \* [Callers -> record]: fetched, or returned
  failures

vars == <<now, cache, fetchedAt, stale, pc, since, cached, result, failures>>

Labels == {"idle", "fetch", "store", "mark", "returned", "raised"}

TypeOK ==
  /\ now \in 0..MaxTime
  /\ cache \in Records \cup {NoRecord}
  /\ fetchedAt \in [Records -> 0..MaxTime]
  /\ stale \in [Records -> SUBSET Members]
  /\ pc \in [Callers -> Labels]
  /\ since \in [Callers -> 0..MaxTime]
  /\ cached \in [Callers -> Records \cup {NoRecord}]
  /\ result \in [Callers -> Records \cup {NoRecord}]
  /\ \A c \in Callers : pc[c] \in {"store", "returned"} => result[c] # NoRecord
  /\ \A c \in Callers : pc[c] = "mark" => cached[c] # NoRecord
  /\ failures \in 0..MaxFailures

Init ==
  /\ now = 0
  /\ cache = NoRecord
  /\ fetchedAt = [r \in Records |-> 0]
  /\ stale = [r \in Records |-> {}]
  /\ pc = [c \in Callers |-> "idle"]
  /\ since = [c \in Callers |-> 0]
  /\ cached = [c \in Callers |-> NoRecord]
  /\ result = [c \in Callers |-> NoRecord]
  /\ failures = 0

Expired(r) == r = NoRecord \/ now - fetchedAt[r] > TTL

\* A record object somebody can still reach.
Reachable == {cache} \cup {cached[c] : c \in Callers} \cup {result[c] : c \in Callers}

Goto(c, label) == pc' = [pc EXCEPT ![c] = label]
Return(c, r) == Goto(c, "returned") /\ result' = [result EXCEPT ![c] = r]

-----------------------------------------------------------------------------
\* The call reads the cache and the clock.
Read(c) ==
  /\ pc[c] = "idle"
  /\ since' = [since EXCEPT ![c] = now]
  /\ cached' = [cached EXCEPT ![c] = cache]
  /\ IF Expired(cache)
       THEN Goto(c, "fetch") /\ UNCHANGED result
       ELSE Return(c, cache)
  /\ UNCHANGED <<now, cache, fetchedAt, stale, failures>>

\* Celestrak answers: a new record, dated when the answer is in.  One that
\* nobody can reach any more is reused: Records is a bound on those alive.
Fetch(c) ==
  /\ pc[c] = "fetch"
  /\ Records \ Reachable # {}
  /\ LET r == CHOOSE x \in Records : x \notin Reachable IN
       /\ fetchedAt' = [fetchedAt EXCEPT ![r] = now]
       /\ stale' = [stale EXCEPT ![r] = {}]
       /\ result' = [result EXCEPT ![c] = r]
  /\ Goto(c, "store")
  /\ UNCHANGED <<now, cache, since, cached, failures>>

\* Variant: what is cached is never replaced.
StoreFirst(c) ==
  /\ pc[c] = "store"
  /\ cache' = IF cache = NoRecord THEN result[c] ELSE cache
  /\ Return(c, result[c])
  /\ UNCHANGED <<now, fetchedAt, stale, since, cached, failures>>

\* Stored over whatever another call has stored in the meantime.
Store(c) ==
  /\ pc[c] = "store"
  /\ cache' = result[c]
  /\ Return(c, result[c])
  /\ UNCHANGED <<now, fetchedAt, stale, since, cached, failures>>

\* Variant: the fallback does not look whether anything was cached.
FetchFailsBlind(c) ==
  /\ pc[c] = "fetch"
  /\ failures < MaxFailures
  /\ failures' = failures + 1
  /\ Goto(c, "mark")
  /\ UNCHANGED <<now, cache, fetchedAt, stale, since, cached, result>>

\* An HTTP error, or an answer without elements.
FetchFails(c) ==
  /\ pc[c] = "fetch"
  /\ failures < MaxFailures
  /\ failures' = failures + 1
  /\ Goto(c, IF cached[c] = NoRecord THEN "raised" ELSE "mark")
  /\ UNCHANGED <<now, cache, fetchedAt, stale, since, cached, result>>

\* Variant: only the first record of a group is marked.
MarkFirst(c) ==
  /\ pc[c] = "mark"
  /\ \E m \in Members : stale' = [stale EXCEPT ![cached[c]] = @ \cup {m}]
  /\ Return(c, cached[c])
  /\ UNCHANGED <<now, cache, fetchedAt, since, cached, failures>>

\* Variant: what is marked is whatever is cached by now.
MarkCurrent(c) ==
  /\ pc[c] = "mark"
  /\ stale' = [stale EXCEPT ![cache] = Members]
  /\ Return(c, cached[c])
  /\ UNCHANGED <<now, cache, fetchedAt, since, cached, failures>>

\* The records found at the start are marked one by one, then returned.
Mark(c) ==
  LET r == cached[c]
      fresh == Members \ stale[r]
  IN
  /\ pc[c] = "mark"
  /\ IF fresh = {}
       THEN Return(c, r) /\ UNCHANGED stale
       ELSE /\ \E m \in fresh : stale' = [stale EXCEPT ![r] = @ \cup {m}]
            /\ UNCHANGED <<pc, result>>
  /\ UNCHANGED <<now, cache, fetchedAt, since, cached, failures>>

\* The caller has used the records and let go of them, or answered 503.
Finish(c) ==
  /\ pc[c] \in {"returned", "raised"}
  /\ Goto(c, "idle")
  /\ since' = [since EXCEPT ![c] = 0]
  /\ cached' = [cached EXCEPT ![c] = NoRecord]
  /\ result' = [result EXCEPT ![c] = NoRecord]
  /\ UNCHANGED <<now, cache, fetchedAt, stale, failures>>

\* The model's clock goes forward only; the code compares readings of the wall
\* clock, which may be set back.
Tick ==
  /\ now < MaxTime
  /\ now' = now + 1
  /\ UNCHANGED <<cache, fetchedAt, stale, pc, since, cached, result, failures>>

Step(c) == Fetch(c) \/ Store(c) \/ FetchFails(c) \/ Mark(c) \/ Finish(c)

Next == Tick \/ \E c \in Callers : Read(c) \/ Step(c)

Spec == Init /\ [][Next]_vars

\* The fetch and its timeout end every call.  Calls come again and again: those of
\* get_tle from the refresh job, those of get_group_tles only from whoever looks at
\* the map.
LiveSpec ==
  /\ Spec
  /\ WF_vars(Tick)
  /\ \A c \in Callers : WF_vars(Read(c)) /\ WF_vars(Step(c))

-----------------------------------------------------------------------------
(* Properties. *)

\* A record that is still good is never marked stale, whoever fails to renew it
\* and whatever has been stored since that caller looked (tle.py 70-73, 100-104).
StaleOnlyExpired ==
  \A r \in Reachable \ {NoRecord} : stale[r] # {} => Expired(r)

\* Elements returned without a stale mark were at most TTL old when the call
\* began, or fetched during it: no thread is ever given old elements as new.
FreshUnlessMarked ==
  \A c \in Callers : pc[c] = "returned" =>
    \/ stale[result[c]] = Members
    \/ since[c] - fetchedAt[result[c]] <= TTL
    \/ fetchedAt[result[c]] >= since[c]

\* A slow answer may overwrite a newer record, but the cache recovers: when the
\* clock stops, Celestrak answers again and callers go on asking, what is cached
\* becomes and stays good.
EventuallyGood == <>[](~Expired(cache))

=============================================================================
