------------------------------- MODULE RateLimit -------------------------------
(***************************************************************************)
(* RateLimitMiddleware (main.py).  dispatch has no await between its       *)
(* reading of the clock and its append, so the event loop runs a decision  *)
(* as one step.  The deques are memory of the process and start empty with *)
(* it.                                                                     *)
(***************************************************************************)
EXTENDS Integers, Sequences

CONSTANTS
  Clients,   \* client addresses
  Limit,     \* RATE_LIMIT_REQUESTS_PER_MINUTE
  Window,    \* _window_seconds
  MaxTime    \* bound on the clock

ASSUME LimitAssumption == Limit \in Nat \ {0}
ASSUME TimeAssumption  == Window \in Nat /\ MaxTime \in Nat

VARIABLES
  now,        \* time.monotonic()
  hits,       \* the deque of each client, its oldest entry first
  admitted,   \* all admissions of each client by this process (history)
  refusedAt   \* when each client was refused last, -1 for never (history)

limiter == <<now, hits, admitted, refusedAt>>

Times == 0..MaxTime

LimiterTypeOK ==
  /\ now \in Times
  /\ hits \in [Clients -> Seq(Times)]
  /\ admitted \in [Clients -> Seq(Times)]
  /\ refusedAt \in [Clients -> Times \cup {-1}]

NoHits == [c \in Clients |-> <<>>]
Never  == [c \in Clients |-> -1]

LimiterInit == now = 0 /\ hits = NoHits /\ admitted = NoHits /\ refusedAt = Never

-----------------------------------------------------------------------------
\* Variant: an entry leaves when it is a window old.
OutsideFrom(t) == now - t >= Window

Outside(t) == now - t > Window

\* The loop drops the first n entries of the deque h.
Drops(h, n) ==
  /\ n \in 0..Len(h)
  /\ \A i \in 1..n : Outside(h[i])
  /\ n < Len(h) => ~Outside(h[n + 1])

Rest(h, n) == [i \in 1..(Len(h) - n) |-> h[n + i]]

Admit(c) ==
  \E n \in 0..Len(hits[c]) :
    /\ Drops(hits[c], n)
    /\ Len(hits[c]) - n < Limit
    /\ hits' = [hits EXCEPT ![c] = Append(Rest(@, n), now)]
    /\ admitted' = [admitted EXCEPT ![c] = Append(@, now)]
    /\ UNCHANGED <<now, refusedAt>>

\* Variant: the refused request is entered, too.
RefuseEntered(c) ==
  \E n \in 0..Len(hits[c]) :
    /\ Drops(hits[c], n)
    /\ Len(hits[c]) - n >= Limit
    /\ hits' = [hits EXCEPT ![c] = Append(Rest(@, n), now)]
    /\ refusedAt' = [refusedAt EXCEPT ![c] = now]
    /\ UNCHANGED <<now, admitted>>

Refuse(c) ==
  \E n \in 0..Len(hits[c]) :
    /\ Drops(hits[c], n)
    /\ Len(hits[c]) - n >= Limit
    /\ hits' = [hits EXCEPT ![c] = Rest(@, n)]
    /\ refusedAt' = [refusedAt EXCEPT ![c] = now]
    /\ UNCHANGED <<now, admitted>>

Tick ==
  /\ now' \in (now + 1)..MaxTime
  /\ UNCHANGED <<hits, admitted, refusedAt>>

\* The process ends: the next one starts with empty deques.
Forget ==
  /\ hits' = NoHits /\ admitted' = NoHits /\ refusedAt' = Never
  /\ UNCHANGED now

LimiterNext ==
  \/ \E c \in Clients : Admit(c) \/ Refuse(c)
  \/ Tick
  \/ Forget

LimiterSpec == LimiterInit /\ [][LimiterNext]_limiter

-----------------------------------------------------------------------------
\* "Per-IP sliding-window limiter; rejects floods before they reach route
\* handlers": of any Limit + 1 consecutive admissions of a client the first and
\* the last are more than a window apart, however long the requests of the
\* client kept away or were refused in between.
WindowBound ==
  \A c \in Clients : \A i \in 1..Len(admitted[c]) :
    i + Limit <= Len(admitted[c]) => admitted[c][i + Limit] - admitted[c][i] > Window

\* The other direction: a client is refused only while Limit requests of its own
\* that were admitted are in the window.  Requests of others and requests that
\* were refused do not keep it out.
RefusedOnlyInFlood ==
  \A c \in Clients : refusedAt[c] = now =>
    /\ Len(admitted[c]) >= Limit
    /\ ~Outside(admitted[c][Len(admitted[c]) - Limit + 1])

=============================================================================
