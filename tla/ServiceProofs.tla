----------------------------- MODULE ServiceProofs -----------------------------
(***************************************************************************)
(* The bound of RateLimitMiddleware for any limit, window and number of    *)
(* clients, first for the limiter alone.  What makes it inductive: a deque *)
(* is the end of the admissions of its client, and the admissions before   *)
(* it are out of the window.  Then the process: as far as it concerns the  *)
(* limiter it is a limiter, and its orderly end is one, from any point of  *)
(* the start.                                                              *)
(***************************************************************************)
EXTENDS Service, TLAPS

IsEnd(h, a) ==
  /\ Len(h) <= Limit /\ Len(h) <= Len(a)
  /\ \A i \in 1..Len(h) : h[i] = a[Len(a) - Len(h) + i]
  /\ \A i \in 1..(Len(a) - Len(h)) : Outside(a[i])

InOrder(a) ==
  /\ \A i \in 1..Len(a) : a[i] <= now
  /\ \A i, j \in 1..Len(a) : i <= j => a[i] <= a[j]

Spread(a) == \A i \in 1..Len(a) : i + Limit <= Len(a) => a[i + Limit] - a[i] > Window

InFlood(a) == Len(a) >= Limit /\ ~Outside(a[Len(a) - Limit + 1])

\* What holds of one client with deque h, admissions a and last refusal r.
ClientInv(h, a, r) ==
  /\ IsEnd(h, a) /\ InOrder(a) /\ Spread(a)
  /\ r <= now /\ (r = now => InFlood(a))

IInv ==
  /\ LimiterTypeOK
  /\ \A c \in Clients : ClientInv(hits[c], admitted[c], refusedAt[c])

-----------------------------------------------------------------------------
\* What the loop leaves of a deque is a deque, and still an end of the admissions.
LEMMA RestIsSeq ==
  ASSUME NEW h \in Seq(Times), NEW n \in 0..Len(h)
  PROVE  /\ Rest(h, n) \in Seq(Times)
         /\ Len(Rest(h, n)) = Len(h) - n
         /\ \A i \in 1..(Len(h) - n) : Rest(h, n)[i] = h[n + i]
<1>1. Len(h) \in Nat /\ Len(h) - n \in Nat
  OBVIOUS
<1>2. \A i \in 1..(Len(h) - n) : n + i \in 1..Len(h)
  BY <1>1
<1>3. \A i \in 1..(Len(h) - n) : h[n + i] \in Times
  BY <1>2
<1>4. Rest(h, n) \in [1..(Len(h) - n) -> Times]
  BY <1>3 DEF Rest
<1>5. Rest(h, n) \in Seq(Times)
  BY <1>1, <1>4
<1>6. Len(Rest(h, n)) = Len(h) - n
  BY <1>1, <1>4, <1>5
<1> QED BY <1>5, <1>6 DEF Rest

LEMMA RestIsEnd ==
  ASSUME NEW h \in Seq(Times), NEW a \in Seq(Times), IsEnd(h, a),
         NEW n \in 0..Len(h), Drops(h, n)
  PROVE  IsEnd(Rest(h, n), a)
<1> DEFINE k == Len(a) - Len(h)
<1>1. Len(h) \in Nat /\ Len(a) \in Nat /\ k \in Nat
  BY DEF IsEnd
<1>2. /\ Len(Rest(h, n)) = Len(h) - n
      /\ \A i \in 1..(Len(h) - n) : Rest(h, n)[i] = h[n + i]
  BY RestIsSeq
<1>3. ASSUME NEW i \in 1..(Len(h) - n)
      PROVE  h[n + i] = a[k + n + i]
  <2>1. \A j \in 1..Len(h) : h[j] = a[k + j]
    BY DEF IsEnd
  <2>2. n + i \in 1..Len(h) /\ k + (n + i) = k + n + i
    BY <1>1
  <2> QED BY <2>1, <2>2
<1>4. ASSUME NEW i \in 1..(k + n)
      PROVE  Outside(a[i])
  <2>1. CASE i <= k
    BY <2>1, <1>1 DEF IsEnd
  <2>2. CASE i > k
    <3>1. i - k \in 1..n /\ i - k \in 1..Len(h)
      BY <2>2, <1>1
    <3>2. Outside(h[i - k])
      BY <3>1 DEF Drops
    <3>3. h[i - k] = a[k + (i - k)]
      BY <3>1 DEF IsEnd
    <3>4. k + (i - k) = i
      BY <1>1
    <3> QED BY <3>2, <3>3, <3>4
  <2> QED BY <2>1, <2>2, <1>1
<1>5. Len(a) - Len(Rest(h, n)) = k + n
  BY <1>1, <1>2
<1> QED BY <1>1, <1>2, <1>3, <1>4, <1>5, LimitAssumption DEF IsEnd

\* An admission below the limit keeps all of it.
LEMMA AdmitKeeps ==
  ASSUME NEW h \in Seq(Times), NEW a \in Seq(Times), NEW r \in Int, now \in Times,
         ClientInv(h, a, r), Len(h) < Limit
  PROVE  ClientInv(Append(h, now), Append(a, now), r)
<1> DEFINE H == Append(h, now)
           A == Append(a, now)
<1>1. /\ Len(h) \in Nat /\ Len(a) \in Nat
      /\ H \in Seq(Times) /\ A \in Seq(Times)
      /\ Len(H) = Len(h) + 1 /\ Len(A) = Len(a) + 1
      /\ \A i \in 1..Len(h) : H[i] = h[i]
      /\ \A i \in 1..Len(a) : A[i] = a[i] /\ a[i] \in Times
      /\ H[Len(h) + 1] = now /\ A[Len(a) + 1] = now
  OBVIOUS
<1>2. IsEnd(h, a) /\ InOrder(a) /\ Spread(a)
  BY DEF ClientInv
<1> HIDE DEF H, A
<1>7. /\ Len(h) \in Nat /\ Len(a) \in Nat /\ Limit \in Nat \ {0}
      /\ Len(H) = Len(h) + 1 /\ Len(A) = Len(a) + 1
  BY <1>1, LimitAssumption
<1>8. /\ now \in Int /\ A[Len(a) + 1] = now
      /\ \A i \in 1..Len(a) : A[i] = a[i] /\ a[i] \in Int
  BY <1>1 DEF Times
<1>3. IsEnd(H, A)
  <2>1. Len(H) <= Limit /\ Len(H) <= Len(A) /\ Len(A) - Len(H) = Len(a) - Len(h)
    BY <1>1, <1>2, LimitAssumption DEF IsEnd
  <2>2. ASSUME NEW i \in 1..Len(H)
        PROVE  H[i] = A[Len(A) - Len(H) + i]
    <3>1. CASE i = Len(h) + 1
      BY <3>1, <1>1, <2>1
    <3>2. CASE i \in 1..Len(h)
      <4>1. Len(a) - Len(h) + i \in 1..Len(a)
        BY <3>2, <1>1, <1>2 DEF IsEnd
      <4>2. h[i] = a[Len(a) - Len(h) + i]
        BY <3>2, <1>2 DEF IsEnd
      <4> QED BY <3>2, <4>1, <4>2, <1>1, <2>1
    <3> QED BY <3>1, <3>2, <1>1
  <2>3. ASSUME NEW i \in 1..(Len(A) - Len(H))
        PROVE  Outside(A[i])
    <3>1. i \in 1..(Len(a) - Len(h)) /\ i \in 1..Len(a)
      BY <1>1, <2>1
    <3> QED BY <3>1, <1>1, <1>2 DEF IsEnd
  <2> QED BY <2>1, <2>2, <2>3 DEF IsEnd
<1>4. InOrder(A)
  <2>1. /\ now \in Int
        /\ \A i \in 1..Len(A) : i \in 1..Len(a) \/ i = Len(a) + 1
        /\ \A i \in 1..Len(a) : A[i] = a[i] /\ a[i] <= now /\ a[i] \in Int
    <3>1. \A i \in 1..Len(A) : i \in 1..Len(a) \/ i = Len(a) + 1
      BY <1>7
    <3>2. \A i \in 1..Len(a) : a[i] <= now
      BY <1>2 DEF InOrder
    <3> QED BY <3>1, <3>2, <1>8
  <2>2. \A i \in 1..Len(A) : A[i] <= now
    BY <2>1, <1>8
  <2>3. ASSUME NEW i \in 1..Len(A), NEW j \in 1..Len(A), i <= j
        PROVE  A[i] <= A[j]
    <3>1. CASE j = Len(a) + 1
      BY <3>1, <2>2, <1>1
    <3>2. CASE j \in 1..Len(a)
      <4>1. i \in 1..Len(a)
        BY <2>3, <3>2, <1>1
      <4>2. a[i] <= a[j]
        BY <2>3, <3>2, <4>1, <1>2 DEF InOrder
      <4> QED BY <4>1, <4>2, <3>2, <2>1
    <3> QED BY <3>1, <3>2, <2>1
  <2> QED BY <2>2, <2>3 DEF InOrder
<1>5. Spread(A)
  <2> SUFFICES ASSUME NEW i \in 1..Len(A), i + Limit <= Len(A)
               PROVE  A[i + Limit] - A[i] > Window
    BY DEF Spread
  <2>1. i \in 1..Len(a) /\ i + Limit \in 1..Len(A)
    BY <1>7
  <2>2. CASE i + Limit <= Len(a)
    <3>1. i + Limit \in 1..Len(a)
      BY <2>1, <2>2, <1>7
    <3> QED BY <2>1, <2>2, <3>1, <1>1, <1>2 DEF Spread
  <2>3. CASE i + Limit = Len(a) + 1
    <3>1. i \in 1..(Len(a) - Len(h))
      BY <2>1, <2>3, <1>7
    <3>2. Outside(a[i])
      BY <3>1, <1>2 DEF IsEnd
    <3>3. A[i + Limit] = now /\ A[i] = a[i] /\ a[i] \in Int /\ now \in Int
      BY <2>1, <2>3, <1>8
    <3> QED BY <3>2, <3>3, TimeAssumption DEF Outside
  <2>4. i + Limit <= Len(a) \/ i + Limit = Len(a) + 1
    <3>1. i \in Nat /\ i + Limit \in Nat /\ i + Limit <= Len(a) + 1
      BY <2>1, <1>7
    <3> QED BY <3>1, <1>7
  <2> QED BY <2>2, <2>3, <2>4
<1>6. r = now => InFlood(A)
  <2> SUFFICES ASSUME r = now PROVE InFlood(A)
    OBVIOUS
  <2>1. InFlood(a)
    BY DEF ClientInv
  <2>2. /\ Len(a) - Limit + 1 \in 1..Len(a)
        /\ Len(A) - Limit + 1 = (Len(a) - Limit + 1) + 1
        /\ Len(A) - Limit + 1 \in 1..Len(A)
    BY <2>1, <1>7 DEF InFlood
  <2>3. A[Len(a) - Limit + 1] <= A[Len(A) - Limit + 1]
    <3>1. /\ Len(a) - Limit + 1 \in 1..Len(A)
          /\ Len(a) - Limit + 1 <= Len(A) - Limit + 1
      BY <2>2, <1>7
    <3> QED BY <3>1, <2>2, <1>4 DEF InOrder
  <2>4. A[Len(a) - Limit + 1] = a[Len(a) - Limit + 1]
    BY <2>2, <1>1
  <2>5. ~Outside(a[Len(a) - Limit + 1])
    BY <2>1 DEF InFlood
  <2>6. /\ now \in Int /\ Window \in Int
        /\ A[Len(A) - Limit + 1] \in Int /\ a[Len(a) - Limit + 1] \in Int
    <3>1. \A i \in 1..Len(A) : A[i] \in Int
      BY <1>7, <1>8
    <3> QED BY <3>1, <2>2, <1>8, TimeAssumption
  <2>7. ~Outside(A[Len(A) - Limit + 1])
    BY <2>3, <2>4, <2>5, <2>6 DEF Outside
  <2> QED BY <2>7, <2>1, <1>7 DEF InFlood
<1> QED BY <1>3, <1>4, <1>5, <1>6 DEF ClientInv, H, A

\* A deque that is full after the loop shows Limit admissions in the window.
LEMMA FullShowsFlood ==
  ASSUME NEW h \in Seq(Times), NEW a \in Seq(Times), now \in Times,
         IsEnd(h, a), InOrder(a), NEW n \in 0..Len(h), Drops(h, n),
         Len(h) - n >= Limit
  PROVE  InFlood(a)
<1>1. /\ Len(h) \in Nat /\ Len(a) \in Nat /\ n = 0 /\ Len(h) = Limit
      /\ Len(a) - Limit + 1 \in 1..Len(a)
  BY LimitAssumption DEF IsEnd
<1>2. ~Outside(h[1])
  BY <1>1, LimitAssumption DEF Drops
<1>3. h[1] = a[Len(a) - Limit + 1]
  BY <1>1, LimitAssumption DEF IsEnd
<1> QED BY <1>1, <1>2, <1>3 DEF InFlood

\* Time that passes takes admissions out of the window and puts none in.
LEMMA TimeKeeps ==
  ASSUME now \in Times, now' \in Times, now' > now,
         NEW h \in Seq(Times), NEW a \in Seq(Times), NEW r \in Int,
         ClientInv(h, a, r)
  PROVE  /\ \A i \in 1..(Len(a) - Len(h)) : now' - a[i] > Window
         /\ \A i \in 1..Len(a) : a[i] <= now'
         /\ r < now'
<1>1. now \in Int /\ now' \in Int /\ Window \in Int /\ Len(a) \in Nat /\ Len(h) \in Nat
  BY TimeAssumption DEF Times
<1>2. \A i \in 1..Len(a) : a[i] \in Int
  <2>1. \A i \in 1..Len(a) : a[i] \in Times
    OBVIOUS
  <2>2. Times \subseteq Int
    BY TimeAssumption DEF Times
  <2> QED BY <2>1, <2>2
<1>3. \A i \in 1..(Len(a) - Len(h)) : i \in 1..Len(a)
  BY <1>1
<1>4. \A i \in 1..(Len(a) - Len(h)) : now - a[i] > Window
  BY DEF ClientInv, IsEnd, Outside
<1>5. \A i \in 1..(Len(a) - Len(h)) : now' - a[i] > Window
  BY <1>1, <1>2, <1>3, <1>4
<1>6. \A i \in 1..Len(a) : a[i] <= now'
  BY <1>1, <1>2 DEF ClientInv, InOrder
<1>7. r < now'
  BY <1>1 DEF ClientInv
<1> QED BY <1>5, <1>6, <1>7

-----------------------------------------------------------------------------
LEMMA InitIInv == LimiterInit => IInv
<1> SUFFICES ASSUME LimiterInit PROVE IInv
  OBVIOUS
<1>1. <<>> \in Seq(Times) /\ Len(<<>>) = 0
  OBVIOUS
<1>2. LimiterTypeOK
  BY <1>1, TimeAssumption DEF LimiterInit, NoHits, Never, LimiterTypeOK, Times
<1>3. ClientInv(<<>>, <<>>, -1)
  BY <1>1, LimitAssumption DEF LimiterInit, ClientInv, IsEnd, InOrder, Spread
<1> QED BY <1>2, <1>3 DEF IInv, LimiterInit, NoHits, Never

LEMMA NextIInv == IInv /\ [LimiterNext]_limiter => IInv'
<1> SUFFICES ASSUME IInv, [LimiterNext]_limiter PROVE IInv'
  OBVIOUS
<1>0. /\ now \in Times /\ now \in Int
      /\ \A c \in Clients : /\ hits[c] \in Seq(Times) /\ admitted[c] \in Seq(Times)
                            /\ refusedAt[c] \in Int
                            /\ ClientInv(hits[c], admitted[c], refusedAt[c])
      /\ LimiterTypeOK
  BY DEF IInv, LimiterTypeOK, Times
<1>1. ASSUME NEW c \in Clients, Admit(c) PROVE IInv'
  <2>1. PICK n \in 0..Len(hits[c]) :
          /\ Drops(hits[c], n)
          /\ Len(hits[c]) - n < Limit
          /\ hits' = [hits EXCEPT ![c] = Append(Rest(@, n), now)]
          /\ admitted' = [admitted EXCEPT ![c] = Append(@, now)]
          /\ UNCHANGED <<now, refusedAt>>
    BY <1>1 DEF Admit
  <2> DEFINE h == Rest(hits[c], n)
  <2>2. h \in Seq(Times) /\ Len(h) < Limit
    BY <1>0, <2>1, RestIsSeq
  <2>3. ClientInv(h, admitted[c], refusedAt[c])
    BY <1>0, <2>1, RestIsEnd DEF ClientInv
  <2>4. ClientInv(Append(h, now), Append(admitted[c], now), refusedAt[c])
    BY <1>0, <2>2, <2>3, AdmitKeeps
  <2>5. Append(h, now) \in Seq(Times) /\ Append(admitted[c], now) \in Seq(Times)
    BY <1>0, <2>2
  <2> HIDE DEF h
  <2>6. /\ hits' = [hits EXCEPT ![c] = Append(h, now)]
        /\ admitted' = [admitted EXCEPT ![c] = Append(admitted[c], now)]
        /\ now' = now /\ refusedAt' = refusedAt
    BY <2>1 DEF h
  <2>7. LimiterTypeOK'
    BY <1>0, <2>5, <2>6 DEF LimiterTypeOK, Times
  <2>9. now' = now
    BY <2>6
  <2>8. ASSUME NEW d \in Clients
        PROVE  ClientInv(hits[d], admitted[d], refusedAt[d])'
    <3>1. CASE d = c
      <4>1. hits'[c] = Append(h, now) /\ admitted'[c] = Append(admitted[c], now)
        BY <1>0, <2>6 DEF LimiterTypeOK
      <4>2. ClientInv(hits'[d], admitted'[d], refusedAt'[d])
        BY <3>1, <4>1, <2>4, <2>6
      <4> QED BY <4>2, <2>9 DEF ClientInv, IsEnd, InOrder, Spread, InFlood, Outside
    <3>2. CASE d # c
      <4>1. hits'[d] = hits[d] /\ admitted'[d] = admitted[d]
        BY <1>0, <3>2, <2>6 DEF LimiterTypeOK
      <4>2. ClientInv(hits'[d], admitted'[d], refusedAt'[d])
        BY <1>0, <4>1, <2>6
      <4> QED BY <4>2, <2>9 DEF ClientInv, IsEnd, InOrder, Spread, InFlood, Outside
    <3> QED BY <3>1, <3>2
  <2> QED BY <2>7, <2>8 DEF IInv
<1>2. ASSUME NEW c \in Clients, Refuse(c) PROVE IInv'
  <2>1. PICK n \in 0..Len(hits[c]) :
          /\ Drops(hits[c], n)
          /\ Len(hits[c]) - n >= Limit
          /\ hits' = [hits EXCEPT ![c] = Rest(@, n)]
          /\ refusedAt' = [refusedAt EXCEPT ![c] = now]
          /\ UNCHANGED <<now, admitted>>
    BY <1>2 DEF Refuse
  <2> DEFINE h == Rest(hits[c], n)
  <2>2. h \in Seq(Times)
    BY <1>0, <2>1, RestIsSeq
  <2>3. IsEnd(h, admitted[c]) /\ InFlood(admitted[c])
    BY <1>0, <2>1, RestIsEnd, FullShowsFlood DEF ClientInv
  <2>4. ClientInv(h, admitted[c], now)
    BY <1>0, <2>3 DEF ClientInv
  <2> HIDE DEF h
  <2>5. /\ hits' = [hits EXCEPT ![c] = h]
        /\ refusedAt' = [refusedAt EXCEPT ![c] = now]
        /\ now' = now /\ admitted' = admitted
    BY <2>1 DEF h
  <2>6. LimiterTypeOK'
    BY <1>0, <2>2, <2>5 DEF LimiterTypeOK, Times
  <2>9. now' = now
    BY <2>5
  <2>7. ASSUME NEW d \in Clients
        PROVE  ClientInv(hits[d], admitted[d], refusedAt[d])'
    <3>1. CASE d = c
      <4>1. hits'[c] = h /\ refusedAt'[c] = now
        BY <1>0, <2>5 DEF LimiterTypeOK
      <4>2. ClientInv(hits'[d], admitted'[d], refusedAt'[d])
        BY <3>1, <4>1, <2>4, <2>5
      <4> QED BY <4>2, <2>9 DEF ClientInv, IsEnd, InOrder, Spread, InFlood, Outside
    <3>2. CASE d # c
      <4>1. hits'[d] = hits[d] /\ refusedAt'[d] = refusedAt[d]
        BY <1>0, <3>2, <2>5 DEF LimiterTypeOK
      <4>2. ClientInv(hits'[d], admitted'[d], refusedAt'[d])
        BY <1>0, <4>1, <2>5
      <4> QED BY <4>2, <2>9 DEF ClientInv, IsEnd, InOrder, Spread, InFlood, Outside
    <3> QED BY <3>1, <3>2
  <2> QED BY <2>6, <2>7 DEF IInv
<1>3. CASE Tick
  <2>1. now' \in Times /\ now' > now /\ UNCHANGED <<hits, admitted, refusedAt>>
    BY <1>0, <1>3, TimeAssumption DEF Tick, Times
  <2>2. LimiterTypeOK'
    BY <1>0, <2>1 DEF LimiterTypeOK, Times
  <2>3. ASSUME NEW c \in Clients
        PROVE  ClientInv(hits[c], admitted[c], refusedAt[c])'
    <3>1. /\ \A i \in 1..(Len(admitted[c]) - Len(hits[c])) : now' - admitted[c][i] > Window
          /\ \A i \in 1..Len(admitted[c]) : admitted[c][i] <= now'
          /\ refusedAt[c] < now'
      BY <1>0, <2>1, TimeKeeps
    <3>2. refusedAt[c] <= now' /\ refusedAt[c] # now'
      BY <3>1, <2>1, <1>0 DEF Times
    <3> QED BY <1>0, <3>1, <3>2, <2>1 DEF ClientInv, IsEnd, InOrder, Spread, Outside
  <2> QED BY <2>2, <2>3 DEF IInv
<1>4. CASE Forget
  <2>1. /\ hits' = NoHits /\ admitted' = NoHits /\ refusedAt' = Never /\ now' = now
        /\ <<>> \in Seq(Times) /\ Len(<<>>) = 0
    BY <1>4 DEF Forget
  <2>2. LimiterTypeOK'
    BY <1>0, <2>1 DEF LimiterTypeOK, NoHits, Never, Times
  <2>3. ASSUME NEW c \in Clients
        PROVE  ClientInv(hits[c], admitted[c], refusedAt[c])'
    <3>1. hits'[c] = <<>> /\ admitted'[c] = <<>> /\ refusedAt'[c] = -1 /\ now' >= 0
      BY <2>1, <1>0 DEF NoHits, Never, Times
    <3> QED BY <3>1, <2>1, <1>0, LimitAssumption DEF ClientInv, IsEnd, InOrder, Spread
  <2> QED BY <2>2, <2>3 DEF IInv
<1>5. CASE UNCHANGED limiter
  <2>1. now' = now /\ hits' = hits /\ admitted' = admitted /\ refusedAt' = refusedAt
    BY <1>5 DEF limiter
  <2>2. ASSUME NEW c \in Clients
        PROVE  ClientInv(hits[c], admitted[c], refusedAt[c])'
    BY <1>0, <2>1 DEF ClientInv, IsEnd, InOrder, Spread, InFlood, Outside
  <2>3. LimiterTypeOK'
    BY <1>0, <2>1 DEF LimiterTypeOK, Times
  <2> QED BY <2>2, <2>3 DEF IInv
<1> QED BY <1>1, <1>2, <1>3, <1>4, <1>5 DEF LimiterNext

LEMMA IInvImplies == IInv => LimiterTypeOK /\ WindowBound /\ RefusedOnlyInFlood
BY DEF IInv, ClientInv, Spread, InFlood, WindowBound, RefusedOnlyInFlood

\* The limiter's variables keep their types, whatever the limit and the window.
THEOREM TypeCorrect == LimiterSpec => []LimiterTypeOK
BY InitIInv, NextIInv, IInvImplies, PTL DEF LimiterSpec

\* RateLimitMiddleware admits at most Limit requests of a client in any window.
THEOREM Bounded == LimiterSpec => []WindowBound
BY InitIInv, NextIInv, IInvImplies, PTL DEF LimiterSpec

\* RateLimitMiddleware refuses only what would exceed the limit.
THEOREM RefusalsJustified == LimiterSpec => []RefusedOnlyInFlood
BY InitIInv, NextIInv, IInvImplies, PTL DEF LimiterSpec

-----------------------------------------------------------------------------
\* Every step of the process is a step of the limiter or leaves it alone.
LEMMA StepIsLimiterStep == [Next]_vars => [LimiterNext]_limiter
BY DEF Next, vars, limiter, process, jobs, LimiterNext, Boot, EnsureBuckets, BootFails,
       StartScheduler, StartFails, FallDue, RunJob, EndJob, Dispatch, Reject, Respond,
       Wait, Terminate, CloseScheduler, StopScheduler, Gone, Exit, Kill, End

\* The limiter of the running service, restarts included, is the one of RateLimit.
THEOREM LimiterOfService == Spec => LimiterSpec
<1>1. Init => LimiterInit
  BY DEF Init
<1> QED BY <1>1, StepIsLimiterStep, PTL DEF Spec, LimiterSpec

\* Of the requests that reach a route, no window has more than Limit of a client.
THEOREM ServiceBounded == Spec => []WindowBound
BY LimiterOfService, Bounded, PTL

\* The service refuses a request only to keep that bound.
THEOREM ServiceRefusals == Spec => []RefusedOnlyInFlood
BY LimiterOfService, RefusalsJustified, PTL

-----------------------------------------------------------------------------
\* What each phase may hold: nothing before candidate.start, a scheduler without
\* a job until it is published, none that is open once the second half began.
PhaseInv ==
  /\ phase \in {"down", "booting"} => Idle
  /\ phase = "starting" => /\ scheduler = "started" /\ enabled
                           /\ published = FALSE /\ due = {} /\ running = {} /\ active = 0
  /\ phase \in {"serving", "draining"} => (published <=> scheduler = "started")
  /\ phase \in {"stopping", "exiting"} => scheduler # "started" /\ active = 0
  /\ phase = "exiting" => running = {} /\ published = FALSE

SInv == TypeOK /\ PhaseInv

LEMMA InitSInv == Init => SInv
<1> SUFFICES ASSUME Init PROVE SInv
  OBVIOUS
<1>1. LimiterTypeOK
  BY InitIInv, IInvImplies DEF Init
<1>2. /\ phase = "down" /\ enabled = FALSE /\ Idle /\ hits = NoHits
      /\ 0 \in 0..MaxActive
  BY JobAssumption DEF Init, LimiterInit
<1> QED BY <1>1, <1>2 DEF SInv, TypeOK, PhaseInv, Idle, Phases

LEMMA NextSInv == SInv /\ LimiterTypeOK' /\ [Next]_vars => SInv'
<1> SUFFICES ASSUME SInv, LimiterTypeOK', [Next]_vars PROVE SInv'
  OBVIOUS
<1> USE DEF SInv, TypeOK, PhaseInv, Phases, Idle, limiter, jobs
<1>1. CASE Boot
  BY <1>1 DEF Boot
<1>2. CASE EnsureBuckets
  BY <1>2 DEF EnsureBuckets
<1>3. CASE BootFails
  BY <1>3 DEF BootFails
<1>4. CASE StartScheduler
  BY <1>4, JobAssumption DEF StartScheduler
<1>5. CASE StartFails
  BY <1>5 DEF StartFails
<1>6. ASSUME NEW j \in Jobs, FallDue(j) PROVE SInv'
  BY <1>6 DEF FallDue
<1>7. ASSUME NEW j \in Jobs, RunJob(j) PROVE SInv'
  BY <1>7 DEF RunJob
<1>8. ASSUME NEW c \in Clients, Dispatch(c) PROVE SInv'
  <2>1. /\ phase = "serving" /\ active \in Nat /\ active < MaxActive /\ active' = active + 1
        /\ UNCHANGED <<phase, enabled, scheduler, published, due, running>>
    BY <1>8, JobAssumption DEF Dispatch
  <2>2. active' \in 0..MaxActive
    BY <2>1, JobAssumption
  <2> QED BY <2>1, <2>2
<1>9. ASSUME NEW c \in Clients, Reject(c) PROVE SInv'
  BY <1>9 DEF Reject, process
<1>10. CASE Wait
  BY <1>10 DEF Wait, process
<1>11. CASE Terminate
  BY <1>11 DEF Terminate
<1>12. CASE Respond
  <2>1. /\ active \in Nat /\ active > 0 /\ active' = active - 1
        /\ UNCHANGED <<now, hits, admitted, refusedAt>>
        /\ UNCHANGED <<phase, enabled, scheduler, published, due, running>>
    BY <1>12, JobAssumption DEF Respond
  <2>2. active' \in 0..MaxActive
    BY <2>1, JobAssumption
  <2> QED BY <2>1, <2>2
<1>13. CASE CloseScheduler
  BY <1>13 DEF CloseScheduler
<1>14. CASE StopScheduler
  BY <1>14 DEF StopScheduler
<1>15. ASSUME Gone PROVE SInv'
  <2>1. /\ phase' = "down" /\ scheduler' = "none" /\ published' = FALSE /\ enabled' = enabled
        /\ due' = {} /\ running' = {} /\ active' = 0 /\ hits' = NoHits
    BY <1>15 DEF Gone, Forget
  <2>2. 0 \in 0..MaxActive
    BY JobAssumption
  <2> QED BY <2>1, <2>2
<1>16. CASE Exit \/ Kill
  BY <1>15, <1>16 DEF Exit, Kill
<1>17. ASSUME NEW j \in Jobs, EndJob(j) PROVE SInv'
  BY <1>17 DEF EndJob
<1>18. CASE UNCHANGED vars
  BY <1>18 DEF vars, process
<1> QED
  BY <1>1, <1>2, <1>3, <1>4, <1>5, <1>6, <1>7, <1>8, <1>9, <1>10, <1>11, <1>12, <1>13,
     <1>14, <1>16, <1>17, <1>18 DEF Next, End

LEMMA Inductive == Spec => []SInv
<1>1. Spec => []LimiterTypeOK
  BY LimiterOfService, TypeCorrect, PTL
<1> QED BY <1>1, InitSInv, NextSInv, PTL DEF Spec

\* The process and its limiter keep their types.
THEOREM ServiceTypes == Spec => []TypeOK
<1>1. SInv => TypeOK
  BY DEF SInv
<1> QED BY <1>1, Inductive, PTL

\* However the start went, lifespan leaves no scheduler, job or request behind.
THEOREM StopsInOrder == Spec => []OrderlyStop
<1>1. SInv => OrderlyStop
  BY DEF SInv, PhaseInv, OrderlyStop
<1> QED BY <1>1, Inductive, PTL

=============================================================================
