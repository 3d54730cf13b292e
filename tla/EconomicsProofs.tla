---------------------------- MODULE EconomicsProofs ----------------------------
(***************************************************************************)
(* The recommendation agrees with the totals and with the break-even runs  *)
(* per day for every positive price, rate and measurement.  Each lemma     *)
(* isolates the one non-linear step of the argument.                       *)
(***************************************************************************)
EXTENDS Economics, TLAPS

\* A stored pair is one that was priced under a configuration that was valid.
PairPriced ==
  pair = NoPair \/ \E c \in Configs, m \in Measurements : Valid(c) /\ pair = Priced(c, m)

IInv == config \in Configs /\ Valid(config) /\ PairPriced

LEMMA ProductNat ==
  ASSUME NEW x \in Nat, NEW y \in Nat
  PROVE  x * y \in Nat
  OBVIOUS

\* What a dashboard saves in downlink is the price of the bytes saved.
LEMMA Distribute ==
  ASSUME NEW p \in Nat, NEW x \in Nat, NEW y \in Nat
  PROVE  x * p - y * p = p * (x - y)
  OBVIOUS

LEMMA ProductPositive ==
  ASSUME NEW p \in Nat, NEW n \in Int, p > 0
  PROVE  n > 0 <=> p * n > 0
  OBVIOUS

LEMMA Scale ==
  ASSUME NEW h \in Int, NEW k \in Int, NEW n \in Nat, n > 0
  PROVE  h > k <=> h * n > k * n
  OBVIOUS

LEMMA Associate ==
  ASSUME NEW r \in Nat, NEW h \in Int, NEW d \in Nat
  PROVE  r * (h * d) = h * (r * d)
  OBVIOUS

-----------------------------------------------------------------------------
(* The decision, of numbers alone. *)

\* The configured price exceeds the break-even price exactly when the edge's
\* total, its downlink included, is below the ground's.
LEMMA DecisionOfTotals ==
  ASSUME NEW price \in Nat, price > 0,
         NEW g \in Nat, NEW e \in Nat, NEW in \in Nat, NEW out \in Nat,
         Recommendation(price, BreakEven(g, e, Saved(in, out))) # "none"
  PROVE  Recommendation(price, BreakEven(g, e, Saved(in, out))) = "edge"
           <=> e + out * price < g + in * price
<1> DEFINE saved == Saved(in, out)
           extra == AtLeast0(e - g)
<1>1. saved > 0 /\ saved = in - out
  BY DEF Saved, AtLeast0, Recommendation, BreakEven
<1>2. Recommendation(price, BreakEven(g, e, saved)) = "edge" <=> price * saved > extra
  BY <1>1 DEF Recommendation, BreakEven
<1>3. in * price - out * price = price * saved
  BY <1>1, Distribute
<1>4. price * saved > 0 /\ price * saved \in Int
  BY <1>1, ProductPositive
<1>5. price * saved > extra <=> price * saved > e - g
  BY <1>4 DEF AtLeast0
<1>6. in * price \in Nat /\ out * price \in Nat
  BY ProductNat
<1>7. price * saved > e - g <=> e + out * price < g + in * price
  <2> HIDE DEF saved
  <2> QED BY <1>3, <1>4, <1>6
<1> QED BY <1>2, <1>5, <1>7

\* A headroom above the charge per run is a number of runs per day above the
\* break-even one: both sides times the runs of the hardware's life.
LEMMA UtilizationOfHeadroom ==
  ASSUME NEW headroom \in Int, NEW charge \in Nat, NEW runs \in Nat, NEW days \in Nat,
         runs > 0, days > 0
  PROVE  headroom > charge
           <=> /\ headroom > 0
               /\ runs * (headroom * days) > charge * (runs * days)
<1>1. runs * days \in Nat /\ runs * days > 0
  BY ProductPositive
<1>2. headroom > charge <=> headroom * (runs * days) > charge * (runs * days)
  BY <1>1, Scale
<1>3. runs * (headroom * days) = headroom * (runs * days)
  BY Associate
<1> QED BY <1>2, <1>3

-----------------------------------------------------------------------------
(* The pair. *)

LEMMA PricedFacts ==
  ASSUME NEW c \in Configs, NEW m \in Measurements
  PROVE  LET p == Priced(c, m) IN
         /\ c \in ConfigType /\ p.assumptions = c
         /\ p.input \in Nat /\ p.output \in Nat
         /\ p.ground.energy \in Nat /\ p.ground.cost \in Nat
         /\ p.edge.energy \in Nat /\ p.edge.cost \in Nat
         /\ p.edge.cost = p.edge.energy * c.electricity + c.capexPerRun
         /\ p.breakEven = BreakEven(p.ground.cost, p.edge.cost, Saved(p.input, p.output))
         /\ p.recommendation = Recommendation(c.price, p.breakEven)
<1> DEFINE p == Priced(c, m)
<1>1. c \in ConfigType /\ m \in MeasurementType
  BY ConfigAssumption, MeasurementAssumption
<1>2. p.assumptions = c /\ p.input = m.input /\ p.output = m.output
  BY DEF Priced
<1>3. p.ground.energy = m.groundWatts * m.groundWall /\ p.edge.energy = m.edgeWatts * m.edgeWall
  BY DEF Priced, Run
<1>4. /\ p.ground.cost = p.ground.energy * c.electricity + m.groundWall * c.rent + 0
      /\ p.edge.cost = p.edge.energy * c.electricity + m.edgeWall * 0 + c.capexPerRun
  BY DEF Priced, Run, Cost
<1>5. /\ p.breakEven = BreakEven(p.ground.cost, p.edge.cost, Saved(p.input, p.output))
      /\ p.recommendation = Recommendation(c.price, p.breakEven)
  BY DEF Priced, Run
<1> HIDE DEF p
<1>6. /\ c.price \in Nat /\ c.electricity \in Nat /\ c.rent \in Nat /\ c.capexPerRun \in Nat
      /\ m.input \in Nat /\ m.output \in Nat /\ m.groundWall \in Nat /\ m.edgeWall \in Nat
      /\ m.groundWatts \in Nat /\ m.edgeWatts \in Nat
  BY <1>1 DEF ConfigType, MeasurementType
<1>7. p.ground.energy \in Nat /\ p.edge.energy \in Nat
  BY <1>3, <1>6, ProductNat
<1>8. /\ p.ground.energy * c.electricity \in Nat /\ p.edge.energy * c.electricity \in Nat
      /\ m.groundWall * c.rent \in Nat /\ m.edgeWall * 0 = 0
  BY <1>6, <1>7, ProductNat
<1>9. p.ground.cost \in Nat /\ p.edge.cost \in Nat
      /\ p.edge.cost = p.edge.energy * c.electricity + c.capexPerRun
  BY <1>4, <1>6, <1>8
<1> QED BY <1>1, <1>2, <1>5, <1>6, <1>7, <1>9 DEF p

THEOREM Invariance == Spec => []IInv
<1>1. Init => IInv
  BY DEF Init, IInv, PairPriced
<1>2. IInv /\ [Next]_vars => IInv'
  <2> SUFFICES ASSUME IInv, [Next]_vars PROVE IInv'
    OBVIOUS
  <2>1. ASSUME NEW c \in Configs, Restart(c) PROVE IInv'
    BY <2>1 DEF IInv, Restart, PairPriced
  <2>2. ASSUME NEW m \in Measurements, RunPair(m) PROVE IInv'
    <3>1. config' = config /\ pair' = Priced(config, m)
      BY <2>2 DEF RunPair
    <3> QED BY <3>1 DEF IInv, PairPriced
  <2>3. CASE UNCHANGED vars
    BY <2>3 DEF IInv, PairPriced, vars
  <2> QED BY <2>1, <2>2, <2>3 DEF Next
<1> QED BY <1>1, <1>2, PTL DEF Spec

\* No stored amount is out of the range metrics.py accepts.
THEOREM TypeCorrect == Spec => []TypeOK
<1>1. IInv => TypeOK
  <2> SUFFICES ASSUME IInv PROVE TypeOK
    OBVIOUS
  <2>1. CASE pair = NoPair
    BY <2>1 DEF IInv, TypeOK
  <2>2. CASE pair # NoPair
    <3>1. PICK c \in Configs, m \in Measurements : Valid(c) /\ pair = Priced(c, m)
      BY <2>2 DEF IInv, PairPriced
    <3>2. pair.input \in Nat /\ pair.output \in Nat /\ pair.ground.cost \in Nat
            /\ pair.edge.cost \in Nat /\ pair.ground.energy \in Nat /\ pair.edge.energy \in Nat
            /\ pair.assumptions \in Configs
      BY <3>1, PricedFacts
    <3>3. pair.breakEven \in [num : Nat, den : Nat]
      <4>1. /\ AtLeast0(pair.edge.cost - pair.ground.cost) \in Nat
            /\ Saved(pair.input, pair.output) \in Nat
        BY <3>2 DEF Saved, AtLeast0
      <4>2. pair.breakEven = BreakEven(pair.ground.cost, pair.edge.cost,
                                       Saved(pair.input, pair.output))
        BY <3>1, PricedFacts
      <4> QED BY <4>1, <4>2 DEF BreakEven
    <3>4. pair.recommendation \in {"none", "edge", "ground"}
      BY <3>1, PricedFacts DEF Recommendation
    <3>5. pair.ground \in RunType /\ pair.edge \in RunType
      BY <3>1, <3>2 DEF Priced, Run, RunType
    <3>6. pair = [assumptions |-> pair.assumptions, input |-> pair.input,
                  output |-> pair.output, ground |-> pair.ground, edge |-> pair.edge,
                  breakEven |-> pair.breakEven, recommendation |-> pair.recommendation]
      BY <3>1 DEF Priced
    <3> QED BY <3>2, <3>3, <3>4, <3>5, <3>6 DEF IInv, TypeOK, PairType
  <2> QED BY <2>1, <2>2
<1> QED BY <1>1, Invariance, PTL

\* The stored recommendation and the totals shown beside it always agree.
THEOREM Agreement == Spec => []DecisionAgrees
<1>1. IInv => DecisionAgrees
  <2> SUFFICES ASSUME IInv, pair # NoPair, Decided(Breakdown(pair))
               PROVE  LET page == Breakdown(pair)
                      IN page.recommendation = "edge" <=> page.edgeTotal < page.groundTotal
    BY DEF DecisionAgrees
  <2>1. PICK c \in Configs, m \in Measurements : Valid(c) /\ pair = Priced(c, m)
    BY DEF IInv, PairPriced
  <2>2. /\ Breakdown(pair).recommendation = pair.recommendation
        /\ Breakdown(pair).edgeTotal = pair.edge.cost + pair.output * pair.assumptions.price
        /\ Breakdown(pair).groundTotal = pair.ground.cost + pair.input * pair.assumptions.price
    BY DEF Breakdown, Page
  <2>3. c.price \in Nat /\ c.price > 0
    BY <2>1, ConfigAssumption DEF ConfigType, Valid
  <2>4. /\ pair.assumptions = c /\ pair.input \in Nat /\ pair.output \in Nat
        /\ pair.ground.cost \in Nat /\ pair.edge.cost \in Nat
        /\ pair.recommendation = Recommendation(c.price,
              BreakEven(pair.ground.cost, pair.edge.cost, Saved(pair.input, pair.output)))
    BY <2>1, PricedFacts
  <2> DEFINE r == Recommendation(c.price,
                    BreakEven(pair.ground.cost, pair.edge.cost, Saved(pair.input, pair.output)))
  <2>5. r # "none" /\ Breakdown(pair).recommendation = r
    BY <2>2, <2>4 DEF Decided
  <2>6. r = "edge" <=> pair.edge.cost + pair.output * c.price
                         < pair.ground.cost + pair.input * c.price
    BY <2>3, <2>4, <2>5, DecisionOfTotals
  <2> HIDE DEF r
  <2> QED BY <2>2, <2>4, <2>5, <2>6
<1> QED BY <1>1, Invariance, PTL

\* So do the recommendation and the break-even runs per day.
THEOREM Utilization == Spec => []UtilizationAgrees
<1>1. IInv => UtilizationAgrees
  <2> DEFINE page == Breakdown(pair)
             a == pair.assumptions
  <2> SUFFICES ASSUME IInv, pair # NoPair, Decided(page)
               PROVE  page.recommendation = "edge" <=>
                        /\ page.headroom > 0
                        /\ page.runsPerDay * (page.headroom * page.days) > page.capex
    BY DEF UtilizationAgrees
  <2>1. PICK c \in Configs, m \in Measurements : Valid(c) /\ pair = Priced(c, m)
    BY DEF IInv, PairPriced
  <2>2. /\ a = c /\ pair.input \in Nat /\ pair.output \in Nat
        /\ pair.ground.cost \in Nat /\ pair.edge.energy \in Nat
        /\ pair.edge.cost = pair.edge.energy * c.electricity + c.capexPerRun
    BY <2>1, PricedFacts
  <2>3. /\ c.price \in Nat /\ c.electricity \in Nat /\ c.capexPerRun \in Nat
        /\ c.runsPerDay \in Nat /\ c.runsPerDay > 0
        /\ c.lifetimeDays \in Nat /\ c.lifetimeDays > 0
    BY <2>1, ConfigAssumption DEF ConfigType, Valid
  <2>4. /\ page.runsPerDay = c.runsPerDay /\ page.days = c.lifetimeDays
        /\ page.capex = c.capexPerRun * (c.runsPerDay * c.lifetimeDays)
        /\ page.edgeTotal = pair.edge.cost + pair.output * c.price
        /\ page.groundTotal = pair.ground.cost + pair.input * c.price
        /\ page.headroom = page.groundTotal - pair.output * c.price
                             - pair.edge.energy * c.electricity
    BY <2>2 DEF Breakdown, Page
  <2>5. /\ pair.output * c.price \in Nat /\ pair.input * c.price \in Nat
        /\ pair.edge.energy * c.electricity \in Nat
    BY <2>2, <2>3, ProductNat
  <2>6. page.recommendation = "edge" <=> page.edgeTotal < page.groundTotal
    <3>1. /\ pair.recommendation = Recommendation(c.price,
                BreakEven(pair.ground.cost, pair.edge.cost, Saved(pair.input, pair.output)))
          /\ pair.edge.cost \in Nat /\ c.price > 0
      BY <2>1, PricedFacts DEF Valid
    <3>2. page.recommendation = pair.recommendation
      BY DEF Breakdown, Page
    <3>3. pair.recommendation # "none"
      BY <3>2 DEF Decided
    <3>4. pair.recommendation = "edge"
            <=> pair.edge.cost + pair.output * c.price < pair.ground.cost + pair.input * c.price
      <4> DEFINE g   == pair.ground.cost
                 e   == pair.edge.cost
                 in  == pair.input
                 out == pair.output
      <4>1. g \in Nat /\ e \in Nat /\ in \in Nat /\ out \in Nat
        BY <2>2, <3>1
      <4>2. Recommendation(c.price, BreakEven(g, e, Saved(in, out))) # "none"
        BY <3>1, <3>3
      <4> HIDE DEF g, e, in, out
      <4>3. Recommendation(c.price, BreakEven(g, e, Saved(in, out))) = "edge"
              <=> e + out * c.price < g + in * c.price
        BY <2>3, <3>1, <4>1, <4>2, DecisionOfTotals
      <4> QED BY <3>1, <4>3 DEF g, e, in, out
    <3> HIDE DEF page
    <3> QED BY <2>4, <3>2, <3>4
  <2> HIDE DEF page, a
  <2>7. /\ page.headroom \in Int
        /\ page.edgeTotal < page.groundTotal <=> page.headroom > c.capexPerRun
    BY <2>2, <2>3, <2>4, <2>5
  <2>8. page.headroom > c.capexPerRun <=>
          /\ page.headroom > 0
          /\ page.runsPerDay * (page.headroom * page.days) > page.capex
    BY <2>3, <2>4, <2>7, UtilizationOfHeadroom
  <2> QED BY <2>6, <2>7, <2>8
<1> QED BY <1>1, Invariance, PTL

=============================================================================
