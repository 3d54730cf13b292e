------------------------------- MODULE Economics -------------------------------
(***************************************************************************)
(* Ground or edge: a benchmark pair is priced when it is run (metrics.py,  *)
(* benchmarks.py), and its totals are recomputed from the stored pair      *)
(* whenever a dashboard shows it (dashboard_data.py), perhaps after a      *)
(* restart with other prices.  Amounts are exact: whole multiples of one   *)
(* small unit of money, energy in the unit of watts times wall, prices per *)
(* byte where the code has them per gigabyte.  A quotient is a record of   *)
(* two numbers and compared by cross-multiplication.                       *)
(***************************************************************************)
EXTENDS Integers

CONSTANTS
  Configs,        \* the prices and rates the environment can hold
  Measurements,   \* what a pair can measure
  NoPair

\* price of a downlinked byte, of electricity, rent of ground compute, charge of
\* the edge hardware per run, runs per day and days of its life.  The charge
\* is given and the capital it amortizes is charge * runs * days, where the code
\* divides the capital: no division is left.
ConfigType == [price : Nat, electricity : Nat, rent : Nat, capexPerRun : Nat,
               runsPerDay : Nat, lifetimeDays : Nat]

\* bytes of the input and of the edge's output, times and powers of both runs.
MeasurementType == [input : Nat \ {0}, output : Nat \ {0},
                    groundWall : Nat, edgeWall : Nat, groundWatts : Nat, edgeWatts : Nat]

ASSUME ConfigAssumption == Configs \subseteq ConfigType

ASSUME MeasurementAssumption == Measurements \subseteq MeasurementType

VARIABLES
  config,   \* the configuration of the running process
  pair      \* the latest completed pair

vars == <<config, pair>>

\* Variant: prices are checked to be non-negative, as metrics.py checks them.
NonNegative(c) == c.electricity > 0 /\ c.rent > 0 /\ c.capexPerRun > 0
                    /\ c.runsPerDay > 0 /\ c.lifetimeDays > 0

\* config.py refuses to start with a price or rate that is not positive.
Valid(c) ==
  /\ c.price > 0 /\ c.electricity > 0 /\ c.rent > 0
  /\ c.capexPerRun > 0 /\ c.runsPerDay > 0 /\ c.lifetimeDays > 0

-----------------------------------------------------------------------------
(* metrics.py *)

AtLeast0(n) == IF n > 0 THEN n ELSE 0

\* Variant: outputs larger than the input save a negative amount.
SavedSigned(input, output) == input - output

Saved(input, output) == AtLeast0(input - output)

\* Energy and rent are charged by the time, the hardware by the run.
Cost(c, energy, wall, rent, fixed) == energy * c.electricity + wall * rent + fixed

\* break_even_downlink_price is a quotient, or None for a divisor 0.
BreakEven(groundCost, edgeCost, saved) ==
  [num |-> AtLeast0(edgeCost - groundCost), den |-> saved]

Recommendation(price, breakEven) ==
  IF breakEven.den = 0 THEN "none"
  ELSE IF price * breakEven.den > breakEven.num THEN "edge" ELSE "ground"

-----------------------------------------------------------------------------
(* run_benchmark_pair: the stored pair, with the assumptions it was priced at. *)

Run(energy, cost) == [energy |-> energy, cost |-> cost]

Priced(c, m) ==
  LET groundEnergy == m.groundWatts * m.groundWall
      edgeEnergy   == m.edgeWatts * m.edgeWall
      ground    == Cost(c, groundEnergy, m.groundWall, c.rent, 0)
      edge      == Cost(c, edgeEnergy, m.edgeWall, 0, c.capexPerRun)
      breakEven == BreakEven(ground, edge, Saved(m.input, m.output))
  IN [assumptions |-> c, input |-> m.input, output |-> m.output,
      ground |-> Run(groundEnergy, ground), edge |-> Run(edgeEnergy, edge),
      breakEven |-> breakEven,
      recommendation |-> Recommendation(c.price, breakEven)]

Init == config \in {c \in Configs : Valid(c)} /\ pair = NoPair

\* The process is restarted, perhaps with other prices; the pair is stored.
Restart(c) == Valid(c) /\ config' = c /\ UNCHANGED pair

RunPair(m) == pair' = Priced(config, m) /\ UNCHANGED config

Next == (\E c \in Configs : Restart(c)) \/ (\E m \in Measurements : RunPair(m))

Spec == Init /\ [][Next]_vars

-----------------------------------------------------------------------------
(* dashboard_data.py: economics_breakdown of a stored pair. *)

\* What is shown of a pair priced under a, with the given headroom for the
\* hardware.  The break-even runs per day, capex / headroom / days, are kept as
\* these three; they are undefined without headroom.
Page(p, a, groundTotal, headroom) ==
  [recommendation |-> p.recommendation,
   groundTotal |-> groundTotal,
   edgeTotal   |-> p.edge.cost + p.output * a.price,
   headroom    |-> headroom,
   capex       |-> a.capexPerRun * (a.runsPerDay * a.lifetimeDays),
   days        |-> a.lifetimeDays,
   runsPerDay  |-> p.assumptions.runsPerDay]

\* Variant: the prices of the running process instead of the pair's.
CurrentBreakdown(p) ==
  LET groundTotal == p.ground.cost + p.input * config.price
  IN Page(p, config, groundTotal,
          groundTotal - p.output * config.price - p.edge.energy * config.electricity)

Breakdown(p) ==
  LET a == p.assumptions
      groundTotal == p.ground.cost + p.input * a.price
  IN Page(p, a, groundTotal,
          groundTotal - p.output * a.price - p.edge.energy * a.electricity)

-----------------------------------------------------------------------------
(* Properties. *)

RunType == [energy : Nat, cost : Nat]

PairType ==
  [assumptions : Configs, input : Nat, output : Nat, ground : RunType, edge : RunType,
   breakEven : [num : Nat, den : Nat], recommendation : {"none", "edge", "ground"}]

\* Every stored amount, saving and break-even price is in the range that
\* metrics.py would otherwise refuse with a MetricError, failing the pair.
TypeOK ==
  /\ config \in Configs
  /\ pair = NoPair \/ pair \in PairType

Decided(page) == page.recommendation # "none"

\* The recommendation stored with a pair and the totals shown beside it speak
\* for the same side, whatever the prices are by then: "edge" is recommended
\* exactly when its total is the lower one, and a tie goes to the ground.
DecisionAgrees ==
  pair # NoPair =>
    LET page == Breakdown(pair)
    IN Decided(page) =>
         (page.recommendation = "edge" <=> page.edgeTotal < page.groundTotal)

\* "It flips to ground if the hardware is used fewer than ... times/day": the
\* edge is recommended exactly when the assumed runs per day are more than the
\* break-even runs per day shown, and never when these are undefined.
UtilizationAgrees ==
  pair # NoPair =>
    LET page == Breakdown(pair)
    IN Decided(page) =>
         (page.recommendation = "edge" <=>
            /\ page.headroom > 0
            /\ page.runsPerDay * (page.headroom * page.days) > page.capex)

=============================================================================
