----------------------------- MODULE TicketSizing -----------------------------
(***************************************************************************)
(* What a Ticket may risk: the sizing of an ENTRY (domain/capacity_sizing. *)
(* py), the cross-margin stress of the account at its stop (domain/        *)
(* cross_margin_stress.py) and the frozen Capacity Claim (domain/capacity. *)
(* py, application/build_capacity_claim.py).                               *)
(*                                                                         *)
(* Prices, quantities and money are natural numbers, fractions and rates   *)
(* are numerators over Base.  A product of money and a fraction is kept    *)
(* exact, in units of 1/Base; the storage quantum is 1/Base.               *)
(***************************************************************************)
EXTENDS Integers, FiniteSets, Sequences, FiniteSetsExt

CONSTANTS Base,      \* the denominator of fractions and rates
          Policy,    \* the Owner policy's fractions and counts
          Rules,     \* the instrument: step, tick, minima
          Leverage   \* FIXED_EXCHANGE_CONFIGURED_LEVERAGE

Fraction == 1..Base
Positive == Nat \ {0}

\* The Owner's policy, the venue's rules of the instrument, one account observation.
CapacityPolicies ==
  [ticket_risk : Fraction, gross_risk : Fraction, directional : Fraction, ticket_margin : Fraction,
   gross_margin : Fraction, materialization : Fraction, overrun : 0..Base, tickets : Positive,
   stress : Positive]
CapacityInstrumentRules ==
  [step : Positive, tick : Positive, min_quantity : Positive, min_notional : Positive]
AccountRiskPositions ==
  [side : {"long", "short"}, quantity : Positive, entry : Positive, upnl : Int, maintenance : Nat]
MaintenanceMarginBrackets == [floor : Nat, cap : Nat, rate : 0..(Base - 1), amount : Nat]
StressPositions == [side : {"long", "short"}, quantity : Positive, entry : Positive]
CapacityUsages == [gross : Nat, directional : Nat, reserved : Nat, tickets : Nat]
AccountRiskSnapshots ==
  [wallet : Nat, balance : Nat, initial : Nat, maintenance : Nat, available : Nat, mark : Positive,
   quote : Positive, usage : CapacityUsages, own : SUBSET AccountRiskPositions]

ASSUME SizingAssumption ==
  /\ Base \in Positive /\ Leverage \in Positive
  /\ Policy \in CapacityPolicies /\ Rules \in CapacityInstrumentRules

CeilDiv(a, b) == (a + b - 1) \div b
FloorStep(v, step) == (v \div step) * step
CeilStep(v, step) == CeilDiv(v, step) * step
Distance(a, b) == IF a >= b THEN a - b ELSE b - a
NonNegative(v) == IF v > 0 THEN v ELSE 0

\* A long stop is rounded down and a short one up, away from the entry; the take profit likewise.
RoundStop(v, side) == IF side = "long" THEN FloorStep(v, Rules.tick) ELSE CeilStep(v, Rules.tick)
RoundTakeProfit(entry, reward, side) ==
  IF side = "long" THEN CeilStep(entry + reward, Rules.tick)
  ELSE FloorStep(entry - reward, Rules.tick)

-----------------------------------------------------------------------------
(* Sizing: a is an account snapshot, p a plan [entry, stop, target, fraction]. *)

RemainingGross(a) == NonNegative(a.wallet * Policy.gross_risk - a.usage.gross * Base)
RemainingDirectional(a) == NonNegative(a.wallet * Policy.directional - a.usage.directional * Base)

\* Mutant: the risk of the other Tickets in the same direction is forgotten.
BudgetWithoutDirection(a) == Min({a.wallet * Policy.ticket_risk, RemainingGross(a)})

TicketRiskBudget(a) ==
  Min({a.wallet * Policy.ticket_risk, RemainingGross(a), RemainingDirectional(a)})

\* In units of 1/Base^2.
MinimumRiskBudget(a) == a.wallet * Policy.ticket_risk * Policy.materialization

TicketMarginBudget(a) ==
  Min({a.balance * Policy.ticket_margin, a.available * Base,
       NonNegative(a.balance * Policy.gross_margin - Max({a.initial, a.usage.reserved}) * Base)})

RiskQuantity(a, p) ==
  FloorStep(TicketRiskBudget(a) \div (Base * Distance(p.entry, p.stop)), Rules.step)

MarginQuantity(a, p) ==
  FloorStep((TicketMarginBudget(a) * Leverage) \div (Base * p.entry), Rules.step)

Tp1Quantity(q, p) == FloorStep((q * p.fraction) \div Base, Rules.step)

MeetsVenueMinimum(q, p) ==
  q >= Rules.min_quantity /\ q * p.entry >= Rules.min_notional /\ q > 0

\* Both legs of the exit plan are orders the venue takes.
ExitPlanExecutable(q, p) ==
  LET tp1 == Tp1Quantity(q, p)
      runner == q - tp1
  IN /\ tp1 > 0 /\ tp1 >= Rules.min_quantity /\ tp1 * p.target >= Rules.min_notional
     /\ runner >= Rules.min_quantity /\ runner * p.stop >= Rules.min_notional

Refused(status) == [status |-> status, quantity |-> 0]

select_capacity_candidate(a, p) ==
  LET quantity == Min({RiskQuantity(a, p), MarginQuantity(a, p)})
  IN IF a.usage.tickets >= Policy.tickets THEN Refused("count_exhausted")
     ELSE IF RemainingDirectional(a) = 0 THEN Refused("directional_risk_exhausted")
     ELSE IF TicketRiskBudget(a) = 0 THEN Refused("stop_risk_exhausted")
     ELSE IF TicketMarginBudget(a) = 0 THEN Refused("margin_exhausted")
     ELSE IF ~MeetsVenueMinimum(quantity, p) THEN Refused("venue_minimum_unmet")
     ELSE IF ~ExitPlanExecutable(quantity, p) THEN Refused("exit_plan_unexecutable")
     ELSE IF quantity * Distance(p.entry, p.stop) * Base * Base < MinimumRiskBudget(a)
          THEN Refused("minimum_materialization_unmet")
     ELSE [status |-> "selected", quantity |-> quantity]

-----------------------------------------------------------------------------
(* Stress: positions is a set of [side, quantity, entry] of one instrument, brackets a        *)
(* schedule of maintenance margins [floor, cap, rate, amount]; cap 0 is an open one, amount   *)
(* is in units of 1/Base.  Prices are scaled by the product of the quantities, so that a      *)
(* bracket's boundary is a price.                                                             *)

Scale(positions) == FoldSet(LAMBDA x, y : x.quantity * y, 1, positions)

StressPrice(p, side) ==
  LET distance == Distance(p.entry, p.stop) * Policy.stress
  IN IF side = "short" THEN p.stop + distance ELSE NonNegative(p.stop - distance)

\* Mutant: the margin may jump where two brackets meet.
ContiguousOnly(brackets) ==
  /\ Len(brackets) > 0 /\ brackets[1].floor = 0 /\ brackets[1].amount = 0
  /\ \A i \in 2..Len(brackets) : brackets[i - 1].cap = brackets[i].floor

ScheduleValid(brackets) ==
  /\ Len(brackets) > 0 /\ brackets[1].floor = 0 /\ brackets[1].amount = 0
  /\ \A i \in 2..Len(brackets) :
       LET b == brackets[i]
           prior == brackets[i - 1]
       IN /\ prior.cap = b.floor /\ b.rate >= prior.rate
          /\ b.floor * b.rate - b.amount = b.floor * prior.rate - prior.amount
          /\ b.floor * b.rate - b.amount >= 0

\* The bracket of a notional at a scaled price, 0 when the schedule does not cover it.
BracketFor(brackets, notional, scale) ==
  LET covers(i) == /\ notional >= brackets[i].floor * scale
                   /\ brackets[i].cap = 0 \/ notional < brackets[i].cap * scale
      found == {i \in DOMAIN brackets : covers(i)}
  IN IF found = {} THEN 0 ELSE Min(found)

EvaluationPoints(a, p, side, positions, brackets) ==
  LET scale == Scale(positions)
      mark == a.mark * scale
      stress == StressPrice(p, side) * scale
      ends == {brackets[i].floor : i \in DOMAIN brackets}
                \cup {brackets[i].cap : i \in {j \in DOMAIN brackets : brackets[j].cap # 0}}
      boundaries == {(n * scale) \div q.quantity : n \in ends, q \in positions}
  IN {mark, p.stop * scale, stress}
       \cup {b \in boundaries : Min({mark, stress}) <= b /\ b <= Max({mark, stress})}

\* In units of 1/(Base * scale): balance and profit less maintenance margin.
MarginSurplus(price, base_balance, base_maintenance, positions, brackets) ==
  LET scale == Scale(positions)
      profit(q) == q.quantity * (IF q.side = "long" THEN price - q.entry * scale
                                 ELSE q.entry * scale - price)
      maintenance(q) == LET b == brackets[BracketFor(brackets, q.quantity * price, scale)]
                        IN q.quantity * price * b.rate - b.amount * scale
  IN FoldSet(LAMBDA q, sum : sum + profit(q) * Base - maintenance(q),
             (base_balance - base_maintenance) * Base * scale, positions)

Covered(price, positions, brackets) ==
  \A q \in positions : BracketFor(brackets, q.quantity * price, Scale(positions)) # 0

\* The account without the instrument: a.own is the instrument's open positions in the snapshot,
\* with their unrealized profit and maintenance margin.
BaseBalance(a) == FoldSet(LAMBDA q, sum : sum - q.upnl, a.balance, a.own)
BaseMaintenance(a) == FoldSet(LAMBDA q, sum : sum - q.maintenance, a.maintenance, a.own)

\* CrossMarginStressRequest: one position per side, and a protective stop.
StressRequestValid(p, side, positions) ==
  /\ positions \subseteq StressPositions
  /\ \A q, r \in positions : q.side = r.side => q = r
  /\ \E q \in positions : q.side = side
  /\ IF side = "long" THEN p.stop < p.entry ELSE p.stop > p.entry

evaluate_cross_margin_stress(a, p, side, positions, brackets) ==
  LET points == EvaluationPoints(a, p, side, positions, brackets)
      surplus(price) ==
        MarginSurplus(price, BaseBalance(a), BaseMaintenance(a), positions, brackets)
      protected == IF side = "long" THEN a.mark > p.stop ELSE a.mark < p.stop
  IN IF ~ScheduleValid(brackets) THEN "facts_contradictory"
     ELSE IF \E price \in points : ~Covered(price, positions, brackets) THEN "facts_contradictory"
     ELSE IF BaseMaintenance(a) < 0 THEN "facts_contradictory"
     ELSE IF protected /\ \A price \in points : surplus(price) > 0 THEN "passed"
     ELSE "failed"

-----------------------------------------------------------------------------
(* The claim *)

Projected(a, side, quantity, entry) ==
  {[side |-> q.side, quantity |-> q.quantity, entry |-> q.entry] : q \in a.own}
    \cup {[side |-> side, quantity |-> quantity, entry |-> entry]}

\* The terms of the claim before they are stored: money is in units of 1/Base, the minimum and the
\* post-fill limit in 1/Base^2, the reserved margin in 1/(Base * Leverage).
ClaimTerms(a, p, quantity) ==
  [quantity |-> quantity, entry |-> p.entry, stop |-> p.stop, target |-> p.target,
   tp1 |-> Tp1Quantity(quantity, p), risk |-> quantity * Distance(p.entry, p.stop) * Base,
   budget |-> TicketRiskBudget(a), margin |-> TicketMarginBudget(a),
   minimum |-> MinimumRiskBudget(a), reserved |-> quantity * p.entry * Base,
   limit |-> TicketRiskBudget(a) * (Base + Policy.overrun)]

\* The storage quantum is 1/Base: what counts against a limit is rounded up.
Stored(c) ==
  [c EXCEPT !.minimum = CeilDiv(@, Base), !.reserved = CeilDiv(@, Leverage),
            !.limit = CeilDiv(@, Base)]

freeze_capacity_claim(a, p, quantity) == Stored(ClaimTerms(a, p, quantity))

CapacityClaims ==
  [quantity : Positive, entry : Positive, stop : Positive, target : Positive, tp1 : Positive,
   risk : Positive, budget : Positive, margin : Positive, minimum : Positive, reserved : Positive,
   limit : Positive]

\* The claim's own validation of its frozen values.
ClaimValid(c, a) ==
  /\ c \in CapacityClaims /\ c.tp1 < c.quantity
  /\ c.risk <= c.budget /\ c.budget <= c.limit
  /\ c.budget <= a.wallet * Policy.ticket_risk
  /\ c.budget <= a.wallet * Policy.gross_risk - a.usage.gross * Base
  /\ c.budget <= a.wallet * Policy.directional - a.usage.directional * Base
  /\ c.minimum * Base = MinimumRiskBudget(a) /\ c.minimum <= c.risk
  /\ c.margin <= a.balance * Policy.ticket_margin /\ c.reserved <= c.margin
  /\ c.margin <= a.balance * Policy.gross_margin - Max({a.initial, a.usage.reserved}) * Base

\* The plan of a signal: entry at the ask or bid, rounded stop and target.
Plan(f) ==
  LET stop == RoundStop(f.stop_reference, f.profile.side)
      reward == Distance(f.account.quote, stop) * f.profile.reward
  IN [entry |-> f.account.quote, stop |-> stop, fraction |-> f.profile.fraction,
      target |-> RoundTakeProfit(f.account.quote, reward, f.profile.side)]

SizingRefusal(status) ==
  IF status = "directional_risk_exhausted" THEN status
  ELSE IF status = "exit_plan_unexecutable" THEN "exit_leg_materialization_unmet"
  ELSE "budget_exhausted"

\* build_capacity_claim, after the gates on freshness, scope, health and family counts that
\* EntryAdmission models.  Where a validation of the code raises, the status is "invalid".
build_capacity_claim(f) ==
  LET a == f.account
      p == Plan(f)
      sizing == select_capacity_candidate(a, p)
      positions == Projected(a, f.profile.side, sizing.quantity, p.entry)
      stress == evaluate_cross_margin_stress(a, p, f.profile.side, positions, f.brackets)
      claim == freeze_capacity_claim(a, p, sizing.quantity)
      unprotected == IF f.profile.side = "long" THEN p.stop >= p.entry ELSE p.stop <= p.entry
  IN IF a.usage.tickets >= Policy.tickets THEN [status |-> "budget_exhausted"]
     ELSE IF RemainingDirectional(a) = 0 THEN [status |-> "directional_risk_exhausted"]
     ELSE IF unprotected THEN [status |-> "protection_unavailable"]
     ELSE IF sizing.status # "selected" THEN [status |-> SizingRefusal(sizing.status)]
     ELSE IF ~StressRequestValid(p, f.profile.side, positions) THEN [status |-> "invalid"]
     ELSE IF stress = "facts_contradictory" THEN [status |-> "instrument_rules_invalid"]
     ELSE IF stress = "failed" THEN [status |-> "protection_unavailable"]
     ELSE IF ~ClaimValid(claim, a) THEN [status |-> "invalid"]
     ELSE [status |-> "claimed", terms |-> claim]

=============================================================================
