--------------------------- MODULE TicketEconomics ---------------------------
(***************************************************************************)
(* The numbers of one Ticket from its signal to its review: the claim      *)
(* build_capacity_claim freezes, the fill of its entry, the stop that      *)
(* follows the market while maintain_ticket_lifecycle sees candles close,  *)
(* and the fills its review adds up.  TicketExecution models how the       *)
(* orders reach the venue; here every order does.                          *)
(***************************************************************************)
EXTENDS ExitRules

CONSTANTS FactSet,     \* what the signal, the account and the profile may say
          FillPrices,  \* prices at which the ENTRY and a market exit may fill
          Bars,        \* the closed candles the venue may report
          MaxBars,     \* bound: candles that close during the Ticket
          MaxSlip      \* bound: ticks a stop order slips when it fills

ASSUME FactsAssumption ==
  /\ \A f \in FactSet : /\ f.account \in AccountRiskSnapshots /\ f.profile \in ExitProfiles
                         /\ f.brackets \in Seq(MaintenanceMarginBrackets)
  /\ Bars \subseteq LifecycleMarketFacts /\ FillPrices \subseteq Positive
  /\ MaxBars \in Nat /\ MaxSlip \in Nat

VARIABLES facts,   \* the facts the claim is built from
          claim,   \* build_capacity_claim's decision
          pos      \* the position and its protection

vars == <<facts, claim, pos>>

NoBar == [close |-> 0, extreme |-> 0, atr |-> 0]
NoPosition == [phase |-> "none", entry |-> 0, stop |-> 0, floor |-> 0, held |-> 0, last |-> 0,
               bar |-> NoBar, fills |-> <<>>, slip |-> 0]
Undecided == [status |-> "undecided"]

Init == facts \in FactSet /\ claim = Undecided /\ pos = NoPosition

BuildClaim ==
  /\ claim = Undecided
  /\ claim' = build_capacity_claim(facts)
  /\ UNCHANGED <<facts, pos>>

terms == claim.terms
Side == facts.profile.side
EntryRate == IF facts.bnb THEN Fees.bnb ELSE Fees.taker
Fill(quantity, price, rate) == [quantity |-> quantity, price |-> price, rate |-> rate]
Remaining == IF pos.fills = <<>> THEN terms.quantity ELSE terms.quantity - terms.tp1

\* The ENTRY fills whole; a fill the claim's limits refuse is flattened, with its stop in place
\* when the stop still protects.
EntryFills(price) ==
  /\ claim.status = "claimed" /\ pos.phase = "none"
  /\ LET disposition == assess_post_fill_risk(terms, Side, price)
     IN pos' = [pos EXCEPT !.entry = price,
                  !.phase = IF disposition = "normal" THEN "protected" ELSE "exiting",
                  !.stop = IF disposition = "flatten_immediately" THEN 0 ELSE terms.stop]
  /\ UNCHANGED <<facts, claim>>

Open == pos.phase \in {"protected", "runner"}

\* A candle closes at the venue.
BarCloses(bar) ==
  /\ Open /\ pos.held < MaxBars
  /\ pos' = [pos EXCEPT !.held = pos.held + 1, !.bar = bar]
  /\ UNCHANGED <<facts, claim>>

\* The entry fee of a part of the position; a fee paid in BNB counts at the taker rate.
AllocatedEntryFee(quantity) == pos.entry * quantity * Fees.taker

\* TP1 fills at its limit price and the maintenance that sees it moves the stop to the floor.
Tp1Fills ==
  /\ pos.phase = "protected"
  /\ LET runner == terms.quantity - terms.tp1
         floor == calculate_cost_adjusted_break_even(Side, pos.entry, runner,
                    AllocatedEntryFee(runner), facts.profile.buffer)
     IN /\ floor > 0
        /\ pos' = [pos EXCEPT !.phase = "runner", !.floor = floor, !.stop = floor,
                     !.last = pos.held, !.fills = <<Fill(terms.tp1, terms.target, Fees.maker)>>]
  /\ UNCHANGED <<facts, claim>>

\* holding_bars: the closed candles of the response that ended after the entry.
HoldingBars == Min({pos.held, CandleLimit(facts.profile, pos.phase = "protected") - 1})

NeedsMarket ==
  \/ pos.phase = "runner"
  \/ facts.profile.guards # {} \/ facts.profile.mode # "none"

Decision ==
  IF pos.phase = "runner"
  THEN evaluate_profile_runner_exit(facts.profile, Side, pos.stop, pos.floor,
                                    pos.held > pos.last, pos.bar, HoldingBars)
  ELSE evaluate_profile_pre_tp1_exit(facts.profile, Side, pos.bar, HoldingBars,
                                     pos.held >= facts.session_end, facts.reclaim)

\* maintain_ticket_lifecycle on the candles of the last read.
Maintain ==
  /\ Open /\ pos.bar # NoBar /\ NeedsMarket
  /\ pos' = CASE Decision.kind = "exit" -> [pos EXCEPT !.phase = "exiting"]
              [] Decision.kind = "move_stop" ->
                   [pos EXCEPT !.stop = Decision.stop, !.last = pos.held]
              [] Decision.kind = "no_change" -> pos
  /\ UNCHANGED <<facts, claim>>

\* The stop fills at the venue, slip ticks worse than its price.
StopFills(slip) ==
  /\ Open \/ (pos.phase = "exiting" /\ pos.stop # 0)
  /\ LET ticks == slip * Rules.tick
         price == IF Side = "long" THEN pos.stop - ticks ELSE pos.stop + ticks
     IN pos' = [pos EXCEPT !.phase = "closed", !.slip = slip,
                  !.fills = Append(pos.fills, Fill(Remaining, price, Fees.taker))]
  /\ UNCHANGED <<facts, claim>>

\* The requested market exit fills; its stop is cleaned up with it.
ExitFills(price) ==
  /\ pos.phase = "exiting"
  /\ pos' = [pos EXCEPT !.phase = "closed", !.stop = 0,
               !.fills = Append(pos.fills, Fill(Remaining, price, Fees.taker))]
  /\ UNCHANGED <<facts, claim>>

Next ==
  \/ BuildClaim
  \/ \E price \in FillPrices : EntryFills(price) \/ ExitFills(price)
  \/ \E bar \in Bars : BarCloses(bar)
  \/ Tp1Fills
  \/ Maintain
  \/ \E slip \in 0..MaxSlip : StopFills(slip)

Spec == Init /\ [][Next]_vars

-----------------------------------------------------------------------------
\* A quantity every limit of the policy, the account and the venue allows.
Admissible(q, a, p) ==
  LET risk == q * Distance(p.entry, p.stop)
      margin == q * p.entry * Base
  IN /\ a.usage.tickets < Policy.tickets
     /\ risk * Base <= a.wallet * Policy.ticket_risk
     /\ (a.usage.gross + risk) * Base <= a.wallet * Policy.gross_risk
     /\ (a.usage.directional + risk) * Base <= a.wallet * Policy.directional
     /\ margin <= a.balance * Policy.ticket_margin * Leverage
     /\ margin <= a.available * Base * Leverage
     /\ Max({a.initial, a.usage.reserved}) * Base * Leverage + margin
          <= a.balance * Policy.gross_margin * Leverage
     /\ MeetsVenueMinimum(q, p) /\ ExitPlanExecutable(q, p)
     /\ risk * Base * Base >= MinimumRiskBudget(a)

\* Sizing takes the largest quantity that satisfies every limit at once and refuses only when none
\* does, although it computes one risk bound and one margin bound and never searches
\* (select_capacity_candidate, _evaluate_candidate).
SizingIsLargestAdmissible ==
  claim.status # "undecided" =>
    LET a == facts.account
        p == Plan(facts)
        sizing == select_capacity_candidate(a, p)
        fits == {q \in 1..(a.wallet \div Distance(p.entry, p.stop)) :
                   q % Rules.step = 0 /\ Admissible(q, a, p)}
    IN p.entry # p.stop => sizing.quantity = (IF fits = {} THEN 0 ELSE Max(fits))

\* A claim that passed the stress stays solvent, and inside its certified brackets, at every price
\* between the mark and the stressed price, not only at the prices evaluated
\* (evaluate_cross_margin_stress, _evaluation_points).
StressCoversEveryPrice ==
  claim.status = "claimed" /\ pos.phase = "none" =>
    LET a == facts.account
        p == Plan(facts)
        positions == Projected(a, Side, terms.quantity, p.entry)
        ends == {a.mark * Scale(positions), StressPrice(p, Side) * Scale(positions)}
    IN \A price \in Min(ends)..Max(ends) :
         /\ Covered(price, positions, facts.brackets)
         /\ MarginSurplus(price, BaseBalance(a), BaseMaintenance(a), positions, facts.brackets) > 0

\* A runner stopped out within its slippage buffer leaves the Ticket at least what TP1 earned: the
\* floor, and every stop trailed after it, recovers the runner's fees on both sides.  A short may
\* lose the fee on the last tick of its buffer, so there the buffer is not exhausted
\* (calculate_cost_adjusted_break_even, evaluate_profile_runner_exit, calculate_review_economics).
RunnerKeepsCosts ==
  LET buffer == facts.profile.buffer
      covered == pos.slip < buffer \/ (Side = "long" /\ pos.slip = buffer)
      net(fills) == NetOf(Side, pos.entry, EntryRate, fills)
  IN pos.phase = "closed" /\ Len(pos.fills) = 2 /\ pos.stop # 0 /\ covered =>
       net(pos.fills) >= net(<<pos.fills[1]>>)

=============================================================================
