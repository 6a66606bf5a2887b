------------------------------ MODULE ExitRules ------------------------------
(***************************************************************************)
(* How a Ticket leaves the market (domain/exit_policy.py, domain/          *)
(* post_fill_risk.py, domain/review.py): the disposition of its fill, the  *)
(* cost-adjusted floor of the runner, the trailing stop, the time and      *)
(* session exits, and the economics its review computes.                   *)
(*                                                                         *)
(* In a profile the ATR buffer is a fraction, bars and mode are the time   *)
(* stop.  A bar is what the venue's closed candles say.                    *)
(***************************************************************************)
EXTENDS TicketSizing

CONSTANTS Hold,       \* [impulse, crypto, us]: the bars of the registered time stops
          Fees,       \* [taker, maker, bnb]: the venue's rates, fractions of the notional
          AtrPeriod   \* the candles an average true range takes

ExitProfiles ==
  [side : {"long", "short"}, reward : Positive, fraction : 1..(Base - 1), buffer : Nat,
   improvement : Positive, atr : Nat, lookback : Positive, bars : Nat,
   mode : {"none", "absolute", "pre_tp1"}, guards : SUBSET {"reclaim_reference", "session_expiry"}]
LifecycleMarketFacts == [close : Positive, extreme : Positive, atr : Positive]

\* _exit_profile
ExitProfile(profile_side, fraction, lookback, atr, mode, bars, guards) ==
  [side |-> profile_side, reward |-> 1, fraction |-> fraction, buffer |-> 2, improvement |-> 2,
   atr |-> atr, lookback |-> lookback, bars |-> bars, mode |-> mode, guards |-> guards]

Percent(n) == (n * Base) \div 100
OrbGuards == {"reclaim_reference", "session_expiry"}

\* The profiles the registered events are bound to: the fractions are the code's, the bars Hold's.
registered_exit_profiles ==
  {ExitProfile("long", Percent(50), 4, Percent(50), "none", 0, {}),
   ExitProfile("long", Percent(33), 5, Percent(75), "none", 0, {})}
    \cup {ExitProfile(s, Percent(50), 4, Percent(50), "pre_tp1", Hold.impulse, {}) :
             s \in {"long", "short"}}
    \cup {ExitProfile(s, Percent(50), 4, Percent(50), "absolute", bars, OrbGuards) :
             s \in {"long", "short"}, bars \in {Hold.crypto, Hold.us}}

ASSUME FeeAssumption ==
  /\ registered_exit_profiles \subseteq ExitProfiles
  /\ Fees.taker \in 0..(Base - 1) /\ Fees.maker \in 0..Fees.taker /\ Fees.bnb \in 0..Fees.taker
  /\ AtrPeriod \in Nat \ {0}

\* assess_post_fill_risk: c is the frozen claim.
assess_post_fill_risk(c, side, price) ==
  LET protective == IF side = "long" THEN c.stop < price ELSE c.stop > price
      risk == c.quantity * Distance(price, c.stop) * Base
  IN IF ~protective THEN "flatten_immediately"
     ELSE IF risk > c.limit THEN "flatten_after_protection"
     ELSE "normal"

\* Mutant: the fee of the entry is not recovered.
FloorWithoutEntryFee(side, entry, quantity, fee, buffer) ==
  LET tick == Rules.tick
      slippage == tick * buffer * quantity * Base
  IN IF side = "long"
     THEN CeilDiv(entry * quantity * Base + slippage, quantity * (Base - Fees.taker) * tick) * tick
     ELSE ((entry * quantity * Base - slippage) \div (quantity * (Base + Fees.taker) * tick)) * tick

\* calculate_cost_adjusted_break_even: fee, in units of 1/Base, is the entry fee of the runner.
calculate_cost_adjusted_break_even(side, entry, quantity, fee, buffer) ==
  LET tick == Rules.tick
      slippage == tick * buffer * quantity * Base
  IN IF side = "long"
     THEN CeilDiv(entry * quantity * Base + fee + slippage, quantity * (Base - Fees.taker) * tick)
            * tick
     ELSE ((entry * quantity * Base - fee - slippage) \div (quantity * (Base + Fees.taker) * tick))
            * tick

\* calculate_rolling_extreme_atr_stop
StructuralStop(side, bar, buffer) ==
  LET offset == bar.atr * buffer
  IN IF side = "long" THEN FloorStep((bar.extreme * Base - offset) \div Base, Rules.tick)
     ELSE CeilStep(CeilDiv(bar.extreme * Base + offset, Base), Rules.tick)

NoChange == [kind |-> "no_change"]
Exit == [kind |-> "exit"]

TimeStopHit(profile, modes, holding) == profile.mode \in modes /\ holding >= profile.bars

\* evaluate_profile_runner_exit: new says that the candle closed after the last watermark.  A
\* candidate that is not positive raises: nothing changes then either.
evaluate_profile_runner_exit(profile, side, stop, floor, new, bar, holding) ==
  LET structural == StructuralStop(side, bar, profile.atr)
      candidate == IF side = "long" THEN Max({structural, floor}) ELSE Min({structural, floor})
      improvement == IF side = "long" THEN candidate - stop ELSE stop - candidate
  IN IF ~new THEN NoChange
     ELSE IF TimeStopHit(profile, {"absolute"}, holding) THEN Exit
     ELSE IF structural <= 0 \/ improvement < Rules.tick * profile.improvement THEN NoChange
     ELSE [kind |-> "move_stop", stop |-> candidate]

\* evaluate_profile_pre_tp1_exit
evaluate_profile_pre_tp1_exit(profile, side, bar, holding, expired, reclaim) ==
  LET reclaimed == IF side = "long" THEN bar.close <= reclaim ELSE bar.close >= reclaim
  IN IF \/ "session_expiry" \in profile.guards /\ expired
        \/ "reclaim_reference" \in profile.guards /\ reclaimed
        \/ TimeStopHit(profile, {"absolute", "pre_tp1"}, holding)
     THEN Exit ELSE NoChange

\* The candles a maintenance asks the venue for: the last one is still open.
CandleLimit(profile, protected) ==
  Max({AtrPeriod + 2, profile.lookback + 1,
       IF profile.mode = "none" \/ (~protected /\ profile.mode = "pre_tp1") THEN 0
       ELSE profile.bars + 1})

\* calculate_review_economics before funding, in units of 1/Base: fills are [quantity, price, rate]
\* exits of an entry of the given price and rate.
NetOf(side, entry, rate, fills) ==
  LET pnl(x) == x.quantity * (IF side = "long" THEN x.price - entry ELSE entry - x.price) * Base
      fees(x) == x.quantity * x.price * x.rate + x.quantity * entry * rate
  IN MapThenSumSet(LAMBDA i : pnl(fills[i]) - fees(fills[i]), DOMAIN fills)
=============================================================================
