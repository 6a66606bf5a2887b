--------------------------- MODULE SelectionRules ---------------------------
(***************************************************************************)
(* The frozen Selection arithmetic of the trading kernel: the periods of   *)
(* the daily (SOR, hourly ORB) and the Generic families, the validation of *)
(* a source panel, the features and ranks of its candidates, and the       *)
(* Snapshot that a Selection attempt commits.                              *)
(*                                                                         *)
(* Candidates are numbered in the canonical order of their instrument ids. *)
(* Decimal ratios are kept as <<numerator, denominator>> and compared by   *)
(* cross-multiplication.  The sizes that the code freezes (24 candidates,  *)
(* 96 bars, 4 range bars, 14 ATR bars, ranks 7+7 and 12/16, 6 boundaries   *)
(* of 8 bars) are CONSTANTS.  The BRF2 score (logarithms, square root) is  *)
(* left out; its period, window and rank rules are those of CPM.           *)
(***************************************************************************)
EXTENDS Integers, FiniteSets, Sequences, FiniteSetsExt, SequencesExt

CONSTANTS
    NumCandidates,      \* 24
    Hour,               \* ticks of an hour
    Quarter,            \* ticks of a 15-minute bar
    DayHours,           \* 24
    RangeBars,          \* opening_range_bars, 4
    AtrBars,            \* pre_or_atr_bars, 14
    DailyBars,          \* input_window_bars, 96
    ActivityFloor,      \* activity_floor_quote_usdt
    SelectedMax,        \* selected_count_max, 7
    NearMax,            \* near_count_max, 7
    Boundaries,         \* hourly boundaries of the MPG score, 6
    ReturnBars          \* bars of one MPG return, 8

Candidates == 1 .. NumCandidates
Day        == DayHours * Hour
DailyFamilies   == {"sor", "orb"}
GenericFamilies == {"cpm", "mpg", "mi"}

(* Frozen parameters of a Generic family.  MPG admits fewer ranks than it  *)
(* retains; the other families admit and retain the same ranks.            *)
CONSTANTS EntryRank, RetainRank, CadenceHours, WindowBars

ASSUME RulesAssumption ==
    /\ {NumCandidates, Hour, Quarter, DayHours, RangeBars, AtrBars, SelectedMax} \subseteq Nat \ {0}
    /\ {NearMax, ActivityFloor, Boundaries, ReturnBars} \subseteq Nat
    /\ DailyBars > RangeBars + AtrBars
    /\ \A f \in GenericFamilies :
         /\ EntryRank[f] <= RetainRank[f]
         /\ CadenceHours[f] >= 1
    /\ WindowBars["mpg"] >= Boundaries + ReturnBars

-----------------------------------------------------------------------------
(* Periods.  A daily session starts at 00:00 and is decided at 01:00; the  *)
(* Generic cutoff is the start of its period.                              *)
PeriodLength(f) == IF f \in DailyFamilies THEN Day ELSE CadenceHours[f] * Hour

SorPeriod(d) ==
    [cutoff |-> d + Hour, effective |-> d + Hour + Quarter, expires |-> d + Day + Hour]

OrbPeriod(d) ==
    [cutoff |-> d + Hour, effective |-> d + 2 * Hour, expires |-> d + Day]

GenericPeriod(f, t) ==
    [cutoff |-> t, effective |-> t + Hour, expires |-> t + Hour + PeriodLength(f)]

Period(f, anchor) ==
    IF f = "sor" THEN SorPeriod(anchor)
    ELSE IF f = "orb" THEN OrbPeriod(anchor)
    ELSE GenericPeriod(f, anchor)

-----------------------------------------------------------------------------
(* Source panels.  A bar is [open, high, low, close, volume]; a daily      *)
(* window is the exact number of contiguous closed bars at the cutoff.     *)
ValidBar(b) ==
    /\ \A x \in {b.open, b.high, b.low, b.close} : x > 0
    /\ b.volume >= 0
    /\ b.high >= Max({b.open, b.close, b.low})
    /\ b.low <= Min({b.open, b.close, b.high})

ValidDailyWindow(bars) ==
    Len(bars) = DailyBars /\ \A i \in DOMAIN bars : ValidBar(bars[i])

(* A Generic window has its bars and the product facts the venue reports.  *)
QualificationReason(w) ==
    IF ~w.profile THEN "PRODUCT_PROFILE_INCOMPATIBLE"
    ELSE IF ~w.product THEN "VENUE_PRODUCT_INCOMPATIBLE"
    ELSE IF w.status # "TRADING" THEN "VENUE_NOT_TRADING"
    ELSE "none"

ValidGenericWindow(f, w) ==
    /\ Len(w.closes) = WindowBars[f]
    /\ \A i \in DOMAIN w.closes : w.closes[i] > 0

(* The whole panel or nothing: one bad window fails the attempt.           *)
ValidPanel(f, panel) ==
    /\ DOMAIN panel = Candidates
    /\ \A c \in Candidates :
         IF f \in DailyFamilies THEN ValidDailyWindow(panel[c])
         ELSE ValidGenericWindow(f, panel[c])

-----------------------------------------------------------------------------
(* Features.                                                               *)
SumOver(S, Op(_)) == FoldSet(LAMBDA x, acc : Op(x) + acc, 0, S)
Abs(x) == IF x < 0 THEN -x ELSE x
Less(p, q) == p[1] * q[2] < q[1] * p[2]          \* denominators are positive
Same(p, q) == p[1] * q[2] = q[1] * p[2]

OpeningRange(bars) ==
    LET n     == Len(bars)
        range == (n - RangeBars + 1) .. n
        prior == (n - RangeBars - AtrBars + 1) .. (n - RangeBars)
        TrueRange(i) == Max({bars[i].high - bars[i].low,
                             Abs(bars[i].high - bars[i - 1].close),
                             Abs(bars[i].low - bars[i - 1].close)})
        high  == Max({bars[i].high : i \in range})
        low   == Min({bars[i].low : i \in range})
        total == SumOver(prior, TrueRange)
    IN  [width  |-> high - low,
         atr    |-> <<total, AtrBars>>,
         ratio  |-> IF total <= 0 THEN <<0, 1>> ELSE <<(high - low) * AtrBars, total>>,
         volume |-> SumOver(DOMAIN bars, LAMBDA i : bars[i].volume)]

PrimaryReason(feature) ==
    IF feature.width <= 0 THEN "INVALID_OR_GEOMETRY"
    ELSE IF feature.atr[1] <= 0 THEN "INVALID_ATR"
    ELSE IF feature.volume < ActivityFloor THEN "LOW_ACTIVITY"
    ELSE "none"

(* CPM: net move over path; undefined when the path is empty.              *)
DirectionalEfficiency(closes) ==
    LET Step(i) == Abs(closes[i] - closes[i - 1])
        path    == SumOver(2 .. Len(closes), Step)
    IN  <<Abs(closes[Len(closes)] - closes[1]), path>>

(* MI: the time centre of the positive returns, 0 without one.  The code   *)
(* divides by close i; a common denominator keeps the arithmetic exact.    *)
ImpulseRecency(closes) ==
    LET n    == Len(closes) - 1
        all  == FoldLeft(LAMBDA a, b : a * b, 1, closes)
        Pos(i)      == Max({closes[i + 1] - closes[i], 0}) * (all \div closes[i])
        Weighted(i) == (i - 1) * Pos(i)
        total == SumOver(1 .. n, Pos)
    IN  IF total = 0 THEN <<0, 1>>
        ELSE <<SumOver(1 .. n, Weighted), (n - 1) * total>>

(* The order of a feature surface: best first, ties by instrument id.      *)
RankIn(better) == 1 + Cardinality(better)

FeatureBefore(value, c, d) ==
    \/ Less(value[d], value[c])
    \/ Same(value[c], value[d]) /\ c < d

(* MPG: the mean of (25 - rank)/24 over the last boundaries, each ranked   *)
(* by its own return.                                                      *)
BoundaryReturn(closes, offset) ==
    LET last == Len(closes) - offset
    IN  <<closes[last] - closes[last - ReturnBars], closes[last - ReturnBars]>>

LeadershipScore(panel, c) ==
    LET RankAt(offset) ==
          LET return == [d \in Candidates |-> BoundaryReturn(panel[d].closes, offset)]
          IN  RankIn({d \in Candidates : FeatureBefore(return, d, c)})
        Points(offset) == NumCandidates + 1 - RankAt(offset)
    IN  <<SumOver(0 .. (Boundaries - 1), Points), NumCandidates * Boundaries>>

GenericFeatures(f, panel) ==
    [c \in Candidates |->
        IF f = "cpm" THEN DirectionalEfficiency(panel[c].closes)
        ELSE IF f = "mpg" THEN LeadershipScore(panel, c)
        ELSE ImpulseRecency(panel[c].closes)]

(* A zero path or a zero variance leaves the whole attempt undefined.      *)
ComputeDefined(f, panel) ==
    f = "cpm" => \A c \in Candidates : DirectionalEfficiency(panel[c].closes)[2] > 0

-----------------------------------------------------------------------------
(* Member decisions.                                                       *)
RangeBefore(feature, c, d) ==
    \/ Less(feature[c].ratio, feature[d].ratio)
    \/ /\ Same(feature[c].ratio, feature[d].ratio)
       /\ \/ feature[c].volume > feature[d].volume
          \/ feature[c].volume = feature[d].volume /\ c < d

DailyDecisions(panel) ==
    LET feature == [c \in Candidates |-> OpeningRange(panel[c])]
        reason  == [c \in Candidates |-> PrimaryReason(feature[c])]
        ready   == {c \in Candidates : reason[c] = "none"}
        Rank(c) == IF c \in ready
                   THEN RankIn({d \in ready : RangeBefore(feature, d, c)}) ELSE 0
        State(r) ==
            IF r = 0 THEN "INELIGIBLE"
            ELSE IF r <= SelectedMax THEN "SELECTED"
            ELSE IF r <= SelectedMax + NearMax THEN "NEAR_THRESHOLD"
            ELSE "NOT_SELECTED"
        Member(c, r) == [reason |-> reason[c], rank |-> r, state |-> State(r),
                         selected |-> State(r) = "SELECTED", retained |-> FALSE]
    IN  [c \in Candidates |-> Member(c, Rank(c))]

GenericDecisions(f, panel, previous) ==
    LET value   == GenericFeatures(f, panel)
        Rank(c) == RankIn({d \in Candidates : FeatureBefore(value, d, c)})
        Qualified(c) == QualificationReason(panel[c]) = "none"
        Keeps(c, r)  == Qualified(c) /\ c \in previous /\ r <= RetainRank[f]
        Picks(c, r)  == Qualified(c) /\ (r <= EntryRank[f] \/ Keeps(c, r))
        Member(c, r) ==
            [reason |-> QualificationReason(panel[c]), rank |-> r,
             state |-> IF Picks(c, r) THEN "SELECTED"
                       ELSE IF Qualified(c) THEN "NOT_SELECTED" ELSE "INELIGIBLE",
             selected |-> Picks(c, r), retained |-> Keeps(c, r)]
    IN  [c \in Candidates |-> Member(c, Rank(c))]

Decisions(f, panel, previous) ==
    IF f \in DailyFamilies THEN DailyDecisions(panel)
    ELSE GenericDecisions(f, panel, previous)

SelectedMembers(decisions) == {c \in Candidates : decisions[c].selected}
ReadyMembers(decisions)    == {c \in Candidates : decisions[c].reason = "none"}

(* The contract that a daily member decision is validated against.         *)
ValidDailyMember(m) ==
    IF m.reason # "none"
    THEN m.rank = 0 /\ m.state = "INELIGIBLE" /\ ~m.selected
    ELSE /\ m.rank \in Candidates
         /\ m.selected = (m.state = "SELECTED")
         /\ \/ m.state = "SELECTED" /\ m.rank <= SelectedMax
            \/ m.state = "NEAR_THRESHOLD" /\ m.rank \in (SelectedMax + 1) .. (SelectedMax + NearMax)
            \/ m.state = "NOT_SELECTED" /\ m.rank > SelectedMax + NearMax

ValidDailyDecisions(decisions) ==
    /\ \A c \in Candidates : ValidDailyMember(decisions[c])
    /\ Cardinality(SelectedMembers(decisions))
         = Min({SelectedMax, Cardinality(ReadyMembers(decisions))})

ValidGenericMember(m) ==
    /\ m.rank \in Candidates
    /\ m.selected => m.reason = "none"
    /\ m.retained => m.selected

ValidGenericDecisions(f, decisions, previous) ==
    /\ \A c \in Candidates : ValidGenericMember(decisions[c])
    /\ {decisions[c].rank : c \in Candidates} = Candidates
    /\ \A c \in Candidates :
         LET m == decisions[c]
         IN  /\ m.selected = (m.reason = "none" /\ (m.rank <= EntryRank[f] \/ m.retained))
             /\ m.selected => m.rank <= RetainRank[f]
             /\ m.retained = (m.reason = "none" /\ m.rank <= RetainRank[f] /\ c \in previous)
=============================================================================
