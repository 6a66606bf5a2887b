------------------------- MODULE MCTicketEconomics -------------------------
EXTENDS TicketEconomics

MCBase == 100
MCLeverage == 5
MCPolicy == [ticket_risk |-> 5, gross_risk |-> 10, directional |-> 8, ticket_margin |-> 20,
             gross_margin |-> 50, materialization |-> 50, overrun |-> 20, tickets |-> 3,
             stress |-> 2]
MCRules == [step |-> 1, tick |-> 1, min_quantity |-> 1, min_notional |-> 40]
MCFees == [taker |-> 2, maker |-> 1, bnb |-> 1]

Bracket(floor, cap, rate, amount) ==
  [floor |-> floor, cap |-> cap, rate |-> rate, amount |-> amount]
\* A valid schedule, an open-ended one, and one whose margin falls where its brackets meet.
Capped == <<Bracket(0, 64, 1, 0), Bracket(64, 128, 2, 64), Bracket(128, 240, 4, 320)>>
Uncapped == <<Bracket(0, 64, 1, 0), Bracket(64, 128, 2, 64), Bracket(128, 0, 40, 4928)>>
Falling == <<Bracket(0, 220, 90, 0), Bracket(220, 0, 90, 19800)>>

Account(wallet, maintenance, available, gross, directional, tickets, own) ==
  [wallet |-> wallet, balance |-> wallet, available |-> available, initial |-> 10,
   maintenance |-> maintenance, mark |-> 40, quote |-> 40, own |-> own,
   usage |-> [gross |-> gross, directional |-> directional, reserved |-> 20, tickets |-> tickets]]

Hedge == {[side |-> "short", quantity |-> 2, entry |-> 42, upnl |-> 1, maintenance |-> 1]}

StopAt(profile, distance) == IF profile.side = "long" THEN 40 - distance ELSE 40 + distance

\* Sizing: accounts of every kind, with a hedge of the instrument or without, against a stop at the
\* quote, a near and a far one.
Sizing ==
  {[account |-> Account(wallet, maintenance, available, gross, directional, tickets, own),
    stop_reference |-> StopAt(profile, distance), profile |-> profile, brackets |-> brackets,
    bnb |-> FALSE, reclaim |-> 38, session_end |-> 3] :
     profile \in {p \in registered_exit_profiles : p.mode = "pre_tp1"}, wallet \in {40, 400, 600},
     maintenance \in {2, 200, 380}, available \in {0, 16, 200}, gross \in {0, 45},
     directional \in {0, 45}, tickets \in {1, 3}, distance \in {0, 4, 6},
     brackets \in {Capped, Uncapped, Falling}, own \in {{}, Hedge}}

Lifecycle ==
  {[account |-> Account(600, 2, 200, 0, 0, 0, {}), stop_reference |-> StopAt(profile, 6),
    profile |-> profile, brackets |-> Uncapped, bnb |-> bnb, reclaim |-> 38, session_end |-> 3] :
     bnb \in BOOLEAN, profile \in registered_exit_profiles}

MCFactSet == {f \in Sizing : f.account.own = {} \/ f.profile.side = "long"} \cup Lifecycle
MCHold == [impulse |-> 2, crypto |-> 5, us |-> 2]
MCBars == {[close |-> 41, extreme |-> 38, atr |-> 2], [close |-> 37, extreme |-> 36, atr |-> 3],
           [close |-> 50, extreme |-> 49, atr |-> 3], [close |-> 32, extreme |-> 31, atr |-> 3]}
=============================================================================
