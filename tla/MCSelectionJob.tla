--------------------------- MODULE MCSelectionJob ---------------------------
(***************************************************************************)
(* SelectionJob with three candidates, ranks scaled to 1 (entry) and 2     *)
(* (retained by MPG), and short windows.  An hour is two ticks, a lease    *)
(* and a retry backoff one.                                                *)
(***************************************************************************)
EXTENDS SelectionJob

CONSTANTS w1, w2

MCWorkers == {w1, w2}
MCEntryRank    == [cpm |-> 2, mpg |-> 1, mi |-> 2]
MCRetainRank   == [cpm |-> 2, mpg |-> 2, mi |-> 2]
MCCadenceHours == [cpm |-> 2, mpg |-> 1, mi |-> 1]
MCWindowBars   == [cpm |-> 3, mpg |-> 3, mi |-> 3]

Window(closes, status) ==
    [closes |-> closes, profile |-> TRUE, product |-> TRUE, status |-> status]
Bar(h, l, c, v) == [open |-> c, high |-> h, low |-> l, close |-> c, volume |-> v]

(* Panels in which 1 leads; 2 leads and 1 stays within the retained ranks; *)
(* 1 is not trading; 3 has an empty path.                                  *)
OneLeads == <<Window(<<2, 4, 6>>, "TRADING"), Window(<<4, 5, 6>>, "TRADING"),
              Window(<<4, 3, 4>>, "TRADING")>>
TwoLeads == <<Window(<<4, 5, 6>>, "TRADING"), Window(<<4, 6, 9>>, "TRADING"),
              Window(<<4, 3, 2>>, "TRADING")>>
OneStops == <<Window(<<4, 5, 6>>, "CLOSE"), Window(<<4, 6, 9>>, "TRADING"),
              Window(<<4, 4, 3>>, "TRADING")>>
NoPath   == <<Window(<<4, 5, 6>>, "TRADING"), Window(<<4, 6, 9>>, "TRADING"),
              Window(<<4, 4, 4>>, "TRADING")>>

(* Equal ratios told apart by volume beside a candidate without a range;   *)
(* and a candidate below the activity floor.                               *)
FlatThree == << <<Bar(4, 4, 4, 1), Bar(5, 3, 4, 1), Bar(6, 4, 5, 1), Bar(7, 5, 6, 1)>>,
                <<Bar(4, 4, 4, 2), Bar(5, 3, 4, 2), Bar(6, 4, 5, 2), Bar(7, 5, 6, 2)>>,
                <<Bar(4, 4, 4, 2), Bar(6, 2, 4, 2), Bar(5, 5, 5, 2), Bar(5, 5, 5, 2)>> >>
QuietTwo  == << <<Bar(4, 4, 4, 2), Bar(5, 3, 4, 2), Bar(6, 4, 5, 2), Bar(7, 5, 6, 2)>>,
                <<Bar(4, 4, 4, 0), Bar(5, 3, 4, 0), Bar(6, 4, 5, 1), Bar(7, 5, 6, 1)>>,
                <<Bar(4, 4, 4, 1), Bar(7, 3, 4, 1), Bar(6, 4, 5, 1), Bar(7, 5, 6, 1)>> >>

Both(f, history) == [family |-> f, workers |-> {w1, w2}, market |-> history,
                     pauses |-> 0, epochs |-> 1]
Solo(f, history) == [family |-> f, workers |-> {w1}, market |-> history,
                     pauses |-> 1, epochs |-> 1]
Long(f, history) == [family |-> f, workers |-> {w1}, market |-> history,
                     pauses |-> 0, epochs |-> 2]

(* Two workers over two periods of every kind of family; one worker and a  *)
(* pause over the three periods of a retained lineage; and the four that a *)
(* second epoch needs to meet unfinished work of the first.                *)
MCSetups ==
    << Both("mpg", <<OneLeads, TwoLeads>>),
       Both("orb", <<FlatThree, QuietTwo>>),
       Both("sor", <<QuietTwo, FlatThree>>),
       Solo("cpm", <<NoPath, OneLeads>>),
       Solo("mpg", <<TwoLeads, OneLeads, OneStops>>),
       Long("mi", <<OneStops, TwoLeads, OneLeads, TwoLeads>>) >>
=============================================================================
