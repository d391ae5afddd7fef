------------------------------- MODULE MCTask -------------------------------
(* Small instances of the task marketplace for TLC.                        *)
EXTENDS TaskProperties

CONSTANT web   \* the platform of every task

Task(escrow, deadline, margin, buffer, delay, window, timeout) ==
  [escrow |-> escrow, deadline |-> deadline, margin |-> margin, buffer |-> buffer,
   platform |-> web, delay |-> delay, window |-> window, timeout |-> timeout]

(* A task on the global timing, and one that overrides all three periods,  *)
(* so that it may expire before the oracle is due.                         *)
SomeTerms == {Task(4, 2, 0, 0, 0, 0, 0), Task(2, 3, 1, 1, 2, 2, 1)}

(* One more, which is refused: its dispute window is longer than a week.   *)
OfferedTerms == SomeTerms \cup {Task(4, 2, 0, 0, 0, 8, 0)}
ShortTerms == {Task(1, 1, 0, 0, 0, 0, 0)}

(* With a day as the unit: an hour to 30 days, an hour to 7 days, and one  *)
(* day to 30.                                                              *)
MCOverrides == [delay |-> 1 .. 30, window |-> 1 .. 7, timeout |-> 1 .. 30]

Usual ==
  [feeBps |-> 2500, threshold |-> 400000, window |-> 1, timeout |-> 2, delay |-> 1,
   staleness |-> 1, maxClaims |-> 2, multiplier |-> 2, slashBps |-> 3333,
   paused |-> FALSE, pausedPlatforms |-> {}]

(* The other extreme: no score pays, periods are longer, bonds larger, the *)
(* platform is paused, or everything is.                                   *)
Strict ==
  [Usual EXCEPT !.threshold = MaxScore, !.window = 2, !.timeout = 3, !.multiplier = 3,
                !.slashBps = 10000, !.maxClaims = 1, !.pausedPlatforms = {web}]

Frozen == [Strict EXCEPT !.paused = TRUE]

OneClaim == [Usual EXCEPT !.maxClaims = 1]

AllParams == {Usual, Strict, Frozen}
ClaimParams == {Usual, OneClaim}
=============================================================================
