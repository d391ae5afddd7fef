------------------------------ MODULE MCAgents ------------------------------
(* Small instances of the task marketplace with agent sessions for TLC.    *)
EXTENDS AgentSessions

CONSTANT web   \* the platform of every task

(* A price of one, work due at time 2, no margins and no overrides.        *)
ShortTerms ==
  {[escrow |-> 1, deadline |-> 2, margin |-> 0, buffer |-> 0, platform |-> web,
    delay |-> 0, window |-> 0, timeout |-> 0]}

(* The bounds of create_task, with a day as the unit.                      *)
MCOverrides == [delay |-> 1 .. 30, window |-> 1 .. 7, timeout |-> 1 .. 30]

Usual ==
  [feeBps |-> 2500, threshold |-> 400000, window |-> 1, timeout |-> 2, delay |-> 1,
   staleness |-> 1, maxClaims |-> 2, multiplier |-> 2, slashBps |-> 3333,
   paused |-> FALSE, pausedPlatforms |-> {}]

ClaimParams == {Usual, [Usual EXCEPT !.maxClaims = 1]}

(* Claims only, and both permissions.                                      *)
MCMasks == {{ClaimBit}, {ClaimBit, SubmitBit}}
=============================================================================
