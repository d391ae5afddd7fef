------------------------------- MODULE Payoff -------------------------------
(***************************************************************************)
(* The arithmetic of the coordination game: what a finished game returns   *)
(* to its two players and to the pool, how the pool's gain is split        *)
(* between the DAO treasury and the tournament, and a profile's score.     *)
(*                                                                         *)
(* Everything here is a pure function of u64 values.  The programs compute *)
(* with checked arithmetic and fail on overflow; the values met here (a    *)
(* fixed stake of 5 * 10^7 lamports, counts of games) stay far below 2^64, *)
(* so the naturals are exact.                                              *)
(***************************************************************************)
EXTENDS Integers

(* Player one and player two, and the two values of a guess and of the     *)
(* revealed matchup: 0 "same team", 1 "different teams".                   *)
Seats == {1, 2}
Other(i) == 3 - i
SameTeam == 0
DiffTeam == 1
Bits == {SameTeam, DiffTeam}

(* The guess that is right for a matchup has the same bit, so the players  *)
(* who guessed right are those whose guess equals the matchup.             *)
Correct(matchup, guess) == {i \in Seats : guess[i] = matchup}

-----------------------------------------------------------------------------
(* Same team: two right guesses are refunded, one right guess saves half   *)
(* the stake (rounded down), and the pool takes the rest.                  *)
WrongGuessTakesRest(correct, stake, i) ==
  CASE correct = Seats      -> stake
    [] correct = {i}        -> stake \div 2
    [] correct = {Other(i)} -> 2 * stake - stake \div 2
    [] OTHER                -> 0

HomogenousReturn(correct, stake, i) ==
  CASE correct = Seats -> stake
    [] correct = {i}   -> stake \div 2
    [] OTHER           -> 0

LosesOddLamport(correct, stake) ==
  CASE correct = Seats -> 0
    [] correct = {}    -> 2 * stake
    [] OTHER           -> (3 * stake) \div 2

HomogenousGain(correct, stake) ==
  CASE correct = Seats -> 0
    [] correct = {}    -> 2 * stake
    [] OTHER           -> 2 * stake - stake \div 2

(* Different teams: the only right guess takes the pot, two right guesses  *)
(* are decided by the commit order, two wrong ones forfeit to the pool.    *)
LastCommitterPotWinner(correct, first) ==
  IF correct = Seats THEN Other(first) ELSE CHOOSE i \in Seats : i \in correct

PotWinner(correct, first) ==
  IF correct = Seats THEN first ELSE CHOOSE i \in Seats : i \in correct

HeterogeneousReturn(correct, stake, first, i) ==
  IF correct # {} /\ i = PotWinner(correct, first) THEN 2 * stake ELSE 0

HeterogeneousGain(correct, stake) ==
  IF correct = {} THEN 2 * stake ELSE 0

(* The resolution of a game: what each seat gets back, what the pool gains. *)
Resolution(matchup, guess, stake, first) ==
  LET correct == Correct(matchup, guess) IN
  IF matchup = SameTeam
  THEN [ret  |-> [i \in Seats |-> HomogenousReturn(correct, stake, i)],
        gain |-> HomogenousGain(correct, stake)]
  ELSE [ret  |-> [i \in Seats |-> HeterogeneousReturn(correct, stake, first, i)],
        gain |-> HeterogeneousGain(correct, stake)]

(* The seats credited with a win in their profile: the right guesses, but  *)
(* of two right guesses across teams only the one that took the pot.       *)
EveryRightGuessWins(matchup, guess, ret) == Correct(matchup, guess)

Winners(matchup, guess, ret) ==
  LET correct == Correct(matchup, guess) IN
  IF matchup = DiffTeam /\ correct = Seats
  THEN {i \in Seats : ret[i] > ret[Other(i)]}
  ELSE correct

-----------------------------------------------------------------------------
(* The treasury's share of a gain, in basis points, is rounded down; the   *)
(* tournament keeps the remainder.                                         *)
BasisPoints == 10000
SplitRange == 2000 .. 8000

RoundedUpTreasuryShare(total, bps) == (total * bps) \div BasisPoints + 1

TreasuryShare(total, bps) == (total * bps) \div BasisPoints

TournamentShare(total, bps) == total - TreasuryShare(total, bps)

(* A profile's score: wins squared over games, rounded down.               *)
ComputeScore(wins, games) == (wins * wins) \div games
=============================================================================
