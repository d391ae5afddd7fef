------------------------------ MODULE MCPayoff ------------------------------
(***************************************************************************)
(* The payoff arithmetic over every outcome of a game, for all small       *)
(* stakes and a sample of splits.  A state is one outcome; the only        *)
(* step flips a single guess, so TLC also walks between the outcomes a     *)
(* player chooses from.                                                    *)
(***************************************************************************)
EXTENDS Payoff

CONSTANTS MaxStake,  \* bound: stakes 1 .. MaxStake
          SampleBps  \* the splits tried

ASSUME SampleAssumption == MaxStake \in Nat /\ SampleBps \subseteq SplitRange

VARIABLES matchup, guess, first, stake, bps
vars == <<matchup, guess, first, stake, bps>>

Init ==
  /\ matchup \in Bits /\ guess \in [Seats -> Bits] /\ first \in Seats
  /\ stake \in 1 .. MaxStake /\ bps \in SampleBps

FlipGuess ==
  /\ \E i \in Seats : guess' = [guess EXCEPT ![i] = 1 - @]
  /\ UNCHANGED <<matchup, first, stake, bps>>

Spec == Init /\ [][FlipGuess]_vars

Result == Resolution(matchup, guess, stake, first)
Right(i) == guess[i] = matchup

(* README.md's payoff matrix, one row per line: the multiples of half a    *)
(* stake returned to the two players and kept by the pool.                 *)
Matrix ==
  CASE matchup = SameTeam /\ Right(1) /\ Right(2)            -> <<2, 2, 0>>
    [] matchup = SameTeam /\ Right(1) /\ ~Right(2)           -> <<1, 0, 3>>
    [] matchup = SameTeam /\ ~Right(1) /\ Right(2)           -> <<0, 1, 3>>
    [] ~Right(1) /\ ~Right(2)                                -> <<0, 0, 4>>
    [] matchup = DiffTeam /\ Right(1) /\ ~Right(2)           -> <<4, 0, 0>>
    [] matchup = DiffTeam /\ ~Right(1) /\ Right(2)           -> <<0, 4, 0>>
    [] matchup = DiffTeam /\ Right(1) /\ Right(2) /\ first = 1 -> <<4, 0, 0>>
    [] matchup = DiffTeam /\ Right(1) /\ Right(2) /\ first = 2 -> <<0, 4, 0>>

(* The payoffs are README's matrix, to the lamport when the stake is even; *)
(* an odd half lamport goes to the pool.                                   *)
MatchesMatrix ==
  /\ \A i \in Seats : Result.ret[i] = (Matrix[i] * stake) \div 2
  /\ Result.gain = (Matrix[3] * stake + (stake % 2) * (Matrix[3] % 2)) \div 2

(* No outcome creates or destroys a lamport, rounding included.            *)
PotDividedExactly == Result.ret[1] + Result.ret[2] + Result.gain = 2 * stake

(* The treasury gets its share rounded down, the tournament the rest, and  *)
(* the tournament is never left with less than a fifth (bps <= 8000).      *)
SplitFair ==
  LET t == TreasuryShare(Result.gain, bps)
      p == TournamentShare(Result.gain, bps)
  IN /\ t + p = Result.gain /\ p * BasisPoints >= Result.gain * 2000
     /\ t * BasisPoints <= Result.gain * bps /\ (t + 1) * BasisPoints > Result.gain * bps

(* A wrong guess is never better than a right one, whatever the opponent   *)
(* guesses and whoever committed first: the game rewards reading the       *)
(* opponent, never misreporting.                                           *)
RightGuessDominates ==
  [][\A i \in Seats : guess'[i] # guess[i] /\ Right(i) =>
       Result'.ret[i] <= Result.ret[i]]_vars

=============================================================================
