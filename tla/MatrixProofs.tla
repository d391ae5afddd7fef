---------------------------- MODULE MatrixProofs ----------------------------
(***************************************************************************)
(* The payoffs are README's matrix for every stake, and reward the right   *)
(* guess: what MCPayoff checks for small stakes and a sample of splits.    *)
(***************************************************************************)
EXTENDS MCPayoff, PayoffProofs

(* The outcomes walked through are outcomes of a game.                     *)
Outcome ==
  /\ matchup \in Bits /\ guess \in [Seats -> Bits] /\ first \in Seats
  /\ stake \in 1 .. MaxStake /\ bps \in SampleBps

LEMMA OutcomeStart == Init => Outcome
BY DEF Init, Outcome

LEMMA OutcomeStep == Outcome /\ [FlipGuess]_vars => Outcome'
<1> SUFFICES ASSUME Outcome, [FlipGuess]_vars PROVE Outcome'
  OBVIOUS
<1>1. CASE UNCHANGED vars
  BY <1>1 DEF vars, Outcome
<1>2. CASE FlipGuess
  <2>1. PICK i \in Seats : guess' = [guess EXCEPT ![i] = 1 - guess[i]]
    BY <1>2 DEF FlipGuess
  <2>2. 1 - guess[i] \in Bits
    BY DEF Outcome, Bits, SameTeam, DiffTeam
  <2>3. guess' \in [Seats -> Bits]
    BY <2>1, <2>2 DEF Outcome
  <2>4. QED
    BY <1>2, <2>3 DEF FlipGuess, Outcome
<1>3. QED
  BY <1>1, <1>2

LEMMA Outcomes == Spec => []Outcome
BY OutcomeStart, OutcomeStep, PTL DEF Spec

LEMMA OutcomeTypes ==
  ASSUME Outcome
  PROVE  /\ matchup \in Bits /\ guess \in [Seats -> Bits] /\ first \in Seats
         /\ stake \in Nat \ {0} /\ bps \in SplitRange
BY SampleAssumption DEF Outcome

-----------------------------------------------------------------------------
(* The matrix, cell by cell.                                               *)

(* The set of right guesses, read off the matrix's conditions.             *)
LEMMA RightSet ==
  /\ Right(1) /\ Right(2) => Correct(matchup, guess) = Seats
  /\ Right(1) /\ ~Right(2) => Correct(matchup, guess) = {1}
  /\ ~Right(1) /\ Right(2) => Correct(matchup, guess) = {2}
  /\ ~Right(1) /\ ~Right(2) => Correct(matchup, guess) = {}
BY DEF Right, Correct, Seats

LEMMA SameTeamCells ==
  ASSUME Outcome, matchup = SameTeam
  PROVE  MatchesMatrix
<1> DEFINE correct == Correct(matchup, guess)
<1>1. stake \in Nat /\ Seats = {1, 2} /\ SameTeam # DiffTeam
  BY OutcomeTypes DEF Seats, SameTeam, DiffTeam
<1>2. /\ Result.ret[1] = HomogenousReturn(correct, stake, 1)
      /\ Result.ret[2] = HomogenousReturn(correct, stake, 2)
      /\ Result.gain = HomogenousGain(correct, stake)
  BY DEF Result, Resolution, Seats
<1>3. correct \in {{}, {1}, {2}, {1, 2}} /\ {1} # {1, 2} /\ {2} # {1, 2} /\ {1} # {2}
  BY CorrectCases DEF Seats
<1> HIDE DEF correct
<1>4. CASE Right(1) /\ Right(2)
  <2>1. correct = Seats /\ Matrix = <<2, 2, 0>>
    BY <1>1, <1>4, RightSet DEF Matrix, correct
  <2>2. Result.ret[1] = stake /\ Result.ret[2] = stake /\ Result.gain = 0
    BY <1>1, <1>2, <1>3, <2>1 DEF HomogenousReturn, HomogenousGain
  <2>3. QED
    BY <1>1, <2>1, <2>2 DEF MatchesMatrix
<1>5. CASE Right(1) /\ ~Right(2)
  <2>1. correct = {1} /\ Matrix = <<1, 0, 3>>
    BY <1>1, <1>5, RightSet DEF Matrix, correct
  <2>2. /\ Result.ret[1] = stake \div 2 /\ Result.ret[2] = 0
        /\ Result.gain = 2 * stake - stake \div 2
    BY <1>1, <1>2, <1>3, <2>1 DEF HomogenousReturn, HomogenousGain
  <2>3. QED
    BY <1>1, <2>1, <2>2 DEF MatchesMatrix
<1>6. CASE ~Right(1) /\ Right(2)
  <2>1. correct = {2} /\ Matrix = <<0, 1, 3>>
    BY <1>1, <1>6, RightSet DEF Matrix, correct
  <2>2. /\ Result.ret[1] = 0 /\ Result.ret[2] = stake \div 2
        /\ Result.gain = 2 * stake - stake \div 2
    BY <1>1, <1>2, <1>3, <2>1 DEF HomogenousReturn, HomogenousGain
  <2>3. QED
    BY <1>1, <2>1, <2>2 DEF MatchesMatrix
<1>7. CASE ~Right(1) /\ ~Right(2)
  <2>1. correct = {} /\ Matrix = <<0, 0, 4>>
    BY <1>1, <1>7, RightSet DEF Matrix, correct
  <2>2. Result.ret[1] = 0 /\ Result.ret[2] = 0 /\ Result.gain = 2 * stake
    BY <1>1, <1>2, <1>3, <2>1 DEF HomogenousReturn, HomogenousGain
  <2>3. QED
    BY <1>1, <2>1, <2>2 DEF MatchesMatrix
<1>8. QED
  BY <1>4, <1>5, <1>6, <1>7

LEMMA DiffTeamCells ==
  ASSUME Outcome, matchup = DiffTeam
  PROVE  MatchesMatrix
<1> DEFINE correct == Correct(matchup, guess)
           winner == PotWinner(correct, first)
<1>1. stake \in Nat /\ Seats = {1, 2} /\ SameTeam # DiffTeam /\ first \in {1, 2}
  BY OutcomeTypes DEF Seats, SameTeam, DiffTeam
<1>2. /\ Result.ret[1] = HeterogeneousReturn(correct, stake, first, 1)
      /\ Result.ret[2] = HeterogeneousReturn(correct, stake, first, 2)
      /\ Result.gain = HeterogeneousGain(correct, stake)
  BY <1>1 DEF Result, Resolution
<1>3. correct \in {{1}, {2}, Seats} => winner \in correct
  BY <1>1, PotWinnerSeated
<1>4. correct = Seats => winner = first
  BY DEF PotWinner
<1> HIDE DEF correct, winner
<1>5. ASSUME correct # {}, winner = 1 PROVE
        Result.ret[1] = 2 * stake /\ Result.ret[2] = 0 /\ Result.gain = 0
  BY <1>2, <1>5 DEF HeterogeneousReturn, HeterogeneousGain, winner
<1>6. ASSUME correct # {}, winner = 2 PROVE
        Result.ret[1] = 0 /\ Result.ret[2] = 2 * stake /\ Result.gain = 0
  BY <1>2, <1>6 DEF HeterogeneousReturn, HeterogeneousGain, winner
<1>7. ASSUME Matrix = <<4, 0, 0>>, correct # {}, winner = 1 PROVE MatchesMatrix
  BY <1>1, <1>5, <1>7 DEF MatchesMatrix
<1>8. ASSUME Matrix = <<0, 4, 0>>, correct # {}, winner = 2 PROVE MatchesMatrix
  BY <1>1, <1>6, <1>8 DEF MatchesMatrix
<1>9. CASE Right(1) /\ Right(2)
  <2>1. correct = Seats /\ winner = first
    BY <1>4, <1>9, RightSet DEF correct
  <2>2. CASE first = 1
    <3>1. Matrix = <<4, 0, 0>>
      BY <1>1, <1>9, <2>2 DEF Matrix
    <3>2. QED
      BY <1>1, <1>7, <2>1, <2>2, <3>1
  <2>3. CASE first = 2
    <3>1. Matrix = <<0, 4, 0>>
      BY <1>1, <1>9, <2>3 DEF Matrix
    <3>2. QED
      BY <1>1, <1>8, <2>1, <2>3, <3>1
  <2>4. QED
    BY <1>1, <2>2, <2>3
<1>10. CASE Right(1) /\ ~Right(2)
  <2>1. correct = {1} /\ Matrix = <<4, 0, 0>>
    BY <1>1, <1>10, RightSet DEF Matrix, correct
  <2>2. QED
    BY <1>3, <1>7, <2>1
<1>11. CASE ~Right(1) /\ Right(2)
  <2>1. correct = {2} /\ Matrix = <<0, 4, 0>>
    BY <1>1, <1>11, RightSet DEF Matrix, correct
  <2>2. QED
    BY <1>3, <1>8, <2>1
<1>12. CASE ~Right(1) /\ ~Right(2)
  <2>1. correct = {} /\ Matrix = <<0, 0, 4>>
    BY <1>1, <1>12, RightSet DEF Matrix, correct
  <2>2. Result.ret[1] = 0 /\ Result.ret[2] = 0 /\ Result.gain = 2 * stake
    BY <1>2, <2>1 DEF HeterogeneousReturn, HeterogeneousGain
  <2>3. QED
    BY <1>1, <2>1, <2>2 DEF MatchesMatrix
<1>13. QED
  BY <1>9, <1>10, <1>11, <1>12

(* The payoffs are README's matrix for every stake, to the lamport.        *)
THEOREM MatrixMatched == Spec => []MatchesMatrix
<1>1. Outcome => MatchesMatrix
  BY SameTeamCells, DiffTeamCells, OutcomeTypes DEF Bits
<1>2. QED
  BY <1>1, Outcomes, PTL

(* No outcome creates or destroys a lamport, whatever the stake.           *)
THEOREM PotDivided == Spec => []PotDividedExactly
<1>1. Outcome => PotDividedExactly
  BY OutcomeTypes, ResolutionConserves DEF PotDividedExactly, Result
<1>2. QED
  BY <1>1, Outcomes, PTL

LEMMA GainCounted == Outcome => Result.gain \in Nat
BY OutcomeTypes, ResolutionConserves DEF Result

(* For every split a configuration may hold the treasury's share is its    *)
(* basis points rounded down, and a fifth or more stays in the tournament. *)
THEOREM SplitIsFair == Spec => []SplitFair
<1>1. ASSUME Outcome PROVE SplitFair
  <2> DEFINE gain == Result.gain
             x == gain * bps
             t == TreasuryShare(gain, bps)
             p == TournamentShare(gain, bps)
  <2>1. gain \in Nat
    BY <1>1, GainCounted
  <2>2. bps \in Nat /\ bps <= 8000
    <3>1. bps \in SplitRange
      BY <1>1, OutcomeTypes
    <3>2. QED
      BY <3>1 DEF SplitRange
  <2> HIDE DEF gain
  <2>3. x \in Nat /\ x <= gain * 8000
    BY <2>1, <2>2
  <2>4. t = x \div 10000 /\ p = gain - t
    BY DEF TreasuryShare, TournamentShare, BasisPoints
  <2> HIDE DEF x, t, p
  <2>5. /\ t \in Nat /\ t + p = gain /\ p * 10000 >= gain * 2000
        /\ t * 10000 <= x /\ (t + 1) * 10000 > x
    BY <2>1, <2>3, <2>4
  <2>6. QED
    BY <2>5 DEF SplitFair, BasisPoints, gain, x, t, p
<1>2. Outcome => SplitFair
  BY <1>1
<1>3. QED
  BY <1>2, Outcomes, PTL

-----------------------------------------------------------------------------
(* A wrong guess earns nothing, so changing a right guess never pays.      *)
LEMMA WrongEarnsNothing ==
  ASSUME NEW m \in Bits, NEW guesses \in [Seats -> Bits], NEW s \in Nat \ {0},
         NEW f \in Seats, NEW i \in Seats, guesses[i] # m
  PROVE  Resolution(m, guesses, s, f).ret[i] = 0
<1> DEFINE correct == Correct(m, guesses)
<1>1. correct \in {{}, {1}, {2}, Seats} /\ i \notin correct
  BY CorrectCases DEF Correct
<1>2. correct # Seats /\ correct # {i}
  BY <1>1
<1> HIDE DEF correct
<1>3. CASE m = SameTeam
  <2>1. Resolution(m, guesses, s, f).ret[i] = HomogenousReturn(correct, s, i)
    BY <1>3 DEF Resolution, correct
  <2>2. QED
    BY <1>2, <2>1 DEF HomogenousReturn
<1>4. CASE m # SameTeam
  <2>1. Resolution(m, guesses, s, f).ret[i] = HeterogeneousReturn(correct, s, f, i)
    BY <1>4 DEF Resolution, correct
  <2>2. correct # {} => i # PotWinner(correct, f)
    BY <1>1, PotWinnerSeated
  <2>3. QED
    BY <2>1, <2>2 DEF HeterogeneousReturn
<1>5. QED
  BY <1>3, <1>4

(* A wrong guess is never better than a right one, whatever the stake.     *)
THEOREM RightGuessPays == Spec => RightGuessDominates
<1> DEFINE Better == \A i \in Seats : guess'[i] # guess[i] /\ Right(i) =>
                       Result'.ret[i] <= Result.ret[i]
<1>1. ASSUME Outcome, Outcome', [FlipGuess]_vars PROVE [Better]_vars
  <2> SUFFICES ASSUME FlipGuess, NEW i \in Seats, guess'[i] # guess[i], Right(i)
               PROVE  Result'.ret[i] <= Result.ret[i]
    BY <1>1
  <2>1. /\ matchup' = matchup /\ stake' = stake /\ first' = first
        /\ guess' \in [Seats -> Bits] /\ guess'[i] # matchup
    BY <1>1 DEF FlipGuess, Outcome, Right
  <2>2. Result' = Resolution(matchup, guess', stake, first)
    BY <2>1 DEF Result
  <2>3. Result'.ret[i] = 0
    BY <1>1, <2>1, <2>2, OutcomeTypes, WrongEarnsNothing
  <2>4. Result.ret \in [Seats -> Nat]
    BY <1>1, OutcomeTypes, ResolutionConserves DEF Result
  <2>5. QED
    BY <2>3, <2>4
<1>2. Outcome /\ Outcome' /\ [FlipGuess]_vars => [Better]_vars
  BY <1>1
<1>3. QED
  BY <1>2, Outcomes, PTL DEF Spec, RightGuessDominates

=============================================================================
