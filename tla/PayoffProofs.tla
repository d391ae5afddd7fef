---------------------------- MODULE PayoffProofs ----------------------------
(***************************************************************************)
(* What the payoff arithmetic returns, for every stake and split: the      *)
(* facts the proofs about CoordinationGame cite.                           *)
(***************************************************************************)
EXTENDS Payoff, TLAPS

(* A set of right guesses is one of four.                                  *)
LEMMA CorrectCases ==
  ASSUME NEW matchup, NEW guess
  PROVE  LET correct == Correct(matchup, guess) IN
         correct \in {{}, {1}, {2}, Seats}
BY DEF Correct, Seats

(* The pot winner sits in the game, and guessed right if anybody did.      *)
LEMMA PotWinnerSeated ==
  ASSUME NEW correct \in {{1}, {2}, Seats}, NEW first \in Seats
  PROVE  PotWinner(correct, first) \in correct
<1>1. CASE correct = Seats
  BY <1>1 DEF PotWinner
<1>2. CASE correct \in {{1}, {2}}
  <2>1. correct # Seats
    BY <1>2 DEF Seats
  <2>2. \E i \in Seats : i \in correct
    BY <1>2 DEF Seats
  <2>3. QED
    BY <2>1, <2>2 DEF PotWinner
<1>3. QED
  BY <1>1, <1>2

(* payoff.rs resolves every outcome into two returns and a gain that are   *)
(* natural numbers and add up to the pot: the checked subtractions do not  *)
(* fail and the conservation postconditions hold, odd stakes included.     *)
THEOREM ResolutionConserves ==
  ASSUME NEW matchup \in Bits, NEW guess \in [Seats -> Bits],
         NEW stake \in Nat \ {0}, NEW first \in Seats
  PROVE  LET res == Resolution(matchup, guess, stake, first) IN
         /\ res.ret \in [Seats -> Nat] /\ res.gain \in Nat
         /\ res.ret[1] + res.ret[2] + res.gain = 2 * stake
<1> DEFINE correct == Correct(matchup, guess)
           res == Resolution(matchup, guess, stake, first)
<1>1. correct \in {{}, {1}, {2}, Seats}
  BY CorrectCases
<1>2. 1 \in Seats /\ 2 \in Seats /\ Seats # {1} /\ Seats # {2} /\ Seats # {}
  BY DEF Seats
<1>3. stake \div 2 \in Nat /\ stake \div 2 <= stake
  OBVIOUS
<1>4. CASE matchup = SameTeam
  <2>1. /\ res.ret = [i \in Seats |-> HomogenousReturn(correct, stake, i)]
        /\ res.gain = HomogenousGain(correct, stake)
    BY <1>4 DEF Resolution
  <2>2. \A i \in Seats : HomogenousReturn(correct, stake, i) \in Nat
    BY <1>3 DEF HomogenousReturn
  <2>3. res.ret \in [Seats -> Nat]
    BY <2>1, <2>2
  <2>4. res.gain \in Nat /\ res.ret[1] + res.ret[2] + res.gain = 2 * stake
    <3>1. /\ res.ret[1] = HomogenousReturn(correct, stake, 1)
          /\ res.ret[2] = HomogenousReturn(correct, stake, 2)
      BY <1>2, <2>1
    <3>2. CASE correct = Seats
      BY <1>2, <2>1, <3>1, <3>2 DEF HomogenousReturn, HomogenousGain
    <3>3. CASE correct = {1}
      <4>1. res.ret[1] = stake \div 2 /\ res.ret[2] = 0
        BY <1>2, <3>1, <3>3 DEF HomogenousReturn
      <4>2. res.gain = 2 * stake - stake \div 2
        BY <1>2, <2>1, <3>3 DEF HomogenousGain
      <4>3. QED
        BY <1>3, <4>1, <4>2
    <3>4. CASE correct = {2}
      <4>1. res.ret[1] = 0 /\ res.ret[2] = stake \div 2
        BY <1>2, <3>1, <3>4 DEF HomogenousReturn
      <4>2. res.gain = 2 * stake - stake \div 2
        BY <1>2, <2>1, <3>4 DEF HomogenousGain
      <4>3. QED
        BY <1>3, <4>1, <4>2
    <3>5. CASE correct = {}
      BY <1>2, <2>1, <3>1, <3>5 DEF HomogenousReturn, HomogenousGain
    <3>6. QED
      BY <1>1, <3>2, <3>3, <3>4, <3>5
  <2>5. QED
    BY <2>3, <2>4
<1>5. CASE matchup # SameTeam
  <2>1. /\ res.ret = [i \in Seats |-> HeterogeneousReturn(correct, stake, first, i)]
        /\ res.gain = HeterogeneousGain(correct, stake)
    BY <1>5 DEF Resolution
  <2>2. CASE correct = {}
    BY <1>2, <2>1, <2>2 DEF HeterogeneousReturn, HeterogeneousGain, Seats
  <2>3. CASE correct # {}
    <3> DEFINE winner == PotWinner(correct, first)
    <3>1. winner \in Seats
      BY <1>1, <2>3, PotWinnerSeated DEF Seats
    <3>2. \A i \in Seats : res.ret[i] = IF i = winner THEN 2 * stake ELSE 0
      BY <2>1, <2>3 DEF HeterogeneousReturn
    <3>3. res.gain = 0
      BY <2>1, <2>3 DEF HeterogeneousGain
    <3>4. res.ret \in [Seats -> Nat]
      BY <2>1 DEF HeterogeneousReturn
    <3>5. res.ret[1] + res.ret[2] + res.gain = 2 * stake
      <4> HIDE DEF winner, res
      <4>1. QED
        BY <3>1, <3>2, <3>3 DEF Seats
    <3>6. QED
      BY <3>3, <3>4, <3>5
  <2>4. QED
    BY <2>2, <2>3
<1>6. QED
  BY <1>4, <1>5

(* The win flags of finalize_game and the returns of resolve_game, which   *)
(* are computed apart, agree in every cell of the matrix.  A stake of one  *)
(* would break it: half of it is nothing.                                  *)
LEMMA WinnersPaid ==
  ASSUME NEW matchup \in Bits, NEW guess \in [Seats -> Bits], NEW first \in Seats,
         NEW stake \in Nat, stake > 1
  PROVE  LET ret == Resolution(matchup, guess, stake, first).ret IN
         \A i \in Seats : i \in Winners(matchup, guess, ret) <=> ret[i] > 0
<1> DEFINE correct == Correct(matchup, guess)
           ret == Resolution(matchup, guess, stake, first).ret
<1> SUFFICES \A i \in Seats : i \in Winners(matchup, guess, ret) <=> ret[i] > 0
  OBVIOUS
<1>1. correct \in {{}, {1}, {2}, Seats}
  BY CorrectCases
<1>2. stake \div 2 > 0 /\ 2 * stake > 0
  OBVIOUS
<1> HIDE DEF correct
<1>3. CASE matchup = SameTeam
  <2>1. ret = [i \in Seats |-> HomogenousReturn(correct, stake, i)]
    BY <1>3 DEF Resolution, correct
  <2>2. \A i \in Seats : i \in correct <=> HomogenousReturn(correct, stake, i) > 0
    BY <1>1, <1>2 DEF HomogenousReturn, Seats
  <2> HIDE DEF ret
  <2>3. Winners(matchup, guess, ret) = correct
    BY <1>3 DEF Winners, correct, SameTeam, DiffTeam
  <2>4. QED
    BY <2>1, <2>2, <2>3
<1>4. CASE matchup = DiffTeam
  <2> DEFINE winner == PotWinner(correct, first)
  <2>1. ret = [i \in Seats |-> HeterogeneousReturn(correct, stake, first, i)]
    BY <1>4 DEF Resolution, correct, SameTeam, DiffTeam
  <2>2. correct # {} => winner \in correct
    BY <1>1, PotWinnerSeated
  <2> HIDE DEF winner, ret
  <2>3. \A i \in Seats : ret[i] = IF correct # {} /\ i = winner THEN 2 * stake ELSE 0
    BY <2>1 DEF HeterogeneousReturn, winner
  <2>4. 2 * stake \in Nat /\ \A i \in Seats : ret[i] > 0 <=> (correct # {} /\ i = winner)
    BY <1>2, <2>3
  <2>5. CASE correct = Seats
    <3>1. Winners(matchup, guess, ret) = {i \in Seats : ret[i] > ret[Other(i)]}
      BY <1>4, <2>5 DEF Winners, correct
    <3>2. Other(1) = 2 /\ Other(2) = 1 /\ winner \in {1, 2} /\ correct # {}
      BY <2>2, <2>5 DEF Other, Seats
    <3>3. \A i \in {1, 2} : ret[i] > ret[Other(i)] <=> i = winner
      BY <1>2, <2>3, <3>2 DEF Seats
    <3>4. QED
      BY <2>4, <3>1, <3>2, <3>3 DEF Seats
  <2>6. CASE correct # Seats
    <3>1. Winners(matchup, guess, ret) = correct
      BY <1>4, <2>6 DEF Winners, correct
    <3>2. \A i \in Seats : i \in correct <=> (correct # {} /\ i = winner)
      BY <1>1, <2>2, <2>6 DEF Seats
    <3>3. QED
      BY <2>4, <3>1, <3>2, Zenon
  <2>7. QED
    BY <2>5, <2>6
<1>5. QED
  BY <1>3, <1>4 DEF Bits

(* compute_treasury_split never takes more than the gain, so the           *)
(* tournament's share is a natural number and the shares add up.           *)
THEOREM SplitConserves ==
  ASSUME NEW total \in Nat, NEW bps \in SplitRange
  PROVE  /\ TreasuryShare(total, bps) \in Nat
         /\ TournamentShare(total, bps) \in Nat
         /\ TreasuryShare(total, bps) + TournamentShare(total, bps) = total
<1>1. bps \in Nat /\ bps <= BasisPoints
  BY DEF SplitRange, BasisPoints
<1>2. total * bps \in Nat /\ total * bps <= total * BasisPoints
  BY <1>1 DEF BasisPoints
<1>3. (total * bps) \div BasisPoints \in Nat /\ (total * bps) \div BasisPoints <= total
  <2> DEFINE x == total * bps
  <2>1. x \in Nat /\ x <= 10000 * total
    BY <1>2 DEF BasisPoints
  <2> HIDE DEF x
  <2>2. x \div 10000 \in Nat /\ x \div 10000 <= total
    BY <2>1
  <2>3. QED
    BY <2>2 DEF x, BasisPoints
<1>4. QED
  BY <1>3 DEF TreasuryShare, TournamentShare

(* A score is a natural number once a game has been counted.               *)
LEMMA ScoreIsNat ==
  ASSUME NEW wins \in Nat, NEW games \in Nat \ {0}
  PROVE  ComputeScore(wins, games) \in Nat
<1>1. wins * wins \in Nat
  OBVIOUS
<1> DEFINE x == wins * wins
<1> HIDE DEF x
<1>2. x \in Nat => x \div games \in Nat
  OBVIOUS
<1>3. QED
  BY <1>1, <1>2 DEF ComputeScore, x
=============================================================================
