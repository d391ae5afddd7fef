----------------------------- MODULE WagerProofs -----------------------------
(***************************************************************************)
(* The money of the coordination game, for every number of players,        *)
(* tournaments and games, every stake and every split: the game implements *)
(* the wager contract and loses no lamport, and the books of a tournament  *)
(* balance.                                                                *)
(***************************************************************************)
EXTENDS GameProofs

-----------------------------------------------------------------------------
(* Tournaments that do not exist yet own nothing and have no games.        *)

TournamentsReal ==
  /\ \A t \in Tournaments : ~tournaments[t].exists => tournaments[t].lamports = 0
  /\ \A g \in GameIds :
       games[g].state # "Absent" => tournaments[games[g].tournament].exists

(* No settlement changes which game is played where.                       *)
LEMMA SettleReal ==
  ASSUME TypeOK, TournamentsReal, NEW g \in GameIds, NEW game \in Games,
         games[g].state # "Absent", game.tournament = games[g].tournament,
         NEW ret, NEW gain, NEW winners, NEW counts,
         Settle(g, game, ret, gain, winners, counts)
  PROVE  TournamentsReal'
<1> DEFINE t == game.tournament
<1>1. /\ t \in Tournaments /\ tournaments[t].exists
      /\ tournaments \in [Tournaments -> TournamentRecords] /\ games \in [GameIds -> Games]
  BY DEF TypeOK, TournamentsReal, Games
<1>2. PICK share, paid :
        /\ tournaments' = [tournaments EXCEPT ![t] = Contribute(tournaments[t], share, counts)]
        /\ games' = [games EXCEPT ![g] = Settled(game, paid)]
  BY DEF Settle
<1>3. Contribute(tournaments[t], share, counts).exists
  BY <1>1 DEF Contribute, TournamentRecords
<1>4. Settled(game, paid).tournament = t
  BY DEF Settled, Games
<1>5. \A u \in Tournaments :
        /\ tournaments'[u].exists <=> tournaments[u].exists
        /\ u # t => tournaments'[u] = tournaments[u]
  BY <1>1, <1>2, <1>3
<1>6. \A h \in GameIds :
        /\ games'[h].tournament = games[h].tournament
        /\ games'[h].state # "Absent" => games[h].state # "Absent"
  BY <1>1, <1>2, <1>4
<1> HIDE DEF t
<1>7. ASSUME NEW u \in Tournaments, ~tournaments'[u].exists PROVE tournaments'[u].lamports = 0
  BY <1>1, <1>5, <1>7 DEF TournamentsReal
<1>8. ASSUME NEW h \in GameIds, games'[h].state # "Absent"
      PROVE  tournaments'[games'[h].tournament].exists
  BY <1>1, <1>5, <1>6, <1>8 DEF TournamentsReal, Games
<1>9. QED
  BY <1>7, <1>8 DEF TournamentsReal

LEMMA RealStep == TypeOK /\ TournamentsReal /\ [Next]_vars => TournamentsReal'
<1> SUFFICES ASSUME TypeOK, TournamentsReal, [Next]_vars PROVE TournamentsReal'
  OBVIOUS
<1>1. /\ tournaments \in [Tournaments -> TournamentRecords] /\ games \in [GameIds -> Games]
      /\ \A g \in GameIds : games[g] \in Games /\ games[g].tournament \in Tournaments
  BY DEF TypeOK, Games
<1>2. ASSUME UNCHANGED tournaments, NEW g \in GameIds, NEW new,
             games' = [games EXCEPT ![g] = new],
             new.state # "Absent" => tournaments[new.tournament].exists
      PROVE  TournamentsReal'
  BY <1>1, <1>2 DEF TournamentsReal
<1>3. CASE UNCHANGED <<tournaments, games>>
  BY <1>3 DEF TournamentsReal
<1>4. ASSUME NEW t \in Tournaments, NEW w \in Windows, CreateTournament(t, w[1], w[2])
      PROVE  TournamentsReal'
  <2> DEFINE new == [NoTournament EXCEPT !.exists = TRUE, !.start = w[1], !.end = w[2]]
  <2>1. new.exists
    BY DEF NoTournament
  <2>2. tournaments' = [tournaments EXCEPT ![t] = new] /\ games' = games
    BY <1>4 DEF CreateTournament
  <2> HIDE DEF new
  <2>3. QED
    BY <1>1, <2>1, <2>2 DEF TournamentsReal
<1>5. ASSUME NEW t \in Tournaments, NEW root, FinalizeTournament(t, root)
      PROVE  TournamentsReal'
  <2>1. /\ Finalized(tournaments[t], root).exists = tournaments[t].exists
        /\ Finalized(tournaments[t], root).lamports = tournaments[t].lamports
    BY <1>1 DEF Finalized, TournamentRecords
  <2>2. tournaments' = [tournaments EXCEPT ![t] = Finalized(tournaments[t], root)]
        /\ games' = games
    BY <1>5 DEF FinalizeTournament
  <2>3. QED
    BY <1>1, <2>1, <2>2 DEF TournamentsReal
<1>6. ASSUME NEW t \in Tournaments, NEW p \in Players, ClaimReward(t, p)
      PROVE  TournamentsReal'
  <2> DEFINE amount == tournaments[t].root[p]
  <2>1. /\ Debited(tournaments[t], amount).exists = tournaments[t].exists
        /\ tournaments' = [tournaments EXCEPT ![t] = Debited(tournaments[t], amount)]
        /\ games' = games
    BY <1>1, <1>6 DEF Debited, TournamentRecords, ClaimReward
  <2>2. tournaments[t].lamports # 0 /\ tournaments[t].exists
    <3>1. amount \in Nat /\ amount > 0 /\ tournaments[t].lamports >= amount
      BY <1>1, <1>6 DEF TournamentRecords, ClaimReward
    <3>2. tournaments[t].lamports \in Nat
      BY <1>1 DEF TournamentRecords
    <3>3. QED
      BY <3>1, <3>2 DEF TournamentsReal
  <2> HIDE DEF amount
  <2>3. QED
    BY <1>1, <2>1, <2>2 DEF TournamentsReal
<1>7. ASSUME NEW t \in Tournaments, NEW p \in Players, NEW secret \in Matchups,
             CreateGame(t, p, secret)
      PROVE  TournamentsReal'
  <2> DEFINE new == [NoGame EXCEPT !.state = "Pending", !.tournament = t, !.secret = secret,
                                   !.player[1] = p, !.lamports = Stake]
  <2>1. new.tournament = t /\ tournaments[t].exists
    BY <1>7 DEF NoGame, CreateGame, IsActive
  <2>2. /\ games' = [games EXCEPT ![gameCount] = new]
        /\ UNCHANGED tournaments /\ gameCount \in GameIds
    BY <1>7, GameAssumption DEF CreateGame, TypeOK, GameIds
  <2> HIDE DEF new
  <2>3. QED
    BY <1>2, <2>1, <2>2
<1>8. ASSUME NEW g \in GameIds, NEW p \in Players, JoinGame(g, p)
      PROVE  TournamentsReal'
  <2>1. Join(games[g], p).tournament = games[g].tournament /\ games[g].state # "Absent"
    BY <1>1, <1>8 DEF Join, JoinGame, Games
  <2>2. QED
    BY <1>2, <1>8, <2>1 DEF JoinGame, TournamentsReal
<1>9. ASSUME NEW g \in GameIds, NEW i \in Seats, NEW guess \in Guesses, CommitGuess(g, i, guess)
      PROVE  TournamentsReal'
  <2>1. Commit(games[g], i, guess).tournament = games[g].tournament /\ games[g].state # "Absent"
    BY <1>1, <1>9 DEF Commit, CommitGuess, MayCommit, Games
  <2>2. QED
    BY <1>2, <1>9, <2>1 DEF CommitGuess, TournamentsReal
<1>10. ASSUME NEW g \in GameIds, NEW i \in Seats, RevealGuess(g, i)
       PROVE  TournamentsReal'
  <2>1. /\ Reveal(games[g], i) \in Games /\ games[g].state # "Absent"
        /\ Reveal(games[g], i).tournament = games[g].tournament
    <3>1. CanReveal(games[g], i)
      BY <1>10 DEF RevealGuess
    <3>2. Reveal(games[g], i) \in Games
      BY <1>1, RevealType
    <3>3. QED
      BY <1>1, <3>1, <3>2 DEF Reveal, CanReveal, Games
  <2>2. CASE games' = [games EXCEPT ![g] = Reveal(games[g], i)] /\ UNCHANGED tournaments
    BY <1>2, <2>1, <2>2 DEF TournamentsReal
  <2>3. CASE \E ret, gain, winners, counts :
               Settle(g, Reveal(games[g], i), ret, gain, winners, counts)
    BY <2>1, <2>3, SettleReal
  <2>4. QED
    BY <1>10, <2>2, <2>3 DEF RevealGuess
<1>11. ASSUME NEW g \in GameIds, ResolveTimeout(g)
       PROVE  TournamentsReal'
  <2>1. games[g].state # "Absent" /\ games[g] \in Games
    BY <1>1, <1>11 DEF ResolveTimeout, Overdue, Running
  <2>2. \E ret, gain, winners, counts : Settle(g, games[g], ret, gain, winners, counts)
    BY <1>11 DEF ResolveTimeout
  <2>3. QED
    BY <2>1, <2>2, SettleReal
<1>12. ASSUME NEW g \in GameIds, NEW caller \in Accounts, CloseGame(g, caller)
       PROVE  TournamentsReal'
  BY <1>2, <1>12 DEF CloseGame, NoGame
<1>13. CASE \E t \in Tournaments, p \in Players : DepositStake(t, p) \/ WithdrawStake(t, p)
  BY <1>3, <1>13 DEF DepositStake, WithdrawStake
<1>14. CASE \/ TickSlot \/ TickTime \/ UNCHANGED vars
            \/ \E bps, treasury, matchmaker, authority :
                 UpdateConfig(bps, treasury, matchmaker, authority)
  BY <1>3, <1>14 DEF TickSlot, TickTime, vars, UpdateConfig
<1>15. QED
  BY <1>4, <1>5, <1>6, <1>7, <1>8, <1>9, <1>10, <1>11, <1>12, <1>13, <1>14 DEF Next

-----------------------------------------------------------------------------
(* How the accounts look as wagers after an instruction.                   *)

LEMMA PledgedAfter ==
  ASSUME escrows \in [Tournaments -> [Players -> Escrows]],
         NEW t \in Tournaments, NEW p \in Players, NEW escrow,
         escrows' = [escrows EXCEPT ![t][p] = escrow]
  PROVE  Pledged' = [Pledged EXCEPT ![t][p] = escrow.lamports]
<1>1. \A u \in Tournaments, q \in Players :
        escrows'[u][q].lamports =
          IF u = t /\ q = p THEN escrow.lamports ELSE escrows[u][q].lamports
  OBVIOUS
<1>2. QED
  BY <1>1 DEF Pledged

LEMMA WagersAfter ==
  ASSUME TypeOK, NEW g \in GameIds, NEW game,
         games' = [games EXCEPT ![g] = game], gameCount' = gameCount
  PROVE  Wagers' = [Wagers EXCEPT ![g] = WagerOf(game, g < gameCount)]
<1>1. games'[g] = game /\ \A h \in GameIds : h # g => games'[h] = games[h]
  BY DEF TypeOK
<1>2. \A h \in GameIds : h # g =>
        WagerOf(games'[h], h < gameCount') = WagerOf(games[h], h < gameCount)
  BY <1>1
<1>3. WagerOf(games'[g], g < gameCount') = WagerOf(game, g < gameCount)
  BY <1>1
<1>4. QED
  BY <1>2, <1>3 DEF Wagers

LEMMA PoolsAfter ==
  ASSUME TypeOK, NEW t \in Tournaments, NEW tournament,
         tournaments' = [tournaments EXCEPT ![t] = tournament]
  PROVE  Pools' = [Pools EXCEPT ![t] = tournament.lamports]
<1>1. \A u \in Tournaments :
        tournaments'[u].lamports = IF u = t THEN tournament.lamports ELSE tournaments[u].lamports
  BY DEF TypeOK
<1>2. QED
  BY <1>1 DEF Pools

(* An instruction that keeps players, money and stage of a game does not   *)
(* touch the wager.                                                        *)
LEMMA WagersSame ==
  ASSUME TypeOK, NEW g \in GameIds, NEW game,
         games' = [games EXCEPT ![g] = game], gameCount' = gameCount,
         game.state \in Running, games[g].state \in Running,
         game.tournament = games[g].tournament, game.player = games[g].player,
         game.lamports = games[g].lamports
  PROVE  Wagers' = Wagers
<1>1. WagerOf(game, g < gameCount) = WagerOf(games[g], g < gameCount)
  BY DEF WagerOf, StageOf, Parties, Running
<1>2. Wagers[g] = WagerOf(games[g], g < gameCount)
  BY DEF Wagers
<1>3. QED
  BY <1>1, <1>2, WagersAfter DEF Wagers

-----------------------------------------------------------------------------
(* Each instruction is a step of the contract, or none.                    *)

LEMMA DepositPledges ==
  ASSUME IInv, NEW t \in Tournaments, NEW p \in Players, DepositStake(t, p)
  PROVE  W!Pledge(t, p, p)
<1>1. /\ Stake \in Nat /\ p \in Accounts
      /\ wallet \in [Accounts -> Nat] /\ escrows \in [Tournaments -> [Players -> Escrows]]
  BY GameAssumption DEF IInv, TypeOK, Accounts
<1>2. escrows[t][p].lamports = 0
  BY DEF IInv, EscrowBacked, DepositStake, ValidForGame
<1>3. Pledged' = [Pledged EXCEPT ![t][p] = Stake] /\ Pledged[t][p] = 0
  <2> DEFINE new == [exists |-> TRUE, consumed |-> FALSE, lamports |-> escrows[t][p].lamports + Stake]
  <2>1. escrows' = [escrows EXCEPT ![t][p] = new]
    BY DEF DepositStake
  <2>2. new.lamports = Stake
    BY <1>1, <1>2
  <2> HIDE DEF new
  <2>3. Pledged' = [Pledged EXCEPT ![t][p] = new.lamports]
    BY <1>1, <2>1, PledgedAfter
  <2>4. Pledged[t][p] = 0
    BY <1>2 DEF Pledged
  <2>5. QED
    BY <2>2, <2>3, <2>4
<1>4. wallet[p] >= Stake /\ wallet' = W!Paid(wallet, p, -Stake)
  BY <1>1 DEF DepositStake, W!Paid
<1>5. Wagers' = Wagers /\ Pools' = Pools
  BY DEF DepositStake, Wagers, Pools
<1>6. QED
  BY <1>3, <1>4, <1>5 DEF W!Pledge

LEMMA WithdrawTakesBack ==
  ASSUME IInv, NEW t \in Tournaments, NEW p \in Players, WithdrawStake(t, p)
  PROVE  W!TakeBack(t, p)
<1>1. escrows \in [Tournaments -> [Players -> Escrows]]
  BY DEF IInv, TypeOK
<1>2. escrows[t][p].lamports = Stake
  BY DEF IInv, EscrowBacked, WithdrawStake, Withdrawable
<1>3. Pledged' = [Pledged EXCEPT ![t][p] = 0] /\ Pledged[t][p] = Stake
  <2>1. Pledged' = [Pledged EXCEPT ![t][p] = NoEscrow.lamports]
    BY <1>1, PledgedAfter DEF WithdrawStake
  <2>2. QED
    BY <1>2, <2>1 DEF NoEscrow, Pledged
<1>4. wallet' = W!Paid(wallet, p, Stake)
  BY <1>2 DEF WithdrawStake, W!Paid
<1>5. Wagers' = Wagers /\ Pools' = Pools
  BY DEF WithdrawStake, Wagers, Pools
<1>6. QED
  BY <1>3, <1>4, <1>5 DEF W!TakeBack

(* A valid escrow is a pledge, and consuming it uses the pledge up.        *)
LEMMA ConsumePledge ==
  ASSUME IInv, NEW t \in Tournaments, NEW p \in Players, ValidForGame(escrows[t][p]),
         escrows' = [escrows EXCEPT ![t][p] = Consume(@)]
  PROVE  Pledged[t][p] = Stake /\ Pledged' = [Pledged EXCEPT ![t][p] = 0]
<1>1. /\ Stake \in Nat /\ escrows \in [Tournaments -> [Players -> Escrows]]
      /\ escrows[t][p] \in Escrows
  BY GameAssumption DEF IInv, TypeOK
<1>2. escrows[t][p].lamports = Stake
  BY DEF IInv, EscrowBacked, ValidForGame
<1>3. Consume(escrows[t][p]).lamports = 0
  BY <1>1, <1>2 DEF Consume, Escrows
<1>4. Pledged' = [Pledged EXCEPT ![t][p] = Consume(escrows[t][p]).lamports]
  <2> DEFINE escrow == Consume(escrows[t][p])
  <2>1. escrows' = [escrows EXCEPT ![t][p] = escrow]
    BY <1>1
  <2> HIDE DEF escrow
  <2>2. Pledged' = [Pledged EXCEPT ![t][p] = escrow.lamports]
    BY <1>1, <2>1 DEF Pledged
  <2>3. QED
    BY <2>2 DEF escrow
<1>5. Pledged[t][p] = Stake
  BY <1>2 DEF Pledged
<1>6. QED
  BY <1>3, <1>4, <1>5

LEMMA CreateOpens ==
  ASSUME IInv, NEW t \in Tournaments, NEW p \in Players, NEW secret \in Matchups,
         CreateGame(t, p, secret)
  PROVE  gameCount \in GameIds /\ W!Open(gameCount, t, p)
<1> DEFINE new == [NoGame EXCEPT !.state = "Pending", !.tournament = t, !.secret = secret,
                                 !.player[1] = p, !.lamports = Stake]
<1>1. /\ gameCount \in GameIds /\ gameCount \in Nat /\ GameIds \subseteq Nat
      /\ games \in [GameIds -> Games]
  BY GameAssumption DEF IInv, TypeOK, CreateGame, GameIds
<1>2. Pledged[t][p] = Stake /\ Pledged' = [Pledged EXCEPT ![t][p] = 0]
  BY ConsumePledge DEF CreateGame
<1>3. Wagers[gameCount].stage = "Unborn"
  <2>1. games[gameCount].state = "Absent" /\ ~(gameCount < gameCount)
    BY <1>1 DEF IInv, Fresh
  <2>2. StageOf(games[gameCount], gameCount < gameCount) = "Unborn"
    BY <2>1 DEF StageOf, Running
  <2>3. QED
    BY <1>1, <2>2 DEF Wagers, WagerOf
<1>4. WagerOf(new, TRUE) = [stage |-> "Open", event |-> t, parties |-> {p}, pot |-> Stake]
  <2>1. /\ new.state = "Pending" /\ new.tournament = t /\ new.lamports = Stake
        /\ new.player[1] = p /\ new.player[2] = NoPlayer
    BY DEF NoGame, Seats
  <2> HIDE DEF new
  <2>2. Parties(new) = {p}
    BY <2>1, GameAssumption DEF Parties, Seats
  <2>3. StageOf(new, TRUE) = "Open"
    BY <2>1 DEF StageOf, Running
  <2>4. QED
    BY <2>1, <2>2, <2>3 DEF WagerOf
<1>5. Wagers' = [Wagers EXCEPT ![gameCount] = WagerOf(new, TRUE)]
  <2>1. games' = [games EXCEPT ![gameCount] = new] /\ gameCount' = gameCount + 1
    BY DEF CreateGame
  <2> HIDE DEF new
  <2>2. \A h \in GameIds :
          WagerOf(games'[h], h < gameCount')
            = IF h = gameCount THEN WagerOf(new, TRUE) ELSE WagerOf(games[h], h < gameCount)
    <3>1. ASSUME NEW h \in GameIds, h # gameCount
          PROVE  games'[h] = games[h] /\ (h < gameCount' <=> h < gameCount)
      BY <1>1, <2>1, <3>1
    <3>2. games'[gameCount] = new /\ (gameCount < gameCount') = TRUE
      BY <1>1, <2>1
    <3>3. ASSUME NEW h \in GameIds, h # gameCount
          PROVE  WagerOf(games'[h], h < gameCount') = WagerOf(games[h], h < gameCount)
      <4>1. (h < gameCount') = (h < gameCount) /\ games'[h] = games[h]
        BY <3>1, <3>3
      <4>2. QED
        BY <4>1
    <3>4. QED
      BY <3>2, <3>3
  <2>3. QED
    BY <2>2 DEF Wagers
<1>6. UNCHANGED <<wallet, Pools>>
  BY DEF CreateGame, Pools
<1> HIDE DEF new
<1>7. QED
  BY <1>1, <1>2, <1>3, <1>4, <1>5, <1>6 DEF W!Open

LEMMA JoinMatches ==
  ASSUME IInv, NEW g \in GameIds, NEW p \in Players, JoinGame(g, p)
  PROVE  W!Match(g, p)
<1> DEFINE new == Join(games[g], p)
           t == games[g].tournament
<1>1. /\ games[g] \in Games /\ t \in Tournaments /\ Stake \in Nat /\ TypeOK
      /\ games[g].state = "Pending" /\ p # games[g].player[1] /\ p # NoPlayer
  BY GameAssumption DEF IInv, TypeOK, Games, JoinGame
<1>2. Pledged[t][p] = Stake /\ Pledged' = [Pledged EXCEPT ![t][p] = 0]
  BY <1>1, ConsumePledge DEF JoinGame
<1>3. Seated(games[g]) = {1} /\ games[g].lamports = Stake
  BY <1>1 DEF IInv, GameInv, Shaped, Pot, Running
<1>4. games[g].player[1] # NoPlayer /\ games[g].player[2] = NoPlayer
  BY <1>3 DEF Seated, Seats
<1>5. Parties(games[g]) = {games[g].player[1]}
  BY <1>4 DEF Parties, Seats
<1>6. /\ new.state = "Active" /\ new.tournament = t /\ new.lamports = 2 * Stake
      /\ new.player[1] = games[g].player[1] /\ new.player[2] = p
  BY <1>1, <1>3 DEF Join, Games, Seats
<1> HIDE DEF new
<1>7. Parties(new) = Parties(games[g]) \cup {p}
  BY <1>1, <1>4, <1>5, <1>6 DEF Parties, Seats
<1>8. WagerOf(new, g < gameCount) =
        [stage |-> "Matched", event |-> t, parties |-> Parties(games[g]) \cup {p}, pot |-> 2 * Stake]
  BY <1>6, <1>7 DEF WagerOf, StageOf, Running
<1>9. /\ Wagers[g].stage = "Open" /\ Wagers[g].event = t
      /\ Wagers[g].parties = Parties(games[g])
  <2>1. StageOf(games[g], g < gameCount) = "Open"
    BY <1>1 DEF StageOf, Running
  <2>2. Wagers[g] = WagerOf(games[g], g < gameCount)
    BY DEF Wagers
  <2>3. QED
    BY <2>1, <2>2 DEF WagerOf
<1>10. Wagers' = [Wagers EXCEPT ![g] = WagerOf(new, g < gameCount)]
  BY <1>1, WagersAfter DEF JoinGame, new
<1>11. p \notin Parties(games[g])
  BY <1>1, <1>5
<1>12. UNCHANGED <<wallet, Pools>>
  BY DEF JoinGame, Pools
<1>13. QED
  BY <1>2, <1>8, <1>9, <1>10, <1>11, <1>12 DEF W!Match

-----------------------------------------------------------------------------
(* Settlements.                                                            *)

(* Every cell of the payoff matrix is one of the six outcomes.             *)
LEMMA ResolutionOutcome ==
  ASSUME NEW matchup \in Bits, NEW guess \in [Seats -> Bits], NEW first \in Seats
  PROVE  LET ret == Resolution(matchup, guess, Stake, first).ret IN
         <<ret[1], ret[2]>> \in W!Outcomes
<1> DEFINE correct == Correct(matchup, guess)
           ret == Resolution(matchup, guess, Stake, first).ret
<1>1. correct \in {{}, {1}, {2}, Seats}
  BY CorrectCases
<1> HIDE DEF correct
<1>2. CASE matchup = SameTeam
  <2>1. ret = [i \in Seats |-> HomogenousReturn(correct, Stake, i)]
    BY <1>2 DEF Resolution, correct
  <2>2. <<HomogenousReturn(correct, Stake, 1), HomogenousReturn(correct, Stake, 2)>> \in W!Outcomes
    BY <1>1 DEF HomogenousReturn, W!Outcomes, Seats
  <2> HIDE DEF ret
  <2>3. QED
    BY <2>1, <2>2 DEF Seats, ret
<1>3. CASE matchup # SameTeam
  <2>1. ret = [i \in Seats |-> HeterogeneousReturn(correct, Stake, first, i)]
    BY <1>3 DEF Resolution, correct
  <2>2. correct # {} => PotWinner(correct, first) \in {1, 2}
    BY <1>1, PotWinnerSeated DEF Seats
  <2>3. <<HeterogeneousReturn(correct, Stake, first, 1),
          HeterogeneousReturn(correct, Stake, first, 2)>> \in W!Outcomes
    BY <2>2 DEF HeterogeneousReturn, W!Outcomes
  <2> HIDE DEF ret
  <2>4. QED
    BY <2>1, <2>3 DEF Seats, ret
<1>4. QED
  BY <1>2, <1>3

LEMMA SettlementSettles ==
  ASSUME IInv, TournamentsReal, NEW g \in GameIds, NEW game \in Games,
         NEW ret \in [Seats -> Nat], NEW gain \in Nat, NEW winners, NEW counts,
         <<ret[1], ret[2]>> \in W!Outcomes,
         ret[1] + ret[2] + gain = 2 * Stake, game.lamports = 2 * Stake,
         games[g].state \in Running, game.state \in Running,
         game.tournament = games[g].tournament, game.player = games[g].player,
         Settle(g, game, ret, gain, winners, counts)
  PROVE  W!Settle(g)
<1> DEFINE t == game.tournament
           a == game.player[1]
           b == game.player[2]
           key == config.treasury
           fee == TreasuryShare(gain, config.bps)
           share == TournamentShare(gain, config.bps)
           paid == ret[1] + ret[2] + fee + share
           outcome == <<ret[1], ret[2]>>
<1>1. /\ fee \in Nat /\ share \in Nat /\ fee + share = gain /\ key \in Keys
  BY GameAssumption, SplitConserves DEF IInv, TypeOK, Configs
<1>2. ret[1] \in Nat /\ ret[2] \in Nat /\ Stake \in Nat
  BY GameAssumption DEF Seats
<1>3. /\ games' = [games EXCEPT ![g] = Settled(game, paid)] /\ gameCount' = gameCount
      /\ wallet' = Pay(Pay(Pay(wallet, a, ret[1]), b, ret[2]), key, fee)
      /\ tournaments' = [tournaments EXCEPT ![t] = Contribute(tournaments[t], share, counts)]
      /\ UNCHANGED escrows
  BY DEF Settle
<1>4. paid = 2 * Stake
  <2> HIDE DEF fee, share
  <2>1. QED
    BY <1>1, <1>2
<1> HIDE DEF fee, share, key, paid
<1>5. TypeOK /\ GameInv(games[g], slot) /\ t \in Tournaments
  BY DEF IInv, TypeOK, Games
<1>6. /\ Settled(game, paid).state = "Resolved" /\ Settled(game, paid).lamports = 0
      /\ Settled(game, paid).tournament = t /\ Settled(game, paid).player = game.player
  BY <1>2, <1>4 DEF Settled, Games
<1>7. a \in Parties(games[g]) /\ b \in Parties(games[g]) /\ a # b
  <2>1. Seated(games[g]) = Seats /\ games[g].player[1] # games[g].player[2]
    BY <1>5 DEF GameInv, Shaped
  <2>2. 1 \in Seats /\ 2 \in Seats
    BY DEF Seats
  <2>3. QED
    BY <2>1, <2>2 DEF Seated, Parties
<1>8. /\ Wagers[g].stage = "Matched" /\ Wagers[g].event = t
      /\ Wagers[g].parties = Parties(games[g]) /\ Wagers[g].pot = games[g].lamports
      /\ Wagers[g] = [stage |-> "Matched", event |-> t, parties |-> Parties(games[g]),
                      pot |-> games[g].lamports]
  <2>1. StageOf(games[g], g < gameCount) = "Matched"
    BY DEF StageOf, Running
  <2>2. Wagers[g] = WagerOf(games[g], g < gameCount)
    BY DEF Wagers
  <2>3. QED
    BY <2>1, <2>2 DEF WagerOf
<1>9. Wagers' = [Wagers EXCEPT ![g] =
                   [stage |-> "Settled", event |-> t, parties |-> Parties(games[g]), pot |-> 0]]
  <2>1. StageOf(Settled(game, paid), g < gameCount) = "Settled"
    BY <1>6 DEF StageOf, Running
  <2>2. Parties(Settled(game, paid)) = Parties(games[g])
    BY <1>6 DEF Parties
  <2>3. WagerOf(Settled(game, paid), g < gameCount) =
          [stage |-> "Settled", event |-> t, parties |-> Parties(games[g]), pot |-> 0]
    BY <1>6, <2>1, <2>2 DEF WagerOf
  <2>4. QED
    BY <1>3, <1>5, <2>3, WagersAfter
<1>10. Pools' = W!Paid(Pools, t, share)
  <2>1. tournaments[t] \in TournamentRecords
    BY <1>5 DEF TypeOK
  <2>2. Contribute(tournaments[t], share, counts).lamports = tournaments[t].lamports + share
    BY <2>1 DEF Contribute, TournamentRecords
  <2>3. Pools' = [Pools EXCEPT ![t] = tournaments[t].lamports + share]
    <3> DEFINE new == Contribute(tournaments[t], share, counts)
    <3>1. new.lamports = tournaments[t].lamports + share
      BY <2>2
    <3>2. tournaments' = [tournaments EXCEPT ![t] = new]
      BY <1>3
    <3> HIDE DEF new, t
    <3>3. Pools' = [Pools EXCEPT ![t] = new.lamports]
      BY <1>5, <3>2, PoolsAfter
    <3>4. QED
      BY <3>1, <3>3
  <2>4. Pools[t] = tournaments[t].lamports
    BY <1>5 DEF Pools
  <2>5. QED
    BY <2>3, <2>4 DEF W!Paid
<1>11. wallet' = W!Paid(W!Paid(W!Paid(wallet, a, outcome[1]), b, outcome[2]), key, fee)
  BY <1>3 DEF Pay, W!Paid
<1>12. /\ 2 * Stake - outcome[1] - outcome[2] - fee = share
       /\ fee <= 2 * Stake - outcome[1] - outcome[2] /\ fee \in 0 .. 2 * Stake
  BY <1>1, <1>2
<1>13. W!Divide(t, a, b, outcome, key, fee)
  BY <1>10, <1>11, <1>12 DEF W!Divide
<1>14. Pledged' = Pledged
  BY <1>3 DEF Pledged
<1> HIDE DEF t, a, b, outcome
<1>15. \E x, y \in Wagers[g].parties : x # y /\
         \E o \in W!Outcomes, k \in Keys, f \in 0 .. 2 * Stake :
           W!Divide(Wagers[g].event, x, y, o, k, f)
  BY <1>1, <1>7, <1>8, <1>12, <1>13 DEF outcome
<1>16. QED
  BY <1>8, <1>9, <1>14, <1>15 DEF W!Settle

LEMMA RevealSettles ==
  ASSUME IInv, TournamentsReal, NEW g \in GameIds, NEW i \in Seats, RevealGuess(g, i)
  PROVE  W!Settle(g) \/ UNCHANGED W!state
<1> DEFINE game == Reveal(games[g], i)
           late == IsLate(game.tournament)
           refund == [ret |-> [j \in Seats |-> Stake], gain |-> 0]
           payoff == Resolution(game.matchup, game.guess, Stake, game.first)
           res == IF late THEN refund ELSE payoff
           winners == Winners(game.matchup, game.guess, res.ret)
<1>1. games[g] \in Games /\ GameInv(games[g], slot) /\ CanReveal(games[g], i) /\ slot \in Nat
  BY DEF IInv, TypeOK, RevealGuess
<1>2. game \in Games /\ TypeOK
  BY <1>1, RevealType DEF IInv
<1>3. /\ game.guess[i] \in Bits /\ game.matchup \in Bits /\ game.first \in Seats
      /\ game.lamports = 2 * Stake
  BY <1>1, RevealedInv
<1>4. /\ game.guess = [games[g].guess EXCEPT ![i] = games[g].commit[i]]
      /\ game.state \in Running /\ games[g].state \in Running
      /\ game.tournament = games[g].tournament /\ game.player = games[g].player
      /\ game.lamports = games[g].lamports
  BY <1>1 DEF Reveal, CanReveal, Running, Games
<1>5. Other(i) \in Seats /\ Other(i) # i /\ Seats = {i, Other(i)}
  BY DEF Other, Seats
<1>6. CASE games' = [games EXCEPT ![g] = game] /\ UNCHANGED <<wallet, tournaments, escrows, gameCount>>
  <2> HIDE DEF game
  <2>1. Wagers' = Wagers
    BY <1>2, <1>4, <1>6, WagersSame
  <2>2. Pledged' = Pledged /\ Pools' = Pools
    BY <1>6 DEF Pledged, Pools
  <2>3. QED
    BY <1>6, <2>1, <2>2 DEF W!state
<1>7. CASE game.guess[Other(i)] # Unset /\ Settle(g, game, res.ret, res.gain, winners, ~late)
  <2>1. game.guess \in [Seats -> Bits]
    BY <1>2, <1>3, <1>5, <1>7 DEF Games
  <2>2. Stake \in Nat \ {0} /\ 1 \in Seats /\ 2 \in Seats
    BY GameAssumption DEF Seats
  <2> HIDE DEF game, late, winners
  <2>3. /\ payoff.ret \in [Seats -> Nat] /\ payoff.gain \in Nat
        /\ payoff.ret[1] + payoff.ret[2] + payoff.gain = 2 * Stake
    <3> HIDE DEF refund, res
    <3>1. game.matchup \in Bits /\ game.first \in Seats
      BY <1>3
    <3>2. QED
      BY <2>1, <2>2, <3>1, ResolutionConserves
  <2>4. <<payoff.ret[1], payoff.ret[2]>> \in W!Outcomes
    BY <1>3, <2>1, ResolutionOutcome
  <2>5. /\ refund.ret \in [Seats -> Nat] /\ refund.gain \in Nat
        /\ refund.ret[1] + refund.ret[2] + refund.gain = 2 * Stake
        /\ <<refund.ret[1], refund.ret[2]>> \in W!Outcomes
    BY <2>2 DEF W!Outcomes
  <2>6. res = refund \/ res = payoff
    OBVIOUS
  <2> HIDE DEF refund, payoff, res
  <2>7. /\ res.ret \in [Seats -> Nat] /\ res.gain \in Nat
        /\ res.ret[1] + res.ret[2] + res.gain = 2 * Stake
        /\ <<res.ret[1], res.ret[2]>> \in W!Outcomes
    BY <2>3, <2>4, <2>5, <2>6
  <2>8. QED
    BY <1>2, <1>3, <1>4, <1>7, <2>7, SettlementSettles
<1>8. QED
  BY <1>6, <1>7 DEF RevealGuess

(* A timeout pays one diligent player the pot, or takes everything.        *)
LEMMA TimeoutSettles ==
  ASSUME IInv, TournamentsReal, NEW g \in GameIds, ResolveTimeout(g)
  PROVE  W!Settle(g)
<1> DEFINE game == games[g]
           diligent == Diligent(game)
           ret == [i \in Seats |-> IF i \in diligent THEN 2 * Stake ELSE 0]
           gain == IF diligent = {} THEN 2 * Stake ELSE 0
<1>1. /\ game \in Games /\ game.state \in Running /\ diligent # Seats
      /\ Settle(g, game, ret, gain, diligent, TRUE)
  BY DEF IInv, TypeOK, ResolveTimeout, Overdue
<1>2. game.lamports = 2 * Stake
  BY <1>1 DEF IInv, GameInv, Pot, Running
<1>3. Stake \in Nat
  BY GameAssumption
<1>4. diligent \subseteq Seats
  BY DEF Diligent
<1> HIDE DEF diligent, game
<1>5. diligent \in {{}, {1}, {2}}
  BY <1>1, <1>4 DEF Seats
<1>6. /\ ret[1] = IF 1 \in diligent THEN 2 * Stake ELSE 0
      /\ ret[2] = IF 2 \in diligent THEN 2 * Stake ELSE 0
      /\ ret \in [Seats -> Nat] /\ gain \in Nat
  BY <1>3 DEF Seats
<1> HIDE DEF ret
<1>7. ret[1] + ret[2] + gain = 2 * Stake /\ <<ret[1], ret[2]>> \in W!Outcomes
  BY <1>3, <1>5, <1>6 DEF W!Outcomes
<1> HIDE DEF gain
<1>8. QED
  BY <1>1, <1>2, <1>6, <1>7, SettlementSettles DEF game

(* Whoever closes a resolved game finds nothing in it.                     *)
LEMMA CloseForgets ==
  ASSUME IInv, NEW g \in GameIds, games[g].state = "Resolved",
         games' = [games EXCEPT ![g] = NoGame], UNCHANGED <<tournaments, escrows, gameCount>>
  PROVE  /\ games[g].lamports = 0
         /\ wallet' = wallet => W!Forget(g)
<1>1. TypeOK /\ gameCount \in Nat /\ GameInv(games[g], slot) /\ GameIds \subseteq Nat
  BY DEF IInv, TypeOK, GameIds
<1>2. games[g].lamports = 0
  BY <1>1 DEF GameInv, Pot, Running
<1>3. g < gameCount
  BY <1>1 DEF IInv, Fresh
<1>4. Wagers[g].stage = "Settled"
  <2>1. StageOf(games[g], g < gameCount) = "Settled"
    BY DEF StageOf, Running
  <2>2. QED
    BY <2>1 DEF Wagers, WagerOf
<1>5. Wagers' = [Wagers EXCEPT ![g] = [W!NoWager EXCEPT !.stage = "Over"]]
  <2>1. StageOf(NoGame, g < gameCount) = "Over"
    BY <1>3 DEF StageOf, NoGame, Running
  <2>2. Parties(NoGame) = {}
    BY DEF Parties, NoGame
  <2>3. NoGame.tournament = (CHOOSE t \in Tournaments : TRUE) /\ NoGame.lamports = 0
    BY DEF NoGame
  <2>4. WagerOf(NoGame, g < gameCount) = [W!NoWager EXCEPT !.stage = "Over"]
    <3> DEFINE t == CHOOSE t \in Tournaments : TRUE
    <3>1. WagerOf(NoGame, g < gameCount) =
            [stage |-> "Over", event |-> t, parties |-> {}, pot |-> 0]
      BY <2>1, <2>2, <2>3 DEF WagerOf
    <3>2. W!NoWager = [stage |-> "Unborn", event |-> t, parties |-> {}, pot |-> 0]
      BY DEF W!NoWager
    <3> HIDE DEF t
    <3>3. QED
      BY <3>1, <3>2
  <2>5. QED
    BY <1>1, <2>4, WagersAfter
<1>6. Pledged' = Pledged /\ Pools' = Pools
  BY DEF Pledged, Pools
<1>7. QED
  BY <1>2, <1>4, <1>5, <1>6 DEF W!Forget

LEMMA CloseKeepsPurses ==
  ASSUME IInv, NEW g \in GameIds, NEW caller \in Accounts, CloseGame(g, caller)
  PROVE  W!Forget(g)
<1>1. games[g].lamports = 0 /\ wallet \in [Accounts -> Nat]
  BY CloseForgets DEF CloseGame, IInv, TypeOK
<1>2. wallet' = wallet
  BY <1>1 DEF CloseGame
<1>3. QED
  BY <1>2, CloseForgets DEF CloseGame

LEMMA ClaimRewards ==
  ASSUME IInv, NEW t \in Tournaments, NEW p \in Players, ClaimReward(t, p)
  PROVE  \E amount \in 1 .. Pools[t] : W!Reward(t, p, amount)
<1> DEFINE amount == tournaments[t].root[p]
           new == Debited(tournaments[t], amount)
<1>1. /\ TypeOK /\ tournaments[t] \in TournamentRecords
      /\ amount > 0 /\ tournaments[t].lamports >= amount
      /\ tournaments' = [tournaments EXCEPT ![t] = new]
      /\ wallet' = Pay(wallet, p, amount)
      /\ UNCHANGED <<escrows, games, gameCount>>
  BY DEF IInv, TypeOK, ClaimReward
<1>2. amount \in Nat /\ tournaments[t].lamports \in Nat
  BY <1>1 DEF TournamentRecords
<1>3. new.lamports = tournaments[t].lamports + (-amount)
  BY <1>1, <1>2 DEF Debited, TournamentRecords
<1> HIDE DEF amount, new
<1>4. Pools' = [Pools EXCEPT ![t] = new.lamports] /\ Pools[t] = tournaments[t].lamports
  BY <1>1, PoolsAfter DEF Pools
<1>5. Pools' = W!Paid(Pools, t, -amount)
  BY <1>3, <1>4 DEF W!Paid
<1>6. wallet' = W!Paid(wallet, p, amount) /\ amount \in 1 .. Pools[t]
  BY <1>1, <1>2, <1>4 DEF Pay, W!Paid
<1>7. Pledged' = Pledged /\ Wagers' = Wagers
  BY <1>1 DEF Pledged, Wagers
<1>8. QED
  BY <1>5, <1>6, <1>7 DEF W!Reward

(* Tournaments are created empty and finalized without a payment.          *)
LEMMA TournamentsKeep ==
  ASSUME IInv, TournamentsReal, NEW t \in Tournaments,
         \/ \E w \in Windows : CreateTournament(t, w[1], w[2])
         \/ \E root \in HonestRoots(t) : FinalizeTournament(t, root)
  PROVE  UNCHANGED W!state
<1>1. TypeOK /\ tournaments[t] \in TournamentRecords
  BY DEF IInv, TypeOK
<1>2. /\ UNCHANGED <<wallet, escrows, games, gameCount>>
      /\ \E new : /\ tournaments' = [tournaments EXCEPT ![t] = new]
                  /\ new.lamports = tournaments[t].lamports
  <2>1. ASSUME NEW w \in Windows, CreateTournament(t, w[1], w[2])
        PROVE  /\ UNCHANGED <<wallet, escrows, games, gameCount>>
               /\ \E new : /\ tournaments' = [tournaments EXCEPT ![t] = new]
                           /\ new.lamports = tournaments[t].lamports
    <3> DEFINE new == [NoTournament EXCEPT !.exists = TRUE, !.start = w[1], !.end = w[2]]
    <3>1. new.lamports = 0
      BY DEF NoTournament
    <3>2. tournaments[t].lamports = 0
      BY <2>1 DEF CreateTournament, TournamentsReal
    <3>3. /\ tournaments' = [tournaments EXCEPT ![t] = new]
          /\ UNCHANGED <<wallet, escrows, games, gameCount>>
      BY <2>1 DEF CreateTournament
    <3> HIDE DEF new
    <3>4. QED
      BY <3>1, <3>2, <3>3
  <2>2. ASSUME NEW root, FinalizeTournament(t, root)
        PROVE  /\ UNCHANGED <<wallet, escrows, games, gameCount>>
               /\ \E new : /\ tournaments' = [tournaments EXCEPT ![t] = new]
                           /\ new.lamports = tournaments[t].lamports
    <3>1. Finalized(tournaments[t], root).lamports = tournaments[t].lamports
      BY <1>1 DEF Finalized, TournamentRecords
    <3>2. QED
      BY <2>2, <3>1 DEF FinalizeTournament
  <2>3. QED
    BY <2>1, <2>2
<1>3. Pools' = Pools
  <2>1. PICK new : /\ tournaments' = [tournaments EXCEPT ![t] = new]
                   /\ new.lamports = tournaments[t].lamports
    BY <1>2
  <2>2. Pools' = [Pools EXCEPT ![t] = new.lamports]
    BY <1>1, <2>1, PoolsAfter
  <2>3. QED
    BY <2>1, <2>2 DEF Pools
<1>4. Pledged' = Pledged /\ Wagers' = Wagers
  BY <1>2 DEF Pledged, Wagers
<1>5. QED
  BY <1>2, <1>3, <1>4 DEF W!state

LEMMA CommitKeeps ==
  ASSUME IInv, NEW g \in GameIds, NEW i \in Seats, NEW guess \in Guesses, CommitGuess(g, i, guess)
  PROVE  UNCHANGED W!state
<1> DEFINE new == Commit(games[g], i, guess)
<1>1. /\ TypeOK /\ games[g] \in Games /\ games' = [games EXCEPT ![g] = new]
      /\ UNCHANGED <<wallet, tournaments, escrows, gameCount>>
  BY DEF IInv, TypeOK, CommitGuess
<1>2. /\ new.state \in Running /\ games[g].state \in Running
      /\ new.tournament = games[g].tournament /\ new.player = games[g].player
      /\ new.lamports = games[g].lamports
  BY <1>1 DEF CommitGuess, MayCommit, Commit, Running, Games
<1> HIDE DEF new
<1>3. Wagers' = Wagers
  BY <1>1, <1>2, WagersSame
<1>4. QED
  BY <1>1, <1>3 DEF Pledged, Pools, W!state

LEMMA WagerInit == Init => W!Init
<1> SUFFICES ASSUME Init PROVE W!Init
  OBVIOUS
<1>1. wallet \in [Accounts -> Nat]
  BY TypeInit DEF TypeOK
<1>2. Pledged = [t \in Tournaments |-> [p \in Players |-> 0]]
  BY DEF Init, Pledged, NoEscrow
<1>3. Wagers = [g \in GameIds |-> W!NoWager]
  <2>1. ASSUME NEW g \in GameIds
        PROVE  WagerOf(games[g], g < gameCount) = W!NoWager
    <3> DEFINE t == CHOOSE t \in Tournaments : TRUE
    <3>1. games[g] = NoGame /\ gameCount = 0 /\ ~(g < 0)
      BY GameAssumption DEF Init, GameIds
    <3>2. StageOf(NoGame, FALSE) = "Unborn"
      BY DEF StageOf, NoGame, Running
    <3>3. Parties(NoGame) = {} /\ NoGame.lamports = 0 /\ NoGame.tournament = t
      BY DEF Parties, NoGame
    <3>4. WagerOf(NoGame, FALSE) = [stage |-> "Unborn", event |-> t, parties |-> {}, pot |-> 0]
      BY <3>2, <3>3 DEF WagerOf
    <3>5. W!NoWager = [stage |-> "Unborn", event |-> t, parties |-> {}, pot |-> 0]
      BY DEF W!NoWager
    <3>6. (g < gameCount) = FALSE
      BY <3>1
    <3>7. QED
      BY <3>1, <3>4, <3>5, <3>6
  <2>2. QED
    BY <2>1 DEF Wagers
<1>4. Pools = [t \in Tournaments |-> 0]
  BY DEF Init, Pools, NoTournament
<1>5. QED
  BY <1>1, <1>2, <1>3, <1>4 DEF W!Init

LEMMA WagerMoves ==
  ASSUME IInv, TournamentsReal, [Next]_vars
  PROVE  W!Move \/ UNCHANGED W!state
<1> DEFINE Goal == W!Move \/ UNCHANGED W!state
<1>1. ASSUME NEW t \in Tournaments, NEW p \in Players, DepositStake(t, p) PROVE Goal
  <2>1. p \in Accounts /\ W!Pledge(t, p, p)
    BY <1>1, DepositPledges DEF Accounts
  <2>2. QED
    BY <2>1 DEF W!Move
<1>2. ASSUME NEW t \in Tournaments, NEW p \in Players, WithdrawStake(t, p) PROVE Goal
  BY <1>2, WithdrawTakesBack DEF W!Move
<1>3. ASSUME NEW t \in Tournaments, NEW p \in Players, NEW secret \in Matchups,
             CreateGame(t, p, secret)
      PROVE  Goal
  BY <1>3, CreateOpens DEF W!Move
<1>4. ASSUME NEW g \in GameIds, NEW p \in Players, JoinGame(g, p) PROVE Goal
  BY <1>4, JoinMatches DEF W!Move
<1>5. ASSUME NEW g \in GameIds, NEW i \in Seats, NEW guess \in Guesses, CommitGuess(g, i, guess)
      PROVE  Goal
  BY <1>5, CommitKeeps
<1>6. ASSUME NEW g \in GameIds, NEW i \in Seats, RevealGuess(g, i) PROVE Goal
  BY <1>6, RevealSettles DEF W!Move
<1>7. ASSUME NEW g \in GameIds, ResolveTimeout(g) PROVE Goal
  BY <1>7, TimeoutSettles DEF W!Move
<1>8. ASSUME NEW g \in GameIds, NEW caller \in Accounts, CloseGame(g, caller) PROVE Goal
  BY <1>8, CloseKeepsPurses DEF W!Move
<1>9. ASSUME NEW t \in Tournaments, NEW p \in Players, ClaimReward(t, p) PROVE Goal
  BY <1>9, ClaimRewards DEF W!Move
<1>10. ASSUME NEW t \in Tournaments,
              \/ \E w \in Windows : CreateTournament(t, w[1], w[2])
              \/ \E root \in HonestRoots(t) : FinalizeTournament(t, root)
       PROVE  Goal
  BY <1>10, TournamentsKeep
<1>11. ASSUME UNCHANGED <<wallet, escrows, games, gameCount, tournaments>> PROVE Goal
  BY <1>11 DEF W!state, Pledged, Wagers, Pools
<1>12. ASSUME TickSlot \/ TickTime \/ UNCHANGED vars PROVE Goal
  BY <1>11, <1>12 DEF TickSlot, TickTime, vars
<1>13. ASSUME NEW bps, NEW treasury, NEW matchmaker, NEW authority,
              UpdateConfig(bps, treasury, matchmaker, authority)
       PROVE  Goal
  BY <1>11, <1>13 DEF UpdateConfig
<1> HIDE DEF Goal
<1>14. Goal
  <2>1. ASSUME NEW g \in GameIds, Deals(g) PROVE Goal
    BY <1>5, <1>6, <1>7, <1>8, <2>1 DEF Deals
  <2>2. ASSUME NEW t \in Tournaments, Runs(t) PROVE Goal
    BY <1>9, <1>10, <2>2 DEF Runs
  <2>3. QED
    BY <1>1, <1>2, <1>3, <1>4, <1>12, <1>13, <2>1, <2>2 DEF Next, Deals, Runs
<1>15. QED
  BY <1>14 DEF Goal

LEMMA TournamentsStart == Init => TournamentsReal
<1> SUFFICES ASSUME Init PROVE TournamentsReal
  OBVIOUS
<1>1. \A t \in Tournaments : tournaments[t].lamports = 0
  BY DEF Init, NoTournament
<1>2. \A g \in GameIds : games[g].state = "Absent"
  BY DEF Init, NoGame
<1>3. QED
  BY <1>1, <1>2 DEF TournamentsReal

(* Every state of the program has real tournaments: the strengthening the  *)
(* refinement needs beside the inductive invariant.                        *)
THEOREM TournamentsExist == Spec => []TournamentsReal
<1>1. IInv /\ TournamentsReal /\ [Next]_vars => TournamentsReal'
  BY RealStep DEF IInv
<1>2. QED
  BY <1>1, TournamentsStart, InvariantHolds, PTL DEF Spec

(* The program implements the wager contract: whatever instructions come,  *)
(* money moves only by pledging, taking back, opening, matching, settling  *)
(* in one of the ways of the contract, and claiming from a pool.           *)
THEOREM GameImplementsWager == Spec => ImplementsWager
<1>1. IInv /\ TournamentsReal /\ [Next]_vars => [W!Next]_(W!state)
  BY WagerMoves DEF W!Next
<1>2. QED
  BY <1>1, WagerInit, InvariantHolds, TournamentsExist, PTL DEF Spec, W!Spec, ImplementsWager

-----------------------------------------------------------------------------
(* No move of the contract creates or destroys money, so no instruction of *)
(* the program does.                                                       *)

(* The four totals.                                                        *)
InWallets == SumFunction(wallet)
Staked == TableSum(Pledged, Tournaments)
PotsOf(wagers) == [g \in GameIds |-> wagers[g].pot]
AtPlay == SumFunction(PotsOf(Wagers))
InPools == SumFunction(Pools)

LEMMA FiniteAccounts ==
  /\ IsFiniteSet(Accounts) /\ IsFiniteSet(Players) /\ IsFiniteSet(Tournaments)
  /\ IsFiniteSet(GameIds)
<1>1. IsFiniteSet(Players \cup Keys)
  BY GameAssumption, FS_Union
<1>2. MaxGames - 1 \in Int /\ 0 \in Int
  BY GameAssumption
<1>3. IsFiniteSet(0 .. (MaxGames - 1))
  BY <1>2, FS_Interval
<1>4. QED
  BY <1>1, <1>3, GameAssumption DEF Accounts, GameIds

LEMMA MoneyTyped ==
  ASSUME TypeOK
  PROVE  /\ wallet \in [Accounts -> Int] /\ InWallets \in Int
         /\ Pledged \in [Tournaments -> [Players -> Int]] /\ Staked \in Int
         /\ PotsOf(Wagers) \in [GameIds -> Int] /\ AtPlay \in Int
         /\ Pools \in [Tournaments -> Int] /\ InPools \in Int
<1>1. wallet \in [Accounts -> Int]
  BY DEF TypeOK
<1>2. Pledged \in [Tournaments -> [Players -> Int]]
  BY DEF TypeOK, Pledged, Escrows
<1>3. \A g \in GameIds : Wagers[g].pot \in Int
  BY DEF TypeOK, Wagers, WagerOf, Games
<1>4. PotsOf(Wagers) \in [GameIds -> Int]
  BY <1>3 DEF PotsOf
<1>5. Pools \in [Tournaments -> Int]
  BY DEF TypeOK, Pools, TournamentRecords
<1>6. Staked \in Int
  BY <1>2, FiniteAccounts, TableSumType DEF Staked
<1>7. QED
  BY <1>1, <1>2, <1>4, <1>5, <1>6, FiniteAccounts, SumFunctionType DEF InWallets, AtPlay, InPools

(* The contract adds up with the same operator.                            *)
LEMMA SameSum == \A f : W!SumFunction(f) = SumFunction(f)
BY DEF W!SumFunction, W!SumFunctionOnSet, W!FoldFunctionOnSet, W!MapThenFoldSet,
       SumFunction, SumFunctionOnSet, FoldFunctionOnSet, MapThenFoldSet

LEMMA WorthIs ==
  /\ W!Worth = InWallets + Staked + AtPlay + InPools
  /\ W!Worth' = InWallets' + Staked' + AtPlay' + InPools'
BY SameSum DEF W!Worth, InWallets, Staked, TableSum, PotsOf, AtPlay, InPools

(* How the totals follow the accounts.                                     *)
LEMMA PaidSum ==
  ASSUME NEW S, IsFiniteSet(S), NEW book \in [S -> Int], NEW a \in S, NEW n \in Int,
         NEW next, next = W!Paid(book, a, n)
  PROVE  next \in [S -> Int] /\ SumFunction(next) = SumFunction(book) + n
<1> DEFINE v == book[a] + n
<1>1. Rewritten(book, next, a, v) /\ v \in Int /\ v - book[a] = n
  BY DEF W!Paid, Rewritten
<1> HIDE DEF v
<1>2. QED
  BY <1>1, SumExcept

LEMMA StakedAfter ==
  ASSUME TypeOK, NEW t \in Tournaments, NEW p \in Players, NEW v \in Int,
         RewrittenAt(Pledged, Pledged', t, p, v)
  PROVE  Staked' = Staked + (v - Pledged[t][p])
<1>1. Pledged \in [Tournaments -> [Players -> Int]]
  BY MoneyTyped
<1>2. TableSum(Pledged', Tournaments) = TableSum(Pledged, Tournaments) + (v - Pledged[t][p])
  BY <1>1, FiniteAccounts, TableSumExcept
<1>3. QED
  BY <1>2 DEF Staked

LEMMA AtPlayAfter ==
  ASSUME TypeOK, NEW g \in GameIds, NEW w, w.pot \in Int,
         Wagers' = [Wagers EXCEPT ![g] = w]
  PROVE  AtPlay' = AtPlay + (w.pot - Wagers[g].pot)
<1>1. PotsOf(Wagers) \in [GameIds -> Int] /\ PotsOf(Wagers)[g] = Wagers[g].pot
  BY MoneyTyped DEF PotsOf
<1>2. Rewritten(PotsOf(Wagers), PotsOf(Wagers'), g, w.pot)
  BY DEF Wagers, PotsOf, Rewritten
<1>3. SumFunction(PotsOf(Wagers')) = SumFunction(PotsOf(Wagers)) + (w.pot - PotsOf(Wagers)[g])
  BY <1>1, <1>2, FiniteAccounts, SumExcept
<1>4. QED
  BY <1>1, <1>3 DEF AtPlay

(* A wager holds what its stage says.                                      *)
LEMMA PotByStage ==
  ASSUME IInv, NEW g \in GameIds
  PROVE  Wagers[g].pot = CASE Wagers[g].stage = "Open"    -> Stake
                           [] Wagers[g].stage = "Matched" -> 2 * Stake
                           [] OTHER                       -> 0
<1>1. games[g] \in Games /\ games[g].lamports = Pot(games[g])
  BY DEF IInv, TypeOK, GameInv
<1>2. Wagers[g].pot = games[g].lamports /\ Wagers[g].stage = StageOf(games[g], g < gameCount)
  BY DEF Wagers, WagerOf
<1>3. QED
  BY <1>1, <1>2 DEF Pot, StageOf, Running

LEMMA SettleConserves ==
  ASSUME IInv, NEW g \in GameIds, W!Settle(g)
  PROVE  W!Worth' = W!Worth
<1>1. TypeOK /\ Stake \in Nat
  BY GameAssumption DEF IInv
<1> DEFINE w == Wagers[g]
<1>2. PICK a \in w.parties, b \in w.parties, outcome \in W!Outcomes, key \in Keys,
           fee \in 0 .. 2 * Stake : W!Divide(w.event, a, b, outcome, key, fee)
  BY DEF W!Settle
<1>3. outcome[1] \in Int /\ outcome[2] \in Int /\ fee \in Int
  BY <1>1 DEF W!Outcomes
<1> DEFINE rest == 2 * Stake - outcome[1] - outcome[2]
           one == W!Paid(wallet, a, outcome[1])
           two == W!Paid(one, b, outcome[2])
<1>4. /\ Pools' = W!Paid(Pools, w.event, rest - fee) /\ wallet' = W!Paid(two, key, fee)
      /\ rest - fee \in Int
  BY <1>1, <1>2, <1>3 DEF W!Divide
<1>5. a \in Accounts /\ b \in Accounts /\ key \in Accounts /\ w.event \in Tournaments
  BY <1>1, <1>2 DEF TypeOK, Wagers, WagerOf, Parties, Games, Accounts
<1>6. Wagers' = [Wagers EXCEPT ![g] =
          [stage |-> "Settled", event |-> w.event, parties |-> w.parties, pot |-> 0]]
      /\ Pledged' = Pledged /\ w.stage = "Matched"
  BY DEF W!Settle
<1>7. w.pot = 2 * Stake
  BY <1>6, PotByStage
<1>8. AtPlay' = AtPlay + (0 - 2 * Stake)
  <2> DEFINE over == [stage |-> "Settled", event |-> w.event, parties |-> w.parties, pot |-> 0]
  <2>1. over.pot = 0 /\ over.pot \in Int /\ Wagers' = [Wagers EXCEPT ![g] = over]
    BY <1>6
  <2> HIDE DEF over
  <2>2. AtPlay' = AtPlay + (over.pot - Wagers[g].pot)
    BY <1>1, <2>1, AtPlayAfter
  <2>3. QED
    BY <1>7, <2>1, <2>2
<1> HIDE DEF w
<1>9. InPools' = InPools + (rest - fee)
  <2> DEFINE n == rest - fee
  <2>1. n \in Int /\ Pools' = W!Paid(Pools, w.event, n) /\ Pools \in [Tournaments -> Int]
    BY <1>1, <1>4, MoneyTyped
  <2> HIDE DEF n
  <2>2. SumFunction(Pools') = SumFunction(Pools) + n
    BY <1>5, <2>1, FiniteAccounts, PaidSum
  <2>3. QED
    BY <2>2 DEF InPools, n
<1>10. InWallets' = InWallets + (outcome[1] + outcome[2] + fee)
  <2> DEFINE x == outcome[1]
             y == outcome[2]
  <2>1. x \in Int /\ y \in Int /\ one = W!Paid(wallet, a, x) /\ two = W!Paid(one, b, y)
        /\ wallet \in [Accounts -> Int] /\ InWallets \in Int
    BY <1>1, <1>3, MoneyTyped
  <2> HIDE DEF one, two, x, y
  <2>2. one \in [Accounts -> Int] /\ SumFunction(one) = SumFunction(wallet) + x
    BY <1>5, <2>1, FiniteAccounts, PaidSum
  <2>3. two \in [Accounts -> Int] /\ SumFunction(two) = SumFunction(one) + y
    BY <1>5, <2>1, <2>2, FiniteAccounts, PaidSum
  <2>4. SumFunction(wallet') = SumFunction(two) + fee
    BY <1>3, <1>4, <1>5, <2>3, FiniteAccounts, PaidSum
  <2>5. InWallets' = InWallets + (x + y + fee)
    BY <1>3, <2>1, <2>2, <2>3, <2>4 DEF InWallets
  <2>6. QED
    BY <2>5 DEF x, y
<1>11. Staked' = Staked
  BY <1>6 DEF Staked
<1> DEFINE n == outcome[1] + outcome[2] + fee
           m == 0 - 2 * Stake
           r == rest - fee
<1>12. n \in Int /\ m \in Int /\ r \in Int /\ n + m + r = 0
  BY <1>1, <1>3
<1>13. InWallets' = InWallets + n /\ AtPlay' = AtPlay + m /\ InPools' = InPools + r
  BY <1>8, <1>9, <1>10
<1> HIDE DEF n, m, r
<1>14. InWallets \in Int /\ Staked \in Int /\ AtPlay \in Int /\ InPools \in Int
  BY <1>1, MoneyTyped
<1>15. QED
  BY <1>11, <1>12, <1>13, <1>14, WorthIs

LEMMA MovesConserve ==
  ASSUME IInv, W!Move
  PROVE  W!Worth' = W!Worth
<1>1. TypeOK /\ Stake \in Nat /\ Stake \in Int
  BY GameAssumption DEF IInv
<1>2. /\ wallet \in [Accounts -> Int] /\ InWallets \in Int
      /\ Staked \in Int /\ AtPlay \in Int
      /\ Pools \in [Tournaments -> Int] /\ InPools \in Int
  BY <1>1, MoneyTyped
<1>3. /\ UNCHANGED wallet => UNCHANGED InWallets
      /\ UNCHANGED Pledged => UNCHANGED Staked
      /\ UNCHANGED Wagers => UNCHANGED AtPlay
      /\ UNCHANGED Pools => UNCHANGED InPools
  BY DEF InWallets, Staked, AtPlay, InPools
<1>4. ASSUME NEW a \in Accounts, NEW n \in Int, wallet' = W!Paid(wallet, a, n)
      PROVE  InWallets' = InWallets + n
  <2>1. SumFunction(wallet') = SumFunction(wallet) + n
    BY <1>2, <1>4, FiniteAccounts, PaidSum
  <2>2. QED
    BY <2>1 DEF InWallets
<1>5. ASSUME NEW t \in Tournaments, NEW n \in Int, Pools' = W!Paid(Pools, t, n)
      PROVE  InPools' = InPools + n
  <2>1. SumFunction(Pools') = SumFunction(Pools) + n
    BY <1>2, <1>5, FiniteAccounts, PaidSum
  <2>2. QED
    BY <2>1 DEF InPools
<1>6. ASSUME NEW t \in Tournaments, NEW p \in Players, Pledged[t][p] = Stake,
             Pledged' = [Pledged EXCEPT ![t][p] = 0]
      PROVE  Staked' = Staked + (-Stake)
  <2>1. RewrittenAt(Pledged, Pledged', t, p, 0)
    BY <1>6 DEF RewrittenAt
  <2>2. Staked' = Staked + (0 - Pledged[t][p])
    BY <1>1, <2>1, StakedAfter
  <2>3. QED
    BY <1>1, <1>6, <2>2
<1>7. -Stake \in Int /\ 0 \in Int /\ 2 * Stake \in Int
  BY <1>1
<1>8. ASSUME NEW t \in Tournaments, NEW p \in Players, NEW backer \in Accounts,
             W!Pledge(t, p, backer)
      PROVE  W!Worth' = W!Worth
  <2>1. /\ Pledged[t][p] = 0 /\ RewrittenAt(Pledged, Pledged', t, p, Stake)
        /\ wallet' = W!Paid(wallet, backer, -Stake)
        /\ Wagers' = Wagers /\ Pools' = Pools
    BY <1>8 DEF W!Pledge, RewrittenAt
  <2>2. Staked' = Staked + Stake
    <3>1. Staked' = Staked + (Stake - Pledged[t][p])
      BY <1>1, <2>1, StakedAfter
    <3>2. QED
      BY <1>1, <2>1, <3>1
  <2>3. InWallets' = InWallets + (-Stake)
    BY <1>4, <1>7, <2>1
  <2>4. QED
    BY <1>1, <1>2, <1>3, <2>1, <2>2, <2>3, WorthIs
<1>9. ASSUME NEW t \in Tournaments, NEW p \in Players, W!TakeBack(t, p)
      PROVE  W!Worth' = W!Worth
  <2>1. /\ Pledged[t][p] = Stake /\ Pledged' = [Pledged EXCEPT ![t][p] = 0]
        /\ wallet' = W!Paid(wallet, p, Stake) /\ p \in Accounts
        /\ Wagers' = Wagers /\ Pools' = Pools
    BY <1>9 DEF W!TakeBack, Accounts
  <2>2. Staked' = Staked + (-Stake) /\ InWallets' = InWallets + Stake
    BY <1>1, <1>4, <1>6, <2>1
  <2>3. QED
    BY <1>1, <1>2, <1>3, <2>1, <2>2, WorthIs
<1>10. ASSUME NEW g \in GameIds, NEW t \in Tournaments, NEW p \in Players, W!Open(g, t, p)
       PROVE  W!Worth' = W!Worth
  <2> DEFINE w == [stage |-> "Open", event |-> t, parties |-> {p}, pot |-> Stake]
  <2>1. /\ Pledged[t][p] = Stake /\ Pledged' = [Pledged EXCEPT ![t][p] = 0]
        /\ Wagers[g].stage = "Unborn" /\ Wagers' = [Wagers EXCEPT ![g] = w]
        /\ w.pot = Stake /\ wallet' = wallet /\ Pools' = Pools
    BY <1>10 DEF W!Open
  <2> HIDE DEF w
  <2>2. Staked' = Staked + (-Stake)
    BY <1>6, <2>1
  <2>3. AtPlay' = AtPlay + Stake
    <3>1. AtPlay' = AtPlay + (w.pot - Wagers[g].pot)
      BY <1>1, <2>1, AtPlayAfter
    <3>2. Wagers[g].pot = 0
      BY <2>1, PotByStage
    <3>3. QED
      BY <1>1, <2>1, <3>1, <3>2
  <2>4. QED
    BY <1>1, <1>2, <1>3, <2>1, <2>2, <2>3, WorthIs
<1>11. ASSUME NEW g \in GameIds, NEW p \in Players, W!Match(g, p)
       PROVE  W!Worth' = W!Worth
  <2> DEFINE t == Wagers[g].event
             w == [stage |-> "Matched", event |-> t, parties |-> Wagers[g].parties \cup {p},
                   pot |-> 2 * Stake]
  <2>1. /\ Pledged[t][p] = Stake /\ Pledged' = [Pledged EXCEPT ![t][p] = 0]
        /\ Wagers[g].stage = "Open" /\ Wagers' = [Wagers EXCEPT ![g] = w]
        /\ w.pot = 2 * Stake /\ wallet' = wallet /\ Pools' = Pools
    BY <1>11 DEF W!Match
  <2>2. t \in Tournaments
    BY <1>1 DEF TypeOK, Wagers, WagerOf, Games
  <2> HIDE DEF t, w
  <2>3. Staked' = Staked + (-Stake)
    BY <1>6, <2>1, <2>2
  <2>4. AtPlay' = AtPlay + Stake
    <3>1. AtPlay' = AtPlay + (w.pot - Wagers[g].pot)
      BY <1>1, <1>7, <2>1, AtPlayAfter
    <3>2. Wagers[g].pot = Stake
      BY <2>1, PotByStage
    <3>3. QED
      BY <1>1, <2>1, <3>1, <3>2
  <2>5. QED
    BY <1>1, <1>2, <1>3, <2>1, <2>3, <2>4, WorthIs
<1>12. ASSUME NEW g \in GameIds, W!Forget(g)
       PROVE  W!Worth' = W!Worth
  <2> DEFINE over == [W!NoWager EXCEPT !.stage = "Over"]
  <2>1. /\ Wagers[g].stage = "Settled" /\ Wagers' = [Wagers EXCEPT ![g] = over]
        /\ over.pot = 0 /\ wallet' = wallet /\ Pools' = Pools /\ Pledged' = Pledged
    BY <1>12 DEF W!Forget, W!NoWager
  <2> HIDE DEF over
  <2>2. AtPlay' = AtPlay
    <3>1. AtPlay' = AtPlay + (over.pot - Wagers[g].pot)
      BY <1>1, <1>7, <2>1, AtPlayAfter
    <3>2. Wagers[g].pot = 0
      BY <2>1, PotByStage
    <3>3. QED
      BY <1>2, <2>1, <3>1, <3>2
  <2>3. QED
    BY <1>1, <1>2, <1>3, <2>1, <2>2, WorthIs
<1>13. ASSUME NEW t \in Tournaments, NEW p \in Players, NEW amount, W!Reward(t, p, amount)
       PROVE  W!Worth' = W!Worth
  <2>1. /\ amount \in Int /\ -amount \in Int /\ p \in Accounts
        /\ Pools' = W!Paid(Pools, t, -amount) /\ wallet' = W!Paid(wallet, p, amount)
        /\ Pledged' = Pledged /\ Wagers' = Wagers
    BY <1>2, <1>13 DEF W!Reward, Accounts
  <2>2. InPools' = InPools + (-amount) /\ InWallets' = InWallets + amount
    BY <1>4, <1>5, <2>1
  <2>3. QED
    BY <1>1, <1>2, <1>3, <2>1, <2>2, WorthIs
<1>14. QED
  BY <1>8, <1>9, <1>10, <1>11, <1>12, <1>13, SettleConserves DEF W!Move

LEMMA WorthAtStart == Init => Conservation
<1> SUFFICES ASSUME Init PROVE Conservation
  OBVIOUS
<1>1. InWallets = Funds * Cardinality(Players)
  <2> DEFINE P == Players
  <2>1. wallet = [x \in Accounts |-> IF x \in P THEN Funds ELSE 0] /\ P \in SUBSET Accounts
    BY DEF Init, Accounts
  <2>2. Funds \in Int
    BY GameAssumption
  <2> HIDE DEF P
  <2>3. QED
    BY <2>1, <2>2, FiniteAccounts, SumOfShares DEF InWallets, P
<1>2. InPools = 0
  <2>1. Pools = [t \in Tournaments |-> 0]
    BY DEF Init, Pools, NoTournament
  <2>2. QED
    BY <2>1, FiniteAccounts, SumOfNothing DEF InPools
<1>3. Staked = 0
  <2>1. \A t \in Tournaments : Pledged[t] = [p \in Players |-> 0]
    BY DEF Init, Pledged, NoEscrow
  <2>2. \A t \in Tournaments : SumFunction(Pledged[t]) = 0
    BY <2>1, FiniteAccounts, SumOfNothing
  <2>3. [t \in Tournaments |-> SumFunction(Pledged[t])] = [t \in Tournaments |-> 0]
    BY <2>2
  <2>4. QED
    BY <2>3, FiniteAccounts, SumOfNothing DEF Staked, TableSum
<1>4. AtPlay = 0
  <2>1. PotsOf(Wagers) = [g \in GameIds |-> 0]
    BY DEF Init, Wagers, WagerOf, NoGame, PotsOf
  <2>2. QED
    BY <2>1, FiniteAccounts, SumOfNothing DEF AtPlay
<1>5. Funds * Cardinality(Players) \in Int
  <2>1. Cardinality(Players) \in Nat /\ Funds \in Nat
    BY GameAssumption, FS_CardinalityType
  <2>2. QED
    BY <2>1
<1>6. QED
  BY <1>1, <1>2, <1>3, <1>4, <1>5, WorthIs DEF Conservation

(* No step of the game changes what there is altogether.                   *)
LEMMA StepConserves == IInv /\ TournamentsReal /\ [Next]_vars => W!Worth' = W!Worth
<1>1. SUFFICES ASSUME IInv, TournamentsReal, [Next]_vars PROVE W!Worth' = W!Worth
  OBVIOUS
<1>2. CASE W!Move
  BY <1>1, <1>2, MovesConserve
<1>3. CASE UNCHANGED W!state
  BY <1>3 DEF W!state, W!Worth
<1>4. QED
  BY <1>1, <1>2, <1>3, WagerMoves

(* Whatever is sent, the lamports of wallets, escrows, games and           *)
(* tournaments together are those the players brought: no rounding, no     *)
(* refund and no closing of an account loses one or makes one.             *)
THEOREM MoneyConserved == Spec => []Conservation
<1>1. IInv /\ TournamentsReal /\ Conservation /\ [Next]_vars => Conservation'
  BY StepConserves DEF Conservation
<1>2. QED
  BY <1>1, WorthAtStart, InvariantHolds, TournamentsExist, PTL DEF Spec

-----------------------------------------------------------------------------
(* The books of a tournament: its account, its prize, the games it counts  *)
(* and the profiles of its players.                                        *)

Claims(table, root) == [p \in Players |-> IF table[p].claimed THEN root[p] ELSE 0]
GamesPlayed(table) == [p \in Players |-> table[p].games]

(* The inductive invariant.  Nobody has claimed before the root is posted, *)
(* which happens once, and the prize it divides only grows.                *)
Booked(tournament, table) ==
  /\ tournament.lamports + SumFunction(Claims(table, tournament.root)) = tournament.prize
  /\ SumFunction(GamesPlayed(table)) = 2 * tournament.gameCount
  /\ tournament.finalized => SumFunction(tournament.root) <= tournament.prize
  /\ \A p \in Players : table[p].claimed => tournament.finalized
  /\ ~tournament.exists => ~tournament.finalized /\ tournament.gameCount = 0

BooksInv == \A t \in Tournaments : Booked(tournaments[t], profiles[t])

LEMMA BooksTyped ==
  ASSUME NEW tournament \in TournamentRecords, NEW table \in [Players -> Profiles]
  PROVE  /\ tournament.lamports \in Nat /\ tournament.prize \in Nat
         /\ tournament.gameCount \in Nat /\ tournament.root \in [Players -> Int]
         /\ Claims(table, tournament.root) \in [Players -> Int]
         /\ GamesPlayed(table) \in [Players -> Int]
         /\ SumFunction(tournament.root) \in Int
         /\ SumFunction(Claims(table, tournament.root)) \in Int
         /\ SumFunction(GamesPlayed(table)) \in Int
<1>1. /\ tournament.lamports \in Nat /\ tournament.prize \in Nat
      /\ tournament.gameCount \in Nat /\ tournament.root \in [Players -> Int]
  BY DEF TournamentRecords
<1>2. Claims(table, tournament.root) \in [Players -> Int]
  BY <1>1 DEF Claims
<1>3. GamesPlayed(table) \in [Players -> Int]
  BY DEF GamesPlayed, Profiles
<1>4. QED
  BY <1>1, <1>2, <1>3, FiniteAccounts, SumFunctionType

(* Profiles that agree on games and claims are the same to the books.      *)
LEMMA SameBooks ==
  ASSUME NEW tournament, NEW table, NEW next, Booked(tournament, table),
         \A p \in Players :
           next[p].claimed = table[p].claimed /\ next[p].games = table[p].games
  PROVE  Booked(tournament, next)
<1>1. Claims(next, tournament.root) = Claims(table, tournament.root) /\ GamesPlayed(next) = GamesPlayed(table)
  BY DEF Claims, GamesPlayed
<1>2. QED
  BY <1>1 DEF Booked

(* Starting a game does not touch them.                                    *)
LEMMA EntryBooked ==
  ASSUME TypeOK, BooksInv, NEW t \in Tournaments, NEW p \in Players,
         profiles' = [profiles EXCEPT ![t][p] = InitIfNew(profiles[t][p])],
         tournaments' = tournaments
  PROVE  BooksInv'
<1>1. profiles \in [Tournaments -> [Players -> Profiles]]
  BY DEF TypeOK
<1> DEFINE old == profiles[t][p]
           new == InitIfNew(profiles[t][p])
<1>2. old \in Profiles
  BY <1>1
<1>3. new.claimed = old.claimed /\ new.games = old.games
  BY <1>2 DEF InitIfNew, NewProfile, Profiles
<1>4. \A u \in Tournaments, q \in Players :
        profiles'[u][q] = IF u = t /\ q = p THEN new ELSE profiles[u][q]
  BY <1>1
<1> HIDE DEF new
<1>5. \A u \in Tournaments, q \in Players :
        /\ profiles'[u][q].claimed = profiles[u][q].claimed
        /\ profiles'[u][q].games = profiles[u][q].games
  BY <1>3, <1>4
<1>6. ASSUME NEW u \in Tournaments
      PROVE  Booked(tournaments[u], profiles'[u])
  <2> DEFINE tournament == tournaments[u]
             table == profiles[u]
             next == profiles'[u]
  <2>1. /\ Booked(tournament, table)
        /\ \A q \in Players :
             next[q].claimed = table[q].claimed /\ next[q].games = table[q].games
    BY <1>5 DEF BooksInv
  <2> HIDE DEF tournament, table, next
  <2>2. Booked(tournament, next)
    BY <2>1, SameBooks
  <2>3. QED
    BY <2>2 DEF tournament, next
<1>7. QED
  BY <1>6 DEF BooksInv

(* A settled game counts once in the tournament and in two profiles, or,   *)
(* late and without a gain, nowhere.                                       *)
LEMMA SettledBooks ==
  ASSUME NEW tournament \in TournamentRecords, NEW table \in [Players -> Profiles],
         Booked(tournament, table), tournament.exists, NEW share \in Nat,
         NEW players, players[1] \in Players, players[2] \in Players,
         players[1] # players[2], NEW winners, NEW counts \in BOOLEAN, counts \/ share = 0
  PROVE  Booked(Contribute(tournament, share, counts),
                IF counts THEN CreditAll(players, winners, table) ELSE table)
<1> DEFINE next == CreditAll(players, winners, table)
           after == Contribute(tournament, share, counts)
<1>1. CASE ~counts
  <2>1. after.lamports = tournament.lamports
    <3>1. tournament.lamports \in Nat /\ share = 0
      BY <1>1 DEF TournamentRecords
    <3>2. tournament.lamports + share = tournament.lamports
      BY <3>1
    <3>3. QED
      BY <1>1, <3>2 DEF Contribute, TournamentRecords
  <2>2. /\ after.prize = tournament.prize
        /\ after.gameCount = tournament.gameCount /\ after.finalized = tournament.finalized
        /\ after.root = tournament.root /\ after.exists = tournament.exists
    BY <1>1 DEF Contribute, TournamentRecords
  <2> HIDE DEF after
  <2>3. Booked(after, table)
    BY <2>1, <2>2 DEF Booked
  <2>4. QED
    BY <1>1, <2>3 DEF after
<1>2. CASE counts
  <2>1. /\ after.lamports = tournament.lamports + share /\ after.prize = tournament.prize + share
        /\ after.gameCount = tournament.gameCount + 1 /\ after.finalized = tournament.finalized
        /\ after.root = tournament.root /\ after.exists = tournament.exists
    BY <1>2 DEF Contribute, TournamentRecords
  <2>2. /\ next[players[1]] = Credit(table[players[1]], 1, winners)
        /\ next[players[2]] = Credit(table[players[2]], 2, winners)
        /\ \A p \in Players : p # players[1] /\ p # players[2] => next[p] = table[p]
    BY DEF CreditAll
  <2>3. \A p \in Players, i \in Seats :
          /\ Credit(table[p], i, winners).claimed = table[p].claimed
          /\ Credit(table[p], i, winners).games = table[p].games + 1
    BY DEF Credit, Profiles
  <2>4. 1 \in Seats /\ 2 \in Seats
    BY DEF Seats
  <2> HIDE DEF next
  <2>5. /\ next[players[1]].games = table[players[1]].games + 1
        /\ next[players[2]].games = table[players[2]].games + 1
        /\ \A p \in Players : next[p].claimed = table[p].claimed
    BY <2>2, <2>3, <2>4
  <2>6. next \in [Players -> Profiles]
    BY CreditAllType DEF next
  <2> DEFINE x == players[1]
             y == players[2]
             f == GamesPlayed(table)
             g == GamesPlayed(next)
  <2>7. f \in [Players -> Int] /\ g \in [Players -> Int] /\ SumFunction(f) \in Int
    BY <2>6, BooksTyped
  <2>8. /\ g[x] = f[x] + 1 /\ g[y] = f[y] + 1
        /\ \A p \in Players : p # x /\ p # y => g[p] = f[p]
    BY <2>2, <2>5 DEF GamesPlayed
  <2>9. x \in Players /\ y \in Players /\ x # y
    OBVIOUS
  <2> HIDE DEF f, g, x, y
  <2>10. SumFunction(g) = SumFunction(f) + (g[x] - f[x]) + (g[y] - f[y])
    BY <2>7, <2>8, <2>9, FiniteAccounts, SumDiffersTwice
  <2>11. SumFunction(g) = SumFunction(f) + 2
    <3>1. f[x] \in Int /\ f[y] \in Int
      BY <2>7, <2>9
    <3>2. QED
      BY <2>7, <2>8, <2>10, <3>1
  <2>12. SumFunction(GamesPlayed(next)) = SumFunction(GamesPlayed(table)) + 2
    BY <2>11 DEF f, g
  <2>13. Claims(next, tournament.root) = Claims(table, tournament.root)
    BY <2>5 DEF Claims
  <2>14. /\ tournament.lamports \in Nat /\ tournament.prize \in Nat
         /\ tournament.gameCount \in Nat /\ SumFunction(tournament.root) \in Int
         /\ SumFunction(Claims(table, tournament.root)) \in Int
         /\ SumFunction(GamesPlayed(table)) \in Int
    BY BooksTyped
  <2> HIDE DEF after
  <2>15. after.lamports + SumFunction(Claims(next, after.root)) = after.prize
    BY <2>1, <2>13, <2>14 DEF Booked
  <2>16. SumFunction(GamesPlayed(next)) = 2 * after.gameCount
    BY <2>1, <2>12, <2>14 DEF Booked
  <2>17. after.finalized => SumFunction(after.root) <= after.prize
    BY <2>1, <2>14 DEF Booked
  <2>18. /\ \A p \in Players : next[p].claimed => after.finalized
         /\ after.exists
    BY <2>1, <2>5 DEF Booked
  <2>19. Booked(after, next)
    BY <2>15, <2>16, <2>17, <2>18 DEF Booked
  <2>20. QED
    BY <1>2, <2>19 DEF after, next
<1>3. QED
  BY <1>1, <1>2

LEMMA SettleBooked ==
  ASSUME TypeOK, TournamentsReal, BooksInv, NEW g \in GameIds, NEW game \in Games,
         games[g].state # "Absent", game.tournament = games[g].tournament,
         {game.player[1], game.player[2]} \subseteq Players, game.player[1] # game.player[2],
         NEW ret, NEW gain \in Nat, NEW winners, NEW counts \in BOOLEAN, counts \/ gain = 0,
         Settle(g, game, ret, gain, winners, counts)
  PROVE  BooksInv'
<1> DEFINE t == game.tournament
           share == TournamentShare(gain, config.bps)
           next == IF counts THEN CreditAll(game.player, winners, profiles[t]) ELSE profiles[t]
           after == Contribute(tournaments[t], share, counts)
<1>1. /\ t \in Tournaments /\ tournaments[t].exists
      /\ tournaments \in [Tournaments -> TournamentRecords]
      /\ profiles \in [Tournaments -> [Players -> Profiles]]
      /\ config.bps \in SplitRange
  BY GameAssumption DEF TypeOK, TournamentsReal, Games, Configs
<1>2. share \in Nat /\ (gain = 0 => share = 0)
  <2>1. /\ TreasuryShare(gain, config.bps) \in Nat /\ share \in Nat
        /\ TreasuryShare(gain, config.bps) + share = gain
    BY <1>1, SplitConserves
  <2> HIDE DEF share
  <2>2. QED
    BY <2>1
<1>3. /\ tournaments' = [tournaments EXCEPT ![t] = after]
      /\ profiles' = IF counts THEN [profiles EXCEPT ![t] = next] ELSE profiles
  BY DEF Settle
<1>4. /\ tournaments'[t] = after /\ profiles'[t] = next
      /\ \A u \in Tournaments : u # t =>
           tournaments'[u] = tournaments[u] /\ profiles'[u] = profiles[u]
  BY <1>1, <1>3
<1>5. Booked(after, next)
  <2> DEFINE tour == tournaments[t]
             table == profiles[t]
             n == share
  <2>1. /\ tour \in TournamentRecords /\ table \in [Players -> Profiles]
        /\ Booked(tour, table) /\ tour.exists /\ n \in Nat /\ (counts \/ n = 0)
        /\ game.player[1] \in Players /\ game.player[2] \in Players
    BY <1>1, <1>2 DEF BooksInv
  <2>2. /\ next = IF counts THEN CreditAll(game.player, winners, table) ELSE table
        /\ after = Contribute(tour, n, counts)
    OBVIOUS
  <2> HIDE DEF tour, table, n, next, after
  <2>3. QED
    BY <2>1, <2>2, SettledBooks
<1> HIDE DEF t, next, after
<1>6. QED
  BY <1>1, <1>4, <1>5 DEF BooksInv

LEMMA RevealBooked ==
  ASSUME IInv, TournamentsReal, BooksInv, NEW g \in GameIds, NEW i \in Seats, RevealGuess(g, i)
  PROVE  BooksInv'
<1> DEFINE game == Reveal(games[g], i)
           late == IsLate(game.tournament)
           refund == [ret |-> [j \in Seats |-> Stake], gain |-> 0]
           payoff == Resolution(game.matchup, game.guess, Stake, game.first)
           res == IF late THEN refund ELSE payoff
           winners == Winners(game.matchup, game.guess, res.ret)
<1>1. games[g] \in Games /\ GameInv(games[g], slot) /\ CanReveal(games[g], i) /\ slot \in Nat
  BY DEF IInv, TypeOK, RevealGuess
<1>2. game \in Games /\ TypeOK
  BY <1>1, RevealType DEF IInv
<1>3. game.guess[i] \in Bits /\ game.matchup \in Bits /\ game.first \in Seats
  BY <1>1, RevealedInv
<1>4. /\ game.guess = [games[g].guess EXCEPT ![i] = games[g].commit[i]]
      /\ games[g].state # "Absent"
      /\ game.tournament = games[g].tournament /\ game.player = games[g].player
  BY <1>1 DEF Reveal, CanReveal, Games
<1>5. Other(i) \in Seats /\ Other(i) # i /\ Seats = {i, Other(i)}
  BY DEF Other, Seats
<1>6. {game.player[1], game.player[2]} \subseteq Players /\ game.player[1] # game.player[2]
  BY <1>1, <1>4 DEF GameInv, Shaped, Running, Seated, Games, Seats, CanReveal
<1>7. CASE UNCHANGED <<tournaments, profiles>>
  BY <1>7 DEF BooksInv
<1>8. CASE game.guess[Other(i)] # Unset /\ Settle(g, game, res.ret, res.gain, winners, ~late)
  <2>1. game.guess \in [Seats -> Bits] /\ Stake \in Nat \ {0}
    BY GameAssumption, <1>2, <1>3, <1>5, <1>8 DEF Games
  <2>2. late \in BOOLEAN /\ (~late) \in BOOLEAN
    BY DEF IsLate
  <2> HIDE DEF game, late, winners
  <2>3. payoff.gain \in Nat
    <3> HIDE DEF refund, res
    <3>1. game.matchup \in Bits /\ game.first \in Seats
      BY <1>3
    <3>2. QED
      BY <2>1, <3>1, ResolutionConserves
  <2>4. res.gain \in Nat /\ (late => res.gain = 0)
    BY <2>3
  <2> HIDE DEF res
  <2>5. QED
    BY <1>2, <1>4, <1>6, <1>8, <2>2, <2>4, SettleBooked
<1>9. QED
  BY <1>7, <1>8 DEF RevealGuess

LEMMA TimeoutBooked ==
  ASSUME IInv, TournamentsReal, BooksInv, NEW g \in GameIds, ResolveTimeout(g)
  PROVE  BooksInv'
<1> DEFINE diligent == Diligent(games[g])
           ret == [k \in Seats |-> IF k \in diligent THEN 2 * Stake ELSE 0]
           gain == IF diligent = {} THEN 2 * Stake ELSE 0
<1>1. /\ TypeOK /\ games[g] \in Games /\ GameInv(games[g], slot)
      /\ games[g].state \in Running
  BY DEF IInv, TypeOK, ResolveTimeout, Overdue
<1>2. /\ {games[g].player[1], games[g].player[2]} \subseteq Players
      /\ games[g].player[1] # games[g].player[2] /\ games[g].state # "Absent"
  BY <1>1 DEF GameInv, Shaped, Seated, Games, Seats, Running
<1>3. Settle(g, games[g], ret, gain, diligent, TRUE)
  BY DEF ResolveTimeout
<1>4. gain \in Nat
  BY GameAssumption
<1> HIDE DEF diligent, ret, gain
<1>5. QED
  BY <1>1, <1>2, <1>3, <1>4, SettleBooked

(* A tournament begins with empty books.                                   *)
LEMMA CreatedBooked ==
  ASSUME TypeOK, BooksInv, NEW t \in Tournaments, NEW start \in Nat, NEW end \in Nat,
         CreateTournament(t, start, end)
  PROVE  BooksInv'
<1> DEFINE new == [NoTournament EXCEPT !.exists = TRUE, !.start = start, !.end = end]
           table == profiles[t]
           old == tournaments[t]
<1>1. /\ new.lamports = 0 /\ new.prize = 0 /\ new.gameCount = 0 /\ new.exists
      /\ ~new.finalized /\ new.root = [p \in Players |-> 0]
  BY DEF NoTournament
<1>2. /\ old \in TournamentRecords /\ table \in [Players -> Profiles]
      /\ Booked(old, table) /\ ~old.exists
  BY DEF TypeOK, BooksInv, CreateTournament
<1>3. tournaments' = [tournaments EXCEPT ![t] = new] /\ profiles' = profiles
  BY DEF CreateTournament
<1>4. tournaments'[t] = new /\ \A u \in Tournaments : u # t => tournaments'[u] = tournaments[u]
  BY <1>3 DEF TypeOK
<1> HIDE DEF new, table, old
<1>5. SumFunction(GamesPlayed(table)) = 0 /\ \A p \in Players : ~table[p].claimed
  BY <1>2 DEF Booked
<1>6. Claims(table, new.root) = [p \in Players |-> 0]
  BY <1>5 DEF Claims
<1>7. SumFunction(Claims(table, new.root)) = 0
  BY <1>6, FiniteAccounts, SumOfNothing
<1>8. Booked(new, table)
  BY <1>1, <1>5, <1>7 DEF Booked
<1>9. QED
  BY <1>3, <1>4, <1>8 DEF BooksInv, table

(* The root divides the prize there is, once.                              *)
LEMMA FinalizedBooked ==
  ASSUME TypeOK, BooksInv, NEW t \in Tournaments, NEW root \in HonestRoots(t),
         FinalizeTournament(t, root)
  PROVE  BooksInv'
<1> DEFINE old == tournaments[t]
           new == Finalized(old, root)
           table == profiles[t]
<1>1. /\ old \in TournamentRecords /\ table \in [Players -> Profiles]
      /\ Booked(old, table) /\ ~old.finalized /\ old.exists
  BY DEF TypeOK, BooksInv, FinalizeTournament, Finalizable
<1>2. /\ new.lamports = old.lamports /\ new.prize = old.prize
      /\ new.gameCount = old.gameCount /\ new.exists /\ new.finalized /\ new.root = root
  BY <1>1 DEF Finalized, TournamentRecords
<1>3. SumFunction(root) <= old.prize
  BY DEF HonestRoots
<1>4. tournaments' = [tournaments EXCEPT ![t] = new] /\ profiles' = profiles
  BY DEF FinalizeTournament
<1>5. tournaments'[t] = new /\ \A u \in Tournaments : u # t => tournaments'[u] = tournaments[u]
  BY <1>4 DEF TypeOK
<1> HIDE DEF new, table, old
<1>6. \A p \in Players : ~table[p].claimed
  BY <1>1 DEF Booked
<1>7. Claims(table, new.root) = Claims(table, old.root)
  BY <1>6 DEF Claims
<1>8. Booked(new, table)
  BY <1>1, <1>2, <1>3, <1>7 DEF Booked
<1>9. QED
  BY <1>4, <1>5, <1>8 DEF BooksInv, table

(* A reward leaves the account when it enters the claims.                  *)
LEMMA ClaimedBooked ==
  ASSUME TypeOK, BooksInv, NEW t \in Tournaments, NEW p \in Players, ClaimReward(t, p)
  PROVE  BooksInv'
<1> DEFINE old == tournaments[t]
           amount == old.root[p]
           new == Debited(old, amount)
           table == profiles[t]
           next == [table EXCEPT ![p].claimed = TRUE]
<1>1. /\ old \in TournamentRecords /\ table \in [Players -> Profiles]
      /\ Booked(old, table) /\ old.finalized /\ ~table[p].claimed
      /\ amount \in Nat
  BY DEF TypeOK, BooksInv, ClaimReward, MayClaim, TournamentRecords
<1>2. /\ new.lamports = old.lamports - amount /\ new.prize = old.prize
      /\ new.gameCount = old.gameCount /\ new.exists = old.exists
      /\ new.finalized = old.finalized /\ new.root = old.root
  BY <1>1 DEF Debited, TournamentRecords
<1>3. /\ next \in [Players -> Profiles] /\ next[p].claimed
      /\ \A q \in Players : next[q].games = table[q].games
      /\ \A q \in Players : q # p => next[q] = table[q]
  BY <1>1 DEF Profiles
<1>4. /\ tournaments' = [tournaments EXCEPT ![t] = new]
      /\ profiles' = [profiles EXCEPT ![t] = next]
  BY DEF ClaimReward, TypeOK
<1>5. /\ tournaments'[t] = new /\ profiles'[t] = next
      /\ \A u \in Tournaments : u # t =>
           tournaments'[u] = tournaments[u] /\ profiles'[u] = profiles[u]
  BY <1>4 DEF TypeOK
<1> DEFINE f == Claims(table, old.root)
           g == Claims(next, old.root)
<1>6. /\ f[p] = 0 /\ g[p] = amount /\ \A q \in Players \ {p} : g[q] = f[q]
  BY <1>1, <1>3 DEF Claims
<1> HIDE DEF new, table, old, next, amount
<1>7. f \in [Players -> Int] /\ g \in [Players -> Int] /\ SumFunction(f) \in Int
  BY <1>1, <1>3, BooksTyped
<1>8. SumFunction(g) = SumFunction(f) + amount
  <2> HIDE DEF f, g
  <2>1. SumFunction(g) = SumFunction(f) + (g[p] - f[p])
    BY <1>6, <1>7, FiniteAccounts, SumDiffers
  <2>2. QED
    BY <1>1, <1>6, <1>7, <2>1
<1>9. GamesPlayed(next) = GamesPlayed(table)
  BY <1>3 DEF GamesPlayed
<1>10. old.lamports \in Nat /\ old.prize \in Nat /\ SumFunction(f) \in Int
  BY <1>1, <1>7, BooksTyped
<1>11. new.lamports + SumFunction(g) = new.prize
  BY <1>1, <1>2, <1>8, <1>10 DEF Booked
<1>12. Booked(new, next)
  BY <1>1, <1>2, <1>3, <1>9, <1>11 DEF Booked
<1>13. QED
  BY <1>5, <1>12 DEF BooksInv

LEMMA BooksStart == Init => BooksInv
<1> SUFFICES ASSUME Init, NEW t \in Tournaments PROVE Booked(tournaments[t], profiles[t])
  BY DEF BooksInv
<1> DEFINE tournament == tournaments[t]
           table == profiles[t]
<1>1. /\ tournament = NoTournament /\ table = [p \in Players |-> NewProfile]
  BY DEF Init
<1>2. /\ tournament.lamports = 0 /\ tournament.prize = 0 /\ tournament.gameCount = 0
      /\ ~tournament.finalized /\ \A p \in Players : ~table[p].claimed /\ table[p].games = 0
  BY <1>1 DEF NoTournament, NewProfile
<1> HIDE DEF tournament, table
<1>3. /\ Claims(table, tournament.root) = [p \in Players |-> 0]
      /\ GamesPlayed(table) = [p \in Players |-> 0]
  BY <1>2 DEF Claims, GamesPlayed
<1>4. /\ SumFunction(Claims(table, tournament.root)) = 0 /\ SumFunction(GamesPlayed(table)) = 0
  BY <1>3, FiniteAccounts, SumOfNothing
<1>5. Booked(tournament, table)
  BY <1>2, <1>4 DEF Booked
<1>6. QED
  BY <1>5 DEF tournament, table

LEMMA BooksStep ==
  ASSUME IInv, TournamentsReal, BooksInv, [Next]_vars
  PROVE  BooksInv'
<1>1. TypeOK
  BY DEF IInv
<1>2. CASE UNCHANGED <<tournaments, profiles>>
  BY <1>2 DEF BooksInv
<1>3. ASSUME NEW w \in Windows, NEW t \in Tournaments, CreateTournament(t, w[1], w[2])
      PROVE  BooksInv'
  <2>1. w[1] \in Nat /\ w[2] \in Nat
    BY GameAssumption
  <2>2. QED
    BY <1>1, <1>3, <2>1, CreatedBooked
<1>4. ASSUME NEW t \in Tournaments, NEW p \in Players, NEW secret \in Matchups,
             CreateGame(t, p, secret)
      PROVE  BooksInv'
  BY <1>1, <1>4, EntryBooked DEF CreateGame
<1>5. ASSUME NEW g \in GameIds, NEW p \in Players, JoinGame(g, p)
      PROVE  BooksInv'
  <2> DEFINE t == games[g].tournament
  <2>1. t \in Tournaments
    BY <1>1 DEF TypeOK, Games
  <2>2. profiles' = [profiles EXCEPT ![t][p] = InitIfNew(profiles[t][p])] /\ tournaments' = tournaments
    BY <1>5 DEF JoinGame
  <2> HIDE DEF t
  <2>3. QED
    BY <1>1, <2>1, <2>2, EntryBooked
<1>6. ASSUME NEW t \in Tournaments, NEW root \in HonestRoots(t), FinalizeTournament(t, root)
      PROVE  BooksInv'
  BY <1>1, <1>6, FinalizedBooked
<1>7. ASSUME NEW t \in Tournaments, NEW p \in Players, ClaimReward(t, p)
      PROVE  BooksInv'
  BY <1>1, <1>7, ClaimedBooked
<1>8. \/ UNCHANGED <<tournaments, profiles>>
      \/ \E w \in Windows, t \in Tournaments : CreateTournament(t, w[1], w[2])
      \/ \E t \in Tournaments, p \in Players, secret \in Matchups : CreateGame(t, p, secret)
      \/ \E g \in GameIds, p \in Players : JoinGame(g, p)
      \/ \E g \in GameIds, i \in Seats : RevealGuess(g, i)
      \/ \E g \in GameIds : ResolveTimeout(g)
      \/ \E t \in Tournaments : \E root \in HonestRoots(t) : FinalizeTournament(t, root)
      \/ \E t \in Tournaments, p \in Players : ClaimReward(t, p)
  BY DEF Next, vars, TickSlot, TickTime, UpdateConfig, DepositStake, WithdrawStake,
     CommitGuess, CloseGame
<1>9. QED
  BY <1>2, <1>3, <1>4, <1>5, <1>6, <1>7, <1>8, RevealBooked, TimeoutBooked

(* The books of every tournament stay in order.                            *)
THEOREM BooksInOrder == Spec => []BooksInv
<1>1. IInv /\ TournamentsReal /\ BooksInv /\ [Next]_vars => BooksInv'
  BY BooksStep
<1>2. QED
  BY <1>1, BooksStart, InvariantHolds, TournamentsExist, PTL DEF Spec

(* The account of a tournament holds the prize pool less the rewards       *)
(* claimed, through every split, late refund, timeout and claim.           *)
THEOREM BooksBalance == Spec => []TournamentBooks
<1>1. BooksInv => TournamentBooks
  BY DEF BooksInv, Booked, Claims, TournamentBooks, Claimed
<1>2. QED
  BY <1>1, BooksInOrder, PTL

(* Once finalized it covers every entitlement not yet claimed, however     *)
(* many players there are and in whatever order they claim.                *)
THEOREM EntitlementsCovered == Spec => []ClaimsCovered
<1>1. ASSUME TypeOK, BooksInv, NEW t \in Tournaments, tournaments[t].finalized
      PROVE  tournaments[t].lamports >=
               SumFunction([p \in Players |-> tournaments[t].root[p] - Claimed(t, p)])
  <2> DEFINE tournament == tournaments[t]
             table == profiles[t]
             f == tournament.root
             g == Claims(table, tournament.root)
  <2>1. /\ tournament \in TournamentRecords /\ table \in [Players -> Profiles]
        /\ Booked(tournament, table) /\ tournament.finalized
    BY <1>1 DEF TypeOK, BooksInv
  <2>2. [p \in Players |-> tournaments[t].root[p] - Claimed(t, p)] = [p \in Players |-> f[p] - g[p]]
    BY DEF Claims, Claimed
  <2> HIDE DEF tournament, table
  <2>3. /\ tournament.lamports \in Nat /\ tournament.prize \in Nat
        /\ f \in [Players -> Int] /\ g \in [Players -> Int]
        /\ SumFunction(f) \in Int /\ SumFunction(g) \in Int
    BY <2>1, BooksTyped
  <2>4. tournament.lamports + SumFunction(g) = tournament.prize /\ SumFunction(f) <= tournament.prize
    BY <2>1 DEF Booked
  <2> HIDE DEF f, g
  <2>5. SumFunction([p \in Players |-> f[p] - g[p]]) = SumFunction(f) - SumFunction(g)
    BY <2>3, FiniteAccounts, SumOfDifferences
  <2>6. tournament.lamports >= SumFunction([p \in Players |-> f[p] - g[p]])
    BY <2>3, <2>4, <2>5
  <2>7. QED
    BY <2>2, <2>6 DEF tournament
<1>2. TypeOK /\ BooksInv => ClaimsCovered
  BY <1>1 DEF ClaimsCovered
<1>3. QED
  BY <1>2, TypeCorrect, BooksInOrder, PTL

(* Every game a tournament counts is counted by two of its players, and by *)
(* nobody else.                                                            *)
THEOREM GamesCounted == Spec => []GamesAccounted
<1>1. BooksInv => GamesAccounted
  BY DEF BooksInv, Booked, GamesPlayed, GamesAccounted
<1>2. QED
  BY <1>1, BooksInOrder, PTL

=============================================================================
