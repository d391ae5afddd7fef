----------------------------- MODULE GameProofs -----------------------------
(***************************************************************************)
(* Proofs about CoordinationGame, for every number of players, tournaments *)
(* and games, every stake and both timeouts.                               *)
(***************************************************************************)
EXTENDS GameProperties, PayoffProofs, SumTheorems

-----------------------------------------------------------------------------
(* Types of the pieces an action is built from.                            *)

(* An opponent keeps a game a game.                                        *)
LEMMA JoinType ==
  ASSUME NEW game \in Games, NEW p \in Players, slot \in Nat
  PROVE  Join(game, p) \in Games
<1>1. game.lamports + Stake \in Nat
  BY GameAssumption DEF Games
<1>2. QED
  BY <1>1 DEF Join, Games, GameStates, Seats

(* So does a commitment.                                                   *)
LEMMA CommitType ==
  ASSUME NEW game \in Games, NEW i \in Seats, NEW guess \in Bits, slot \in Nat
  PROVE  Commit(game, i, guess) \in Games
BY DEF Commit, Games, GameStates

(* So does a reveal of a commitment.                                       *)
LEMMA RevealType ==
  ASSUME NEW game \in Games, NEW i \in Seats
  PROVE  Reveal(game, i) \in Games
BY DEF Reveal, Games

(* The payoffs are natural numbers even before the guesses are in order.   *)
LEMMA ResolutionType ==
  ASSUME NEW matchup, NEW guess, NEW first
  PROVE  LET res == Resolution(matchup, guess, Stake, first) IN
         res.ret \in [Seats -> Nat] /\ res.gain \in Nat
<1> DEFINE correct == Correct(matchup, guess)
<1>1. Stake \in Nat /\ Stake \div 2 \in Nat /\ 2 * Stake - Stake \div 2 \in Nat
  BY GameAssumption
<1>2. /\ \A i \in Seats : HomogenousReturn(correct, Stake, i) \in Nat
      /\ HomogenousGain(correct, Stake) \in Nat
  BY <1>1 DEF HomogenousReturn, HomogenousGain
<1>3. /\ \A i \in Seats : HeterogeneousReturn(correct, Stake, first, i) \in Nat
      /\ HeterogeneousGain(correct, Stake) \in Nat
  BY <1>1 DEF HeterogeneousReturn, HeterogeneousGain
<1> HIDE DEF correct
<1>4. QED
  BY <1>2, <1>3 DEF Resolution, correct

(* The pieces of a settlement keep accounts of their types.                *)
LEMMA PayType ==
  ASSUME NEW purse \in [Accounts -> Nat], NEW account, NEW amount \in Nat
  PROVE  Pay(purse, account, amount) \in [Accounts -> Nat]
<1>1. \A a \in Accounts : purse[a] \in Nat /\ purse[a] + amount \in Nat
  OBVIOUS
<1>2. CASE account \in Accounts
  BY <1>1, <1>2 DEF Pay
<1>3. CASE account \notin Accounts
  BY <1>3 DEF Pay
<1>4. QED
  BY <1>2, <1>3

LEMMA ContributeType ==
  ASSUME NEW tournament \in TournamentRecords, NEW share \in Nat, NEW counts
  PROVE  Contribute(tournament, share, counts) \in TournamentRecords
<1>1. /\ tournament.lamports + share \in Nat /\ tournament.prize + share \in Nat
      /\ tournament.gameCount + 1 \in Nat
  BY DEF TournamentRecords
<1>2. CASE counts
  BY <1>1, <1>2 DEF Contribute, TournamentRecords
<1>3. CASE ~counts
  BY <1>1, <1>3 DEF Contribute, TournamentRecords
<1>4. QED
  BY <1>2, <1>3

LEMMA CreditType ==
  ASSUME NEW profile \in Profiles, NEW i, NEW winners
  PROVE  Credit(profile, i, winners) \in Profiles
<1> DEFINE wins == IF i \in winners THEN profile.wins + 1 ELSE profile.wins
<1>1. wins \in Nat /\ profile.games + 1 \in Nat \ {0}
  BY DEF Profiles
<1>2. ComputeScore(wins, profile.games + 1) \in Nat
  BY <1>1, ScoreIsNat
<1>3. QED
  BY <1>1, <1>2 DEF Credit, Profiles

LEMMA CreditAllType ==
  ASSUME NEW table \in [Players -> Profiles], NEW players, NEW winners
  PROVE  CreditAll(players, winners, table) \in [Players -> Profiles]
BY CreditType DEF CreditAll

LEMMA SettledType ==
  ASSUME NEW game \in Games, NEW paid \in Nat, game.lamports >= paid
  PROVE  Settled(game, paid) \in Games
<1>1. game.lamports - paid \in Nat
  BY DEF Games
<1>2. QED
  BY <1>1 DEF Settled, Games, GameStates

LEMMA SettleType ==
  ASSUME TypeOK, NEW g \in GameIds, NEW game \in Games,
         NEW ret \in [Seats -> Nat], NEW gain \in Nat, NEW winners,
         NEW counts, Settle(g, game, ret, gain, winners, counts)
  PROVE  TypeOK'
<1> DEFINE t == game.tournament
           fee == TreasuryShare(gain, config.bps)
           share == TournamentShare(gain, config.bps)
           paid == ret[1] + ret[2] + fee + share
<1>1. fee \in Nat /\ share \in Nat /\ t \in Tournaments
  BY GameAssumption, SplitConserves DEF TypeOK, Configs, Games
<1>2. ret[1] \in Nat /\ ret[2] \in Nat /\ paid \in Nat
  BY <1>1 DEF Seats
<1>3. games' \in [GameIds -> Games]
  <2>1. Settled(game, paid) \in Games
    BY <1>2, SettledType DEF Settle
  <2>2. games' = [games EXCEPT ![g] = Settled(game, paid)]
    BY DEF Settle
  <2>3. QED
    BY <2>1, <2>2 DEF TypeOK
<1>4. wallet' \in [Accounts -> Nat]
  BY <1>1, <1>2, PayType DEF Settle, TypeOK
<1>5. tournaments' \in [Tournaments -> TournamentRecords]
  <2>1. Contribute(tournaments[t], share, counts) \in TournamentRecords
    BY <1>1, ContributeType DEF TypeOK
  <2>2. tournaments' = [tournaments EXCEPT ![t] = Contribute(tournaments[t], share, counts)]
    BY DEF Settle
  <2>3. QED
    BY <1>1, <2>1, <2>2 DEF TypeOK
<1>6. profiles' \in [Tournaments -> [Players -> Profiles]]
  <2>1. CreditAll(game.player, winners, profiles[t]) \in [Players -> Profiles]
    BY <1>1, CreditAllType DEF TypeOK
  <2>2. \/ profiles' = [profiles EXCEPT ![t] = CreditAll(game.player, winners, profiles[t])]
        \/ profiles' = profiles
    BY DEF Settle
  <2>3. QED
    BY <1>1, <2>1, <2>2 DEF TypeOK
<1>7. QED
  BY <1>3, <1>4, <1>5, <1>6 DEF Settle, TypeOK

-----------------------------------------------------------------------------
(* Every step keeps every account within its type.                         *)
LEMMA TypeInit == Init => TypeOK
BY GameAssumption DEF Init, TypeOK, Configs, TournamentRecords, Profiles, Escrows,
   Games, GameStates, NoTournament, NewProfile, NoEscrow, NoGame, Bits, SameTeam

LEMMA RevealStepType ==
  ASSUME TypeOK, NEW g \in GameIds, NEW i \in Seats, RevealGuess(g, i)
  PROVE  TypeOK'
<1> DEFINE game == Reveal(games[g], i)
           late == IsLate(game.tournament)
           refund == [ret |-> [j \in Seats |-> Stake], gain |-> 0]
           payoff == Resolution(game.matchup, game.guess, Stake, game.first)
           res == IF late THEN refund ELSE payoff
<1>1. game \in Games
  BY RevealType DEF TypeOK
<1>2. res.ret \in [Seats -> Nat] /\ res.gain \in Nat
  <2>1. payoff.ret \in [Seats -> Nat] /\ payoff.gain \in Nat
    BY ResolutionType
  <2>2. refund.ret \in [Seats -> Nat] /\ refund.gain \in Nat
    BY GameAssumption
  <2> HIDE DEF payoff, refund
  <2>3. QED
    BY <2>1, <2>2
<1>3. CASE games' = [games EXCEPT ![g] = game]
           /\ UNCHANGED <<slot, now, config, wallet, tournaments, profiles, escrows, gameCount>>
  BY <1>1, <1>3 DEF TypeOK
<1>4. CASE Settle(g, game, res.ret, res.gain,
                  Winners(game.matchup, game.guess, res.ret), ~late)
  <2> HIDE DEF game, res, late
  <2>1. QED
    BY <1>1, <1>2, <1>4, SettleType
<1>5. QED
  BY <1>3, <1>4 DEF RevealGuess

LEMMA TimeoutStepType ==
  ASSUME TypeOK, NEW g \in GameIds, ResolveTimeout(g)
  PROVE  TypeOK'
<1> DEFINE diligent == Diligent(games[g])
           ret == [i \in Seats |-> IF i \in diligent THEN 2 * Stake ELSE 0]
           gain == IF diligent = {} THEN 2 * Stake ELSE 0
<1>1. ret \in [Seats -> Nat] /\ gain \in Nat /\ games[g] \in Games
  BY GameAssumption DEF TypeOK
<1>2. Settle(g, games[g], ret, gain, diligent, TRUE)
  BY DEF ResolveTimeout
<1> HIDE DEF diligent, ret, gain
<1>3. QED
  BY <1>1, <1>2, SettleType

LEMMA EscrowStepType ==
  ASSUME TypeOK, NEW t \in Tournaments, NEW p \in Players,
         DepositStake(t, p) \/ WithdrawStake(t, p)
  PROVE  TypeOK'
<1>1. p \in Accounts /\ wallet[p] \in Nat /\ Stake \in Nat
  BY GameAssumption DEF Accounts, TypeOK
<1>2. escrows[t][p] \in Escrows /\ escrows[t][p].lamports \in Nat
  BY DEF TypeOK, Escrows
<1>3. CASE DepositStake(t, p)
  <2> DEFINE new == [exists |-> TRUE, consumed |-> FALSE,
                     lamports |-> escrows[t][p].lamports + Stake]
  <2>1. new \in Escrows
    BY <1>1, <1>2 DEF Escrows
  <2>2. escrows' = [escrows EXCEPT ![t][p] = new]
    BY <1>3 DEF DepositStake
  <2>3. wallet' \in [Accounts -> Nat]
    BY <1>1, <1>3 DEF DepositStake, TypeOK
  <2> HIDE DEF new
  <2>4. escrows' \in [Tournaments -> [Players -> Escrows]]
    BY <2>1, <2>2 DEF TypeOK
  <2>5. QED
    BY <1>3, <2>3, <2>4 DEF DepositStake, TypeOK
<1>4. CASE WithdrawStake(t, p)
  <2>1. wallet' \in [Accounts -> Nat]
    BY <1>1, <1>2, <1>4 DEF WithdrawStake, TypeOK
  <2>2. NoEscrow \in Escrows
    BY DEF NoEscrow, Escrows
  <2>3. escrows' = [escrows EXCEPT ![t][p] = NoEscrow]
    BY <1>4 DEF WithdrawStake
  <2>4. escrows' \in [Tournaments -> [Players -> Escrows]]
    BY <2>2, <2>3 DEF TypeOK
  <2>5. QED
    BY <1>4, <2>1, <2>4 DEF WithdrawStake, TypeOK
<1>5. QED
  BY <1>3, <1>4

(* Consuming an escrow and starting a profile, as both create and join do. *)
LEMMA EntryType ==
  ASSUME TypeOK, NEW t \in Tournaments, NEW p \in Players,
         escrows[t][p].lamports >= Stake
  PROVE  /\ [profiles EXCEPT ![t][p] = InitIfNew(@)] \in [Tournaments -> [Players -> Profiles]]
         /\ [escrows EXCEPT ![t][p] = Consume(@)] \in [Tournaments -> [Players -> Escrows]]
<1>1. profiles[t][p] \in Profiles /\ NewProfile \in Profiles
  BY DEF TypeOK, NewProfile, Profiles
<1>2. InitIfNew(profiles[t][p]) \in Profiles
  BY <1>1 DEF InitIfNew
<1>3. escrows[t][p] \in Escrows /\ escrows[t][p].lamports - Stake \in Nat
  BY GameAssumption DEF TypeOK, Escrows
<1>4. Consume(escrows[t][p]) \in Escrows
  BY <1>3 DEF Consume, Escrows
<1>5. QED
  BY <1>2, <1>4 DEF TypeOK

LEMMA CreateStepType ==
  ASSUME TypeOK, NEW t \in Tournaments, NEW p \in Players, NEW secret \in Matchups,
         CreateGame(t, p, secret)
  PROVE  TypeOK'
<1> DEFINE new == [NoGame EXCEPT !.state = "Pending", !.tournament = t, !.secret = secret,
                                 !.player[1] = p, !.lamports = Stake]
<1>1. new \in Games
  BY GameAssumption DEF NoGame, Games, GameStates, Seats, Bits, SameTeam
<1>2. games' = [games EXCEPT ![gameCount] = new]
  BY DEF CreateGame
<1> HIDE DEF new
<1>3. games' \in [GameIds -> Games]
  BY <1>1, <1>2 DEF TypeOK
<1>4. gameCount' \in 0 .. MaxGames
  BY GameAssumption DEF CreateGame, TypeOK
<1>5. /\ profiles' \in [Tournaments -> [Players -> Profiles]]
      /\ escrows' \in [Tournaments -> [Players -> Escrows]]
  BY EntryType DEF CreateGame
<1>6. QED
  BY <1>3, <1>4, <1>5 DEF CreateGame, TypeOK

LEMMA JoinStepType ==
  ASSUME TypeOK, NEW g \in GameIds, NEW p \in Players, JoinGame(g, p)
  PROVE  TypeOK'
<1> DEFINE t == games[g].tournament
<1>1. games[g] \in Games /\ t \in Tournaments
  BY DEF TypeOK, Games
<1>2. Join(games[g], p) \in Games
  BY <1>1, JoinType DEF TypeOK
<1>3. /\ profiles' \in [Tournaments -> [Players -> Profiles]]
      /\ escrows' \in [Tournaments -> [Players -> Escrows]]
  BY <1>1, EntryType DEF JoinGame
<1>4. QED
  BY <1>2, <1>3 DEF JoinGame, TypeOK

LEMMA CommitStepType ==
  ASSUME TypeOK, NEW g \in GameIds, NEW i \in Seats, NEW guess \in Guesses,
         CommitGuess(g, i, guess)
  PROVE  TypeOK'
<1>1. Commit(games[g], i, guess) \in Games
  BY GameAssumption, CommitType DEF TypeOK
<1>2. QED
  BY <1>1 DEF CommitGuess, TypeOK

LEMMA CloseStepType ==
  ASSUME TypeOK, NEW g \in GameIds, NEW caller \in Accounts, CloseGame(g, caller)
  PROVE  TypeOK'
<1>1. wallet[caller] + games[g].lamports \in Nat
  BY DEF TypeOK, Games
<1>2. NoGame \in Games
  BY GameAssumption DEF NoGame, Games, GameStates, Bits, SameTeam
<1>3. QED
  BY <1>1, <1>2 DEF CloseGame, TypeOK

(* Creating, configuring and finalizing tournaments, and claiming.         *)
LEMMA TournamentStepType ==
  ASSUME TypeOK, NEW t \in Tournaments,
         \/ \E w \in Windows : CreateTournament(t, w[1], w[2])
         \/ \E root \in HonestRoots(t) : FinalizeTournament(t, root)
         \/ \E p \in Players : ClaimReward(t, p)
  PROVE  TypeOK'
<1>1. ASSUME NEW w \in Windows, CreateTournament(t, w[1], w[2])
      PROVE  TypeOK'
  <2> DEFINE new == [NoTournament EXCEPT !.exists = TRUE, !.start = w[1], !.end = w[2]]
  <2>1. w[1] \in Nat /\ w[2] \in Nat
    BY GameAssumption
  <2>2. new \in TournamentRecords
    BY <2>1 DEF NoTournament, TournamentRecords
  <2>3. tournaments' = [tournaments EXCEPT ![t] = new]
    BY <1>1 DEF CreateTournament
  <2> HIDE DEF new
  <2>4. QED
    BY <1>1, <2>2, <2>3 DEF CreateTournament, TypeOK
<1>2. ASSUME NEW root \in HonestRoots(t), FinalizeTournament(t, root)
      PROVE  TypeOK'
  <2>1. tournaments[t] \in TournamentRecords /\ tournaments[t].prize \in Nat
    BY DEF TypeOK, TournamentRecords
  <2>2. root \in [Players -> Nat]
    BY <2>1 DEF HonestRoots
  <2>3. tournaments' = [tournaments EXCEPT ![t] = Finalized(@, root)]
    BY <1>2 DEF FinalizeTournament
  <2>4. Finalized(tournaments[t], root) \in TournamentRecords
    BY <2>1, <2>2 DEF Finalized, TournamentRecords
  <2>5. QED
    BY <1>2, <2>3, <2>4 DEF FinalizeTournament, TypeOK
<1>3. ASSUME NEW p \in Players, ClaimReward(t, p)
      PROVE  TypeOK'
  <2> DEFINE amount == tournaments[t].root[p]
  <2>1. tournaments[t] \in TournamentRecords /\ amount \in Nat
    BY DEF TypeOK, TournamentRecords
  <2>2. Pay(wallet, p, amount) \in [Accounts -> Nat]
    BY <2>1, PayType DEF TypeOK
  <2>3. Debited(tournaments[t], amount) \in TournamentRecords
    <3>1. tournaments[t].lamports >= amount /\ tournaments[t].lamports \in Nat
      BY <1>3, <2>1 DEF ClaimReward, TournamentRecords
    <3>2. QED
      BY <2>1, <3>1 DEF Debited, TournamentRecords
  <2>4. [profiles[t][p] EXCEPT !.claimed = TRUE] \in Profiles
    <3>1. profiles[t][p] \in Profiles
      BY DEF TypeOK
    <3>2. QED
      BY <3>1 DEF Profiles
  <2>5. /\ profiles' = [profiles EXCEPT ![t][p] = [profiles[t][p] EXCEPT !.claimed = TRUE]]
        /\ tournaments' = [tournaments EXCEPT ![t] = Debited(tournaments[t], amount)]
        /\ wallet' = Pay(wallet, p, amount)
    BY <1>3 DEF ClaimReward
  <2>6. /\ profiles' \in [Tournaments -> [Players -> Profiles]]
        /\ tournaments' \in [Tournaments -> TournamentRecords]
        /\ wallet' \in [Accounts -> Nat]
    BY <2>2, <2>3, <2>4, <2>5 DEF TypeOK
  <2>7. QED
    BY <1>3, <2>6 DEF ClaimReward, TypeOK
<1>4. QED
  BY <1>1, <1>2, <1>3

LEMMA TypeStep == TypeOK /\ [Next]_vars => TypeOK'
<1> SUFFICES ASSUME TypeOK, [Next]_vars PROVE TypeOK'
  OBVIOUS
<1>1. CASE UNCHANGED vars
  BY <1>1 DEF vars, TypeOK
<1>2. CASE TickSlot \/ TickTime
  BY <1>2 DEF TickSlot, TickTime, TypeOK
<1>3. ASSUME NEW bps \in SplitBps, NEW treasury \in Keys \cup {NoPlayer},
             NEW matchmaker \in Keys \cup {NoPlayer}, NEW authority \in Keys \cup {NoPlayer},
             UpdateConfig(bps, treasury, matchmaker, authority)
      PROVE  TypeOK'
  BY <1>3 DEF UpdateConfig, TypeOK, Configs
<1>4. QED
  BY <1>1, <1>2, <1>3, TournamentStepType, EscrowStepType, CreateStepType, JoinStepType,
     CommitStepType, RevealStepType, TimeoutStepType, CloseStepType DEF Next

(* Every reachable state is well typed: no balance goes below zero and no  *)
(* field leaves its range, for every number of players, games and slots.   *)
THEOREM TypeCorrect == Spec => []TypeOK
BY TypeInit, TypeStep, PTL DEF Spec

-----------------------------------------------------------------------------
(* What an operation makes of one game.  Each lemma takes the game the     *)
(* handler finds to the game it leaves.                                    *)

LEMMA NoGameInv == slot \in Nat => GameInv(NoGame, slot)
BY GameAssumption DEF GameInv, Shaped, FirstTrue, Hidden, Timely, Pot, NoGame, Committed,
   Revealed, Running, Seats

LEMMA CreatedInv ==
  ASSUME slot \in Nat, NEW t, NEW p \in Players, NEW secret \in Bits
  PROVE  GameInv([NoGame EXCEPT !.state = "Pending", !.tournament = t, !.secret = secret,
                                !.player[1] = p, !.lamports = Stake], slot)
<1> DEFINE new == [NoGame EXCEPT !.state = "Pending", !.tournament = t, !.secret = secret,
                                 !.player[1] = p, !.lamports = Stake]
<1>1. /\ new.state = "Pending" /\ new.lamports = Stake /\ new.first = 0
      /\ new.matchup = Unset /\ new.activated = 0
      /\ new.player = [i \in Seats |-> IF i = 1 THEN p ELSE NoPlayer]
      /\ new.commit = [i \in Seats |-> Unset] /\ new.guess = [i \in Seats |-> Unset]
  BY DEF NoGame, Seats
<1> HIDE DEF new
<1>2. Committed(new) = {} /\ Revealed(new) = {}
  BY <1>1 DEF Committed, Revealed
<1>3. Seated(new) = {1}
  BY <1>1, GameAssumption DEF Seated, Seats
<1>4. QED
  BY <1>1, <1>2, <1>3 DEF GameInv, Shaped, FirstTrue, Hidden, Timely, Pot, Running, new

LEMMA JoinedInv ==
  ASSUME slot \in Nat, NEW game \in Games, NEW p \in Players, GameInv(game, slot),
         game.state = "Pending", p # game.player[1]
  PROVE  GameInv(Join(game, p), slot)
<1> DEFINE new == Join(game, p)
<1>1. /\ new.state = "Active" /\ new.lamports = game.lamports + Stake
      /\ new.first = game.first /\ new.matchup = game.matchup /\ new.activated = slot
      /\ new.player = [game.player EXCEPT ![2] = p]
      /\ new.commit = game.commit /\ new.guess = game.guess
      /\ new.commitSlot = game.commitSlot
  BY DEF Join, Games
<1>2. Committed(new) = Committed(game) /\ Revealed(new) = Revealed(game)
  BY <1>1 DEF Committed, Revealed
<1>3. Seated(game) = {1} /\ Committed(game) = {} /\ Revealed(game) = {}
  BY DEF GameInv, Shaped, Hidden, Seats
<1>4. Seated(new) = Seats /\ new.player[1] # new.player[2]
  <2>1. game.player \in [Seats -> Players \cup {NoPlayer}] /\ 1 \in Seats /\ 2 \in Seats
    BY DEF Games, Seats
  <2>2. new.player[1] = game.player[1] /\ new.player[2] = p
    BY <1>1, <2>1
  <2>3. game.player[1] # NoPlayer /\ p # NoPlayer
    BY <1>3, GameAssumption DEF Seated
  <2>4. QED
    BY <2>2, <2>3 DEF Seated, Seats
<1>5. game.lamports = Stake
  BY DEF GameInv, Pot, Running
<1>6. new.lamports = 2 * Stake
  BY <1>1, <1>5, GameAssumption
<1> HIDE DEF new
<1>7. Shaped(new)
  BY <1>1, <1>2, <1>3, <1>4 DEF Shaped, Running, Seats
<1>8. FirstTrue(new) /\ Hidden(new) /\ Timely(new, slot)
  BY <1>1, <1>2, <1>3 DEF GameInv, FirstTrue, Hidden, Timely
<1>9. QED
  BY <1>1, <1>6, <1>7, <1>8 DEF GameInv, Pot, Running, new

LEMMA CommittedInv ==
  ASSUME slot \in Nat, NEW game \in Games, NEW i \in Seats, NEW guess \in Bits,
         GameInv(game, slot), MayCommit(game, i)
  PROVE  GameInv(Commit(game, i, guess), slot)
<1> DEFINE new == Commit(game, i, guess)
<1>1. /\ new.state = IF game.commit[Other(i)] # Unset THEN "Revealing" ELSE "Committing"
      /\ new.lamports = game.lamports
      /\ new.first = IF game.first = 0 THEN i ELSE game.first
      /\ new.matchup = game.matchup /\ new.activated = game.activated
      /\ new.player = game.player /\ new.guess = game.guess
      /\ new.commit = [game.commit EXCEPT ![i] = guess]
      /\ new.commitSlot = [game.commitSlot EXCEPT ![i] = slot]
  BY DEF Commit, Games
<1>2. Unset \notin Bits /\ Other(i) \in Seats /\ Other(i) # i
      /\ Seats = {i, Other(i)} /\ Other(Other(i)) = i
  BY DEF Unset, Bits, SameTeam, DiffTeam, Other, Seats
<1>3. game.commit[i] = Unset /\ game.state \in {"Active", "Committing"}
  BY DEF MayCommit
<1>4. Committed(new) = Committed(game) \cup {i} /\ i \notin Committed(game)
  BY <1>1, <1>2, <1>3 DEF Committed, Games
<1>5. Revealed(new) = Revealed(game) /\ Seated(new) = Seated(game)
  BY <1>1 DEF Revealed, Seated
<1>6. Committed(game) # Seats /\ Revealed(game) = {} /\ game.matchup = Unset
  BY <1>4 DEF GameInv, Hidden
<1>7. Committed(game) \in {{}, {Other(i)}}
  BY <1>2, <1>4 DEF Committed
<1>8. (game.commit[Other(i)] # Unset) <=> Committed(game) = {Other(i)}
  BY <1>2, <1>7 DEF Committed
<1> HIDE DEF new
<1>9. Shaped(new)
  <2>1. Seated(new) = Seats /\ new.player[1] # new.player[2] /\ Revealed(new) # Seats
    BY <1>1, <1>2, <1>3, <1>5, <1>6 DEF GameInv, Shaped, Running
  <2>2. CASE Committed(game) = {}
    <3>1. new.state = "Committing" /\ Committed(new) = {i}
      BY <1>1, <1>2, <1>4, <1>8, <2>2
    <3>2. QED
      BY <2>1, <3>1 DEF Shaped
  <2>3. CASE Committed(game) = {Other(i)}
    <3>1. new.state = "Revealing" /\ Committed(new) = Seats
      BY <1>1, <1>2, <1>4, <1>8, <2>3
    <3>2. QED
      BY <2>1, <3>1 DEF Shaped
  <2>4. QED
    BY <1>7, <2>2, <2>3
<1>10. Timely(new, slot)
  BY <1>1, <1>2, <1>4 DEF GameInv, Timely, Games, Committed
<1>11. FirstTrue(new)
  <2>1. CASE Committed(game) = {}
    <3>1. new.first = i /\ Committed(new) = {i} /\ new.first # 0
      BY <1>1, <1>4, <2>1 DEF GameInv, FirstTrue, Seats
    <3>2. Committed(new) # Seats
      BY <1>2, <3>1
    <3>3. QED
      BY <3>1, <3>2 DEF FirstTrue
  <2>2. CASE Committed(game) = {Other(i)}
    <3>1. game.first = Other(i)
      BY <2>2 DEF GameInv, FirstTrue
    <3>2. new.first = Other(i) /\ new.first # 0 /\ Other(new.first) = i
      BY <1>1, <1>2, <3>1 DEF Seats
    <3>3. game.commitSlot[Other(i)] <= slot
      BY <2>2 DEF GameInv, Timely
    <3>4. new.commitSlot[Other(i)] = game.commitSlot[Other(i)] /\ new.commitSlot[i] = slot
      BY <1>1, <1>2 DEF Games
    <3>5. QED
      BY <1>4, <2>2, <3>2, <3>3, <3>4 DEF FirstTrue
  <2>3. QED
    BY <1>7, <2>1, <2>2
<1>12. Hidden(new)
  BY <1>1, <1>5, <1>6 DEF Hidden
<1>13. new.lamports = Pot(new)
  <2>1. new.state \in Running /\ game.state \in Running
    BY <1>1, <1>3 DEF Running
  <2>2. QED
    BY <1>1, <2>1 DEF GameInv, Pot, Running
<1>14. QED
  BY <1>9, <1>10, <1>11, <1>12, <1>13 DEF GameInv, new

(* A reveal keeps everything but the number of revealed guesses.           *)
LEMMA RevealedInv ==
  ASSUME slot \in Nat, NEW game \in Games, NEW i \in Seats, GameInv(game, slot), CanReveal(game, i)
  PROVE  LET new == Reveal(game, i) IN
         /\ FirstTrue(new) /\ Hidden(new) /\ Timely(new, slot)
         /\ new.guess[i] \in Bits /\ new.matchup \in Bits /\ new.first \in Seats
         /\ new.lamports = 2 * Stake
         /\ game.guess[Other(i)] = Unset => GameInv(new, slot)
<1> DEFINE new == Reveal(game, i)
<1>1. /\ new.state = "Revealing" /\ new.lamports = game.lamports
      /\ new.first = game.first /\ new.matchup = game.secret
      /\ new.activated = game.activated /\ new.player = game.player
      /\ new.commit = game.commit /\ new.commitSlot = game.commitSlot
      /\ new.guess = [game.guess EXCEPT ![i] = game.commit[i]]
  BY DEF Reveal, Games, CanReveal
<1>2. game.state = "Revealing"
  BY DEF CanReveal
<1>3. Committed(new) = Committed(game) /\ Seated(new) = Seated(game)
      /\ Committed(game) = Seats
  BY <1>1, <1>2 DEF Committed, Seated, GameInv, Shaped
<1>4. new.guess[i] \in Bits /\ new.matchup \in Bits /\ new.first \in Seats
  <2>1. game.commit[i] \in Bits
    BY <1>3 DEF Committed, Games
  <2>2. Seats # {}
    BY DEF Seats
  <2>3. QED
    BY <1>1, <1>3, <2>1, <2>2 DEF GameInv, FirstTrue, Games
<1>5. game.lamports = 2 * Stake
  BY <1>2 DEF GameInv, Pot, Running
<1> HIDE DEF new
<1>6. FirstTrue(new)
  BY <1>1, <1>3 DEF GameInv, FirstTrue
<1>7. Hidden(new)
  BY <1>3 DEF Hidden
<1>8. Timely(new, slot)
  BY <1>1, <1>3 DEF GameInv, Timely
<1>9. ASSUME game.guess[Other(i)] = Unset
      PROVE  GameInv(new, slot)
  <2>1. Other(i) \in Seats /\ Other(i) # i
    BY DEF Other, Seats
  <2>2. new.guess[Other(i)] = Unset
    BY <1>1, <1>9, <2>1 DEF Games
  <2>3. Revealed(new) # Seats
    BY <2>1, <2>2 DEF Revealed
  <2>4. Shaped(new)
    BY <1>1, <1>2, <1>3, <2>3 DEF GameInv, Shaped, Running
  <2>5. new.lamports = Pot(new)
    BY <1>1, <1>5 DEF Pot, Running
  <2>6. QED
    BY <1>6, <1>7, <1>8, <2>4, <2>5 DEF GameInv
<1>10. QED
  BY <1>1, <1>4, <1>5, <1>6, <1>7, <1>8, <1>9 DEF new

(* A game settled for all it holds is empty.                               *)
LEMMA SettledInv ==
  ASSUME NEW game \in Games, NEW paid \in Nat, game.lamports = paid,
         FirstTrue(game), Hidden(game), Timely(game, slot)
  PROVE  GameInv(Settled(game, paid), slot)
<1> DEFINE new == Settled(game, paid)
<1>1. /\ new.state = "Resolved" /\ new.lamports = game.lamports - paid
      /\ new.first = game.first /\ new.matchup = game.matchup
      /\ new.activated = game.activated /\ new.player = game.player
      /\ new.commit = game.commit /\ new.commitSlot = game.commitSlot
      /\ new.guess = game.guess
  BY DEF Settled, Games
<1>2. Committed(new) = Committed(game) /\ Revealed(new) = Revealed(game)
  BY <1>1 DEF Committed, Revealed
<1>3. new.lamports = 0
  BY <1>1 DEF Games
<1> HIDE DEF new
<1>4. FirstTrue(new) /\ Hidden(new) /\ Timely(new, slot)
  BY <1>1, <1>2 DEF FirstTrue, Hidden, Timely
<1>5. Shaped(new) /\ new.lamports = Pot(new)
  BY <1>1, <1>3 DEF Shaped, Pot, Running
<1>6. QED
  BY <1>4, <1>5 DEF GameInv, new

-----------------------------------------------------------------------------
(* What each step does to the games and the escrows.                       *)

(* Whoever resolves a game leaves every game in order, if the returns and  *)
(* the gain add up to the pot.                                             *)
LEMMA SettleInv ==
  ASSUME IInv, NEW g \in GameIds, NEW game \in Games,
         NEW ret \in [Seats -> Nat], NEW gain \in Nat, NEW winners, NEW counts,
         ret[1] + ret[2] + gain = 2 * Stake, game.lamports = 2 * Stake,
         FirstTrue(game), Hidden(game), Timely(game, slot),
         Settle(g, game, ret, gain, winners, counts)
  PROVE  \A h \in GameIds : GameInv(games'[h], slot')
<1> DEFINE fee == TreasuryShare(gain, config.bps)
           share == TournamentShare(gain, config.bps)
           paid == ret[1] + ret[2] + fee + share
<1>1. fee \in Nat /\ share \in Nat /\ fee + share = gain
  BY GameAssumption, SplitConserves DEF IInv, TypeOK, Configs
<1>2. ret[1] \in Nat /\ ret[2] \in Nat
  BY DEF Seats
<1>3. games' = [games EXCEPT ![g] = Settled(game, paid)] /\ slot' = slot
  BY DEF Settle
<1> HIDE DEF fee, share
<1>4. paid \in Nat /\ paid = game.lamports
  <2>1. paid = ret[1] + ret[2] + gain
    BY <1>1, <1>2
  <2>2. QED
    BY <1>1, <1>2, <2>1
<1> HIDE DEF paid
<1>5. GameInv(Settled(game, paid), slot)
  BY <1>4, SettledInv
<1>6. QED
  BY <1>3, <1>5 DEF IInv, TypeOK

LEMMA RevealStepInv ==
  ASSUME IInv, NEW g \in GameIds, NEW i \in Seats, RevealGuess(g, i)
  PROVE  \A h \in GameIds : GameInv(games'[h], slot')
<1> DEFINE game == Reveal(games[g], i)
           late == IsLate(game.tournament)
           refund == [ret |-> [j \in Seats |-> Stake], gain |-> 0]
           payoff == Resolution(game.matchup, game.guess, Stake, game.first)
           res == IF late THEN refund ELSE payoff
<1>1. games[g] \in Games /\ GameInv(games[g], slot) /\ CanReveal(games[g], i) /\ slot \in Nat
  BY DEF IInv, TypeOK, RevealGuess
<1>2. game \in Games
  BY <1>1, RevealType
<1>3. /\ FirstTrue(game) /\ Hidden(game) /\ Timely(game, slot)
      /\ game.guess[i] \in Bits /\ game.matchup \in Bits /\ game.first \in Seats
      /\ game.lamports = 2 * Stake
      /\ games[g].guess[Other(i)] = Unset => GameInv(game, slot)
  BY <1>1, RevealedInv
<1>4. game.guess = [games[g].guess EXCEPT ![i] = games[g].commit[i]]
  BY <1>1 DEF Reveal, Games
<1>5. Other(i) \in Seats /\ Other(i) # i /\ Seats = {i, Other(i)}
  BY DEF Other, Seats
<1>6. game.guess[Other(i)] = games[g].guess[Other(i)]
  BY <1>1, <1>4, <1>5 DEF Games
<1>7. CASE /\ game.guess[Other(i)] = Unset
           /\ games' = [games EXCEPT ![g] = game]
           /\ UNCHANGED <<slot, now, config, wallet, tournaments, profiles, escrows, gameCount>>
  <2>1. GameInv(game, slot)
    BY <1>3, <1>6, <1>7
  <2> HIDE DEF game
  <2>2. QED
    BY <1>7, <2>1 DEF IInv, TypeOK
<1>8. CASE /\ game.guess[Other(i)] # Unset
           /\ Settle(g, game, res.ret, res.gain,
                     Winners(game.matchup, game.guess, res.ret), ~late)
  <2>1. game.guess \in [Seats -> Bits]
    BY <1>2, <1>3, <1>5, <1>8 DEF Games
  <2>2. Stake \in Nat \ {0}
    BY GameAssumption
  <2> HIDE DEF game
  <2>3. /\ payoff.ret \in [Seats -> Nat] /\ payoff.gain \in Nat
        /\ payoff.ret[1] + payoff.ret[2] + payoff.gain = 2 * Stake
    BY <1>3, <2>1, <2>2, ResolutionConserves
  <2>4. /\ refund.ret \in [Seats -> Nat] /\ refund.gain \in Nat
        /\ refund.ret[1] + refund.ret[2] + refund.gain = 2 * Stake
    BY <2>2 DEF Seats
  <2>5. res = refund \/ res = payoff
    OBVIOUS
  <2> HIDE DEF refund, payoff, res, late
  <2>6. /\ res.ret \in [Seats -> Nat] /\ res.gain \in Nat
        /\ res.ret[1] + res.ret[2] + res.gain = 2 * Stake
    BY <2>3, <2>4, <2>5
  <2>7. QED
    BY <1>2, <1>3, <1>8, <2>6, SettleInv
<1>9. QED
  BY <1>7, <1>8 DEF RevealGuess

LEMMA TimeoutStepInv ==
  ASSUME IInv, NEW g \in GameIds, ResolveTimeout(g)
  PROVE  \A h \in GameIds : GameInv(games'[h], slot')
<1> DEFINE diligent == Diligent(games[g])
           ret == [i \in Seats |-> IF i \in diligent THEN 2 * Stake ELSE 0]
           gain == IF diligent = {} THEN 2 * Stake ELSE 0
<1>1. games[g] \in Games /\ GameInv(games[g], slot) /\ games[g].state \in Running
  BY DEF IInv, TypeOK, ResolveTimeout, Overdue
<1>2. games[g].lamports = 2 * Stake
  BY <1>1 DEF GameInv, Pot, Running
<1>3. Stake \in Nat
  BY GameAssumption
<1>4. diligent \in {{}, {1}, {2}}
  BY DEF ResolveTimeout, Diligent, Seats
<1>5. Settle(g, games[g], ret, gain, diligent, TRUE)
  BY DEF ResolveTimeout
<1>6. ret \in [Seats -> Nat] /\ gain \in Nat /\ ret[1] + ret[2] + gain = 2 * Stake
  <2> HIDE DEF diligent
  <2>1. QED
    BY <1>3, <1>4 DEF Seats
<1> HIDE DEF diligent, ret, gain
<1>7. QED
  BY <1>1, <1>2, <1>5, <1>6, SettleInv DEF GameInv

(* The steps that leave the escrows alone, by what they work on.           *)
Deals(g) ==
  \/ \E i \in Seats : RevealGuess(g, i) \/ \E guess \in Guesses : CommitGuess(g, i, guess)
  \/ ResolveTimeout(g)
  \/ \E caller \in Accounts : CloseGame(g, caller)

Runs(t) ==
  \/ \E w \in Windows : CreateTournament(t, w[1], w[2])
  \/ \E root \in HonestRoots(t) : FinalizeTournament(t, root)
  \/ \E p \in Players : ClaimReward(t, p)

(* An escrow gives up its stake to whatever consumes or withdraws it.      *)
LEMMA EscrowStepInv == IInv /\ [Next]_vars => EscrowBacked'
<1> SUFFICES ASSUME IInv, [Next]_vars PROVE EscrowBacked'
  OBVIOUS
<1> USE DEF EscrowBacked
<1>1. Stake \in Nat /\ escrows \in [Tournaments -> [Players -> Escrows]] /\ EscrowBacked
  BY GameAssumption DEF IInv, TypeOK
<1>2. ASSUME NEW t \in Tournaments, NEW p \in Players, DepositStake(t, p)
      PROVE  EscrowBacked'
  <2>1. escrows[t][p].lamports = 0
    BY <1>1, <1>2 DEF DepositStake, ValidForGame
  <2>2. escrows' = [escrows EXCEPT ![t][p] =
                      [exists |-> TRUE, consumed |-> FALSE, lamports |-> Stake]]
    BY <1>1, <1>2, <2>1 DEF DepositStake
  <2>3. QED
    BY <1>1, <2>2
<1>3. ASSUME NEW t \in Tournaments, NEW p \in Players, WithdrawStake(t, p)
      PROVE  EscrowBacked'
  BY <1>1, <1>3 DEF WithdrawStake, NoEscrow
<1>4. ASSUME NEW t \in Tournaments, NEW p \in Players,
             ValidForGame(escrows[t][p]),
             escrows' = [escrows EXCEPT ![t][p] = Consume(@)]
      PROVE  EscrowBacked'
  <2>1. escrows[t][p].lamports = Stake /\ escrows[t][p] \in Escrows
    BY <1>1, <1>4 DEF ValidForGame
  <2>2. Consume(escrows[t][p]).lamports = 0 /\ Consume(escrows[t][p]).consumed
    BY <1>1, <2>1 DEF Consume, Escrows
  <2>3. QED
    BY <1>1, <1>4, <2>2
<1>5. ASSUME NEW t \in Tournaments, NEW p \in Players, NEW secret \in Matchups,
             CreateGame(t, p, secret)
      PROVE  EscrowBacked'
  BY <1>4, <1>5 DEF CreateGame
<1>6. ASSUME NEW g \in GameIds, NEW p \in Players, JoinGame(g, p)
      PROVE  EscrowBacked'
  <2>1. games[g].tournament \in Tournaments
    BY DEF IInv, TypeOK, Games
  <2>2. QED
    BY <1>4, <1>6, <2>1 DEF JoinGame
<1>7. CASE UNCHANGED escrows
  BY <1>1, <1>7
<1> HIDE DEF EscrowBacked
<1>8. ASSUME NEW g \in GameIds, Deals(g)
      PROVE  EscrowBacked'
  <2>1. ASSUME NEW i \in Seats, RevealGuess(g, i) PROVE UNCHANGED escrows
    BY <2>1 DEF RevealGuess, Settle
  <2>2. ResolveTimeout(g) => UNCHANGED escrows
    BY DEF ResolveTimeout, Settle
  <2>3. QED
    BY <1>7, <1>8, <2>1, <2>2 DEF Deals, CommitGuess, CloseGame
<1>9. \A t \in Tournaments : Runs(t) => EscrowBacked'
  BY <1>7 DEF Runs, CreateTournament, FinalizeTournament, ClaimReward
<1>10. CASE TickSlot \/ TickTime \/ UNCHANGED vars
  BY <1>7, <1>10 DEF TickSlot, TickTime, vars
<1>11. ASSUME NEW bps, NEW treasury, NEW matchmaker, NEW authority,
              UpdateConfig(bps, treasury, matchmaker, authority)
       PROVE  EscrowBacked'
  BY <1>7, <1>11 DEF UpdateConfig
<1>12. QED
  BY <1>2, <1>3, <1>5, <1>6, <1>8, <1>9, <1>10, <1>11 DEF Next, Deals, Runs

(* Only a game's own instructions touch the games.                         *)
LEMMA GameActions ==
  ASSUME [Next]_vars
  PROVE  \/ games' = games /\ gameCount' = gameCount /\ (slot' = slot \/ slot' = slot + 1)
         \/ \E t \in Tournaments, p \in Players, secret \in Matchups : CreateGame(t, p, secret)
         \/ \E h \in GameIds :
              \/ \E p \in Players : JoinGame(h, p)
              \/ \E i \in Seats, guess \in Guesses : CommitGuess(h, i, guess)
              \/ \E i \in Seats : RevealGuess(h, i)
              \/ ResolveTimeout(h)
              \/ \E caller \in Accounts : CloseGame(h, caller)
BY DEF Next, vars, TickSlot, TickTime, CreateTournament, UpdateConfig, DepositStake,
   WithdrawStake, FinalizeTournament, ClaimReward

LEMMA GamesStepInv == IInv /\ [Next]_vars => \A h \in GameIds : GameInv(games'[h], slot')
<1> SUFFICES ASSUME IInv, [Next]_vars
             PROVE  \A h \in GameIds : GameInv(games'[h], slot')
  OBVIOUS
<1>1. /\ slot \in Nat /\ games \in [GameIds -> Games]
      /\ \A h \in GameIds : games[h] \in Games /\ GameInv(games[h], slot)
  BY DEF IInv, TypeOK
<1>2. CASE games' = games /\ slot' = slot
  BY <1>1, <1>2
<1>3. CASE games' = games /\ slot' = slot + 1
  <2>1. \A game \in Games : GameInv(game, slot) => GameInv(game, slot + 1)
    BY <1>1 DEF GameInv, Timely, Games, Committed
  <2>2. QED
    BY <1>1, <1>3, <2>1
<1>4. ASSUME NEW t \in Tournaments, NEW p \in Players, NEW secret \in Matchups,
             CreateGame(t, p, secret)
      PROVE  \A h \in GameIds : GameInv(games'[h], slot')
  <2> DEFINE new == [NoGame EXCEPT !.state = "Pending", !.tournament = t, !.secret = secret,
                                   !.player[1] = p, !.lamports = Stake]
  <2>1. GameInv(new, slot)
    BY <1>1, GameAssumption, CreatedInv
  <2>2. games' = [games EXCEPT ![gameCount] = new] /\ slot' = slot
    BY <1>4 DEF CreateGame
  <2> HIDE DEF new
  <2>3. QED
    BY <1>1, <2>1, <2>2
<1>5. ASSUME NEW g \in GameIds, NEW p \in Players, JoinGame(g, p)
      PROVE  \A h \in GameIds : GameInv(games'[h], slot')
  <2>1. GameInv(Join(games[g], p), slot)
    BY <1>1, <1>5, JoinedInv DEF JoinGame
  <2>2. QED
    BY <1>1, <1>5, <2>1 DEF JoinGame
<1>6. ASSUME NEW g \in GameIds, NEW i \in Seats, NEW guess \in Guesses,
             CommitGuess(g, i, guess)
      PROVE  \A h \in GameIds : GameInv(games'[h], slot')
  <2>1. GameInv(Commit(games[g], i, guess), slot)
    BY <1>1, <1>6, GameAssumption, CommittedInv DEF CommitGuess
  <2>2. games' = [games EXCEPT ![g] = Commit(games[g], i, guess)] /\ slot' = slot
    BY <1>6 DEF CommitGuess
  <2>3. QED
    BY <1>1, <2>1, <2>2
<1>7. ASSUME NEW g \in GameIds, NEW caller \in Accounts, CloseGame(g, caller)
      PROVE  \A h \in GameIds : GameInv(games'[h], slot')
  BY <1>1, <1>7, NoGameInv DEF CloseGame
<1>8. QED
  BY <1>2, <1>3, <1>4, <1>5, <1>6, <1>7, RevealStepInv, TimeoutStepInv, GameActions

(* Every resolution settles the game it resolves and no other account of a *)
(* game.                                                                   *)
LEMMA SettleGames ==
  ASSUME NEW g, NEW game, NEW ret, NEW gain, NEW winners, NEW counts,
         Settle(g, game, ret, gain, winners, counts)
  PROVE  /\ \E paid : games' = [games EXCEPT ![g] = Settled(game, paid)]
         /\ slot' = slot /\ gameCount' = gameCount
BY DEF Settle

(* No step starts, or leaves anything in, a game whose id is still to come. *)
LEMMA FreshStep == IInv /\ [Next]_vars => Fresh'
<1> SUFFICES ASSUME IInv, [Next]_vars PROVE Fresh'
  OBVIOUS
<1>1. /\ games \in [GameIds -> Games] /\ gameCount \in Nat /\ Fresh /\ GameIds \subseteq Int
  BY DEF IInv, TypeOK, GameIds
<1>2. ASSUME NEW g \in GameIds, NEW new, games[g].state # "Absent",
             games' = [games EXCEPT ![g] = new], gameCount' = gameCount
      PROVE  Fresh'
  BY <1>1, <1>2 DEF Fresh
<1>3. CASE games' = games /\ gameCount' = gameCount
  BY <1>1, <1>3 DEF Fresh
<1>4. ASSUME NEW t \in Tournaments, NEW p \in Players, NEW secret \in Matchups,
             CreateGame(t, p, secret)
      PROVE  Fresh'
  <2>1. /\ gameCount' = gameCount + 1
        /\ \A h \in GameIds : h # gameCount => games'[h] = games[h]
    BY <1>1, <1>4 DEF CreateGame
  <2>2. QED
    BY <1>1, <2>1 DEF Fresh
<1>5. ASSUME NEW g \in GameIds, NEW p \in Players, JoinGame(g, p)
      PROVE  Fresh'
  BY <1>2, <1>5 DEF JoinGame
<1>6. ASSUME NEW g \in GameIds, NEW i \in Seats, NEW guess \in Guesses,
             CommitGuess(g, i, guess)
      PROVE  Fresh'
  BY <1>2, <1>6 DEF CommitGuess, MayCommit
<1>7. ASSUME NEW g \in GameIds, NEW i \in Seats, RevealGuess(g, i)
      PROVE  Fresh'
  <2>1. games[g].state # "Absent" /\ gameCount' = gameCount
    BY <1>7, SettleGames DEF RevealGuess, CanReveal
  <2>2. \E new : games' = [games EXCEPT ![g] = new]
    BY <1>7, SettleGames DEF RevealGuess
  <2>3. QED
    BY <1>2, <2>1, <2>2
<1>8. ASSUME NEW g \in GameIds, ResolveTimeout(g)
      PROVE  Fresh'
  <2>1. games[g].state # "Absent"
    BY <1>8 DEF ResolveTimeout, Overdue, Running
  <2>2. gameCount' = gameCount /\ \E new : games' = [games EXCEPT ![g] = new]
    BY <1>8, SettleGames DEF ResolveTimeout
  <2>3. QED
    BY <1>2, <2>1, <2>2
<1>9. ASSUME NEW g \in GameIds, NEW caller \in Accounts, CloseGame(g, caller)
      PROVE  Fresh'
  BY <1>2, <1>9 DEF CloseGame
<1>10. QED
  BY <1>3, <1>4, <1>5, <1>6, <1>7, <1>8, <1>9, GameActions

LEMMA GameStarts == Init => IInv
<1> SUFFICES ASSUME Init PROVE IInv
  OBVIOUS
<1>1. TypeOK
  BY TypeInit
<1>2. EscrowBacked
  BY DEF Init, EscrowBacked, NoEscrow
<1>3. \A g \in GameIds : GameInv(games[g], slot)
  BY NoGameInv DEF Init
<1>4. Fresh
  BY DEF Init, Fresh, NoGame
<1>5. QED
  BY <1>1, <1>2, <1>3, <1>4 DEF IInv

LEMMA GameStep == IInv /\ [Next]_vars => IInv'
BY TypeStep, EscrowStepInv, GamesStepInv, FreshStep DEF IInv

(* The inductive invariant holds in every reachable state.                 *)
THEOREM InvariantHolds == Spec => []IInv
BY GameStarts, GameStep, PTL DEF Spec

(* A running game holds both stakes and a resolved one nothing, for every  *)
(* stake, odd ones included, and every way to resolve it.                  *)
THEOREM PotsExact == Spec => []PotExact
<1>1. IInv => PotExact
  BY DEF IInv, GameInv, PotExact
<1>2. QED
  BY <1>1, InvariantHolds, PTL

(* An escrow is never spent twice: it holds its stake until consumed.      *)
THEOREM EscrowsBacked == Spec => []EscrowBacked
<1>1. IInv => EscrowBacked
  BY DEF IInv
<1>2. QED
  BY <1>1, InvariantHolds, PTL

(* The player the tie break favours really did commit first.               *)
THEOREM FirstCommitter == Spec => []FirstCommitterTruth
<1>1. IInv => FirstCommitterTruth
  BY DEF IInv, GameInv, FirstCommitterTruth
<1>2. QED
  BY <1>1, InvariantHolds, PTL

(* No guess is made after the matchup or the other guess is known.         *)
THEOREM Blindness == Spec => []MatchupHidden
<1>1. IInv => MatchupHidden
  BY DEF IInv, GameInv, MatchupHidden
<1>2. QED
  BY <1>1, InvariantHolds, PTL

(* Each phase has the seats, commitments and reveals the handlers assume.  *)
THEOREM PhasesShaped == Spec => []PhaseShape
<1>1. IInv => PhaseShape
  BY DEF IInv, GameInv, PhaseShape
<1>2. QED
  BY <1>1, InvariantHolds, PTL

-----------------------------------------------------------------------------
(* What no step may do.                                                    *)

(* Every step leaves a given game alone, or is one of its operations.      *)
LEMMA GameSteps ==
  ASSUME IInv, [Next]_vars, NEW g \in GameIds
  PROVE  \/ games'[g] = games[g]
         \/ games[g].state = "Absent"
         \/ \E p \in Players : games'[g] = Join(games[g], p)
         \/ \E i \in Seats, guess \in Guesses :
              MayCommit(games[g], i) /\ games'[g] = Commit(games[g], i, guess)
         \/ \E i \in Seats : CanReveal(games[g], i) /\
              (\/ games'[g] = Reveal(games[g], i)
               \/ \E paid : games'[g] = Settled(Reveal(games[g], i), paid))
         \/ ResolveTimeout(g) /\ \E paid : games'[g] = Settled(games[g], paid)
         \/ games'[g] = NoGame
<1> DEFINE Goal ==
         \/ games'[g] = games[g]
         \/ games[g].state = "Absent"
         \/ \E p \in Players : games'[g] = Join(games[g], p)
         \/ \E i \in Seats, guess \in Guesses :
              MayCommit(games[g], i) /\ games'[g] = Commit(games[g], i, guess)
         \/ \E i \in Seats : CanReveal(games[g], i) /\
              (\/ games'[g] = Reveal(games[g], i)
               \/ \E paid : games'[g] = Settled(Reveal(games[g], i), paid))
         \/ ResolveTimeout(g) /\ \E paid : games'[g] = Settled(games[g], paid)
         \/ games'[g] = NoGame
<1>1. games \in [GameIds -> Games] /\ gameCount \in Nat /\ Fresh
  BY DEF IInv, TypeOK
<1>2. games' = games => Goal
  OBVIOUS
<1>3. ASSUME NEW t \in Tournaments, NEW p \in Players, NEW secret \in Matchups,
             CreateGame(t, p, secret)
      PROVE  Goal
  <2>1. g # gameCount => games'[g] = games[g]
    BY <1>1, <1>3 DEF CreateGame
  <2>2. g = gameCount => games[g].state = "Absent"
    BY <1>1 DEF Fresh, GameIds
  <2>3. QED
    BY <2>1, <2>2
<1>4. ASSUME NEW h \in GameIds, NEW p \in Players, JoinGame(h, p)
      PROVE  Goal
  <2>1. games' = [games EXCEPT ![h] = Join(games[h], p)]
    BY <1>4 DEF JoinGame
  <2>2. QED
    BY <1>1, <2>1
<1>5. ASSUME NEW h \in GameIds, NEW i \in Seats, NEW guess \in Guesses,
             CommitGuess(h, i, guess)
      PROVE  Goal
  <2>1. games' = [games EXCEPT ![h] = Commit(games[h], i, guess)] /\ MayCommit(games[h], i)
    BY <1>5 DEF CommitGuess
  <2>2. QED
    BY <1>1, <2>1
<1>6. ASSUME NEW h \in GameIds, NEW i \in Seats, RevealGuess(h, i)
      PROVE  Goal
  <2>1. CanReveal(games[h], i)
    BY <1>6 DEF RevealGuess
  <2>2. \/ games' = [games EXCEPT ![h] = Reveal(games[h], i)]
        \/ \E paid : games' = [games EXCEPT ![h] = Settled(Reveal(games[h], i), paid)]
    BY <1>6, SettleGames DEF RevealGuess
  <2>3. QED
    BY <1>1, <2>1, <2>2
<1>7. ASSUME NEW h \in GameIds, ResolveTimeout(h)
      PROVE  Goal
  <2>1. \E paid : games' = [games EXCEPT ![h] = Settled(games[h], paid)]
    BY <1>7, SettleGames DEF ResolveTimeout
  <2>2. QED
    BY <1>1, <1>7, <2>1
<1>8. ASSUME NEW h \in GameIds, NEW caller \in Accounts, CloseGame(h, caller)
      PROVE  Goal
  <2>1. games' = [games EXCEPT ![h] = NoGame]
    BY <1>8 DEF CloseGame
  <2>2. QED
    BY <1>1, <2>1
<1> HIDE DEF Goal
<1>9. Goal
  <2>1. CASE \E h \in GameIds :
               \/ \E p \in Players : JoinGame(h, p)
               \/ \E i \in Seats, guess \in Guesses : CommitGuess(h, i, guess)
               \/ \E i \in Seats : RevealGuess(h, i)
               \/ ResolveTimeout(h)
               \/ \E caller \in Accounts : CloseGame(h, caller)
    BY <1>4, <1>5, <1>6, <1>7, <1>8, <2>1
  <2>2. CASE \E t \in Tournaments, p \in Players, secret \in Matchups : CreateGame(t, p, secret)
    BY <1>3, <2>2
  <2>3. QED
    BY <1>2, <2>1, <2>2, GameActions, Zenon
<1>10. QED
  BY <1>9 DEF Goal

(* A commitment, the slot it was made in and the guess it hides are fixed  *)
(* for the rest of the game.                                               *)
THEOREM CommitmentsBind == Spec => CommitmentBinds
<1> DEFINE Bound(old, new) ==
      \A i \in Seats : old.commit[i] # Unset /\ new.state # "Absent" =>
        /\ new.commit[i] = old.commit[i] /\ new.commitSlot[i] = old.commitSlot[i]
        /\ new.guess[i] \in {old.guess[i], old.commit[i]}
<1>1. ASSUME IInv, [Next]_vars, NEW g \in GameIds
      PROVE  Bound(games[g], games'[g])
  <2>1. games[g] \in Games /\ GameInv(games[g], slot)
    BY <1>1 DEF IInv, TypeOK
  <2>2. CASE games[g].state = "Absent"
    BY <2>1, <2>2 DEF GameInv, Shaped, Committed
  <2>3. CASE games'[g] = games[g]
    BY <2>3
  <2>4. ASSUME NEW p \in Players, games'[g] = Join(games[g], p) PROVE Bound(games[g], games'[g])
    BY <2>1, <2>4 DEF Join, Games
  <2>5. ASSUME NEW i \in Seats, NEW guess \in Guesses, MayCommit(games[g], i),
               games'[g] = Commit(games[g], i, guess)
        PROVE  Bound(games[g], games'[g])
    BY <2>1, <2>5 DEF Commit, MayCommit, Games
  <2>6. ASSUME NEW i \in Seats PROVE Bound(games[g], Reveal(games[g], i))
    BY <2>1 DEF Reveal, Games
  <2>7. ASSUME NEW game \in Games, NEW paid, Bound(games[g], game), game.state # "Absent"
        PROVE  Bound(games[g], Settled(game, paid))
    <3>1. LET new == Settled(game, paid) IN
          new.commit = game.commit /\ new.commitSlot = game.commitSlot /\ new.guess = game.guess
      BY DEF Settled, Games
    <3>2. Settled(game, paid).state = "Resolved" /\ "Resolved" # "Absent"
      BY DEF Settled, Games
    <3>3. QED
      BY <2>7, <3>1, <3>2
  <2>8. CASE games'[g] = NoGame
    BY <2>8 DEF NoGame
  <2>9. Bound(games[g], games[g])
    OBVIOUS
  <2>10. \A i \in Seats : CanReveal(games[g], i) =>
           Reveal(games[g], i) \in Games /\ Reveal(games[g], i).state # "Absent"
    BY <2>1, RevealType DEF Reveal, CanReveal, Games
  <2> HIDE DEF Bound
  <2>11. QED
    BY <1>1, <2>1, <2>2, <2>3, <2>4, <2>5, <2>6, <2>7, <2>8, <2>9, <2>10, GameSteps
<1>2. IInv /\ [Next]_vars =>
        [\A g \in GameIds, i \in Seats :
           games[g].commit[i] # Unset /\ games'[g].state # "Absent" =>
             /\ games'[g].commit[i] = games[g].commit[i]
             /\ games'[g].commitSlot[i] = games[g].commitSlot[i]
             /\ games'[g].guess[i] \in {games[g].guess[i], games[g].commit[i]}]_vars
  BY <1>1
<1>3. QED
  BY <1>2, InvariantHolds, PTL DEF Spec, CommitmentBinds

(* Nobody forfeits before the full window has passed.                      *)
THEOREM NoForfeitEarly == Spec => NoEarlyForfeit
<1>1. ASSUME IInv, [Next]_vars, NEW g \in GameIds, Forfeits(g)
      PROVE  IF Committed(games[g]) = Seats
             THEN \A i \in Seats : slot >= games[g].commitSlot[i] + RevealTimeout
             ELSE slot >= games[g].activated + CommitTimeout
  <2> DEFINE game == games[g]
  <2>1. game \in Games /\ GameInv(game, slot) /\ slot \in Nat
    BY <1>1 DEF IInv, TypeOK
  <2>2. CommitTimeout \in Nat /\ RevealTimeout \in Nat
    BY GameAssumption
  <2>3. /\ game.state \in Running /\ games'[g].state = "Resolved"
        /\ games'[g].guess = game.guess
    BY <1>1 DEF Forfeits, Resolves
  <2>4. ResolveTimeout(g)
    <3>1. \A p \in Players : Join(game, p).state # "Resolved"
      BY <2>1 DEF Join, Games
    <3>2. \A i \in Seats, guess \in Guesses : Commit(game, i, guess).state # "Resolved"
      BY <2>1 DEF Commit, Games
    <3>3. ASSUME NEW i \in Seats, CanReveal(game, i), NEW paid
          PROVE  /\ Reveal(game, i).guess # game.guess
                 /\ Settled(Reveal(game, i), paid).guess # game.guess
      <4>1. game.commit[i] # Unset
        BY <2>1, <3>3 DEF GameInv, Shaped, Committed, CanReveal
      <4>2. Reveal(game, i).guess[i] # game.guess[i]
        BY <2>1, <3>3, <4>1 DEF Reveal, CanReveal, Games
      <4>3. Settled(Reveal(game, i), paid).guess = Reveal(game, i).guess
        BY <2>1, RevealType DEF Settled, Games
      <4>4. QED
        BY <4>2, <4>3
    <3>4. NoGame.state # "Resolved" /\ game.state # "Absent" /\ game.state # "Resolved"
      BY <2>3 DEF NoGame, Running
    <3>5. QED
      BY <1>1, <2>3, <3>1, <3>2, <3>3, <3>4, GameSteps
  <2>5. slot >= Deadline(game)
    BY <2>4 DEF ResolveTimeout, Overdue
  <2>6. CASE game.state = "Active"
    <3>1. Committed(game) = {} /\ Seats # {}
      BY <2>1, <2>6 DEF GameInv, Shaped, Seats
    <3>2. QED
      BY <2>5, <2>6, <3>1 DEF Deadline
  <2>7. CASE game.state = "Committing"
    <3>1. \E i \in Seats : Committed(game) = {i} /\ Seats # {i}
      BY <2>1, <2>7 DEF GameInv, Shaped, Seats
    <3>2. game.commitSlot[IF game.commit[1] # Unset THEN 1 ELSE 2] >= game.activated
      BY <2>1, <3>1 DEF GameInv, Timely, Committed, Seats, Games
    <3>3. CommitterSlot(game) \in Nat /\ CommitterSlot(game) >= game.activated
      BY <2>1, <3>2 DEF CommitterSlot, Games, Seats
    <3>4. QED
      BY <2>1, <2>2, <2>5, <2>7, <3>1, <3>3 DEF Deadline, Games
  <2>8. CASE game.state = "Revealing"
    <3>1. Committed(game) = Seats
      BY <2>1, <2>8 DEF GameInv, Shaped
    <3>2. game.commitSlot[1] \in Nat /\ game.commitSlot[2] \in Nat
      BY <2>1 DEF Games, Seats
    <3>3. slot >= Later(game.commitSlot[1], game.commitSlot[2]) + RevealTimeout
      BY <2>5, <2>8 DEF Deadline
    <3>4. /\ slot >= game.commitSlot[1] + RevealTimeout
          /\ slot >= game.commitSlot[2] + RevealTimeout
      BY <2>1, <2>2, <3>2, <3>3 DEF Later
    <3>5. QED
      BY <3>1, <3>4 DEF Seats
  <2>9. QED
    BY <2>3, <2>6, <2>7, <2>8 DEF Running
<1>2. IInv /\ [Next]_vars =>
        [\A g \in GameIds : LET game == games[g] IN
           Forfeits(g) =>
             IF Committed(game) = Seats
             THEN \A i \in Seats : slot >= game.commitSlot[i] + RevealTimeout
             ELSE slot >= game.activated + CommitTimeout]_vars
  BY <1>1
<1>3. QED
  BY <1>2, InvariantHolds, PTL DEF Spec, NoEarlyForfeit
-----------------------------------------------------------------------------
(* Who wins is paid.                                                       *)

(* A resolution that counts pays exactly the seats it credits.             *)
LEMMA SettlePays ==
  ASSUME TypeOK, NEW g \in GameIds, NEW game \in Games,
         NEW ret \in [Seats -> Nat], NEW gain \in Nat, NEW winners,
         Settle(g, game, ret, gain, winners, TRUE),
         {game.player[1], game.player[2]} \subseteq Players, game.player[1] # game.player[2],
         \A i \in Seats : i \in winners <=> ret[i] > 0,
         NEW i \in Seats
  PROVE  LET t == game.tournament
             p == game.player[i]
         IN (profiles'[t][p].wins > profiles[t][p].wins) <=> (wallet'[p] > wallet[p])
<1> DEFINE t == game.tournament
           p == game.player[i]
           fee == TreasuryShare(gain, config.bps)
           first == Pay(wallet, game.player[1], ret[1])
           both == Pay(first, game.player[2], ret[2])
<1>1. /\ t \in Tournaments /\ p \in Players /\ Players \subseteq Accounts
      /\ wallet \in [Accounts -> Nat] /\ profiles[t][p] \in Profiles
  BY DEF Games, TypeOK, Accounts, Seats
<1>2. config.treasury # p
  BY GameAssumption, <1>1 DEF TypeOK, Configs
<1>3. wallet'[p] = wallet[p] + ret[i]
  <2>1. wallet' = Pay(both, config.treasury, fee)
    BY DEF Settle
  <2>2. ret[1] \in Nat /\ ret[2] \in Nat
    BY DEF Seats
  <2>3. first \in [Accounts -> Nat] /\ both \in [Accounts -> Nat]
    BY <1>1, <2>2, PayType
  <2>4. both[p] = wallet[p] + ret[i]
    <3>1. CASE i = 1
      BY <1>1, <2>3, <3>1 DEF Pay
    <3>2. CASE i = 2
      BY <1>1, <2>3, <3>2 DEF Pay
    <3>3. QED
      BY <3>1, <3>2 DEF Seats
  <2> HIDE DEF both, fee, p
  <2>5. QED
    BY <1>1, <1>2, <2>1, <2>3, <2>4 DEF Pay
<1>4. profiles'[t][p] = Credit(profiles[t][p], i, winners)
  <2>1. profiles' = [profiles EXCEPT ![t] = CreditAll(game.player, winners, profiles[t])]
    BY DEF Settle
  <2>2. profiles'[t] = CreditAll(game.player, winners, profiles[t])
    BY <1>1, <2>1 DEF TypeOK
  <2>3. i = 1 \/ i = 2
    BY DEF Seats
  <2>4. QED
    BY <1>1, <2>2, <2>3 DEF CreditAll
<1>5. profiles'[t][p].wins = IF i \in winners THEN profiles[t][p].wins + 1
                                              ELSE profiles[t][p].wins
  BY <1>1, <1>4 DEF Credit, Profiles
<1>6. profiles[t][p].wins \in Nat /\ wallet[p] \in Nat /\ ret[i] \in Nat
  BY <1>1 DEF Profiles
<1> HIDE DEF t, p
<1>7. (profiles'[t][p].wins > profiles[t][p].wins) <=> i \in winners
  BY <1>5, <1>6
<1>8. (wallet'[p] > wallet[p]) <=> ret[i] > 0
  BY <1>3, <1>6
<1>9. (profiles'[t][p].wins > profiles[t][p].wins) <=> (wallet'[p] > wallet[p])
  BY <1>7, <1>8
<1>10. QED
  BY <1>9 DEF t, p

(* A settlement that does not count leaves the tournament's count alone.   *)
LEMMA LateUncounted ==
  ASSUME TypeOK, NEW g \in GameIds, NEW game \in Games, NEW ret, NEW gain, NEW winners,
         Settle(g, game, ret, gain, winners, FALSE)
  PROVE  ~(tournaments'[game.tournament].gameCount > tournaments[game.tournament].gameCount)
<1> DEFINE t == game.tournament
           share == TournamentShare(gain, config.bps)
<1>1. t \in Tournaments /\ tournaments[t] \in TournamentRecords
  BY DEF Games, TypeOK
<1>2. tournaments' = [tournaments EXCEPT ![t] = Contribute(tournaments[t], share, FALSE)]
  BY DEF Settle
<1>3. tournaments'[t].gameCount = tournaments[t].gameCount
  BY <1>1, <1>2 DEF TypeOK, Contribute, TournamentRecords
<1>4. tournaments[t].gameCount \in Nat
  BY <1>1 DEF TournamentRecords
<1>5. QED
  BY <1>3, <1>4

(* A running game is resolved by a reveal or by its timeout, by no step of *)
(* another game.                                                           *)
LEMMA Resolvers ==
  ASSUME IInv, [Next]_vars, NEW g \in GameIds, Resolves(g)
  PROVE  ResolveTimeout(g) \/ \E i \in Seats : RevealGuess(g, i)
<1> DEFINE Goal == ResolveTimeout(g) \/ \E i \in Seats : RevealGuess(g, i)
<1>1. /\ games \in [GameIds -> Games] /\ games[g].state \in Running
      /\ games'[g].state = "Resolved" /\ games'[g] # games[g]
      /\ gameCount \in Nat /\ Fresh
  BY DEF IInv, TypeOK, Resolves, Running
<1>2. games' = games => Goal
  BY <1>1
<1>3. ASSUME NEW t \in Tournaments, NEW p \in Players, NEW secret \in Matchups,
             CreateGame(t, p, secret)
      PROVE  Goal
  <2>1. g # gameCount => games'[g] = games[g]
    BY <1>1, <1>3 DEF CreateGame
  <2>2. g = gameCount => games[g].state = "Absent"
    BY <1>1 DEF Fresh, GameIds
  <2>3. QED
    BY <1>1, <2>1, <2>2 DEF Running
<1>4. ASSUME NEW h \in GameIds, NEW p \in Players, JoinGame(h, p)
      PROVE  Goal
  <2>1. games' = [games EXCEPT ![h] = Join(games[h], p)]
    BY <1>4 DEF JoinGame
  <2>2. Join(games[h], p).state = "Active"
    BY <1>1 DEF Join, Games
  <2>3. QED
    BY <1>1, <2>1, <2>2
<1>5. ASSUME NEW h \in GameIds, NEW i \in Seats, NEW guess \in Guesses, CommitGuess(h, i, guess)
      PROVE  Goal
  <2>1. games' = [games EXCEPT ![h] = Commit(games[h], i, guess)]
    BY <1>5 DEF CommitGuess
  <2>2. Commit(games[h], i, guess).state \in {"Revealing", "Committing"}
    BY <1>1 DEF Commit, Games
  <2>3. QED
    BY <1>1, <2>1, <2>2
<1>6. ASSUME NEW h \in GameIds, NEW i \in Seats, RevealGuess(h, i)
      PROVE  Goal
  <2>1. h # g => games'[g] = games[g]
    BY <1>1, <1>6, SettleGames DEF RevealGuess
  <2>2. QED
    BY <1>1, <1>6, <2>1
<1>7. ASSUME NEW h \in GameIds, ResolveTimeout(h)
      PROVE  Goal
  <2>1. h # g => games'[g] = games[g]
    BY <1>1, <1>7, SettleGames DEF ResolveTimeout
  <2>2. QED
    BY <1>1, <1>7, <2>1
<1>8. ASSUME NEW h \in GameIds, NEW caller \in Accounts, CloseGame(h, caller)
      PROVE  Goal
  <2>1. games' = [games EXCEPT ![h] = NoGame] /\ NoGame.state = "Absent"
    BY <1>8 DEF CloseGame, NoGame
  <2>2. QED
    BY <1>1, <2>1
<1> HIDE DEF Goal
<1>9. Goal
  BY <1>2, <1>3, <1>4, <1>5, <1>6, <1>7, <1>8, GameActions
<1>10. QED
  BY <1>9 DEF Goal

(* The last reveal of a game that is not late pays the winners.            *)
LEMMA RevealPays ==
  ASSUME IInv, Stake > 1, NEW g \in GameIds, NEW i \in Seats, RevealGuess(g, i),
         Resolves(g), Counts(g), NEW j \in Seats
  PROVE  LET t == games[g].tournament
             p == games[g].player[j]
         IN (profiles'[t][p].wins > profiles[t][p].wins) <=> (wallet'[p] > wallet[p])
<1> DEFINE game == Reveal(games[g], i)
           late == IsLate(game.tournament)
           refund == [ret |-> [k \in Seats |-> Stake], gain |-> 0]
           payoff == Resolution(game.matchup, game.guess, Stake, game.first)
           res == IF late THEN refund ELSE payoff
           winners == Winners(game.matchup, game.guess, res.ret)
<1>1. /\ TypeOK /\ games[g] \in Games /\ GameInv(games[g], slot)
      /\ CanReveal(games[g], i) /\ slot \in Nat
  BY DEF IInv, TypeOK, RevealGuess
<1>2. /\ game \in Games /\ game.state = "Revealing"
      /\ game.player = games[g].player /\ game.tournament = games[g].tournament
  <2>1. game \in Games
    BY <1>1, RevealType
  <2>2. QED
    BY <1>1, <2>1 DEF Reveal, CanReveal, Games
<1>3. game.guess[i] \in Bits /\ game.matchup \in Bits /\ game.first \in Seats
  BY <1>1, RevealedInv
<1>4. /\ game.guess = [games[g].guess EXCEPT ![i] = games[g].commit[i]]
      /\ Other(i) \in Seats /\ Other(i) # i /\ Seats = {i, Other(i)}
  BY <1>1 DEF Reveal, Games, Other, Seats
<1>5. game.guess[Other(i)] = games[g].guess[Other(i)]
  BY <1>1, <1>4 DEF Games
<1>6. /\ game.guess[Other(i)] # Unset
      /\ Settle(g, game, res.ret, res.gain, winners, ~late)
  <2>1. games'[g].state = "Resolved"
    BY DEF Resolves
  <2>2. games' # [games EXCEPT ![g] = game]
    BY <1>1, <1>2, <2>1 DEF TypeOK
  <2>3. QED
    BY <1>1, <2>2 DEF RevealGuess
<1>7. game.guess \in [Seats -> Bits]
  BY <1>2, <1>3, <1>4, <1>6 DEF Games
<1>8. /\ {game.player[1], game.player[2]} \subseteq Players /\ game.player[1] # game.player[2]
  BY <1>1, <1>2 DEF GameInv, Shaped, Running, Seated, Games, Seats, CanReveal
<1>9. late \in BOOLEAN
  BY DEF IsLate
<1> HIDE DEF game
<1>10. ~late
  <2>1. ASSUME late PROVE FALSE
    <3>1. Settle(g, game, res.ret, res.gain, winners, FALSE)
      BY <1>6, <2>1
    <3>2. ~Counts(g)
      BY <1>1, <1>2, <3>1, LateUncounted DEF Counts
    <3>3. QED
      BY <3>2
  <2>2. QED
    BY <2>1
<1>11. res = payoff /\ Settle(g, game, payoff.ret, payoff.gain, winners, TRUE)
  BY <1>6, <1>10
<1>12. Stake \in Nat \ {0} /\ Stake \in Nat
  BY GameAssumption
<1>13. payoff.ret \in [Seats -> Nat] /\ payoff.gain \in Nat
  BY <1>3, <1>7, <1>12, ResolutionConserves
<1>14. \A k \in Seats : k \in winners <=> payoff.ret[k] > 0
  BY <1>3, <1>7, <1>11, <1>12, WinnersPaid
<1> HIDE DEF payoff, winners, res, late
<1>15. QED
  BY <1>1, <1>2, <1>8, <1>11, <1>13, <1>14, SettlePays

(* So does a timeout: the only diligent player wins the pot.               *)
LEMMA TimeoutPays ==
  ASSUME IInv, NEW g \in GameIds, ResolveTimeout(g), NEW j \in Seats
  PROVE  LET t == games[g].tournament
             p == games[g].player[j]
         IN (profiles'[t][p].wins > profiles[t][p].wins) <=> (wallet'[p] > wallet[p])
<1> DEFINE diligent == Diligent(games[g])
           ret == [k \in Seats |-> IF k \in diligent THEN 2 * Stake ELSE 0]
           gain == IF diligent = {} THEN 2 * Stake ELSE 0
<1>1. /\ TypeOK /\ games[g] \in Games /\ GameInv(games[g], slot)
      /\ games[g].state \in Running
  BY DEF IInv, TypeOK, ResolveTimeout, Overdue
<1>2. Stake \in Nat \ {0} /\ 2 * Stake \in Nat /\ 2 * Stake > 0
  BY GameAssumption
<1>3. /\ {games[g].player[1], games[g].player[2]} \subseteq Players
      /\ games[g].player[1] # games[g].player[2]
  BY <1>1 DEF GameInv, Shaped, Seated, Games, Seats
<1>4. Settle(g, games[g], ret, gain, diligent, TRUE)
  BY DEF ResolveTimeout
<1> HIDE DEF diligent
<1>5. ret \in [Seats -> Nat] /\ gain \in Nat /\ \A k \in Seats : k \in diligent <=> ret[k] > 0
  BY <1>2
<1> HIDE DEF ret, gain
<1>6. QED
  BY <1>1, <1>3, <1>4, <1>5, SettlePays

(* With a stake that has two halves, a player who is credited with a win   *)
(* by a game that counts is paid by it, and a player who is paid by it is  *)
(* credited: in every cell of the matrix and in every timeout.             *)
THEOREM WinnersArePaid ==
  ASSUME Stake > 1
  PROVE  Spec => WinIffPaid
<1>1. ASSUME IInv, [Next]_vars, NEW g \in GameIds, Resolves(g), Counts(g), NEW i \in Seats
      PROVE  LET t == games[g].tournament
                 p == games[g].player[i]
             IN (profiles'[t][p].wins > profiles[t][p].wins) <=> (wallet'[p] > wallet[p])
  BY <1>1, Resolvers, RevealPays, TimeoutPays
<1>2. IInv /\ [Next]_vars =>
        [\A g \in GameIds : Resolves(g) /\ Counts(g) =>
           \A i \in Seats :
             LET t == games[g].tournament
                 p == games[g].player[i]
             IN (profiles'[t][p].wins > profiles[t][p].wins) <=> (wallet'[p] > wallet[p])]_vars
  BY <1>1
<1>3. QED
  BY <1>2, InvariantHolds, PTL DEF Spec, WinIffPaid
=============================================================================
