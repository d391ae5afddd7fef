-------------------------- MODULE CoordinationGame --------------------------
(***************************************************************************)
(* The coordination_game program: tournaments, the matchmaking escrow, the *)
(* commit-reveal game with its timeouts, and the prize pool.               *)
(*                                                                         *)
(* An action is one instruction.  Solana runs an instruction atomically    *)
(* and undoes it when it fails, so the interleavings are those of whole    *)
(* instructions sent by different wallets, and of the two clocks the       *)
(* handlers read: Clock::slot for the timeouts, Clock::unix_timestamp for  *)
(* the tournament window.  The clocks drift apart, so they tick apart.     *)
(*                                                                         *)
(* Lamports are counted above the rent-exempt minimum, which stays with an *)
(* account and follows it when it is closed.  A commitment is the bit it   *)
(* hides: hashing binds.  It does not name its owner, so a player may copy *)
(* the opponent's, which is a guess of the same bit.                       *)
(***************************************************************************)
EXTENDS Payoff, FiniteSetsExt

CONSTANTS
    Players,        \* wallets that play
    Keys,           \* wallets of the operators: authority, matchmaker, treasury
    NoPlayer,       \* the default key of an empty seat
    Tournaments,    \* tournament ids
    Windows,        \* the <<start_time, end_time>> pairs offered to create_tournament
    SplitBps,       \* the treasury splits a configuration may hold
    Matchups,       \* the matchups the matchmaker forms: same team, different teams
    Guesses,        \* the guesses players make
    Stake,          \* FIXED_STAKE_LAMPORTS
    CommitTimeout,  \* COMMIT_TIMEOUT_SLOTS
    RevealTimeout,  \* REVEAL_TIMEOUT_SLOTS
    MinGames,       \* MIN_GAMES_FOR_PAYOUT
    Funds,          \* bound: the lamports each player starts with
    MaxGames,       \* bound: games ever created
    MaxSlot,        \* bound: the slot clock stops here unless a deadline is ahead
    MaxTime         \* bound: the wall clock stops here

ASSUME GameAssumption ==
  /\ Players \cap Keys = {} /\ NoPlayer \notin Players \cup Keys
  /\ IsFiniteSet(Players) /\ IsFiniteSet(Keys)
  /\ Tournaments # {} /\ IsFiniteSet(Tournaments)
  /\ Windows \subseteq Nat \X Nat
  /\ SplitBps \subseteq SplitRange
  /\ Matchups \subseteq Bits /\ Guesses \subseteq Bits
  /\ Stake \in Nat \ {0} /\ MinGames \in Nat \ {0}
  /\ CommitTimeout \in Nat \ {0} /\ RevealTimeout \in Nat
  /\ RevealTimeout > CommitTimeout
  /\ Funds \in Nat /\ MaxGames \in Nat /\ MaxSlot \in Nat /\ MaxTime \in Nat

VARIABLES
    slot,         \* Clock::slot
    now,          \* Clock::unix_timestamp
    config,       \* the GlobalConfig account
    wallet,       \* the lamports of players and operators
    tournaments,  \* the Tournament accounts
    profiles,     \* the PlayerProfile accounts, by tournament and player
    escrows,      \* the StakeEscrow accounts, by tournament and player
    games,        \* the Game accounts, by game id
    gameCount     \* GameCounter::count, the next game id

vars == <<slot, now, config, wallet, tournaments, profiles, escrows, games, gameCount>>

Accounts == Players \cup Keys
GameIds == 0 .. MaxGames - 1
Unset == 255
GameStates == {"Absent", "Pending", "Active", "Committing", "Revealing", "Resolved"}
Running == {"Active", "Committing", "Revealing"}

Configs == [authority : Keys, matchmaker : Keys, treasury : Keys, bps : SplitBps]

TournamentRecords ==
  [exists : BOOLEAN, start : Nat, end : Nat, lamports : Nat, prize : Nat,
   gameCount : Nat, finalized : BOOLEAN, snapshot : Nat, root : [Players -> Nat]]

Profiles == [wins : Nat, games : Nat, score : Nat, claimed : BOOLEAN]

Escrows == [exists : BOOLEAN, consumed : BOOLEAN, lamports : Nat]

Games ==
  [state : GameStates, tournament : Tournaments,
   player : [Seats -> Players \cup {NoPlayer}],
   commit : [Seats -> Bits \cup {Unset}], guess : [Seats -> Bits \cup {Unset}],
   commitSlot : [Seats -> Nat], first : {0} \cup Seats, activated : Nat,
   secret : Bits, matchup : Bits \cup {Unset}, lamports : Nat]

(* An account that does not exist, and a zeroed profile.                   *)
NoTournament ==
  [exists |-> FALSE, start |-> 0, end |-> 0, lamports |-> 0, prize |-> 0,
   gameCount |-> 0, finalized |-> FALSE, snapshot |-> 0, root |-> [p \in Players |-> 0]]

NewProfile == [wins |-> 0, games |-> 0, score |-> 0, claimed |-> FALSE]

NoEscrow == [exists |-> FALSE, consumed |-> FALSE, lamports |-> 0]

NoGame ==
  [state |-> "Absent", tournament |-> CHOOSE t \in Tournaments : TRUE,
   player |-> [i \in Seats |-> NoPlayer],
   commit |-> [i \in Seats |-> Unset], guess |-> [i \in Seats |-> Unset],
   commitSlot |-> [i \in Seats |-> 0], first |-> 0, activated |-> 0,
   secret |-> SameTeam, matchup |-> Unset, lamports |-> 0]

(* After initialize and initialize_config have run.                        *)
Init ==
  /\ slot = 0 /\ now = 0
  /\ config \in Configs
  /\ wallet = [a \in Accounts |-> IF a \in Players THEN Funds ELSE 0]
  /\ tournaments = [t \in Tournaments |-> NoTournament]
  /\ profiles = [t \in Tournaments |-> [p \in Players |-> NewProfile]]
  /\ escrows = [t \in Tournaments |-> [p \in Players |-> NoEscrow]]
  /\ games = [g \in GameIds |-> NoGame]
  /\ gameCount = 0

-----------------------------------------------------------------------------
(* Tournaments and configuration.                                          *)

IsActive(t) ==
  tournaments[t].exists /\ tournaments[t].start <= now /\ now <= tournaments[t].end

CreateTournament(t, start, end) ==
  /\ ~tournaments[t].exists
  /\ end > start /\ end > now
  /\ tournaments' = [tournaments EXCEPT ![t] =
       [NoTournament EXCEPT !.exists = TRUE, !.start = start, !.end = end]]
  /\ UNCHANGED <<slot, now, config, wallet, profiles, escrows, games, gameCount>>

(* update_config: the split is always written, a zero key (here NoPlayer)  *)
(* leaves its field alone.                                                 *)
UpdateConfig(bps, treasury, matchmaker, authority) ==
  LET given(key, old) == IF key = NoPlayer THEN old ELSE key IN
  /\ config' = [authority  |-> given(authority, config.authority),
                matchmaker |-> given(matchmaker, config.matchmaker),
                treasury   |-> given(treasury, config.treasury),
                bps        |-> bps]
  /\ UNCHANGED <<slot, now, wallet, tournaments, profiles, escrows, games, gameCount>>

-----------------------------------------------------------------------------
(* The matchmaking escrow.  A second deposit into an unconsumed escrow is  *)
(* a no-op, so it is not a step.                                           *)

ValidForGame(e) == e.exists /\ ~e.consumed

DepositStake(t, p) ==
  /\ IsActive(t)
  /\ ~ValidForGame(escrows[t][p])
  /\ wallet[p] >= Stake
  /\ wallet' = [wallet EXCEPT ![p] = @ - Stake]
  /\ escrows' = [escrows EXCEPT ![t][p] =
       [exists |-> TRUE, consumed |-> FALSE, lamports |-> @.lamports + Stake]]
  /\ UNCHANGED <<slot, now, config, tournaments, profiles, games, gameCount>>

Withdrawable(e) == e.exists /\ ~e.consumed

WithdrawStake(t, p) ==
  /\ Withdrawable(escrows[t][p])
  /\ wallet' = [wallet EXCEPT ![p] = @ + escrows[t][p].lamports]
  /\ escrows' = [escrows EXCEPT ![t][p] = NoEscrow]
  /\ UNCHANGED <<slot, now, config, tournaments, profiles, games, gameCount>>

(* The escrow's stake moves into a game.                                   *)
LeaveUnconsumed(e) == [e EXCEPT !.lamports = @ - Stake]
Consume(e) == [e EXCEPT !.consumed = TRUE, !.lamports = @ - Stake]

(* init_if_new: a profile that has counted no game yet is (re)zeroed.      *)
AlwaysInit(profile) == NewProfile

InitIfNew(profile) ==
  IF profile.games = 0 /\ ~profile.claimed THEN NewProfile ELSE profile

-----------------------------------------------------------------------------
(* The game.                                                               *)

(* Slots at two per second: no game may be created this close to the end.  *)
CutoffSeconds == (CommitTimeout + RevealTimeout) \div 2

(* create_game, co-signed by the matchmaker, which commits to the matchup. *)
CreateGame(t, p, secret) ==
  /\ IsActive(t)
  /\ now + CutoffSeconds < tournaments[t].end
  /\ ValidForGame(escrows[t][p]) /\ escrows[t][p].lamports >= Stake
  /\ gameCount < MaxGames
  /\ gameCount' = gameCount + 1
  /\ games' = [games EXCEPT ![gameCount] =
       [NoGame EXCEPT !.state = "Pending", !.tournament = t, !.secret = secret,
                      !.player[1] = p, !.lamports = Stake]]
  /\ profiles' = [profiles EXCEPT ![t][p] = InitIfNew(@)]
  /\ escrows' = [escrows EXCEPT ![t][p] = Consume(@)]
  /\ UNCHANGED <<slot, now, config, wallet, tournaments>>

Join(game, p) ==
  [game EXCEPT !.state = "Active", !.player[2] = p, !.activated = slot, !.lamports = @ + Stake]

JoinGame(g, p) ==
  LET t == games[g].tournament IN
  /\ games[g].state = "Pending"
  /\ IsActive(t)
  /\ p # games[g].player[1]
  /\ ValidForGame(escrows[t][p]) /\ escrows[t][p].lamports >= Stake
  /\ games' = [games EXCEPT ![g] = Join(@, p)]
  /\ profiles' = [profiles EXCEPT ![t][p] = InitIfNew(@)]
  /\ escrows' = [escrows EXCEPT ![t][p] = Consume(@)]
  /\ UNCHANGED <<slot, now, config, wallet, tournaments, gameCount>>

(* Seat i commits to a guess.  The first to commit is remembered, and the  *)
(* second commit opens the reveal phase.                                   *)
CommitAlwaysClaimsFirst(game, i, guess) ==
  [game EXCEPT !.commit[i] = guess,
               !.commitSlot[i] = slot,
               !.first = i,
               !.state = IF game.commit[Other(i)] # Unset THEN "Revealing" ELSE "Committing"]

OneCommitOpensReveal(game, i, guess) ==
  [game EXCEPT !.commit[i] = guess,
               !.commitSlot[i] = slot,
               !.first = IF game.first = 0 THEN i ELSE game.first,
               !.state = "Revealing"]

Commit(game, i, guess) ==
  [game EXCEPT !.commit[i] = guess,
               !.commitSlot[i] = slot,
               !.first = IF game.first = 0 THEN i ELSE game.first,
               !.state = IF game.commit[Other(i)] # Unset THEN "Revealing" ELSE "Committing"]

MayRecommit(game, i) == game.state \in {"Active", "Committing"}
MayCommit(game, i) == game.state \in {"Active", "Committing"} /\ game.commit[i] = Unset

CommitGuess(g, i, guess) ==
  /\ MayCommit(games[g], i)
  /\ games' = [games EXCEPT ![g] = Commit(@, i, guess)]
  /\ UNCHANGED <<slot, now, config, wallet, tournaments, profiles, escrows, gameCount>>

-----------------------------------------------------------------------------
(* Settlement, shared by the last reveal and the timeout: the pot is paid  *)
(* out, the pool's gain is split, and unless the game is late it counts in *)
(* the tournament and in both profiles.                                    *)

Pay(purse, account, amount) == [purse EXCEPT ![account] = @ + amount]

PromiseOnly(tournament, share, counts) ==
  IF counts
  THEN [tournament EXCEPT !.prize = @ + share, !.gameCount = @ + 1]
  ELSE tournament

Contribute(tournament, share, counts) ==
  IF counts
  THEN [tournament EXCEPT !.lamports = @ + share, !.prize = @ + share, !.gameCount = @ + 1]
  ELSE [tournament EXCEPT !.lamports = @ + share]

(* The player of seat i has played another game of the tournament.         *)
Credit(profile, i, winners) ==
  LET wins == IF i \in winners THEN profile.wins + 1 ELSE profile.wins IN
  [profile EXCEPT !.wins = wins, !.games = @ + 1,
                  !.score = ComputeScore(wins, profile.games + 1)]

CreditAll(players, winners, table) ==
  [p \in Players |-> CASE p = players[1] -> Credit(table[p], 1, winners)
                      [] p = players[2] -> Credit(table[p], 2, winners)
                      [] OTHER          -> table[p]]

Settled(game, paid) == [game EXCEPT !.state = "Resolved", !.lamports = @ - paid]

Settle(g, game, ret, gain, winners, counts) ==
  LET t == game.tournament
      fee == TreasuryShare(gain, config.bps)
      share == TournamentShare(gain, config.bps)
      paid == ret[1] + ret[2] + fee + share
  IN
  /\ game.lamports >= paid
  /\ games' = [games EXCEPT ![g] = Settled(game, paid)]
  /\ wallet' = Pay(Pay(Pay(wallet, game.player[1], ret[1]), game.player[2], ret[2]),
                   config.treasury, fee)
  /\ tournaments' = [tournaments EXCEPT ![t] = Contribute(@, share, counts)]
  /\ profiles' = IF counts
                 THEN [profiles EXCEPT ![t] = CreditAll(game.player, winners, @)]
                 ELSE profiles
  /\ UNCHANGED <<slot, now, config, escrows, gameCount>>

(* Seat i opens its commitment; the first reveal also opens the matchup,   *)
(* which needs the preimage the matchmaker holds.                          *)
RevealWhenCommitted(game, i) ==
  game.state \in {"Committing", "Revealing"} /\ game.commit[i] # Unset /\ game.guess[i] = Unset

CanReveal(game, i) == game.state = "Revealing" /\ game.guess[i] = Unset

Reveal(game, i) ==
  [game EXCEPT !.guess[i] = game.commit[i], !.matchup = game.secret]

(* After the tournament's end both players are refunded and nothing counts. *)
IsLate(t) == now > tournaments[t].end

RevealGuess(g, i) ==
  LET game == Reveal(games[g], i)
      late == IsLate(game.tournament)
      res == IF late
             THEN [ret |-> [j \in Seats |-> Stake], gain |-> 0]
             ELSE Resolution(game.matchup, game.guess, Stake, game.first)
  IN
  /\ CanReveal(games[g], i)
  /\ \/ /\ game.guess[Other(i)] = Unset
        /\ games' = [games EXCEPT ![g] = game]
        /\ UNCHANGED <<slot, now, config, wallet, tournaments, profiles, escrows, gameCount>>
     \/ /\ game.guess[Other(i)] # Unset
        /\ Settle(g, game, res.ret, res.gain,
                  Winners(game.matchup, game.guess, res.ret), ~late)

-----------------------------------------------------------------------------
(* resolve_timeout, sent by anyone.  Each phase has its own clock and its  *)
(* own idea of who did their part.                                         *)

Later(a, b) == IF a > b THEN a ELSE b

CommitterSlot(game) == game.commitSlot[IF game.commit[1] # Unset THEN 1 ELSE 2]

DeadlineFromFirstCommit(game) ==
  CASE game.state = "Active"     -> game.activated + CommitTimeout
    [] game.state = "Committing" -> CommitterSlot(game) + CommitTimeout
    [] game.state = "Revealing"  -> CommitterSlot(game) + RevealTimeout

Deadline(game) ==
  CASE game.state = "Active"     -> game.activated + CommitTimeout
    [] game.state = "Committing" -> CommitterSlot(game) + CommitTimeout
    [] game.state = "Revealing"  ->
         Later(game.commitSlot[1], game.commitSlot[2]) + RevealTimeout

(* The seats that did what the phase asks for.  The only one takes the     *)
(* pot; if there is none, both players forfeit.                            *)
Diligent(game) ==
  {i \in Seats : IF game.state = "Revealing" THEN game.guess[i] # Unset
                                             ELSE game.commit[i] # Unset}

OverdueUnlessActive(game) ==
  game.state \in {"Committing", "Revealing"} /\ slot >= Deadline(game)

Overdue(game) == game.state \in Running /\ slot >= Deadline(game)

ResolveTimeout(g) ==
  LET game == games[g]
      diligent == Diligent(game)
  IN
  /\ Overdue(game)
  /\ diligent # Seats
  /\ Settle(g, game, [i \in Seats |-> IF i \in diligent THEN 2 * Stake ELSE 0],
            IF diligent = {} THEN 2 * Stake ELSE 0, diligent, TRUE)

CloseAnyGame(g, caller) ==
  /\ games[g].state # "Absent"
  /\ wallet' = [wallet EXCEPT ![caller] = @ + games[g].lamports]
  /\ games' = [games EXCEPT ![g] = NoGame]
  /\ UNCHANGED <<slot, now, config, tournaments, profiles, escrows, gameCount>>

(* close_game, sent by anyone, who keeps what is left in the account.      *)
CloseGame(g, caller) ==
  /\ games[g].state = "Resolved"
  /\ wallet' = [wallet EXCEPT ![caller] = @ + games[g].lamports]
  /\ games' = [games EXCEPT ![g] = NoGame]
  /\ UNCHANGED <<slot, now, config, tournaments, profiles, escrows, gameCount>>

-----------------------------------------------------------------------------
(* The prize pool.                                                         *)

(* The authority computes the entitlements off chain from the profiles and *)
(* posts their merkle root.  The program cannot check them; an honest      *)
(* authority shares out at most the pool, among players with enough games. *)
HonestRoots(t) ==
  {root \in [Players -> 0 .. tournaments[t].prize] :
     /\ SumFunction(root) <= tournaments[t].prize
     /\ \A p \in Players : root[p] > 0 => profiles[t][p].games >= MinGames}

EndedOnly(t) == now > tournaments[t].end
Finalizable(t) == now > tournaments[t].end /\ ~tournaments[t].finalized

Finalized(tournament, root) ==
  [tournament EXCEPT !.finalized = TRUE, !.snapshot = tournament.prize, !.root = root]

FinalizeTournament(t, root) ==
  /\ tournaments[t].exists /\ Finalizable(t)
  /\ tournaments' = [tournaments EXCEPT ![t] = Finalized(@, root)]
  /\ UNCHANGED <<slot, now, config, wallet, profiles, escrows, games, gameCount>>

MayClaimAgain(profile) == profile.games >= MinGames
MayClaim(profile) == ~profile.claimed /\ profile.games >= MinGames

Debited(tournament, amount) == [tournament EXCEPT !.lamports = @ - amount]

(* A proof against the root exists for exactly the posted entitlement.     *)
ClaimReward(t, p) ==
  LET amount == tournaments[t].root[p] IN
  /\ tournaments[t].finalized
  /\ MayClaim(profiles[t][p])
  /\ amount > 0 /\ tournaments[t].lamports >= amount
  /\ profiles' = [profiles EXCEPT ![t][p].claimed = TRUE]
  /\ tournaments' = [tournaments EXCEPT ![t] = Debited(@, amount)]
  /\ wallet' = Pay(wallet, p, amount)
  /\ UNCHANGED <<slot, now, config, escrows, games, gameCount>>

-----------------------------------------------------------------------------
(* The clocks.  The slot clock runs past its bound as long as some game    *)
(* still waits for its deadline, so that the bound never excuses a timeout.*)
TickSlot ==
  /\ \/ slot < MaxSlot
     \/ \E g \in GameIds : games[g].state \in Running /\ slot < Deadline(games[g])
  /\ slot' = slot + 1
  /\ UNCHANGED <<now, config, wallet, tournaments, profiles, escrows, games, gameCount>>

TickTime ==
  /\ now < MaxTime
  /\ now' = now + 1
  /\ UNCHANGED <<slot, config, wallet, tournaments, profiles, escrows, games, gameCount>>

Next ==
  \/ TickSlot
  \/ TickTime
  \/ \E t \in Tournaments, w \in Windows : CreateTournament(t, w[1], w[2])
  \/ \E bps \in SplitBps, treasury, matchmaker, authority \in Keys \cup {NoPlayer} :
       UpdateConfig(bps, treasury, matchmaker, authority)
  \/ \E t \in Tournaments, p \in Players : DepositStake(t, p) \/ WithdrawStake(t, p)
  \/ \E t \in Tournaments, p \in Players, secret \in Matchups : CreateGame(t, p, secret)
  \/ \E g \in GameIds, p \in Players : JoinGame(g, p)
  \/ \E g \in GameIds, i \in Seats, guess \in Guesses : CommitGuess(g, i, guess)
  \/ \E g \in GameIds, i \in Seats : RevealGuess(g, i)
  \/ \E g \in GameIds : ResolveTimeout(g)
  \/ \E g \in GameIds, caller \in Accounts : CloseGame(g, caller)
  \/ \E t \in Tournaments : \E root \in HonestRoots(t) : FinalizeTournament(t, root)
  \/ \E t \in Tournaments, p \in Players : ClaimReward(t, p)

Spec == Init /\ [][Next]_vars

(* resolve_timeout asks no permission and its winner is paid, so somebody  *)
(* sends it; slots keep passing.  No player is assumed to act.             *)
Fairness == WF_vars(TickSlot) /\ \A g \in GameIds : WF_vars(ResolveTimeout(g))
FairSpec == Spec /\ Fairness

=============================================================================
