--------------------------- MODULE GameProperties ---------------------------
(***************************************************************************)
(* What the coordination game promises, as invariants, action properties   *)
(* and liveness of CoordinationGame.                                       *)
(***************************************************************************)
EXTENDS CoordinationGame

(* Every account holds values of its type: u64 balances never go negative, *)
(* sentinels stay within their fields.                                     *)
TypeOK ==
  /\ slot \in Nat /\ now \in Nat
  /\ config \in Configs
  /\ wallet \in [Accounts -> Nat]
  /\ tournaments \in [Tournaments -> TournamentRecords]
  /\ profiles \in [Tournaments -> [Players -> Profiles]]
  /\ escrows \in [Tournaments -> [Players -> Escrows]]
  /\ games \in [GameIds -> Games]
  /\ gameCount \in 0 .. MaxGames

-----------------------------------------------------------------------------
(* Money.                                                                  *)

Pot(game) ==
  CASE game.state = "Pending" -> Stake
    [] game.state \in Running -> 2 * Stake
    [] OTHER                  -> 0

(* A game holds one stake while it waits for an opponent, both while it    *)
(* runs, and nothing once it is resolved, whichever of the payoff matrix,  *)
(* the late refund and the timeouts resolved it: close_game hands the rest *)
(* of the account to any caller, so a remainder would be somebody's stake. *)
PotExact == \A g \in GameIds : games[g].lamports = Pot(games[g])

(* An escrow holds exactly one stake while it is unconsumed and nothing    *)
(* otherwise, through any sequence of deposits, withdrawals and games: a   *)
(* consumed escrow cannot fund a second game.                              *)
EscrowBacked ==
  \A t \in Tournaments, p \in Players :
    LET e == escrows[t][p] IN
    e.lamports = IF e.exists /\ ~e.consumed THEN Stake ELSE 0

Claimed(t, p) == IF profiles[t][p].claimed THEN tournaments[t].root[p] ELSE 0

(* The tournament account holds the prize pool less the rewards claimed.   *)
TournamentBooks ==
  \A t \in Tournaments :
    tournaments[t].lamports + SumFunction([p \in Players |-> Claimed(t, p)])
      = tournaments[t].prize

(* After finalization the account covers every entitlement still unclaimed *)
(* so that no claim fails because another player claimed first.            *)
ClaimsCovered ==
  \A t \in Tournaments : tournaments[t].finalized =>
    tournaments[t].lamports >=
      SumFunction([p \in Players |-> tournaments[t].root[p] - Claimed(t, p)])

-----------------------------------------------------------------------------
(* Fair play.                                                              *)

Seated(game) == {i \in Seats : game.player[i] # NoPlayer}
Committed(game) == {i \in Seats : game.commit[i] # Unset}
Revealed(game) == {i \in Seats : game.guess[i] # Unset}

(* The recorded first committer, who takes the pot when both guess right   *)
(* across teams, did commit, and no later than the opponent.               *)
FirstTrue(game) ==
  /\ (game.first = 0) = (Committed(game) = {})
  /\ game.first # 0 =>
       /\ game.first \in Committed(game)
       /\ Committed(game) = Seats =>
            game.commitSlot[game.first] <= game.commitSlot[Other(game.first)]

FirstCommitterTruth == \A g \in GameIds : FirstTrue(games[g])

(* Nothing is known of the matchup or of a guess while a player may still  *)
(* choose one.                                                             *)
Hidden(game) ==
  (game.matchup # Unset \/ Revealed(game) # {}) => Committed(game) = Seats

MatchupHidden == \A g \in GameIds : Hidden(games[g])

(* What the handlers rely on without checking it: each phase has the       *)
(* seats, commitments and reveals that belong to it, and a game resolves   *)
(* no later than its second reveal.                                        *)
Shaped(game) ==
  /\ game.state = "Absent" => Committed(game) = {}
  /\ game.state = "Pending" => Seated(game) = {1} /\ Committed(game) = {}
  /\ game.state \in Running =>
       /\ Seated(game) = Seats /\ game.player[1] # game.player[2]
       /\ Revealed(game) # Seats
  /\ game.state = "Active" => Committed(game) = {}
  /\ game.state = "Committing" => \E i \in Seats : Committed(game) = {i}
  /\ game.state = "Revealing" => Committed(game) = Seats

PhaseShape == \A g \in GameIds : Shaped(games[g])

(* The slots a game recorded by slot s are in the order they passed.       *)
Timely(game, s) ==
  /\ game.activated <= s
  /\ \A i \in Committed(game) :
       game.activated <= game.commitSlot[i] /\ game.commitSlot[i] <= s

(* The inductive invariant: what every instruction finds and leaves.       *)
GameInv(game, s) ==
  /\ Shaped(game) /\ FirstTrue(game) /\ Hidden(game) /\ Timely(game, s)
  /\ game.lamports = Pot(game)

(* Game ids are handed out once, in order.                                 *)
Fresh == \A g \in GameIds : g >= gameCount => games[g].state = "Absent"

IInv == TypeOK /\ EscrowBacked /\ Fresh /\ \A g \in GameIds : GameInv(games[g], slot)

(* Games counted by a tournament and games counted by its players agree:   *)
(* two profiles move with every counted game, through both ways to resolve *)
(* one, and starting another game never resets a profile in use.           *)
GamesAccounted ==
  \A t \in Tournaments :
    SumFunction([p \in Players |-> profiles[t][p].games]) = 2 * tournaments[t].gameCount

Resolves(g) == games[g].state \in Running /\ games'[g].state = "Resolved"
Counts(g) ==
  LET t == games[g].tournament IN tournaments'[t].gameCount > tournaments[t].gameCount

(* A player credited with a win is paid by that very step, and a player    *)
(* paid by a counted game is credited with a win: the win flags and the    *)
(* payoffs are computed apart and must not disagree.                       *)
WinIffPaid ==
  [][\A g \in GameIds : Resolves(g) /\ Counts(g) =>
       \A i \in Seats :
         LET t == games[g].tournament
             p == games[g].player[i]
         IN (profiles'[t][p].wins > profiles[t][p].wins) <=> (wallet'[p] > wallet[p])]_vars

(* A game that resolves without a reveal forfeits somebody's stake.  That  *)
(* comes only after the whole window: the commit window from activation    *)
(* while a commitment is missing, the reveal window from the last          *)
(* commitment after that.  An opponent who commits or reveals early cannot *)
(* shorten it.                                                             *)
Forfeits(g) == Resolves(g) /\ games'[g].guess = games[g].guess

NoEarlyForfeit ==
  [][\A g \in GameIds : LET game == games[g] IN
       Forfeits(g) =>
         IF Committed(game) = Seats
         THEN \A i \in Seats : slot >= game.commitSlot[i] + RevealTimeout
         ELSE slot >= game.activated + CommitTimeout]_vars

(* A commitment binds: from the step that makes it to the end of the game  *)
(* it never changes, and a reveal shows the committed guess.               *)
CommitmentBinds ==
  [][\A g \in GameIds, i \in Seats :
       games[g].commit[i] # Unset /\ games'[g].state # "Absent" =>
         /\ games'[g].commit[i] = games[g].commit[i]
         /\ games'[g].commitSlot[i] = games[g].commitSlot[i]
         /\ games'[g].guess[i] \in {games[g].guess[i], games[g].commit[i]}]_vars

(* Every game that two players joined is resolved, whatever they do or     *)
(* leave undone.                                                           *)
GameResolves == \A g \in GameIds : games[g].state \in Running ~> games[g].state \notin Running

-----------------------------------------------------------------------------
(* The money of the program, seen as wagers.  Commitments, reveals, phases *)
(* and clocks disappear: a running game is a matched wager.                *)

StageOf(game, started) ==
  CASE game.state = "Pending"  -> "Open"
    [] game.state \in Running  -> "Matched"
    [] game.state = "Resolved" -> "Settled"
    [] OTHER                   -> IF started THEN "Over" ELSE "Unborn"

Parties(game) == {game.player[i] : i \in Seats} \ {NoPlayer}

WagerOf(game, started) ==
  [stage |-> StageOf(game, started), event |-> game.tournament,
   parties |-> Parties(game), pot |-> game.lamports]

Pledged == [t \in Tournaments |-> [p \in Players |-> escrows[t][p].lamports]]
Wagers == [g \in GameIds |-> WagerOf(games[g], g < gameCount)]
Pools == [t \in Tournaments |-> tournaments[t].lamports]

(* Players fund their own pledges.                                         *)
W == INSTANCE Wager WITH
       Wallets <- Accounts, Backers <- {<<p, p>> : p \in Players}, Ids <- GameIds,
       purse <- wallet, pledge <- Pledged, wager <- Wagers, pool <- Pools

(* The program implements Wager: whatever instructions are sent, in any    *)
(* order and at any time, lamports move only as the wager contract allows. *)
(* Deposits, games that run at the same time, late reveals, timeouts,      *)
(* claims and the closing of accounts by strangers all go through it.      *)
ImplementsWager == W!Spec

(* No instruction creates or destroys lamports: wallets, escrows, games    *)
(* and tournaments together always own what the players brought.           *)
Conservation == W!Worth = Funds * Cardinality(Players)

-----------------------------------------------------------------------------
(* Claims of the code's comments that the code does not keep; each has a   *)
(* run that shows the step that breaks it.                                 *)

(* finalize_tournament.rs:6, "snapshots the prize pool ... after           *)
(* tournament end": the pool of a finalized tournament is its snapshot.    *)
SnapshotIsPool ==
  \A t \in Tournaments :
    tournaments[t].finalized => tournaments[t].prize = tournaments[t].snapshot

(* create_game.rs:50, "end-of-tournament cutoff - no games within final    *)
(* ~3 hours": no game starts to run that close to the end.                 *)
NoGameAfterCutoff ==
  [][\A g \in GameIds :
       games[g].state = "Pending" /\ games'[g].state = "Active" =>
         now + CutoffSeconds < tournaments[games[g].tournament].end]_vars

(* deposit_stake.rs:10-12, "if the player leaves the queue without         *)
(* playing, they call withdraw_stake to reclaim their deposit": the stake  *)
(* of a game nobody joined can still be played or reclaimed.               *)
UnplayedStakeReclaimable ==
  \A g \in GameIds : games[g].state = "Pending" => IsActive(games[g].tournament)

=============================================================================
