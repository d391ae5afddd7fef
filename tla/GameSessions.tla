---------------------------- MODULE GameSessions -----------------------------
(***************************************************************************)
(* Player sessions: a wallet lends its signature to a session key for a    *)
(* fixed time, and most instructions of CoordinationGame exist a second    *)
(* time, signed by the key.  This module composes the game with the        *)
(* session accounts and with the money of the keys, which fund deposits.   *)
(***************************************************************************)
EXTENDS GameProperties

CONSTANTS
    SessionKeys,   \* the ephemeral keys
    Owners,        \* bound: the wallets that create sessions
    Offices,       \* bound: the configurations that occur
    SessionTime,   \* SESSION_DURATION_SECONDS
    KeyFunds       \* bound: the lamports each key is funded with beforehand

ASSUME SessionAssumption ==
  /\ SessionKeys \cap (Accounts \cup {NoPlayer}) = {}
  /\ Owners \subseteq Accounts /\ Offices \subseteq Configs
  /\ SessionTime \in Nat \ {0} /\ KeyFunds \in Nat
  /\ IsFiniteSet(SessionKeys)

VARIABLES
    sessions,   \* the SessionAuthority accounts, by owner and key
    keyPurse,   \* the lamports of the session keys
    granted,    \* history: when the wallet's trust in the key runs out, 0 once withdrawn
    signer      \* history: the session key that signed the last step, if one did

sessionVars == <<vars, sessions, keyPurse, granted, signer>>

Sessions == [exists : BOOLEAN, expires : Nat]
NoSession == [exists |-> FALSE, expires |-> 0]

SessionInit ==
  /\ Init /\ config \in Offices
  /\ sessions = [o \in Accounts |-> [k \in SessionKeys |-> NoSession]]
  /\ keyPurse = [k \in SessionKeys |-> KeyFunds]
  /\ granted = [o \in Accounts |-> [k \in SessionKeys |-> 0]]
  /\ signer = NoPlayer

-----------------------------------------------------------------------------
(* The life of a session.                                                  *)

NewSession == [exists |-> TRUE, expires |-> now + SessionTime]

(* The account must not exist, so an expired session has to be closed      *)
(* before the same key can be trusted again.                               *)
CreatePlayerSession(o, k) ==
  /\ ~sessions[o][k].exists
  /\ sessions' = [sessions EXCEPT ![o][k] = NewSession]
  /\ granted' = [granted EXCEPT ![o][k] = now + SessionTime]
  /\ signer' = NoPlayer
  /\ UNCHANGED <<vars, keyPurse>>

Dropped(o, k) == [sessions EXCEPT ![o][k] = NoSession]

ClosePlayerSession(o, k) ==
  /\ sessions[o][k].exists
  /\ sessions' = Dropped(o, k)
  /\ granted' = [granted EXCEPT ![o][k] = 0]
  /\ signer' = NoPlayer
  /\ UNCHANGED <<vars, keyPurse>>

(* The key gives its power back; the owner does not sign.                  *)
CloseSessionByDelegate(o, k) ==
  /\ sessions[o][k].exists
  /\ sessions' = Dropped(o, k)
  /\ granted' = [granted EXCEPT ![o][k] = 0]
  /\ signer' = k
  /\ UNCHANGED <<vars, keyPurse>>

-----------------------------------------------------------------------------
(* What a session key may sign for a wallet.  Each handler repeats the one *)
(* of CoordinationGame; only signer and payer differ.                      *)

AuthorizedAtExpiry(o, k) == sessions[o][k].exists /\ now <= sessions[o][k].expires

(* validate_session_authority                                              *)
Authorized(o, k) == sessions[o][k].exists /\ now < sessions[o][k].expires

Funded(escrow) == [exists |-> TRUE, consumed |-> FALSE, lamports |-> escrow.lamports + Stake]

UnfundedDepositSession(t, p, k) ==
  /\ Authorized(p, k)
  /\ IsActive(t)
  /\ ~ValidForGame(escrows[t][p])
  /\ keyPurse' = [keyPurse EXCEPT ![k] = @ - Stake]
  /\ escrows' = [escrows EXCEPT ![t][p] = Funded(@)]
  /\ UNCHANGED <<slot, now, config, wallet, tournaments, profiles, games, gameCount>>

DepositTwiceSession(t, p, k) ==
  /\ Authorized(p, k)
  /\ IsActive(t)
  /\ keyPurse[k] >= Stake
  /\ keyPurse' = [keyPurse EXCEPT ![k] = @ - Stake]
  /\ escrows' = [escrows EXCEPT ![t][p] = Funded(@)]
  /\ UNCHANGED <<slot, now, config, wallet, tournaments, profiles, games, gameCount>>

FreeDepositSession(t, p, k) ==
  /\ Authorized(p, k)
  /\ IsActive(t)
  /\ ~ValidForGame(escrows[t][p])
  /\ keyPurse[k] >= Stake
  /\ escrows' = [escrows EXCEPT ![t][p] = Funded(@)]
  /\ UNCHANGED <<slot, now, config, wallet, keyPurse, tournaments, profiles, games, gameCount>>

(* The key pays the stake, not the player and not the session account.     *)
DepositStakeSession(t, p, k) ==
  /\ Authorized(p, k)
  /\ IsActive(t)
  /\ ~ValidForGame(escrows[t][p])
  /\ keyPurse[k] >= Stake
  /\ keyPurse' = [keyPurse EXCEPT ![k] = @ - Stake]
  /\ escrows' = [escrows EXCEPT ![t][p] = Funded(@)]
  /\ UNCHANGED <<slot, now, config, wallet, tournaments, profiles, games, gameCount>>

(* The session is the matchmaker's; the player p signs nothing.            *)
CreateGameByAnySession(t, p, secret, m, k) ==
  Authorized(m, k) /\ CreateGame(t, p, secret)

CreateGameSession(t, p, secret, m, k) ==
  /\ Authorized(m, k) /\ m = config.matchmaker
  /\ CreateGame(t, p, secret)

JoinGameSession(g, p, k) == Authorized(p, k) /\ JoinGame(g, p)

CommitGuessSession(g, i, guess, p, k) ==
  /\ Authorized(p, k) /\ p = games[g].player[i]
  /\ CommitGuess(g, i, guess)

RevealGuessSession(g, i, p, k) ==
  /\ Authorized(p, k) /\ p = games[g].player[i]
  /\ RevealGuess(g, i)

(* A key is also a wallet, so it may close a resolved game.                *)
CloseGameByKey(g, k) ==
  /\ games[g].state = "Resolved"
  /\ keyPurse' = [keyPurse EXCEPT ![k] = @ + games[g].lamports]
  /\ games' = [games EXCEPT ![g] = NoGame]
  /\ UNCHANGED <<slot, now, config, wallet, tournaments, profiles, escrows, gameCount>>

-----------------------------------------------------------------------------
(* The steps of the composition.                                           *)

SignedByKey(k) ==
  \/ \E t \in Tournaments, p \in Players, secret \in Matchups, m \in Keys :
       CreateGameSession(t, p, secret, m, k)
  \/ \E g \in GameIds, p \in Players : JoinGameSession(g, p, k)
  \/ \E g \in GameIds, i \in Seats, guess \in Guesses, p \in Players :
       CommitGuessSession(g, i, guess, p, k)
  \/ \E g \in GameIds, i \in Seats, p \in Players : RevealGuessSession(g, i, p, k)

PaidByKey(k) ==
  \/ \E t \in Tournaments, p \in Players : DepositStakeSession(t, p, k)
  \/ \E g \in GameIds : CloseGameByKey(g, k)

(* Without a session: players sign for themselves, the rest is as before.  *)
SignedByWallet == Next /\ config' \in Offices

SessionNext ==
  \/ \E o \in Owners, k \in SessionKeys :
       CreatePlayerSession(o, k) \/ ClosePlayerSession(o, k) \/ CloseSessionByDelegate(o, k)
  \/ SignedByWallet /\ signer' = NoPlayer /\ UNCHANGED <<sessions, keyPurse, granted>>
  \/ \E k \in SessionKeys :
       SignedByKey(k) /\ signer' = k /\ UNCHANGED <<sessions, keyPurse, granted>>
  \/ \E k \in SessionKeys :
       PaidByKey(k) /\ signer' = k /\ UNCHANGED <<sessions, granted>>

SessionSpec == SessionInit /\ [][SessionNext]_sessionVars

-----------------------------------------------------------------------------

(* Every account holds values of its type.                                 *)
SessionTypeOK ==
  /\ TypeOK
  /\ sessions \in [Accounts -> [SessionKeys -> Sessions]]
  /\ keyPurse \in [SessionKeys -> Nat]
  /\ granted \in [Accounts -> [SessionKeys -> Nat]]
  /\ signer \in SessionKeys \cup {NoPlayer}

(* No session outlasts the trust of its owner in its key, however often it *)
(* is closed and created again.                                            *)
SessionsGranted ==
  \A o \in Accounts, k \in SessionKeys :
    sessions[o][k].exists => sessions[o][k].expires <= granted[o][k]

(* A step in the name of a player: its escrow moves or it takes the second *)
(* seat, makes a commitment or opens one.  The first seat is the           *)
(* matchmaker's to give.                                                   *)
Plays(game, next, p) ==
  \E i \in Seats :
    /\ next.player[i] = p /\ next.state # "Absent"
    /\ \/ next.commit[i] # game.commit[i]
       \/ next.guess[i] # game.guess[i]
       \/ i = 2 /\ game.player[i] # p

ActsFor(p) ==
  \/ gameCount' = gameCount /\ \E t \in Tournaments : escrows'[t][p] # escrows[t][p]
  \/ \E g \in GameIds : Plays(games[g], games'[g], p)

(* Delegation runs out and can be withdrawn: a key deposits, joins,        *)
(* commits or reveals for a player only if that player trusted this very   *)
(* key within SESSION_DURATION_SECONDS and neither of the two has closed   *)
(* the session since, whoever else trusts the key or is trusted.           *)
DelegationExpires ==
  [][\A p \in Players :
       ActsFor(p) /\ signer' # NoPlayer => now < granted[p][signer']]_sessionVars

(* A key starts games only for the present matchmaker, and only while that *)
(* one trusts it: neither the sessions of a matchmaker replaced by         *)
(* update_config nor those that ended or were closed create more games.    *)
MatchmakerStarts ==
  [][gameCount' # gameCount /\ signer' # NoPlayer =>
       now < granted[config.matchmaker][signer']]_sessionVars

(* The money of the whole system, seen as wagers: a session key may fund   *)
(* any pledge and gets nothing back.                                       *)
Purses == [a \in Accounts \cup SessionKeys |->
             IF a \in Accounts THEN wallet[a] ELSE keyPurse[a]]

D == INSTANCE Wager WITH
       Wallets <- Accounts \cup SessionKeys,
       Backers <- {<<p, p>> : p \in Players} \cup (SessionKeys \X Players),
       Ids <- GameIds,
       purse <- Purses, pledge <- Pledged, wager <- Wagers, pool <- Pools

(* The game with its sessions still implements the wager contract: what a  *)
(* key pays becomes the player's stake, and no key, whatever it signs and  *)
(* for whom, ever gains a lamport.                                         *)
DelegatedWager == D!Spec

(* With the keys counted no lamport is made or lost: what the player owns  *)
(* more after a delegated deposit, some key owns less, and a key that      *)
(* closes a game is not paid a second time for what the game settled.      *)
DelegatedConservation ==
  D!Worth = Funds * Cardinality(Players) + KeyFunds * Cardinality(SessionKeys)

=============================================================================
