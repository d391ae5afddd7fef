------------------------------- MODULE Wager --------------------------------
(***************************************************************************)
(* What the coordination game promises its players about their money: a    *)
(* pledge is one stake and can be taken back until a wager uses it; a      *)
(* wager is made of one pledge each of two players and ends, once, in one  *)
(* of four ways; what the players do not get goes to an operator and to    *)
(* the pool of the tournament, and a pool pays players only.  Who commits, *)
(* reveals or times out, and when, is left to the program.                 *)
(***************************************************************************)
EXTENDS Integers, Functions

CONSTANTS
    Players,      \* who may pledge
    Keys,         \* who may earn a fee
    Wallets,      \* every wallet: players, operators, those who only lend
    Backers,      \* the <<wallet, player>> pairs: a wallet may fund that player's pledge
    Tournaments,
    Ids,          \* the ids of wagers
    Stake

VARIABLES
    purse,   \* what every wallet owns
    pledge,  \* what a player has pledged in a tournament
    wager,   \* the wagers, by id
    pool     \* what the pool of a tournament owns

state == <<purse, pledge, wager, pool>>

NoWager ==
  [stage |-> "Unborn", event |-> CHOOSE t \in Tournaments : TRUE, parties |-> {}, pot |-> 0]

Init ==
  /\ purse \in [Wallets -> Nat]
  /\ pledge = [t \in Tournaments |-> [p \in Players |-> 0]]
  /\ wager = [g \in Ids |-> NoWager]
  /\ pool = [t \in Tournaments |-> 0]

Paid(book, account, amount) == [book EXCEPT ![account] = @ + amount]

-----------------------------------------------------------------------------

(* Whoever funds it, a pledge belongs to the player.                       *)
Pledge(t, p, backer) ==
  /\ pledge[t][p] = 0
  /\ <<backer, p>> \in Backers /\ purse[backer] >= Stake
  /\ pledge' = [pledge EXCEPT ![t][p] = Stake]
  /\ purse' = Paid(purse, backer, -Stake)
  /\ UNCHANGED <<wager, pool>>

TakeBack(t, p) ==
  /\ pledge[t][p] = Stake
  /\ pledge' = [pledge EXCEPT ![t][p] = 0]
  /\ purse' = Paid(purse, p, Stake)
  /\ UNCHANGED <<wager, pool>>

(* The first pledge opens a wager under an id never used before.           *)
Open(g, t, p) ==
  /\ wager[g].stage = "Unborn" /\ pledge[t][p] = Stake
  /\ pledge' = [pledge EXCEPT ![t][p] = 0]
  /\ wager' = [wager EXCEPT ![g] =
       [stage |-> "Open", event |-> t, parties |-> {p}, pot |-> Stake]]
  /\ UNCHANGED <<purse, pool>>

(* The second one comes from another player of the same tournament.        *)
Match(g, p) ==
  LET w == wager[g] IN
  /\ w.stage = "Open" /\ p \notin w.parties /\ pledge[w.event][p] = Stake
  /\ pledge' = [pledge EXCEPT ![w.event][p] = 0]
  /\ wager' = [wager EXCEPT ![g] =
       [stage |-> "Matched", event |-> w.event, parties |-> w.parties \cup {p},
        pot |-> 2 * Stake]]
  /\ UNCHANGED <<purse, pool>>

(* What two parties may get: their stakes back, the whole pot, half a      *)
(* stake for one of them, or nothing.                                      *)
Outcomes ==
  {<<Stake, Stake>>, <<2 * Stake, 0>>, <<0, 2 * Stake>>,
   <<Stake \div 2, 0>>, <<0, Stake \div 2>>, <<0, 0>>}

(* The outcome, the operator's fee and the pool's share add up to the pot. *)
Divide(event, a, b, outcome, key, fee) ==
  LET rest == 2 * Stake - outcome[1] - outcome[2] IN
  /\ fee <= rest
  /\ pool' = Paid(pool, event, rest - fee)
  /\ purse' = Paid(Paid(Paid(purse, a, outcome[1]), b, outcome[2]), key, fee)

Settle(g) ==
  LET w == wager[g] IN
  /\ w.stage = "Matched"
  /\ wager' = [wager EXCEPT ![g] =
       [stage |-> "Settled", event |-> w.event, parties |-> w.parties, pot |-> 0]]
  /\ UNCHANGED pledge
  /\ \E a, b \in w.parties : a # b /\
       \E outcome \in Outcomes, key \in Keys, fee \in 0 .. 2 * Stake :
         Divide(w.event, a, b, outcome, key, fee)

(* Forgetting a settled wager moves no money.                              *)
Forget(g) ==
  /\ wager[g].stage = "Settled"
  /\ wager' = [wager EXCEPT ![g] = [NoWager EXCEPT !.stage = "Over"]]
  /\ UNCHANGED <<purse, pledge, pool>>

Reward(t, p, amount) ==
  /\ amount \in 1 .. pool[t]
  /\ pool' = Paid(pool, t, -amount)
  /\ purse' = Paid(purse, p, amount)
  /\ UNCHANGED <<pledge, wager>>

Move ==
  \/ \E t \in Tournaments, p \in Players, backer \in Wallets : Pledge(t, p, backer)
  \/ \E t \in Tournaments, p \in Players : TakeBack(t, p)
  \/ \E g \in Ids, t \in Tournaments, p \in Players : Open(g, t, p)
  \/ \E g \in Ids, p \in Players : Match(g, p)
  \/ \E g \in Ids : Settle(g) \/ Forget(g)
  \/ \E t \in Tournaments, p \in Players : \E amount \in 1 .. pool[t] : Reward(t, p, amount)

(* A step of the contract changes something.                               *)
Next == state' # state /\ Move

Spec == Init /\ [][Next]_state

-----------------------------------------------------------------------------

(* All the money there is, which no move of the contract changes.          *)
Worth ==
    SumFunction(purse)
  + SumFunction([t \in Tournaments |-> SumFunction(pledge[t])])
  + SumFunction([g \in Ids |-> wager[g].pot])
  + SumFunction(pool)

=============================================================================
