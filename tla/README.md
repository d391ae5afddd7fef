# Verification of the Coordination DAO programs

TLA+ models of the two Solana programs of this repository, the TLC runs that
check them on small instances and the TLAPS proofs that hold for all of them.

    tlc -config MCGame_one.cfg MCGame      # one run
    tlapm GameProofs.tla                   # one module's proofs

## 1. The system

### Parts, state, interaction

| part | state it keeps | operations | modelled in |
|---|---|---|---|
| **coordination_game** | | | |
| payoff arithmetic (`payoff.rs`, `utils.rs`, `player.rs`) | none | `resolve_game`, `compute_treasury_split`, `compute_score` | `Payoff` |
| tournaments, configuration | `Tournament`, `GlobalConfig` | `create_tournament`, `update_config` | `CoordinationGame` |
| matchmaking escrow | `StakeEscrow` per tournament and player | `deposit_stake`, `withdraw_stake`, consumed by `create_game`, `join_game` | `CoordinationGame` |
| game | `Game`, `GameCounter`, `PlayerProfile` | `create_game`, `join_game`, `commit_guess`, `reveal_guess`, `close_game` | `CoordinationGame` |
| timeouts | the slots in `Game` | `resolve_timeout` | `CoordinationGame` |
| prize pool | `Tournament`, `PlayerProfile.claimed` | `finalize_tournament`, `claim_reward` | `CoordinationGame` |
| player sessions | `SessionAuthority` per wallet and key | `create_player_session`, `close_player_session`, `close_session_by_delegate`, `deposit_stake_session`, `create_game_session`, `join_game_session`, `commit_guess_session`, `reveal_guess_session` | `GameSessions` |
| **shillbot** | | | |
| tasks | `Task` | `create_task`, `claim_task`, `submit_work`, `verify_task`, `finalize_task`, `expire_task`, `emergency_return` | `ShillbotTask` |
| payment arithmetic (`scoring.rs`) | none | `compute_payment`, `compute_challenge_bond` | `ShillbotTask` |
| challenges | `Challenge` per task and challenger | `challenge_task`, `resolve_challenge` | `ShillbotTask` |
| agents | `AgentState` | maintained by the task instructions, `close_agent_state` | `ShillbotTask` |
| parameters | `GlobalState` | `update_params`, `transfer_authority`, `update_treasury`, `set_switchboard_feed`, `update_oracle_authority` | `ShillbotTask` |
| agent sessions | `SessionDelegate` per agent and delegate | `create_session`, `revoke_session`, `claim_task_session`, `submit_work_session` | `AgentSessions` |
| platform identities | `PlatformIdentity` | register, revoke | not modelled |
| **crates/shared, sdk, scripts, tests** | none on chain | | not modelled |

The parts of a program share accounts, not calls: an instruction reads and
writes several accounts at once and Solana runs it atomically, undoing it when
it fails. What is hard is therefore never inside one instruction. It is
which instructions wallets send next, in which order, and how far the clocks
have moved between them:

* **Interleaving.** A player's escrow and profile serve every game of a
  tournament, also games that run at the same time; an agent's counter serves
  every task the agent holds. The configuration changes under running games
  and tasks.
* **Ordering.** The first committer takes the pot when both guess right across
  teams. The first reveal opens the matchup. A reveal races with the timeout
  that would forfeit the other stake, a challenge with the finalization, the
  oracle with the expiry.
* **Time.** The game's timeouts count slots and its tournament counts seconds;
  the two clocks are not tied to each other.
* **Liveness.** Money sits in accounts that only certain instructions empty.
  Some state that no instruction accepts would lock it for good.
* **Delegation.** A session key acts for a wallet that is not asked again, until
  a clock or either side ends it; sessions overlap, are closed and renewed, and
  the office they act for may have changed hands.
* **Rounding.** Half stakes, basis points and scores are truncated; what is left over
  in an account goes to whoever it is closed to.

### What makes each part correct

Payoffs are README's matrix and conserve the pot. An escrow funds one game. A
game holds exactly its stakes, plays blind, pays the right player, and ends.
Forfeits come only after the whole window. The pool's books agree with the
account, and every promised reward can be paid. In the marketplace, an escrow
stays whole until the task ends, a verdict stands, each dispute can be resolved
either way, the claim counter never loses a task, and every escrow gets out. A
delegate can do what its principal could, for no longer than the grant lasts, and
gains nothing by it. Seen from far enough away, the money of a game is a wager
(`Wager`) and that of a task a commission (`Commission`): short contracts that the
programs implement.

## 2. Modules

| module | contents |
|---|---|
| `Payoff` | the resolutions, winners, treasury split and score as operators |
| `CoordinationGame` | the coordination_game program without sessions, as a state machine |
| `Wager` | abstract: what the game promises its players about their money |
| `GameProperties` | the game's types, invariants, action properties, liveness, inductive invariant, and its view as `Wager` |
| `GameSessions` | the game composed with player sessions and the session keys' money |
| `ShillbotTask` | the shillbot program without sessions, as a state machine |
| `Commission` | abstract: what the marketplace promises about the money of a piece of work |
| `TaskProperties` | the marketplace's properties, and its view as `Commission` |
| `AgentSessions` | the marketplace composed with agent sessions |
| `MCPayoff`, `MCGame`, `MCSessions`, `MCTask`, `MCAgents` | instances for TLC |
| `SumTheorems` | sums over finite sets: the lemmas the books are proved with |
| `PayoffProofs`, `MatrixProofs` | TLAPS proofs about the payoffs |
| `GameProofs`, `WagerProofs`, `SessionProofs` | TLAPS proofs about the game: its invariants, its money, its sessions |
| `TaskProofs`, `MarketProofs` | TLAPS proofs about the marketplace: its invariants; its money and its sessions |

Each line of modules extends the one before: `Payoff`, `CoordinationGame`,
`GameProperties`, `GameSessions`; and `ShillbotTask`, `TaskProperties`,
`AgentSessions`. The two programs share no account and are not composed.

### Correspondence

One action is one instruction: its `require!`s and account constraints are the
action's guards, its effects and transfers the primed variables. A variable
maps keys (tournament, player, game id, task id) to records that have the
fields of the account; a closed or not yet created account is a record marked
absent. `wallet` holds the lamports outside the program.
`PROJECT.json` gives the source lines of each definition.

A session is an account per wallet and key. The delegated instructions repeat
the handler of the wallet's own instruction, so their actions are the session's
validation and that action; only `deposit_stake_session`, which charges the
session key, is written out. The models add two history variables: `granted`, when
the trust of each wallet in each key ends (for agents: each permission of each
delegate), set by a grant and zero again once it is closed or revoked, and
`signer`, the key that signed the last step. Properties of delegation relate these
two to what the step changed and in whose name, and never mention the session
account that was shown: a property that did would repeat the guard. So a session
used late, after it was closed, by another key or for another wallet breaks them.

**Refinement mappings.** `Wager` sees a game as unborn, open, matched, settled or
over; its pledges are the unconsumed escrows, its pools the tournaments' lamports.
Commitments, reveals, slots and profiles are stutters. `Commission` sees a task
as offered, taken (claimed or submitted), judged, disputed or over; a verdict's payment and fee
become visible when it falls. Both contracts say what a step may do with money
and leave when, by whom and why to the program. For sessions the wallets of `Wager` include
the session keys, which may back any pledge and are paid nothing.

Each contract also names all the money there is (`Worth`). `Conservation` says that
`Worth`, seen through the mapping, is what players or users brought; so it counts wallets,
escrows, games and tournaments, or wallets, escrows and bonds.
`DelegatedConservation` counts the session keys' lamports too.

What the models abstract, and why that is sound:

* **Lamports above rent.** Balances are counted above the rent-exempt minimum,
  which the payer of an account lends to it and which follows the account when
  it is closed. Lamports sent to an account from outside the programs are left
  out.
* **Commitments.** A commitment is the bit it hides. SHA-256 is taken to bind. The
  hash does not name its owner (`commit_guess.rs:15`, `reveal_guess.rs:42`): a player
  may commit to a copy of the opponent's and open it once that one is open. To the
  model this is a guess of the same bit; guesses and reveals are nondeterministic, so
  every such play is among its behaviours. The matchmaker's preimage is available to
  whoever reveals first. Revealing is never forced, so a withheld or unknown preimage
  is a reveal that does not happen.
* **Signers.** Operators (authority, matchmaker, treasury: `Keys`) are not
  players or users. A treasury or matchmaker that also plays is out of scope.
* **Merkle roots.** `finalize_tournament` stores an opaque root. The model
  stores the entitlements it commits to, and assumes what the program cannot
  check: that the authority shares out at most the pool, among players with
  enough games (`HonestRoots`).
* **Clocks** tick by one and independently. `now` and `slot` have bounds; the
  slot clock goes on past its bound while a game still waits for a deadline.
* **Oracle.** A score is any value of `Scores` up to the maximum. The feed carries
  positive decimals and the program cuts them to integers, so zero is one of them;
  the feed's parsing is left out. `switchboard_feed` is only set or unset.
* **Overrides** of a task's periods are bounded by `create_task` in seconds, by
  `ValidTerms` in units of the model's clock: `Overrides` are the values allowed.
* **Emergency returns** act on one task per step. A batch is atomic, yet does to
  each of its tasks what a batch of one does.
* Settings of a task are kept together as `terms`, those of the protocol as `params`.
  Content hashes, nonces, the stored score and creation times
  decide nothing and are left out. u64 and i64 overflow is a checked error in
  the code and far from any reachable balance; subtractions are guarded, and
  `TypeOK` says no balance goes below zero.

## 3. Runs

| run | instance | question |
|---|---|---|
| `payoff` | all stakes 1-12, four splits, all outcomes | is the arithmetic README's matrix, and exact |
| `one` | one game, two players, both matchups, all guesses, two splits | the life of a game, its money, fairness and end |
| `rematch` | two games, one stake of funds each, then finalization and claims | the books of a tournament; the wager contract |
| `pair` | two games at once between the same players, funds for both | shared escrows and profiles |
| `task` | one task of two kinds, three users, three parameter sets, four scores | escrow, verdict, dispute, no locked escrow; the commission contract |
| `delegated` | one game, two players, two matchmakers, one session key | who may act by a key, for how long, for whose gain and at whose cost |
| `tasks` | two tasks, two users, one also the other's delegate, claim limit 1 or 2 | the claim counter and the permissions of delegates |
| `snapshot`, `stranded`, `cutoff`, `attestation`, `count` | small | violations, see Findings |

**Bounds and why they are enough.** A stake of 3 is odd, so half-stakes round;
splits of 2500 and 8000 bps are off centre. Commit and reveal windows of 1 and
2 slots keep their order, and `MaxSlot` 3 lets one player dawdle through each.
The tournament lasts two seconds with a cutoff of one, so that games can be
created, joined late, and still run when it is over. In `rematch` and `pair`
the slot clock starts at its bound and moves only towards a deadline: these
runs ask about sharing, `one` asks about time. Two games are the fewest that
share an escrow; with one stake each (`rematch`) the
second waits until the first has paid somebody, with two (`pair`) both run at once. For tasks, an escrow of 4 with a 25 % fee leaves payment, fee and
remainder all non-zero; the second kind of task overrides all periods and can
expire before the oracle is due; a third, refused, overrides one by more than a week
(the unit of its clock being a day); the parameter sets are usual, all-strict (no score pays,
bond times three, everything slashed, platform paused) and frozen (all paused). `MaxTime` lies after
the last deadline any task of the run can have. In `delegated` a session lasts one
second of three, so it can expire before the cutoff and be renewed, and games can be
created, or refused, on either side of its end; a player and the operator lend
their signatures to the same key, and the operator hands its office as
matchmaker over and takes it back, so the key's sessions may belong to a
former matchmaker. One key and one delegate suffice for the runs, in which owners and
permissions differ; that keys are told apart rests on the theorems. One outcome of guesses is enough there, the payoffs being the
same as in `one`. In `tasks` sessions allow claims only or both permissions, and the delegate is
also an agent, so that its own tasks and those it takes for the other compete
for the same two ids. Symmetry over players is used
only in runs without liveness. Runs set `CHECK_DEADLOCK FALSE` because bounded
clocks and accounts let a behaviour end.

**Fairness.** `resolve_timeout`, `expire_task` and `finalize_task` need no
permission and each pays somebody, so somebody sends them: weak fairness on
each, and on the clocks. No player, agent, client, oracle or authority is assumed to act;
in particular a challenged task waits for the authority, which `TaskEnds` says.
The same holds of delegates, for which no fairness is assumed at all.

**Mutants.** Every property of a passing run comes with a plausible bug (a
dropped guard, a swapped committer, a rounding the other way) that breaks it;
they are the definitions of the model modules that no action uses.

## 4. Findings

Where the code and its comments disagree (each has its run):

* `snapshot`: a timeout after `finalize_tournament` still grows the prize pool,
  so those lamports belong to no entitlement. The comment says the pool is
  snapshotted; the property reads this as "from then on the snapshot is the pool".
* `stranded`: a game nobody joins before the tournament's end keeps its
  creator's stake; no instruction accepts it any more.
* `cutoff`: only `create_game` observes the final-hours cutoff, `join_game`
  starts games up to the last second.
* `attestation`: a "minimum" attestation delay is the middle of the window in which a
  score is accepted.
* `count`: the claim count left behind by `emergency_return` is never corrected.

Seen while modelling, without a run: `reveal_guess.rs:235` says the game count
is always incremented, a late game is not counted; `agent.rs:14` counts tasks
"resolved in their favor", `resolve_challenge` does not; README's "at threshold:
minimum payment" is a payment of zero, and its bond of 2-5x is 2-10x in the code; `global.rs:31` pauses
"the entire protocol", verification, payout, resolution and expiry go on.
`close_player_session.rs:6` says the session key cannot close a session, with
`close_session_by_delegate` it can; `create_player_session.rs:6` has the wallet fund the
session account and `deposit_stake_session.rs:7` has that account pay the stake, in the code the
key pays and nothing funds it; `create_game_session.rs:12` has the player create a game by a
session, only the matchmaker's session can. `challenge.rs:41` allows sessions
without expiry, `create_session` rejects them; `global.rs:25` gives the bond multiplier in
basis points, the code multiplies by 2 to 10; the `oracle_authority` that
`update_oracle_authority` sets is read by no instruction.

## 5. Proofs

For every number of players, games and tournaments, every stake, split and
window that satisfies `GameAssumption`, and every number of users and tasks and
all terms, scores and parameters that satisfy `TaskAssumption`. Both assumptions say
that the sets of wallets, tournaments and ids are finite, as the accounts of a chain are;
nothing else bounds them.

* `SumTheorems`: what the sum of a book of integers does when one or two entries
  change, of a table of books when one entry changes, and of two books kept apart
  (`SumDiffers`, `SumDiffersTwice`, `TableSumExcept`, `SumUnion`), from the definition of
  `SumFunction` in the community modules.

* `PayoffProofs`: the returns and the gain of every resolution are natural
  numbers that add up to the pot (`ResolutionConserves`), and so do the two
  shares of a gain (`SplitConserves`).
* `MatrixProofs`: the properties of the run `payoff` for every stake (`MatchesMatrix`,
  `PotDividedExactly`, `RightGuessDominates`) and every legal split (`SplitFair`).
* `GameProofs`: `TypeCorrect`, then `InvariantHolds` for `IInv`, from which
  `PotExact`, `EscrowBacked`, `FirstCommitterTruth`, `MatchupHidden` and
  `PhaseShape` follow as invariants, `CommitmentBinds`, `NoEarlyForfeit` and
  `WinIffPaid` as action properties, the last for stakes of at least two: half
  of a stake of one is nothing.
* `WagerProofs`: every step of the game is a step of `Wager` or a stutter
  (`GameImplementsWager`), no step changes what there is altogether
  (`MoneyConserved`), and the books of every tournament agree with its account, its claims
  and its profiles (`BooksBalance`, `EntitlementsCovered`, `GamesCounted`).
* `SessionProofs`: the types of the composition, `DelegationExpires` and
  `MatchmakerStarts`, and that the game with its sessions implements the wager
  contract extended to session keys (`SessionsImplementWager`) and conserves the
  money of wallets and keys together (`DelegationConserves`).
* `TaskProofs`: `TypeCorrect`, then `SettlementCovered`, `DisputeBacked` and
  `ClaimsCounted` from one inductive invariant, `TaskInv`, and from it the
  action properties `VerdictStands` and `ClaimLimit`.
* `MarketProofs`: every step of the marketplace is a step of `Commission` or
  a stutter (`TaskImplementsCommission`) and conserves money (`MoneyConserved`). A step
  of the marketplace with delegates is a step of the
  marketplace (`AgentsImplementTasks`), so `ClaimsCounted`, `ClaimLimit`, the
  commission contract, the conservation of money and every other theorem of it hold
  whoever signs; and `PermissionsExpire`.

**The inductive invariant of the game.** None of these invariants is inductive alone. A pot
is exact after a timeout only if the game really was running with both seats taken and not
both guesses open (phase shape); a phase is shaped after a commit
only if the state tells how many commitments there are; the first committer
committed first only if recorded slots are not in the future (`Timely`); a new
game disturbs none only if its id is fresh (`Fresh`). `GameInv` is the
conjunction for one game, so an action's proof deals with the game it touches
and leaves the others alone (`GameActions`, `GamesStepInv`); money follows from
`ResolutionConserves` and `SplitConserves` by way of `SettleInv`, the lemma the last reveal and the
timeout share. Every lemma is about one helper or one action.

**The inductive invariant of the marketplace.** `TaskStep` says once what any
step can do to a task (`Moved`): open it under the next id, hand it on to the
next state, or close it. What `TaskInv` adds to the properties is that ids from the counter
on are unused (`Fresh`), or `create_task` could overwrite a disputed task, and that
every escrow is positive (`Priced`), or a bond could be zero. That a
verdict divides at most the escrow is arithmetic: a truncated share is a share
(`ShareBound`), hence `GrossBound`, `FeeBound`, `Amounts`. It is proved at the
verdict, with the parameters of that moment, and `VerdictStands` carries it to the payout.
`HeldStep` and `CountStep` follow the set of tasks an agent holds and its
counter through one step; `ClaimLimit` needs `ClaimsCounted`, since `claim_task`
looks only at the counter.

**The refinements.** A step implements a contract because the invariant says what
the mapping hides: a pot is exact, so settling divides two stakes; ids are fresh, so
a new game is a new wager; an escrow is backed, so consuming it moves one stake.
`WagerProofs` states once what an action does to the mapped state
and fits that to an action of the contract; the six outcomes are the payoffs of
`Payoff` (`ResolutionOutcome`).
In `MarketProofs` what needs thought is the end of a dispute: the only
challenge is the one recorded (`DisputeBacked`), and the slashed share of the
bond is at most the bond. `SessionProofs` repeats only the two actions in which a key's
purse moves; all others are actions of the game under a guard.

**The invariants of delegation.** `SessionsGranted`: no session outlasts
what `granted` says of its wallet and key. A grant, a renewal and a closure each rewrite
one entry of both tables (`Regrants`), so one argument serves all three. With the
validation this gives `DelegationExpires`, once it is shown which of a step's changes
count as acting for a player, which is the longer part of the proof. For agents
(`GrantChanges`, `Within`) the invariant is kept for each permission bit, since a
session may grant less than the one revoked before it.

**Sums.** The totals of the books are recursive over a set of accounts, and the
library's induction theorems take an operator that these provers cannot instantiate.
`SubsetInduction` takes a set instead: if a subset of a finite S is in Q whenever all its
proper subsets are, every subset is; otherwise the strict subset ordering, which is well founded,
would have a minimal counterexample. With it `SumDef` shows that the sum of the
community modules obeys its recursive equation (a solution exists, and only one), and
`SumElement` that any element may be taken out first; the rest is arithmetic.

**Conservation.** It is proved on the contract's side of the mapping: every move of
`Wager` or `Commission` takes from one total what it adds to another
(`MovesConserve`), and every step of a program is such a move or changes
no money. What is used of the invariant is only that the pot of a mapped wager is the one its stage calls
for (`PotByStage`), and of a task that its holdings are those its verdict will divide.
With sessions the purses split into wallets and keys (`MoneySplit`, from `SumUnion`): a step of the game
leaves the keys alone, and a delegated deposit moves one stake from a key to a
pledge (`DepositConserves`).

**The books of a tournament.** None of the three properties is inductive. `BooksInv` adds that
nobody has claimed before the tournament is finalized (or the first root would invent claims), that the
root shares out at most the prize, and that a tournament which does not exist has counted nothing.
Then a claim moves an entry from the entitlements to the claims and takes as much from the account;
a game that counts raises two different profiles by one each; and a late timeout raises prize and
account together, which is why `ClaimsCovered` survives it. That the two
profiles differ comes from the phase shape: nobody joins their own game.

**Only model-checked.** Liveness (`GameResolves`, `TaskEnds`), which needs fairness and
`ENABLED`. Every other property of a passing run is a theorem too.

## 6. Not modelled

* *Platform identities.* `register_identity` and `revoke_identity` keep an account
  that no other instruction reads.
* *The shared crate's validators* of scores, weights, proofs and metrics are
  called by no instruction of either program.
* *SDK, deployment, end-to-end tests* keep no protocol state.
* *Solana itself*: atomic instructions, account existence, rent and signatures
  are assumed.

Three hazards have no property. A task may carry a verification timeout shorter than the
oracle's delay (`expire_task.rs:32`), and a pause outlasts a challenge window
(`challenge_task.rs:18`): the code permits both, and no comment says otherwise; the
run `task` contains such behaviours. The statistics of `finalize_task.rs:86` are
read by nothing.

## 7. Plan

Done: the two programs with all instructions that another one can notice, their sessions, the two
contracts, the refinements, and a theorem for every safety property of the runs. Left, in this order:

1. Conservation proved once in each contract, for any values of its variables, and
   carried over by the refinements: the contracts' users would then need no totals of their own.
2. The safety half of the liveness properties as theorems: which instruction a running game, or a held
   task, is waiting for, and that its guard becomes true with time.
3. Three players in `pair`, so that a player may wait in one game and play in
   another.
