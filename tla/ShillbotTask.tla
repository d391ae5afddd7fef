---------------------------- MODULE ShillbotTask ----------------------------
(***************************************************************************)
(* The shillbot program: a client escrows the price of a task, an agent    *)
(* claims it and submits work, an oracle's score decides what the agent    *)
(* earns, and a bonded challenge can dispute the verdict.                  *)
(*                                                                         *)
(* An action is one instruction, atomic as Solana runs it.  The clock is   *)
(* Clock::unix_timestamp.  Instructions of the authority carry no signer:  *)
(* the program compares the signature with GlobalState::authority, which   *)
(* nothing else depends on.  Lamports are counted above the rent-exempt    *)
(* minimum; content, hashes and nonces are left out.                       *)
(***************************************************************************)
EXTENDS Integers, FiniteSets

CONSTANTS
    Users,      \* wallets that act as clients, agents and challengers
    Keys,       \* wallets that may be the treasury or the authority
    NoUser,     \* the default key
    Platforms,  \* the platform types a task may target
    Terms,      \* the arguments offered to create_task
    Params,     \* the arguments offered to update_params
    Scores,     \* the composite scores the oracle may attest
    Overrides,  \* the nonzero periods create_task admits, by the field they override
    Funds,      \* bound: the lamports each user starts with
    MaxTasks,   \* bound: tasks ever created
    MaxTime     \* bound: the clock stops here

MaxScore == 1000000

TermRecords ==
  [escrow : Nat, deadline : Nat, margin : Nat, buffer : Nat, platform : Platforms,
   delay : Nat, window : Nat, timeout : Nat]

ParamRecords ==
  [feeBps : Nat, threshold : Nat, window : Nat, timeout : Nat, delay : Nat,
   staleness : Nat, maxClaims : Nat, multiplier : Nat, slashBps : Nat,
   paused : BOOLEAN, pausedPlatforms : SUBSET Platforms]

(* The bounds create_task puts on its overrides; zero is always allowed.   *)
Overridable == {"delay", "window", "timeout"}
ValidTerms(t) == \A period \in Overridable : t[period] \in {0} \cup Overrides[period]

(* The bounds update_params puts on its arguments.                         *)
ValidParams(p) ==
  /\ p.feeBps \in 100 .. 2500
  /\ p.threshold <= MaxScore
  /\ p.window > 0 /\ p.timeout > 0 /\ p.delay > 0 /\ p.staleness > 0
  /\ p.maxClaims \in 1 .. 255
  /\ p.multiplier \in 2 .. 10
  /\ p.slashBps <= 10000

ASSUME TaskAssumption ==
  /\ Users \cap Keys = {} /\ NoUser \notin Users \cup Keys
  /\ Users # {} /\ Keys # {} /\ IsFiniteSet(Users) /\ IsFiniteSet(Keys)
  /\ Terms # {} /\ Terms \subseteq TermRecords
  /\ Params \subseteq ParamRecords
  /\ Scores \subseteq Nat
  /\ Overrides \in [Overridable -> SUBSET (Nat \ {0})]
  /\ Funds \in Nat /\ MaxTasks \in Nat /\ MaxTime \in Nat

VARIABLES
    now,         \* Clock::unix_timestamp
    global,      \* the GlobalState account
    wallet,      \* the lamports of users and keys
    tasks,       \* the Task accounts, by task id
    agents,      \* the AgentState accounts, by agent
    challenges   \* the Challenge accounts, by task id and challenger

vars == <<now, global, wallet, tasks, agents, challenges>>

Accounts == Users \cup Keys
TaskIds == 0 .. MaxTasks - 1
TaskStates == {"Absent", "Open", "Claimed", "Submitted", "Verified", "Disputed"}

Globals ==
  [counter : 0 .. MaxTasks, authority : Keys, treasury : Keys, oracle : Keys,
   feed : BOOLEAN, params : {p \in Params : ValidParams(p)}]

Tasks ==
  [state : TaskStates, client : Users \cup {NoUser}, agent : Users \cup {NoUser},
   terms : Terms, lamports : Nat, submittedAt : Nat, challengeDeadline : Nat,
   payment : Nat, fee : Nat]

AgentStates == [exists : BOOLEAN, claimed : Nat, completed : Nat, earned : Nat]

Challenges == [exists : BOOLEAN, bond : Nat, lamports : Nat]

(* Accounts that do not exist.  Finalized and Resolved are never seen: the *)
(* instruction that writes them closes the account.                        *)
NoTask ==
  [state |-> "Absent", client |-> NoUser, agent |-> NoUser,
   terms |-> CHOOSE t \in Terms : TRUE, lamports |-> 0, submittedAt |-> 0,
   challengeDeadline |-> 0, payment |-> 0, fee |-> 0]

NoAgent == [exists |-> FALSE, claimed |-> 0, completed |-> 0, earned |-> 0]

NoChallenge == [exists |-> FALSE, bond |-> 0, lamports |-> 0]

(* After initialize, which leaves the oracle feed unset.                   *)
Init ==
  /\ now = 0
  /\ global \in {g \in Globals :
       g.counter = 0 /\ g.oracle = g.authority /\ ~g.feed /\ ~g.params.paused}
  /\ wallet = [a \in Accounts |-> IF a \in Users THEN Funds ELSE 0]
  /\ tasks = [k \in TaskIds |-> NoTask]
  /\ agents = [a \in Users |-> NoAgent]
  /\ challenges = [k \in TaskIds |-> [u \in Users |-> NoChallenge]]

-----------------------------------------------------------------------------
(* What the oracle's score is worth: nothing below the threshold, then     *)
(* linear up to the whole escrow, of which the protocol takes its fee.     *)

GrossBelowThreshold(score, threshold, escrow) ==
  IF threshold = MaxScore
  THEN 0
  ELSE (escrow * (score - threshold)) \div (MaxScore - threshold)

Gross(score, threshold, escrow) ==
  IF score < threshold \/ threshold = MaxScore
  THEN 0
  ELSE (escrow * (score - threshold)) \div (MaxScore - threshold)

FeeOf(gross, bps) == (gross * bps) \div 10000

Bond(escrow, multiplier) == escrow * multiplier

SlashToTreasury(bond, bps) == (bond * bps) \div 10000

-----------------------------------------------------------------------------
(* The authority's instructions.                                           *)

UpdateParams(p) ==
  /\ ValidParams(p)
  /\ global' = [global EXCEPT !.params = p]
  /\ UNCHANGED <<now, wallet, tasks, agents, challenges>>

SetSwitchboardFeed ==
  /\ global' = [global EXCEPT !.feed = TRUE]
  /\ UNCHANGED <<now, wallet, tasks, agents, challenges>>

TransferAuthority(authority) ==
  /\ global' = [global EXCEPT !.authority = authority]
  /\ UNCHANGED <<now, wallet, tasks, agents, challenges>>

UpdateTreasury(treasury) ==
  /\ global' = [global EXCEPT !.treasury = treasury]
  /\ UNCHANGED <<now, wallet, tasks, agents, challenges>>

(* No instruction reads the field: scores come from the feed alone.        *)
UpdateOracleAuthority(authority) ==
  /\ global' = [global EXCEPT !.oracle = authority]
  /\ UNCHANGED <<now, wallet, tasks, agents, challenges>>

-----------------------------------------------------------------------------
(* From the client's escrow to the agent's submission.                     *)

Opened(client, t) ==
  [NoTask EXCEPT !.state = "Open", !.client = client, !.terms = t, !.lamports = t.escrow]

(* Escrow and bond are moved by a transfer that fails on a short balance.  *)
PaysOnCredit(account, amount) == amount > 0
CanPay(account, amount) == wallet[account] >= amount

CreateTask(client, t) ==
  LET k == global.counter IN
  /\ k < MaxTasks
  /\ ~global.params.paused /\ t.platform \notin global.params.pausedPlatforms
  /\ t.deadline > now /\ t.escrow > 0 /\ ValidTerms(t)
  /\ CanPay(client, t.escrow)
  /\ global' = [global EXCEPT !.counter = k + 1]
  /\ tasks' = [tasks EXCEPT ![k] = Opened(client, t)]
  /\ wallet' = [wallet EXCEPT ![client] = @ - t.escrow]
  /\ UNCHANGED <<now, agents, challenges>>

MayClaimOneMore(task, state) ==
  /\ ~global.params.paused
  /\ task.state = "Open"
  /\ now + task.terms.buffer < task.terms.deadline
  /\ state.claimed <= global.params.maxClaims

MayClaim(task, state) ==
  /\ ~global.params.paused
  /\ task.state = "Open"
  /\ now + task.terms.buffer < task.terms.deadline
  /\ state.claimed < global.params.maxClaims

Taken(task, agent) == [task EXCEPT !.state = "Claimed", !.agent = agent]

Engaged(state) == [state EXCEPT !.exists = TRUE, !.claimed = @ + 1]

ClaimTask(k, agent) ==
  /\ MayClaim(tasks[k], agents[agent])
  /\ tasks' = [tasks EXCEPT ![k] = Taken(@, agent)]
  /\ agents' = [agents EXCEPT ![agent] = Engaged(@)]
  /\ UNCHANGED <<now, global, wallet, challenges>>

(* One task less is counted for the agent, whose account must be there.    *)
Released(state) == [state EXCEPT !.claimed = @ - 1]

Release(agent) ==
  /\ agents[agent].exists /\ agents[agent].claimed > 0
  /\ agents' = [agents EXCEPT ![agent] = Released(@)]

Delivered(task) == [task EXCEPT !.state = "Submitted", !.submittedAt = now]

SubmitWork(k) ==
  LET task == tasks[k] IN
  /\ ~global.params.paused
  /\ task.state = "Claimed"
  /\ now < task.terms.deadline - task.terms.margin
  /\ Release(task.agent)
  /\ tasks' = [tasks EXCEPT ![k] = Delivered(@)]
  /\ UNCHANGED <<now, global, wallet, challenges>>

MayAlwaysClose(state) == state.exists

(* Closes an agent's own account, statistics and all.                      *)
MayClose(state) == state.exists /\ state.claimed = 0

CloseAgentState(agent) ==
  /\ MayClose(agents[agent])
  /\ agents' = [agents EXCEPT ![agent] = NoAgent]
  /\ UNCHANGED <<now, global, wallet, tasks, challenges>>

-----------------------------------------------------------------------------
(* The verdict.                                                            *)

(* A per-task override of zero stands for the global value.                *)
Override(own, default) == IF own > 0 THEN own ELSE default

AttestationTime(task) == task.submittedAt + Override(task.terms.delay, global.params.delay)

MayVerifyAgain(task) ==
  /\ task.state \in {"Submitted", "Verified"}
  /\ now >= AttestationTime(task) - global.params.staleness
  /\ now <= AttestationTime(task) + global.params.staleness

MayVerify(task) ==
  /\ task.state = "Submitted"
  /\ now >= AttestationTime(task) - global.params.staleness
  /\ now <= AttestationTime(task) + global.params.staleness

VerdictFeeOnTop(task, score) ==
  LET gross == Gross(score, global.params.threshold, task.terms.escrow)
      fee == FeeOf(gross, global.params.feeBps)
  IN [task EXCEPT !.state = "Verified", !.payment = gross, !.fee = fee,
                  !.challengeDeadline = now + Override(task.terms.window, global.params.window)]

Verdict(task, score) ==
  LET gross == Gross(score, global.params.threshold, task.terms.escrow)
      fee == FeeOf(gross, global.params.feeBps)
  IN [task EXCEPT !.state = "Verified", !.payment = gross - fee, !.fee = fee,
                  !.challengeDeadline = now + Override(task.terms.window, global.params.window)]

(* Anyone may relay the score.  The feed yields positive decimals, and one *)
(* below 1 is cut to a score of zero.                                      *)
VerifyTask(k, score) ==
  /\ global.feed
  /\ score <= MaxScore
  /\ MayVerify(tasks[k])
  /\ tasks' = [tasks EXCEPT ![k] = Verdict(@, score)]
  /\ UNCHANGED <<now, global, wallet, agents, challenges>>

-----------------------------------------------------------------------------
(* The ways a task ends.  Its account is closed to the client, who gets    *)
(* whatever the instruction did not send elsewhere.                        *)

Pay(purse, account, amount) == [purse EXCEPT ![account] = @ + amount]

Affordable(task) ==
  task.payment + task.fee <= task.terms.escrow /\ task.terms.escrow <= task.lamports

DisbursedTwice(purse, task) ==
  Pay(Pay(Pay(purse, task.agent, task.payment), global.treasury, task.fee),
      task.client, task.lamports - task.payment)

Disbursed(purse, task) ==
  Pay(Pay(Pay(purse, task.agent, task.payment), global.treasury, task.fee),
      task.client, task.lamports - task.payment - task.fee)

Rewarded(state, payment) == [state EXCEPT !.completed = @ + 1, !.earned = @ + payment]

(* The caller chooses whether to pass the agent's account for statistics.  *)
FinalizeTask(k, stats) ==
  LET task == tasks[k] IN
  /\ task.state = "Verified"
  /\ now > task.challengeDeadline
  /\ Affordable(task)
  /\ wallet' = Disbursed(wallet, task)
  /\ tasks' = [tasks EXCEPT ![k] = NoTask]
  /\ agents' = IF stats /\ task.payment > 0 /\ agents[task.agent].exists
               THEN [agents EXCEPT ![task.agent] = Rewarded(@, task.payment)]
               ELSE agents
  /\ UNCHANGED <<now, global, challenges>>

MayChallengeAgain(task) ==
  /\ ~global.params.paused
  /\ task.state \in {"Verified", "Disputed"}
  /\ now < task.challengeDeadline

MayChallenge(task) ==
  /\ ~global.params.paused
  /\ task.state = "Verified"
  /\ now < task.challengeDeadline

Contested(task) == [task EXCEPT !.state = "Disputed"]

Posted(bond) == [exists |-> TRUE, bond |-> bond, lamports |-> bond]

(* The challenge account is one per task and challenger.                   *)
ChallengeTask(k, challenger) ==
  LET task == tasks[k]
      bond == Bond(task.terms.escrow, global.params.multiplier)
  IN
  /\ MayChallenge(task)
  /\ ~challenges[k][challenger].exists
  /\ CanPay(challenger, bond)
  /\ challenges' = [challenges EXCEPT ![k][challenger] = Posted(bond)]
  /\ tasks' = [tasks EXCEPT ![k] = Contested(@)]
  /\ wallet' = [wallet EXCEPT ![challenger] = @ - bond]
  /\ UNCHANGED <<now, global, agents>>

(* A lost challenge pays the verdict and divides the bond between agent    *)
(* and treasury; a won one gives escrow and bond back.                     *)
ResolveChallenge(k, challenger, won) ==
  LET task == tasks[k]
      challenge == challenges[k][challenger]
      slash == SlashToTreasury(challenge.bond, global.params.slashBps)
  IN
  /\ task.state = "Disputed"
  /\ challenge.exists
  /\ tasks' = [tasks EXCEPT ![k] = NoTask]
  /\ challenges' = [challenges EXCEPT ![k][challenger] = NoChallenge]
  /\ \/ /\ won
        /\ task.terms.escrow <= task.lamports /\ challenge.bond <= challenge.lamports
        /\ wallet' = Pay(Pay(wallet, task.client, task.lamports),
                         challenger, challenge.lamports)
     \/ /\ ~won
        /\ Affordable(task)
        /\ challenge.bond > 0 /\ challenge.bond <= challenge.lamports
        /\ wallet' = Pay(Pay(Pay(Disbursed(wallet, task),
                                 task.agent, challenge.bond - slash),
                             global.treasury, slash),
                         challenger, challenge.lamports - challenge.bond)
  /\ UNCHANGED <<now, global, agents>>

Expiry(task) ==
  IF task.state = "Submitted"
  THEN task.submittedAt + Override(task.terms.timeout, global.params.timeout)
  ELSE task.terms.deadline

(* Anyone may expire a task; a claimed one is taken off its agent's count. *)
ExpireTask(k) ==
  LET task == tasks[k] IN
  /\ task.state \in {"Open", "Claimed", "Submitted"}
  /\ now > Expiry(task)
  /\ IF task.state = "Claimed" THEN Release(task.agent) ELSE UNCHANGED agents
  /\ task.terms.escrow <= task.lamports
  /\ wallet' = Pay(wallet, task.client, task.lamports)
  /\ tasks' = [tasks EXCEPT ![k] = NoTask]
  /\ UNCHANGED <<now, global, challenges>>

(* One pair of accounts of an emergency_return.  A batch is atomic, but it *)
(* does to each of its tasks what a batch of one does, and it fails as a   *)
(* whole exactly if one of these would fail.  No AgentState is touched.    *)
EmergencyReturn(k) ==
  LET task == tasks[k] IN
  /\ task.state \in {"Open", "Claimed"}
  /\ wallet' = Pay(wallet, task.client, task.lamports)
  /\ tasks' = [tasks EXCEPT ![k] = NoTask]
  /\ UNCHANGED <<now, global, agents, challenges>>

-----------------------------------------------------------------------------
(* Deadlines are absolute and all windows bounded by Terms and Params, so  *)
(* a bound on the clock past the last of them excuses nothing.             *)
Tick ==
  /\ now < MaxTime
  /\ now' = now + 1
  /\ UNCHANGED <<global, wallet, tasks, agents, challenges>>

Next ==
  \/ Tick
  \/ \E p \in Params : UpdateParams(p)
  \/ SetSwitchboardFeed
  \/ \E key \in Keys :
       TransferAuthority(key) \/ UpdateTreasury(key) \/ UpdateOracleAuthority(key)
  \/ \E u \in Users, t \in Terms : CreateTask(u, t)
  \/ \E k \in TaskIds, u \in Users : ClaimTask(k, u)
  \/ \E k \in TaskIds : SubmitWork(k)
  \/ \E u \in Users : CloseAgentState(u)
  \/ \E k \in TaskIds, score \in Scores : VerifyTask(k, score)
  \/ \E k \in TaskIds, stats \in BOOLEAN : FinalizeTask(k, stats)
  \/ \E k \in TaskIds, u \in Users : ChallengeTask(k, u)
  \/ \E k \in TaskIds, u \in Users, won \in BOOLEAN : ResolveChallenge(k, u, won)
  \/ \E k \in TaskIds : ExpireTask(k)
  \/ \E k \in TaskIds : EmergencyReturn(k)

Spec == Init /\ [][Next]_vars

(* expire_task and finalize_task ask no permission, and each has somebody  *)
(* who is paid by it; time passes.  No agent, oracle or authority is       *)
(* assumed to act.                                                         *)
Fairness ==
  /\ WF_vars(Tick)
  /\ \A k \in TaskIds : WF_vars(ExpireTask(k)) /\ WF_vars(FinalizeTask(k, FALSE))
FairSpec == Spec /\ Fairness

=============================================================================
