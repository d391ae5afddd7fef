----------------------------- MODULE TaskProofs -----------------------------
(***************************************************************************)
(* Proofs about ShillbotTask, for every number of users and tasks and all  *)
(* terms, parameters and scores.                                           *)
(***************************************************************************)
EXTENDS TaskProperties, SumTheorems

-----------------------------------------------------------------------------
(* The arithmetic of a verdict.                                            *)

(* A truncated share of a whole stays within the whole.                    *)
LEMMA ShareBound ==
  ASSUME NEW whole \in Nat, NEW part \in Nat, NEW base \in Nat \ {0}, part <= base
  PROVE  (whole * part) \div base \in 0 .. whole
<1>1. whole * part \in Nat /\ whole * part <= whole * base
  OBVIOUS
<1> DEFINE x == whole * part
          y == whole * base
<1>2. x \in Nat /\ y \in Nat /\ x <= y
  BY <1>1
<1>3. y = base * whole
  OBVIOUS
<1> HIDE DEF x, y
<1>4. x \div base \in Nat /\ base * (x \div base) <= x
  BY <1>2
<1>5. base * (x \div base) <= base * whole
  BY <1>2, <1>3, <1>4
<1>6. x \div base <= whole
  <2> DEFINE q == x \div base
  <2>1. q \in Nat /\ base * q <= base * whole
    BY <1>4, <1>5
  <2> HIDE DEF q
  <2>2. q <= whole
    <3>1. SUFFICES ASSUME q >= whole + 1 PROVE FALSE
      BY <2>1
    <3>2. base * q >= base * (whole + 1)
      BY <2>1, <3>1
    <3>3. base * (whole + 1) = base * whole + base
      OBVIOUS
    <3>4. QED
      BY <2>1, <3>2, <3>3
  <2>3. QED
    BY <2>2 DEF q
<1>7. QED
  BY <1>4, <1>6 DEF x

(* The scale is a number, which is all the proofs need to know of it.      *)
LEMMA MaxScoreNat == MaxScore \in Nat
BY SMT DEF MaxScore

(* compute_payment never pays more than the escrow ...                     *)
LEMMA GrossBound ==
  ASSUME NEW score \in Nat, NEW threshold \in Nat, NEW escrow \in Nat,
         score <= MaxScore, threshold <= MaxScore
  PROVE  Gross(score, threshold, escrow) \in 0 .. escrow
<1>1. CASE score < threshold \/ threshold = MaxScore
  BY <1>1 DEF Gross
<1>2. CASE ~(score < threshold \/ threshold = MaxScore)
  <2>1. /\ score - threshold \in Nat /\ MaxScore - threshold \in Nat \ {0}
        /\ score - threshold <= MaxScore - threshold
    BY <1>2, MaxScoreNat
  <2>2. (escrow * (score - threshold)) \div (MaxScore - threshold) \in 0 .. escrow
    BY <2>1, ShareBound
  <2>3. QED
    BY <1>2, <2>2 DEF Gross
<1>3. QED
  BY <1>1, <1>2

(* ... and takes its fee out of what it pays.                              *)
LEMMA FeeBound ==
  ASSUME NEW gross \in Nat, NEW bps \in Nat, bps <= 10000
  PROVE  FeeOf(gross, bps) \in 0 .. gross
BY ShareBound, SMT DEF FeeOf

(* The treasury's part of a slashed bond is a part of it.                  *)
LEMMA SlashBound ==
  ASSUME NEW bond \in Nat, NEW bps \in Nat, bps <= 10000
  PROVE  SlashToTreasury(bond, bps) \in 0 .. bond
BY ShareBound, SMT DEF SlashToTreasury

(* The bond is at least twice the escrow and so never zero.                *)
LEMMA BondBound ==
  ASSUME NEW escrow \in Nat, NEW multiplier \in 2 .. 10
  PROVE  Bond(escrow, multiplier) \in Nat /\ Bond(escrow, multiplier) >= 2 * escrow
BY DEF Bond

(* The amounts and the window of a verdict under legal parameters.         *)
LEMMA Amounts ==
  ASSUME NEW p \in ParamRecords, ValidParams(p),
         NEW score \in Nat, score <= MaxScore, NEW escrow \in Nat
  PROVE  LET gross == Gross(score, p.threshold, escrow)
             fee == FeeOf(gross, p.feeBps)
         IN /\ gross - fee \in Nat /\ fee \in Nat
            /\ gross - fee + fee <= escrow
<1>1. /\ p.feeBps \in Nat /\ p.feeBps <= 10000
      /\ p.threshold \in Nat /\ p.threshold <= MaxScore
  BY DEF ParamRecords, ValidParams
<1>2. PICK gross \in 0 .. escrow : gross = Gross(score, p.threshold, escrow)
  BY <1>1, GrossBound
<1>3. PICK fee \in 0 .. gross : fee = FeeOf(gross, p.feeBps)
  BY <1>1, <1>2, FeeBound
<1>4. gross - fee \in Nat /\ fee \in Nat /\ gross - fee + fee <= escrow
  BY <1>2, <1>3
<1>5. QED
  BY <1>2, <1>3, <1>4

(* Every period in force is a natural number, and so is a slashed share.   *)
LEMMA Periods ==
  ASSUME NEW p \in ParamRecords, ValidParams(p), NEW own \in Nat
  PROVE  /\ Override(own, p.window) \in Nat
         /\ p.slashBps \in Nat /\ p.slashBps <= 10000
         /\ p.multiplier \in 2 .. 10
BY DEF ParamRecords, ValidParams, Override

(* The parameters in force are within update_params' bounds.               *)
LEMMA ParamsInForce ==
  ASSUME global \in Globals
  PROVE  global.params \in ParamRecords /\ ValidParams(global.params)
BY TaskAssumption DEF Globals

(* The terms of a task are natural numbers.                                *)
LEMMA TermsNat ==
  ASSUME NEW task \in Tasks
  PROVE  /\ task.terms \in TermRecords /\ task.terms.escrow \in Nat
         /\ task.terms.window \in Nat
<1>1. task.terms \in TermRecords
  BY TaskAssumption DEF Tasks
<1>2. QED
  BY <1>1 DEF TermRecords

-----------------------------------------------------------------------------
(* Types.                                                                  *)

(* An account that is closed has the type of one that is open.             *)
LEMMA NoTaskType == NoTask \in Tasks
<1>1. (CHOOSE t \in Terms : TRUE) \in Terms
  BY TaskAssumption
<1>2. QED
  BY <1>1 DEF NoTask, Tasks, TaskStates

(* After initialize every account has its type.                            *)
LEMMA TypeInit == Init => TypeOK
<1> SUFFICES ASSUME Init PROVE TypeOK
  OBVIOUS
<1>1. wallet \in [Accounts -> Nat]
  BY TaskAssumption DEF Init
<1>2. tasks \in [TaskIds -> Tasks]
  BY NoTaskType DEF Init
<1>3. agents \in [Users -> AgentStates] /\ challenges \in [TaskIds -> [Users -> Challenges]]
  BY DEF Init, AgentStates, NoAgent, Challenges, NoChallenge
<1>4. now \in Nat /\ global \in Globals
  BY DEF Init
<1>5. QED
  BY <1>1, <1>2, <1>3, <1>4 DEF TypeOK

(* Paying a natural number keeps a purse a purse.                          *)
LEMMA PayType ==
  ASSUME NEW purse \in [Accounts -> Nat], NEW account, NEW amount \in Nat
  PROVE  Pay(purse, account, amount) \in [Accounts -> Nat]
<1>1. \A a \in Accounts : purse[a] \in Nat /\ purse[a] + amount \in Nat
  OBVIOUS
<1>2. CASE account \in Accounts
  BY <1>1, <1>2 DEF Pay
<1>3. CASE account \notin Accounts
  BY <1>3 DEF Pay
<1>4. QED
  BY <1>2, <1>3

(* A verdict divides at most the escrow.                                   *)
LEMMA VerdictType ==
  ASSUME TypeOK, NEW task \in Tasks, NEW score \in Scores, score <= MaxScore
  PROVE  /\ Verdict(task, score) \in Tasks
         /\ Verdict(task, score).payment + Verdict(task, score).fee <= task.terms.escrow
<1> DEFINE p == global.params
          gross == Gross(score, p.threshold, task.terms.escrow)
          fee == FeeOf(gross, p.feeBps)
          end == now + Override(task.terms.window, p.window)
<1>1. global \in Globals /\ now \in Nat /\ score \in Nat
  BY TaskAssumption DEF TypeOK
<1>2. p \in ParamRecords /\ ValidParams(p)
  BY <1>1, ParamsInForce
<1>3. gross - fee \in Nat /\ fee \in Nat /\ gross - fee + fee <= task.terms.escrow
  <2>1. task.terms.escrow \in Nat
    BY TermsNat
  <2>2. QED
    BY <1>1, <1>2, <2>1, Amounts
<1>4. end \in Nat
  <2>1. task.terms.window \in Nat
    BY TermsNat
  <2>2. Override(task.terms.window, p.window) \in Nat
    BY <1>2, <2>1, Periods
  <2>3. QED
    BY <1>1, <2>2
<1>5. Verdict(task, score) =
        [task EXCEPT !.state = "Verified", !.payment = gross - fee, !.fee = fee,
                     !.challengeDeadline = end]
  BY DEF Verdict
<1> DEFINE payment == gross - fee
<1>6. payment \in Nat /\ payment + fee <= task.terms.escrow
  BY <1>3
<1> HIDE DEF payment, fee, end
<1>7. QED
  <2>1. Verdict(task, score) =
          [task EXCEPT !.state = "Verified", !.payment = payment, !.fee = fee,
                       !.challengeDeadline = end]
    BY <1>5 DEF payment
  <2>2. QED
    BY <1>3, <1>4, <1>6, <2>1 DEF Tasks, TaskStates

(* The payout of a verdict the account can afford.                         *)
LEMMA DisbursedType ==
  ASSUME TypeOK, NEW task \in Tasks, Affordable(task)
  PROVE  Disbursed(wallet, task) \in [Accounts -> Nat]
<1>1. /\ task.payment \in Nat /\ task.fee \in Nat
      /\ task.lamports - task.payment - task.fee \in Nat
  BY TermsNat DEF Affordable, Tasks
<1> DEFINE paid == Pay(wallet, task.agent, task.payment)
          taxed == Pay(paid, global.treasury, task.fee)
<1>2. paid \in [Accounts -> Nat]
  BY <1>1, PayType DEF TypeOK
<1>3. taxed \in [Accounts -> Nat]
  BY <1>1, <1>2, PayType
<1>4. Pay(taxed, task.client, task.lamports - task.payment - task.fee) \in [Accounts -> Nat]
  BY <1>1, <1>3, PayType
<1>5. QED
  BY <1>4 DEF Disbursed

(* What the steps of a task make of it and of its agent's account.         *)
LEMMA TaskPieces ==
  ASSUME now \in Nat, NEW task \in Tasks, NEW u \in Users
  PROVE  /\ Taken(task, u) \in Tasks
         /\ Delivered(task) \in Tasks
         /\ Contested(task) \in Tasks
BY DEF Tasks, TaskStates, Taken, Delivered, Contested

(* What create_task writes is a task.                                      *)
LEMMA OpenedType ==
  ASSUME NEW u \in Users, NEW t \in Terms
  PROVE  t.escrow \in Nat /\ Opened(u, t) \in Tasks
<1>1. t.escrow \in Nat
  BY TaskAssumption DEF TermRecords
<1>2. QED
  BY <1>1, NoTaskType DEF Tasks, TaskStates, Opened

(* What the steps of a task make of its agent's account.                   *)
LEMMA AgentPieces ==
  ASSUME NEW state \in AgentStates, NEW payment \in Nat
  PROVE  /\ Engaged(state) \in AgentStates
         /\ Rewarded(state, payment) \in AgentStates
         /\ state.claimed > 0 => Released(state) \in AgentStates
<1>1. /\ state.claimed > 0 => state.claimed - 1 \in Nat
      /\ state.claimed + 1 \in Nat /\ state.completed + 1 \in Nat
      /\ state.earned + payment \in Nat
  BY DEF AgentStates
<1>2. QED
  BY <1>1 DEF AgentStates, Engaged, Rewarded, Released

(* The agents' accounts after a task left one of them.                     *)
LEMMA ReleaseType ==
  ASSUME TypeOK, NEW agent, Release(agent)
  PROVE  agents' \in [Users -> AgentStates]
<1>1. agents \in [Users -> AgentStates] /\ agents' = [agents EXCEPT ![agent] = Released(@)]
  BY DEF Release, TypeOK
<1>2. agent \in Users => Released(agents[agent]) \in AgentStates
  BY <1>1, AgentPieces DEF Release
<1>3. QED
  BY <1>1, <1>2

(* The authority and the clock.                                            *)
LEMMA SettingsStepType ==
  ASSUME TypeOK,
         \/ Tick
         \/ \E p \in Params : UpdateParams(p)
         \/ SetSwitchboardFeed
         \/ \E key \in Keys :
              TransferAuthority(key) \/ UpdateTreasury(key) \/ UpdateOracleAuthority(key)
  PROVE  TypeOK'
<1>1. CASE Tick
  BY <1>1 DEF Tick, TypeOK
<1>2. ASSUME NEW p \in Params, UpdateParams(p) PROVE TypeOK'
  BY <1>2 DEF UpdateParams, TypeOK, Globals
<1>3. CASE SetSwitchboardFeed
  BY <1>3 DEF SetSwitchboardFeed, TypeOK, Globals
<1>4. ASSUME NEW key \in Keys,
             TransferAuthority(key) \/ UpdateTreasury(key) \/ UpdateOracleAuthority(key)
      PROVE  TypeOK'
  BY <1>4 DEF TransferAuthority, UpdateTreasury, UpdateOracleAuthority, TypeOK, Globals
<1>5. QED
  BY <1>1, <1>2, <1>3, <1>4

(* From creation to submission.                                            *)
LEMMA WorkStepType ==
  ASSUME TypeOK,
         \/ \E u \in Users, t \in Terms : CreateTask(u, t)
         \/ \E k \in TaskIds, u \in Users : ClaimTask(k, u)
         \/ \E k \in TaskIds : SubmitWork(k)
         \/ \E u \in Users : CloseAgentState(u)
  PROVE  TypeOK'
<1>1. ASSUME NEW u \in Users, NEW t \in Terms, CreateTask(u, t) PROVE TypeOK'
  <2>1. t.escrow \in Nat /\ Opened(u, t) \in Tasks
    BY OpenedType
  <2>2. tasks' \in [TaskIds -> Tasks]
    BY <1>1, <2>1 DEF CreateTask, TypeOK
  <2>3. wallet[u] \in Nat /\ wallet[u] >= t.escrow
    BY <1>1 DEF CreateTask, CanPay, TypeOK, Accounts
  <2>4. wallet[u] - t.escrow \in Nat
    BY <2>1, <2>3
  <2>5. wallet' \in [Accounts -> Nat]
    BY <1>1, <2>4 DEF CreateTask, TypeOK
  <2>6. global.counter + 1 \in 0 .. MaxTasks
    BY <1>1, TaskAssumption DEF CreateTask, TypeOK, Globals
  <2>7. global' \in Globals
    BY <1>1, <2>6 DEF CreateTask, TypeOK, Globals
  <2>8. QED
    BY <1>1, <2>2, <2>5, <2>7 DEF CreateTask, TypeOK
<1>2. ASSUME NEW k \in TaskIds, NEW u \in Users, ClaimTask(k, u) PROVE TypeOK'
  <2>1. Taken(tasks[k], u) \in Tasks /\ Engaged(agents[u]) \in AgentStates
    BY TaskPieces, AgentPieces DEF TypeOK
  <2>2. QED
    BY <1>2, <2>1 DEF ClaimTask, TypeOK
<1>3. ASSUME NEW k \in TaskIds, SubmitWork(k) PROVE TypeOK'
  <2>1. Delivered(tasks[k]) \in Tasks
    BY TaskAssumption, TaskPieces DEF TypeOK
  <2>2. agents' \in [Users -> AgentStates]
    BY <1>3, ReleaseType DEF SubmitWork
  <2>3. QED
    BY <1>3, <2>1, <2>2 DEF SubmitWork, TypeOK
<1>4. ASSUME NEW u \in Users, CloseAgentState(u) PROVE TypeOK'
  <2>1. NoAgent \in AgentStates
    BY DEF NoAgent, AgentStates
  <2>2. QED
    BY <1>4, <2>1 DEF CloseAgentState, TypeOK
<1>5. QED
  BY <1>1, <1>2, <1>3, <1>4

(* The bond of a challenge and its division between agent and treasury.    *)
LEMMA BondType ==
  ASSUME TypeOK, NEW task \in Tasks
  PROVE  /\ Bond(task.terms.escrow, global.params.multiplier) \in Nat
         /\ Bond(task.terms.escrow, global.params.multiplier) >= 2 * task.terms.escrow
<1>1. global.params.multiplier \in 2 .. 10
  BY ParamsInForce, Periods DEF TypeOK
<1>2. QED
  BY <1>1, TermsNat, BondBound

(* A slashed bond is divided into two natural numbers.                     *)
LEMMA SlashType ==
  ASSUME TypeOK, NEW bond \in Nat
  PROVE  /\ SlashToTreasury(bond, global.params.slashBps) \in Nat
         /\ bond - SlashToTreasury(bond, global.params.slashBps) \in Nat
<1>1. global.params.slashBps \in Nat /\ global.params.slashBps <= 10000
  BY ParamsInForce, Periods DEF TypeOK
<1>2. SlashToTreasury(bond, global.params.slashBps) \in 0 .. bond
  BY <1>1, SlashBound
<1>3. QED
  BY <1>2

(* Attestation and the payout of an undisputed verdict.                    *)
LEMMA VerdictStepType ==
  ASSUME TypeOK,
         \/ \E k \in TaskIds, score \in Scores : VerifyTask(k, score)
         \/ \E k \in TaskIds, stats \in BOOLEAN : FinalizeTask(k, stats)
  PROVE  TypeOK'
<1>1. ASSUME NEW k \in TaskIds, NEW score \in Scores, VerifyTask(k, score) PROVE TypeOK'
  <2>1. tasks[k] \in Tasks /\ score <= MaxScore
    BY <1>1 DEF TypeOK, VerifyTask
  <2>2. Verdict(tasks[k], score) \in Tasks
    BY <2>1, VerdictType
  <2>3. QED
    BY <1>1, <2>2 DEF VerifyTask, TypeOK
<1>2. ASSUME NEW k \in TaskIds, NEW stats \in BOOLEAN, FinalizeTask(k, stats) PROVE TypeOK'
  <2>1. tasks[k] \in Tasks /\ Affordable(tasks[k])
    BY <1>2 DEF TypeOK, FinalizeTask
  <2>2. wallet' \in [Accounts -> Nat]
    BY <1>2, <2>1, DisbursedType DEF FinalizeTask
  <2>3. tasks' \in [TaskIds -> Tasks]
    BY <1>2, NoTaskType DEF FinalizeTask, TypeOK
  <2>4. agents' \in [Users -> AgentStates]
    <3> DEFINE agent == tasks[k].agent
              payment == tasks[k].payment
    <3>1. payment \in Nat
      BY <2>1 DEF Tasks
    <3>2. agent \in Users => Rewarded(agents[agent], payment) \in AgentStates
      BY <3>1, AgentPieces DEF TypeOK
    <3>3. \/ agents' = agents
          \/ agents' = [agents EXCEPT ![agent] = Rewarded(@, payment)]
      BY <1>2 DEF FinalizeTask
    <3> HIDE DEF agent, payment
    <3>4. QED
      BY <3>2, <3>3 DEF TypeOK
  <2>5. QED
    BY <1>2, <2>2, <2>3, <2>4 DEF FinalizeTask, TypeOK
<1>3. QED
  BY <1>1, <1>2

(* A challenge and its resolution.                                         *)
LEMMA DisputeStepType ==
  ASSUME TypeOK,
         \/ \E k \in TaskIds, u \in Users : ChallengeTask(k, u)
         \/ \E k \in TaskIds, u \in Users, won \in BOOLEAN : ResolveChallenge(k, u, won)
  PROVE  TypeOK'
<1>1. ASSUME NEW k \in TaskIds, NEW u \in Users, ChallengeTask(k, u) PROVE TypeOK'
  <2> DEFINE bond == Bond(tasks[k].terms.escrow, global.params.multiplier)
  <2>1. tasks[k] \in Tasks /\ u \in Accounts
    BY DEF TypeOK, Accounts
  <2>2. bond \in Nat
    BY <2>1, BondType
  <2>3. /\ wallet[u] >= bond
        /\ wallet' = [wallet EXCEPT ![u] = @ - bond]
        /\ challenges' = [challenges EXCEPT ![k][u] = Posted(bond)]
        /\ tasks' = [tasks EXCEPT ![k] = Contested(@)]
        /\ UNCHANGED <<now, global, agents>>
    BY <1>1 DEF ChallengeTask, CanPay
  <2> HIDE DEF bond
  <2>4. Posted(bond) \in Challenges
    BY <2>2 DEF Posted, Challenges
  <2>5. challenges' \in [TaskIds -> [Users -> Challenges]]
    BY <2>3, <2>4 DEF TypeOK
  <2>6. wallet[u] - bond \in Nat
    BY <2>1, <2>2, <2>3 DEF TypeOK
  <2>7. wallet' \in [Accounts -> Nat]
    BY <2>3, <2>6 DEF TypeOK
  <2>8. Contested(tasks[k]) \in Tasks
    BY <2>1, TaskPieces DEF TypeOK
  <2>9. tasks' \in [TaskIds -> Tasks]
    BY <2>3, <2>8 DEF TypeOK
  <2>10. QED
    BY <2>3, <2>5, <2>7, <2>9 DEF TypeOK
<1>2. ASSUME NEW k \in TaskIds, NEW u \in Users, NEW won \in BOOLEAN,
             ResolveChallenge(k, u, won)
      PROVE  TypeOK'
  <2> DEFINE task == tasks[k]
            challenge == challenges[k][u]
            slash == SlashToTreasury(challenge.bond, global.params.slashBps)
            kept == challenge.bond - slash
            rest == challenge.lamports - challenge.bond
  <2>1. /\ task \in Tasks /\ challenge \in Challenges
        /\ task.lamports \in Nat /\ challenge.bond \in Nat /\ challenge.lamports \in Nat
    BY DEF TypeOK, Tasks, Challenges
  <2>2. slash \in Nat /\ kept \in Nat
    BY <2>1, SlashType
  <2>3. NoChallenge \in Challenges
    BY DEF NoChallenge, Challenges
  <2>4. challenges' \in [TaskIds -> [Users -> Challenges]]
    BY <1>2, <2>3 DEF ResolveChallenge, TypeOK
  <2>5. tasks' \in [TaskIds -> Tasks]
    BY <1>2, NoTaskType DEF ResolveChallenge, TypeOK
  <2>6. wallet' \in [Accounts -> Nat]
    <3>1. CASE wallet' = Pay(Pay(wallet, task.client, task.lamports), u, challenge.lamports)
      <4>1. Pay(wallet, task.client, task.lamports) \in [Accounts -> Nat]
        BY <2>1, PayType DEF TypeOK
      <4>2. QED
        BY <2>1, <3>1, <4>1, PayType
    <3>2. CASE /\ Affordable(task) /\ challenge.bond <= challenge.lamports
               /\ wallet' = Pay(Pay(Pay(Disbursed(wallet, task), task.agent, kept),
                                    global.treasury, slash), u, rest)
      <4>1. Disbursed(wallet, task) \in [Accounts -> Nat]
        BY <2>1, <3>2, DisbursedType
      <4>2. Pay(Disbursed(wallet, task), task.agent, kept) \in [Accounts -> Nat]
        BY <2>2, <4>1, PayType
      <4>3. Pay(Pay(Disbursed(wallet, task), task.agent, kept), global.treasury, slash)
              \in [Accounts -> Nat]
        BY <2>2, <4>2, PayType
      <4>4. rest \in Nat
        BY <2>1, <3>2
      <4>5. QED
        BY <3>2, <4>3, <4>4, PayType
    <3>3. QED
      BY <1>2, <3>1, <3>2 DEF ResolveChallenge
  <2>7. QED
    BY <1>2, <2>4, <2>5, <2>6 DEF ResolveChallenge, TypeOK
<1>3. QED
  BY <1>1, <1>2

(* The tasks that end without a verdict.                                   *)
LEMMA ReturnStepType ==
  ASSUME TypeOK,
         \/ \E k \in TaskIds : ExpireTask(k)
         \/ \E k \in TaskIds : EmergencyReturn(k)
  PROVE  TypeOK'
<1>1. ASSUME NEW k \in TaskIds, ExpireTask(k) \/ EmergencyReturn(k) PROVE TypeOK'
  <2>1. tasks[k].lamports \in Nat
    BY DEF TypeOK, Tasks
  <2>2. wallet' \in [Accounts -> Nat]
    BY <1>1, <2>1, PayType DEF ExpireTask, EmergencyReturn, TypeOK
  <2>3. tasks' \in [TaskIds -> Tasks]
    BY <1>1, NoTaskType DEF ExpireTask, EmergencyReturn, TypeOK
  <2>4. agents' \in [Users -> AgentStates]
    <3>1. CASE Release(tasks[k].agent)
      BY <3>1, ReleaseType
    <3>2. CASE UNCHANGED agents
      BY <3>2 DEF TypeOK
    <3>3. QED
      BY <1>1, <3>1, <3>2 DEF ExpireTask, EmergencyReturn
  <2>5. QED
    BY <1>1, <2>2, <2>3, <2>4 DEF ExpireTask, EmergencyReturn, TypeOK
<1>2. QED
  BY <1>1

(* No step takes an account out of its type.                               *)
LEMMA TypeStep == TypeOK /\ [Next]_vars => TypeOK'
<1> SUFFICES ASSUME TypeOK, [Next]_vars PROVE TypeOK'
  OBVIOUS
<1>1. CASE UNCHANGED vars
  BY <1>1 DEF vars, TypeOK
<1>2. CASE Next
  BY <1>2, SettingsStepType, WorkStepType, VerdictStepType, DisputeStepType, ReturnStepType
  DEF Next
<1>3. QED
  BY <1>1, <1>2

(* No balance and no claim counter ever goes below zero: no instruction    *)
(* pays more than the account holds that it pays from.                     *)
THEOREM TypeCorrect == Spec => []TypeOK
BY TypeInit, TypeStep, PTL DEF Spec

-----------------------------------------------------------------------------
(* The task counter moves by create_task alone, and by one.                *)
LEMMA CounterStep ==
  ASSUME TypeOK, [Next]_vars
  PROVE  /\ global.counter \in Nat
         /\ \/ global'.counter = global.counter
            \/ global'.counter = global.counter + 1
         /\ (\E u \in Users, t \in Terms : CreateTask(u, t)) =>
              global'.counter = global.counter + 1
<1>1. global.counter \in Nat /\ global \in Globals
  BY TaskAssumption DEF TypeOK, Globals
<1>2. \A counter : [global EXCEPT !.counter = counter].counter = counter
  BY <1>1 DEF Globals
<1>3. \A u \in Users, t \in Terms : CreateTask(u, t) => global'.counter = global.counter + 1
  BY <1>2 DEF CreateTask
<1>4. CASE global' = global
  BY <1>1, <1>3, <1>4
<1>5. CASE \/ \E p \in Params : UpdateParams(p)
           \/ SetSwitchboardFeed
           \/ \E key \in Keys :
                TransferAuthority(key) \/ UpdateTreasury(key) \/ UpdateOracleAuthority(key)
  <2>1. \A p : /\ [global EXCEPT !.params = p].counter = global.counter
               /\ [global EXCEPT !.feed = p].counter = global.counter
               /\ [global EXCEPT !.authority = p].counter = global.counter
               /\ [global EXCEPT !.treasury = p].counter = global.counter
               /\ [global EXCEPT !.oracle = p].counter = global.counter
    BY <1>1 DEF Globals
  <2>2. ASSUME NEW p \in Params, UpdateParams(p) PROVE global'.counter = global.counter
    BY <2>1, <2>2 DEF UpdateParams
  <2>3. ASSUME SetSwitchboardFeed PROVE global'.counter = global.counter
    BY <2>1, <2>3 DEF SetSwitchboardFeed
  <2>4. ASSUME NEW key \in Keys, TransferAuthority(key) PROVE global'.counter = global.counter
    BY <2>1, <2>4 DEF TransferAuthority
  <2>5. ASSUME NEW key \in Keys, UpdateTreasury(key) PROVE global'.counter = global.counter
    BY <2>1, <2>5 DEF UpdateTreasury
  <2>6. ASSUME NEW key \in Keys, UpdateOracleAuthority(key)
        PROVE  global'.counter = global.counter
    BY <2>1, <2>6 DEF UpdateOracleAuthority
  <2>7. global'.counter = global.counter
    BY <1>5, <2>2, <2>3, <2>4, <2>5, <2>6
  <2>8. QED
    BY <1>1, <1>3, <2>7
<1>6. CASE \E u \in Users, t \in Terms : CreateTask(u, t)
  BY <1>1, <1>3, <1>6
<1>7. QED
  <2>1. CASE UNCHANGED vars
    BY <1>4, <2>1 DEF vars
  <2>2. CASE Next
    BY <1>4, <1>5, <1>6, <2>2 DEF Next, Tick, ClaimTask, SubmitWork, CloseAgentState,
      VerifyTask, FinalizeTask, ChallengeTask, ResolveChallenge, ExpireTask, EmergencyReturn
  <2>3. QED
    BY <2>1, <2>2

(* The life of a task: what one step of the program can do to it.          *)
Moved(k) ==
  \/ tasks'[k] = tasks[k]
  \/ /\ k = global.counter /\ global'.counter = k + 1
     /\ \E u \in Users, t \in Terms : t.escrow > 0 /\ tasks'[k] = Opened(u, t)
  \/ /\ tasks[k].state = "Open"
     /\ \E u \in Users : ClaimTask(k, u) /\ tasks'[k] = Taken(tasks[k], u)
  \/ tasks[k].state = "Claimed" /\ tasks'[k] = Delivered(tasks[k])
  \/ /\ tasks[k].state = "Submitted"
     /\ \E score \in Scores : score <= MaxScore /\ tasks'[k] = Verdict(tasks[k], score)
  \/ /\ tasks[k].state = "Verified" /\ tasks'[k] = Contested(tasks[k])
     /\ \E u \in Users : ChallengeTask(k, u)
  \/ /\ tasks[k].state = "Disputed" /\ tasks'[k] = NoTask
     /\ \E u \in Users, won \in BOOLEAN : ResolveChallenge(k, u, won)
  \/ tasks[k].state \notin {"Absent", "Disputed"} /\ tasks'[k] = NoTask

(* No step does anything else to a task.                                   *)
LEMMA TaskStep ==
  ASSUME TypeOK, [Next]_vars, NEW k \in TaskIds
  PROVE  Moved(k)
<1>1. tasks \in [TaskIds -> Tasks]
  BY DEF TypeOK
<1>2. CASE UNCHANGED tasks
  BY <1>2 DEF Moved
<1>3. ASSUME NEW u \in Users, NEW t \in Terms, CreateTask(u, t) PROVE Moved(k)
  BY <1>1, <1>3, CounterStep DEF Moved, CreateTask
<1>4. ASSUME NEW j \in TaskIds, NEW u \in Users, ClaimTask(j, u) PROVE Moved(k)
  BY <1>1, <1>4 DEF Moved, ClaimTask, MayClaim
<1>5. ASSUME NEW j \in TaskIds, SubmitWork(j) PROVE Moved(k)
  BY <1>1, <1>5 DEF Moved, SubmitWork
<1>6. ASSUME NEW j \in TaskIds, NEW score \in Scores, VerifyTask(j, score) PROVE Moved(k)
  BY <1>1, <1>6 DEF Moved, VerifyTask, MayVerify
<1>7. ASSUME NEW j \in TaskIds, NEW stats \in BOOLEAN, FinalizeTask(j, stats) PROVE Moved(k)
  BY <1>1, <1>7 DEF Moved, FinalizeTask
<1>8. ASSUME NEW j \in TaskIds, NEW u \in Users, ChallengeTask(j, u) PROVE Moved(k)
  BY <1>1, <1>8 DEF Moved, ChallengeTask, MayChallenge
<1>9. ASSUME NEW j \in TaskIds, NEW u \in Users, NEW won \in BOOLEAN,
             ResolveChallenge(j, u, won)
      PROVE  Moved(k)
  BY <1>1, <1>9 DEF Moved, ResolveChallenge
<1>10. ASSUME NEW j \in TaskIds, ExpireTask(j) \/ EmergencyReturn(j) PROVE Moved(k)
  BY <1>1, <1>10 DEF Moved, ExpireTask, EmergencyReturn
<1>11. ASSUME NEW u \in Users, CloseAgentState(u) PROVE UNCHANGED tasks
  BY <1>11 DEF CloseAgentState
<1>12. ASSUME \/ Tick
              \/ \E p \in Params : UpdateParams(p)
              \/ SetSwitchboardFeed
              \/ \E key \in Keys :
                   TransferAuthority(key) \/ UpdateTreasury(key) \/ UpdateOracleAuthority(key)
              \/ UNCHANGED vars
       PROVE  UNCHANGED tasks
  BY <1>12 DEF Tick, UpdateParams, SetSwitchboardFeed, TransferAuthority, UpdateTreasury,
     UpdateOracleAuthority, vars
<1>13. QED
  BY <1>2, <1>3, <1>4, <1>5, <1>6, <1>7, <1>8, <1>9, <1>10, <1>11, <1>12 DEF Next

(* Task ids are handed out in order and none twice: create_task seeds the  *)
(* account with the counter.                                               *)
Fresh == \A k \in TaskIds : k >= global.counter => tasks[k].state = "Absent"

(* Nobody escrows nothing.                                                 *)
Priced == \A k \in TaskIds : tasks[k].state # "Absent" => tasks[k].terms.escrow > 0

(* No task exists at first.                                                *)
LEMMA LedgerInit == Init => Fresh /\ Priced
BY DEF Init, Fresh, Priced, NoTask

(* What the steps of a task keep of it.                                    *)
SameDeal(new, task) ==
  new.terms = task.terms /\ new.lamports = task.lamports /\ new.client = task.client

SameVerdict(new, task) ==
  /\ new.payment = task.payment /\ new.fee = task.fee
  /\ new.challengeDeadline = task.challengeDeadline

(* What a task's new contents are, field by field.                         *)
LEMMA Fields ==
  ASSUME NEW task \in Tasks, NEW u, NEW score
  PROVE  /\ Taken(task, u).state = "Claimed" /\ Taken(task, u).agent = u
         /\ SameDeal(Taken(task, u), task) /\ SameVerdict(Taken(task, u), task)
         /\ Delivered(task).state = "Submitted" /\ Delivered(task).agent = task.agent
         /\ SameDeal(Delivered(task), task) /\ SameVerdict(Delivered(task), task)
         /\ Verdict(task, score).state = "Verified" /\ Verdict(task, score).agent = task.agent
         /\ SameDeal(Verdict(task, score), task)
         /\ Contested(task).state = "Disputed" /\ Contested(task).agent = task.agent
         /\ SameDeal(Contested(task), task) /\ SameVerdict(Contested(task), task)
         /\ NoTask.state = "Absent" /\ NoTask.lamports = 0
BY DEF Tasks, Taken, Delivered, Contested, Verdict, NoTask, SameDeal, SameVerdict

(* What create_task writes.                                                *)
LEMMA OpenedFields ==
  ASSUME NEW u, NEW t
  PROVE  /\ Opened(u, t).state = "Open" /\ Opened(u, t).terms = t
         /\ Opened(u, t).client = u /\ Opened(u, t).lamports = t.escrow
         /\ Opened(u, t).payment = 0 /\ Opened(u, t).fee = 0
<1>1. NoTask.payment = 0 /\ NoTask.fee = 0
  BY DEF NoTask
<1>2. NoTask = [state |-> NoTask.state, client |-> NoTask.client, agent |-> NoTask.agent,
                terms |-> NoTask.terms, lamports |-> NoTask.lamports,
                submittedAt |-> NoTask.submittedAt,
                challengeDeadline |-> NoTask.challengeDeadline,
                payment |-> NoTask.payment, fee |-> NoTask.fee]
  BY DEF NoTask
<1>3. QED
  BY <1>1, <1>2 DEF Opened

(* Ids stay fresh above the counter, and every task has its price.         *)
LEMMA LedgerStep ==
  ASSUME TypeOK, Fresh, Priced, [Next]_vars
  PROVE  Fresh' /\ Priced'
<1>1. ASSUME NEW k \in TaskIds
      PROVE  /\ k >= global'.counter => tasks'[k].state = "Absent"
             /\ tasks'[k].state # "Absent" => tasks'[k].terms.escrow > 0
  <2>1. k \in Int /\ tasks[k] \in Tasks
    BY TaskAssumption DEF TypeOK, TaskIds
  <2>2. /\ k >= global.counter => tasks[k].state = "Absent"
        /\ tasks[k].state # "Absent" => tasks[k].terms.escrow > 0
    BY DEF Fresh, Priced
  <2>3. k >= global'.counter => k >= global.counter
    BY <2>1, CounterStep
  <2>4. Moved(k)
    BY TaskStep
  <2>5. CASE tasks'[k] = tasks[k]
    BY <2>2, <2>3, <2>5
  <2>6. ASSUME NEW u \in Users, NEW t \in Terms, t.escrow > 0, global'.counter = k + 1,
               tasks'[k] = Opened(u, t)
        PROVE  tasks'[k].terms.escrow > 0 /\ ~(k >= global'.counter)
    BY <2>1, <2>6, OpenedFields
  <2>7. CASE tasks[k].state # "Absent" /\ tasks'[k].terms = tasks[k].terms
    BY <2>2, <2>3, <2>7
  <2>8. CASE tasks'[k] = NoTask
    BY <2>8 DEF NoTask
  <2>9. \/ tasks'[k] = tasks[k]
        \/ tasks'[k] = NoTask
        \/ tasks[k].state # "Absent" /\ tasks'[k].terms = tasks[k].terms
        \/ \E u \in Users, t \in Terms :
             t.escrow > 0 /\ global'.counter = k + 1 /\ tasks'[k] = Opened(u, t)
    <3>1. /\ Delivered(tasks[k]).terms = tasks[k].terms
          /\ Contested(tasks[k]).terms = tasks[k].terms
          /\ \A u : Taken(tasks[k], u).terms = tasks[k].terms
          /\ \A score : Verdict(tasks[k], score).terms = tasks[k].terms
      BY <2>1, Fields DEF SameDeal
    <3>2. QED
      BY <2>4, <3>1 DEF Moved
  <2>10. QED
    BY <2>5, <2>6, <2>7, <2>8, <2>9
<1>2. QED
  BY <1>1 DEF Fresh, Priced

-----------------------------------------------------------------------------
(* The escrow stays whole and covers what the verdict divides.             *)

(* A step that keeps amounts and verdict, and names an agent.              *)
LEMMA CoveredKept ==
  ASSUME NEW task, Covered(task), task.state # "Absent",
         NEW new, SameDeal(new, task), SameVerdict(new, task),
         new.state # "Absent", new.agent \in Users
  PROVE  Covered(new)
BY DEF Covered, SameDeal, SameVerdict

(* No step breaks an escrow or promises more than it.                      *)
LEMMA CoveredStep ==
  ASSUME TypeOK, SettlementCovered, [Next]_vars
  PROVE  SettlementCovered'
<1>1. ASSUME NEW k \in TaskIds PROVE Covered(tasks'[k])
  <2>1. tasks[k] \in Tasks /\ Covered(tasks[k])
    BY DEF TypeOK, SettlementCovered
  <2>2. Moved(k)
    BY TaskStep
  <2>3. CASE tasks'[k] = tasks[k]
    BY <2>1, <2>3
  <2>4. ASSUME NEW u \in Users, NEW t \in Terms, tasks'[k] = Opened(u, t)
        PROVE  Covered(tasks'[k])
    <3>1. t.escrow \in Nat
      BY OpenedType
    <3>2. QED
      BY <2>4, <3>1, OpenedFields DEF Covered
  <2>5. ASSUME NEW u \in Users, tasks[k].state = "Open", tasks'[k] = Taken(tasks[k], u)
        PROVE  Covered(tasks'[k])
    <3>1. /\ SameDeal(tasks'[k], tasks[k]) /\ SameVerdict(tasks'[k], tasks[k])
          /\ tasks'[k].state # "Absent" /\ tasks[k].state # "Absent"
      BY <2>1, <2>5, Fields
    <3>2. tasks'[k].agent \in Users
      BY <2>1, <2>5, Fields
    <3>3. QED
      BY <2>1, <3>1, <3>2, CoveredKept
  <2>6. CASE tasks[k].state = "Claimed" /\ tasks'[k] = Delivered(tasks[k])
    <3>1. /\ SameDeal(tasks'[k], tasks[k]) /\ SameVerdict(tasks'[k], tasks[k])
          /\ tasks'[k].state # "Absent" /\ tasks[k].state # "Absent"
      BY <2>1, <2>6, Fields
    <3>2. tasks'[k].agent \in Users
      BY <2>1, <2>6, Fields DEF Covered
    <3>3. QED
      BY <2>1, <3>1, <3>2, CoveredKept
  <2>7. ASSUME NEW score \in Scores, score <= MaxScore, tasks[k].state = "Submitted",
               tasks'[k] = Verdict(tasks[k], score)
        PROVE  Covered(tasks'[k])
    <3>1. tasks'[k].payment + tasks'[k].fee <= tasks[k].terms.escrow
      BY <2>1, <2>7, VerdictType
    <3>2. /\ tasks'[k].state = "Verified" /\ tasks'[k].agent = tasks[k].agent
          /\ SameDeal(tasks'[k], tasks[k])
      BY <2>1, <2>7, Fields
    <3>3. QED
      BY <2>1, <2>7, <3>1, <3>2 DEF Covered, SameDeal
  <2>8. CASE tasks[k].state = "Verified" /\ tasks'[k] = Contested(tasks[k])
    <3>1. /\ SameDeal(tasks'[k], tasks[k]) /\ SameVerdict(tasks'[k], tasks[k])
          /\ tasks'[k].state # "Absent" /\ tasks[k].state # "Absent"
      BY <2>1, <2>8, Fields
    <3>2. tasks'[k].agent \in Users
      BY <2>1, <2>8, Fields DEF Covered
    <3>3. QED
      BY <2>1, <3>1, <3>2, CoveredKept
  <2>9. CASE tasks'[k] = NoTask
    BY <2>1, <2>9, Fields DEF Covered, SameDeal, SameVerdict
  <2>10. QED
    BY <2>2, <2>3, <2>4, <2>5, <2>6, <2>7, <2>8, <2>9 DEF Moved
<1>2. QED
  BY <1>1 DEF SettlementCovered, Covered

-----------------------------------------------------------------------------
(* Every dispute is backed by one whole bond.                              *)

(* Steps that are not about the dispute of a task leave its challenges     *)
(* alone, and leave it disputed or undisputed as it was.                   *)
LEMMA DisputeElsewhere ==
  ASSUME TypeOK, Fresh, [Next]_vars, NEW k \in TaskIds,
         ~\E u \in Users : ChallengeTask(k, u),
         ~\E u \in Users, won \in BOOLEAN : ResolveChallenge(k, u, won)
  PROVE  /\ challenges'[k] = challenges[k]
         /\ \/ tasks'[k] = tasks[k]
            \/ tasks[k].state # "Disputed" /\ tasks'[k].state # "Disputed"
<1>1. /\ challenges \in [TaskIds -> [Users -> Challenges]]
      /\ tasks \in [TaskIds -> Tasks] /\ tasks[k] \in Tasks
  BY DEF TypeOK
<1>2. ASSUME \E j \in TaskIds, u \in Users : ChallengeTask(j, u)
      PROVE  challenges'[k] = challenges[k]
  <2>1. PICK j \in TaskIds, u \in Users : ChallengeTask(j, u) /\ j # k
    BY <1>2
  <2>2. QED
    BY <1>1, <2>1 DEF ChallengeTask
<1>3. ASSUME \E j \in TaskIds, u \in Users, won \in BOOLEAN : ResolveChallenge(j, u, won)
      PROVE  challenges'[k] = challenges[k]
  <2>1. PICK j \in TaskIds, u \in Users, won \in BOOLEAN : ResolveChallenge(j, u, won) /\ j # k
    BY <1>3
  <2>2. QED
    BY <1>1, <2>1 DEF ResolveChallenge
<1>4. ASSUME ~\E j \in TaskIds, u \in Users : ChallengeTask(j, u),
             ~\E j \in TaskIds, u \in Users, won \in BOOLEAN : ResolveChallenge(j, u, won)
      PROVE  UNCHANGED challenges
  BY <1>4 DEF Next, vars, Tick, UpdateParams, SetSwitchboardFeed, TransferAuthority,
    UpdateTreasury, UpdateOracleAuthority, CreateTask, ClaimTask, SubmitWork, CloseAgentState,
    VerifyTask, FinalizeTask, ExpireTask, EmergencyReturn
<1>5. \/ tasks'[k] = tasks[k]
      \/ tasks[k].state # "Disputed" /\ tasks'[k].state # "Disputed"
  <2>1. Moved(k)
    BY TaskStep
  <2>2. k = global.counter => tasks[k].state = "Absent"
    BY CounterStep DEF Fresh
  <2>3. ASSUME NEW u \in Users, NEW t \in Terms, tasks'[k] = Opened(u, t)
        PROVE  tasks'[k].state # "Disputed"
    BY <2>3, OpenedFields
  <2>4. /\ Delivered(tasks[k]).state # "Disputed" /\ NoTask.state # "Disputed"
        /\ \A u : Taken(tasks[k], u).state # "Disputed"
        /\ \A score : Verdict(tasks[k], score).state # "Disputed"
    BY <1>1, Fields
  <2>5. QED
    BY <2>1, <2>2, <2>3, <2>4 DEF Moved
<1>6. challenges'[k] = challenges[k]
  BY <1>2, <1>3, <1>4
<1>7. QED
  BY <1>5, <1>6

(* No step parts a dispute from its one bond.                              *)
LEMMA BackedStep ==
  ASSUME TypeOK, Fresh, Priced, DisputeBacked, [Next]_vars
  PROVE  DisputeBacked'
<1> DEFINE Sound(chs, task) ==
             /\ task.state = "Disputed" => \E u \in Users : {v \in Users : chs[v].exists} = {u}
             /\ task.state # "Disputed" => {v \in Users : chs[v].exists} = {}
             /\ \A u \in Users : Backed(chs[u], task)
<1>1. \A k \in TaskIds : Sound(challenges[k], tasks[k])
  BY DEF DisputeBacked, Challengers
<1>2. /\ challenges \in [TaskIds -> [Users -> Challenges]]
      /\ tasks \in [TaskIds -> Tasks]
  BY DEF TypeOK
<1>3. ASSUME NEW k \in TaskIds PROVE Sound(challenges'[k], tasks'[k])
  <2>1. CASE /\ challenges'[k] = challenges[k]
             /\ \/ tasks'[k] = tasks[k]
                \/ tasks[k].state # "Disputed" /\ tasks'[k].state # "Disputed"
    <3>1. CASE tasks'[k] = tasks[k]
      BY <1>1, <2>1, <3>1
    <3>2. CASE tasks[k].state # "Disputed" /\ tasks'[k].state # "Disputed"
      <4>1. \A u \in Users : ~challenges[k][u].exists
        BY <1>1, <3>2
      <4>2. QED
        BY <1>1, <2>1, <3>2, <4>1 DEF Backed
    <3>3. QED
      BY <2>1, <3>1, <3>2
  <2>2. ASSUME NEW u \in Users, ChallengeTask(k, u) PROVE Sound(challenges'[k], tasks'[k])
    <3> DEFINE bond == Bond(tasks[k].terms.escrow, global.params.multiplier)
              posted == challenges'[k]
    <3>1. /\ tasks[k].state = "Verified" /\ tasks'[k] = Contested(tasks[k])
          /\ posted = [challenges[k] EXCEPT ![u] = Posted(bond)]
      BY <1>2, <2>2 DEF ChallengeTask, MayChallenge
    <3>2. /\ tasks[k] \in Tasks /\ tasks[k].terms.escrow \in Nat
          /\ tasks[k].terms.escrow > 0
      BY <1>2, <3>1, TermsNat DEF Priced
    <3>3. bond \in Nat /\ bond >= 2 * tasks[k].terms.escrow
      BY <3>2, BondType
    <3>4. tasks'[k].state = "Disputed" /\ tasks'[k].terms = tasks[k].terms
      BY <3>1, <3>2, Fields DEF SameDeal
    <3> HIDE DEF bond
    <3>5. /\ Posted(bond).exists /\ Posted(bond).lamports = bond /\ Posted(bond).bond = bond
      BY DEF Posted
    <3>6. /\ challenges[k] \in [Users -> Challenges]
          /\ \A v \in Users : ~challenges[k][v].exists /\ Backed(challenges[k][v], tasks[k])
      BY <1>1, <1>2, <3>1
    <3>7. posted[u] = Posted(bond) /\ \A v \in Users \ {u} : posted[v] = challenges[k][v]
      BY <3>1, <3>6
    <3> HIDE DEF posted
    <3>8. {v \in Users : posted[v].exists} = {u}
      BY <3>5, <3>6, <3>7
    <3>9. Backed(posted[u], tasks'[k])
      BY <3>2, <3>3, <3>4, <3>5, <3>7 DEF Backed
    <3>10. \A v \in Users \ {u} : Backed(posted[v], tasks'[k])
      BY <3>6, <3>7 DEF Backed
    <3>11. QED
      BY <3>4, <3>8, <3>9, <3>10 DEF posted
  <2>3. ASSUME NEW u \in Users, NEW won \in BOOLEAN, ResolveChallenge(k, u, won)
        PROVE  Sound(challenges'[k], tasks'[k])
    <3>1. /\ tasks[k].state = "Disputed" /\ tasks'[k] = NoTask /\ challenges[k][u].exists
          /\ challenges'[k] = [challenges[k] EXCEPT ![u] = NoChallenge]
      BY <1>2, <2>3 DEF ResolveChallenge
    <3>2. /\ challenges[k] \in [Users -> Challenges]
          /\ \A v \in Users \ {u} : ~challenges[k][v].exists
          /\ \A v \in Users : Backed(challenges[k][v], tasks[k])
      BY <1>1, <1>2, <3>1
    <3>3. ~NoChallenge.exists /\ NoChallenge.lamports = 0 /\ NoTask.state # "Disputed"
      BY DEF NoChallenge, NoTask
    <3>4. \A v \in Users : ~challenges'[k][v].exists
      BY <3>1, <3>2, <3>3
    <3>5. \A v \in Users : Backed(challenges'[k][v], tasks'[k])
      BY <3>1, <3>2, <3>3 DEF Backed
    <3>6. QED
      BY <3>1, <3>3, <3>4, <3>5
  <2>4. QED
    BY <2>1, <2>2, <2>3, DisputeElsewhere
<1>4. QED
  BY <1>3 DEF DisputeBacked, Challengers

-----------------------------------------------------------------------------
(* Claims.                                                                 *)

(* What an agent holds can be counted.                                     *)
LEMMA HeldFinite ==
  \A S \in SUBSET TaskIds : IsFiniteSet(S) /\ Cardinality(S) \in Nat
<1>1. IsFiniteSet(TaskIds)
  BY TaskAssumption, FS_Interval DEF TaskIds
<1>2. QED
  BY <1>1, FS_Subset, FS_CardinalityType

(* Only claim_task adds to what an agent holds, and it adds one task.      *)
LEMMA HeldStep ==
  ASSUME TypeOK, [Next]_vars, NEW a \in Users
  PROVE  \/ ClaimedBy(a)' \subseteq ClaimedBy(a)
         \/ \E k \in TaskIds :
              /\ ClaimTask(k, a)
              /\ ClaimedBy(a)' = ClaimedBy(a) \cup {k} /\ k \notin ClaimedBy(a)
<1>1. tasks \in [TaskIds -> Tasks]
  BY DEF TypeOK
<1>2. ASSUME NEW k \in TaskIds, ClaimTask(k, a)
      PROVE  ClaimedBy(a)' = ClaimedBy(a) \cup {k} /\ k \notin ClaimedBy(a)
  <2>1. /\ tasks[k].state = "Open" /\ tasks'[k] = Taken(tasks[k], a)
        /\ \A j \in TaskIds \ {k} : tasks'[j] = tasks[j]
    BY <1>1, <1>2 DEF ClaimTask, MayClaim
  <2>2. tasks'[k].state = "Claimed" /\ tasks'[k].agent = a
    BY <1>1, <2>1, Fields
  <2>3. QED
    BY <2>1, <2>2 DEF ClaimedBy
<1>3. ASSUME ~\E k \in TaskIds : ClaimTask(k, a), NEW k \in TaskIds, k \in ClaimedBy(a)'
      PROVE  k \in ClaimedBy(a)
  <2>1. Moved(k) /\ tasks'[k].state = "Claimed" /\ tasks'[k].agent = a
    BY <1>3, TaskStep DEF ClaimedBy
  <2>2. \A u \in Users, t \in Terms : Opened(u, t).state # "Claimed"
    BY OpenedFields
  <2>3. /\ Delivered(tasks[k]).state # "Claimed" /\ Contested(tasks[k]).state # "Claimed"
        /\ NoTask.state # "Claimed"
        /\ \A u : Taken(tasks[k], u).agent = u
        /\ \A score : Verdict(tasks[k], score).state # "Claimed"
    BY <1>1, Fields
  <2>4. tasks'[k] = tasks[k]
    BY <1>3, <2>1, <2>2, <2>3 DEF Moved
  <2>5. QED
    BY <2>1, <2>4 DEF ClaimedBy
<1>4. ClaimedBy(a)' \subseteq TaskIds
  BY DEF ClaimedBy
<1>5. QED
  BY <1>2, <1>3, <1>4

(* An agent's counter is as it was, or takes a claim of its away.          *)
Same(a) ==
  agents'[a].claimed = agents[a].claimed /\ agents'[a].exists = agents[a].exists

Left(a, k) ==
  /\ k \in ClaimedBy(a) /\ k \notin ClaimedBy(a)'
  /\ agents[a].claimed > 0 /\ agents'[a].claimed = agents[a].claimed - 1
  /\ agents'[a].exists

(* A task that leaves its agent is taken off that agent's counter only.    *)
LEMMA ReleaseStep ==
  ASSUME TypeOK, NEW a \in Users, NEW k \in TaskIds, tasks[k].state = "Claimed",
         Release(tasks[k].agent), tasks'[k].state # "Claimed"
  PROVE  Same(a) \/ Left(a, k)
<1> DEFINE agent == tasks[k].agent
<1>1. /\ agents \in [Users -> AgentStates] /\ agents[a] \in AgentStates
      /\ agents[agent].exists /\ agents[agent].claimed > 0
      /\ agents' = [agents EXCEPT ![agent] = Released(@)]
  BY DEF TypeOK, Release
<1>2. CASE agent = a
  <2>1. k \in ClaimedBy(a) /\ k \notin ClaimedBy(a)'
    BY <1>2 DEF ClaimedBy
  <2>2. agents'[a] = Released(agents[a])
    BY <1>1, <1>2
  <2>3. /\ Released(agents[a]).claimed = agents[a].claimed - 1
        /\ Released(agents[a]).exists = agents[a].exists
    BY <1>1 DEF Released, AgentStates
  <2>4. QED
    BY <1>1, <1>2, <2>1, <2>2, <2>3 DEF Left
<1>3. CASE agent # a
  BY <1>1, <1>3 DEF Same
<1>4. QED
  BY <1>2, <1>3

(* What one step does to an agent's counter.                               *)
LEMMA CountStep ==
  ASSUME TypeOK, [Next]_vars, NEW a \in Users
  PROVE  \/ Same(a)
         \/ \E k \in TaskIds : ClaimTask(k, a) \/ Left(a, k)
         \/ /\ agents[a].claimed = 0 /\ agents'[a].claimed = 0
            /\ UNCHANGED tasks
<1> DEFINE Closed == /\ agents[a].claimed = 0 /\ agents'[a].claimed = 0
                     /\ UNCHANGED tasks
<1>1. /\ agents \in [Users -> AgentStates] /\ agents[a] \in AgentStates
      /\ tasks \in [TaskIds -> Tasks]
  BY DEF TypeOK
<1>2. ASSUME UNCHANGED agents PROVE Same(a)
  BY <1>2 DEF Same
<1>3. ASSUME NEW k \in TaskIds, NEW u \in Users, ClaimTask(k, u)
      PROVE  Same(a) \/ ClaimTask(k, a)
  BY <1>1, <1>3 DEF ClaimTask, Same
<1>4. ASSUME NEW k \in TaskIds, SubmitWork(k) PROVE Same(a) \/ Left(a, k)
  <2>1. /\ tasks[k].state = "Claimed" /\ Release(tasks[k].agent)
        /\ tasks'[k] = Delivered(tasks[k])
    BY <1>1, <1>4 DEF SubmitWork
  <2>2. tasks'[k].state # "Claimed"
    BY <1>1, <2>1, Fields
  <2>3. QED
    BY <2>1, <2>2, ReleaseStep
<1>5. ASSUME NEW k \in TaskIds, ExpireTask(k) PROVE Same(a) \/ Left(a, k)
  <2>1. CASE tasks[k].state = "Claimed"
    <3>1. Release(tasks[k].agent) /\ tasks'[k] = NoTask
      BY <1>1, <1>5, <2>1 DEF ExpireTask
    <3>2. tasks'[k].state # "Claimed"
      BY <3>1 DEF NoTask
    <3>3. QED
      BY <2>1, <3>1, <3>2, ReleaseStep
  <2>2. CASE tasks[k].state # "Claimed"
    BY <1>5, <2>2 DEF ExpireTask, Same
  <2>3. QED
    BY <2>1, <2>2
<1>6. ASSUME NEW u \in Users, CloseAgentState(u) PROVE Same(a) \/ Closed
  <2>1. CASE u = a
    BY <1>1, <1>6, <2>1 DEF CloseAgentState, MayClose, NoAgent
  <2>2. CASE u # a
    BY <1>1, <1>6, <2>2 DEF CloseAgentState, Same
  <2>3. QED
    BY <2>1, <2>2
<1>7. ASSUME NEW k \in TaskIds, NEW stats \in BOOLEAN, FinalizeTask(k, stats) PROVE Same(a)
  <2>1. \A payment : /\ Rewarded(agents[a], payment).claimed = agents[a].claimed
                     /\ Rewarded(agents[a], payment).exists = agents[a].exists
    BY <1>1 DEF Rewarded, AgentStates
  <2>2. PICK agent, payment :
          \/ agents' = agents
          \/ agents' = [agents EXCEPT ![agent] = Rewarded(@, payment)]
    BY <1>7 DEF FinalizeTask
  <2>3. agents'[a] = agents[a] \/ agents'[a] = Rewarded(agents[a], payment)
    BY <1>1, <2>2
  <2>4. QED
    BY <2>1, <2>3 DEF Same
<1>8. ASSUME ~\E k \in TaskIds, u \in Users : ClaimTask(k, u),
             ~\E k \in TaskIds : SubmitWork(k) \/ ExpireTask(k),
             ~\E u \in Users : CloseAgentState(u),
             ~\E k \in TaskIds, stats \in BOOLEAN : FinalizeTask(k, stats)
      PROVE  UNCHANGED agents
  BY <1>8 DEF Next, vars, Tick, UpdateParams, SetSwitchboardFeed, TransferAuthority,
    UpdateTreasury, UpdateOracleAuthority, CreateTask, VerifyTask, ChallengeTask,
    ResolveChallenge, EmergencyReturn
<1> HIDE DEF Closed
<1>9. Same(a) \/ (\E k \in TaskIds : ClaimTask(k, a) \/ Left(a, k)) \/ Closed
  BY <1>2, <1>3, <1>4, <1>5, <1>6, <1>7, <1>8
<1>10. QED
  BY <1>9 DEF Closed

(* A step adds at most one task to what an agent holds.                    *)
LEMMA ClaimGrowth ==
  ASSUME TypeOK, [Next]_vars, NEW a \in Users
  PROVE  Cardinality(ClaimedBy(a)') <= Cardinality(ClaimedBy(a)) + 1
<1> DEFINE held == ClaimedBy(a)
          holds == ClaimedBy(a)'
<1>1. held \subseteq TaskIds /\ holds \subseteq TaskIds
  BY DEF ClaimedBy
<1>2. /\ IsFiniteSet(held) /\ Cardinality(held) \in Nat
      /\ IsFiniteSet(holds) /\ Cardinality(holds) \in Nat
  BY <1>1, HeldFinite
<1>3. holds \subseteq held \/ \E k \in TaskIds : holds = held \cup {k}
  BY HeldStep
<1> HIDE DEF held, holds
<1>4. CASE holds \subseteq held
  <2>1. Cardinality(holds) <= Cardinality(held)
    BY <1>2, <1>4, FS_Subset
  <2>2. QED
    BY <1>2, <2>1 DEF held, holds
<1>5. ASSUME NEW k \in TaskIds, holds = held \cup {k}
      PROVE  Cardinality(holds) <= Cardinality(held) + 1
  <2>1. Cardinality(holds) = IF k \in held THEN Cardinality(held) ELSE Cardinality(held) + 1
    BY <1>2, <1>5, FS_AddElement
  <2>2. QED
    BY <1>2, <2>1
<1>6. QED
  BY <1>3, <1>4, <1>5 DEF held, holds

(* The counter covers the claims through every step.                       *)
LEMMA ClaimsStep ==
  ASSUME TypeOK, ClaimsCounted, [Next]_vars
  PROVE  ClaimsCounted'
<1>1. ASSUME NEW a \in Users
      PROVE  /\ agents'[a].claimed >= Cardinality(ClaimedBy(a)')
             /\ ~agents'[a].exists => agents'[a].claimed = 0
  <2> DEFINE held == ClaimedBy(a)
            holds == ClaimedBy(a)'
  <2>1. held \subseteq TaskIds /\ holds \subseteq TaskIds
    BY DEF ClaimedBy
  <2>2. /\ IsFiniteSet(held) /\ Cardinality(held) \in Nat
        /\ IsFiniteSet(holds) /\ Cardinality(holds) \in Nat
    BY <2>1, HeldFinite
  <2>3. /\ agents[a].claimed \in Nat /\ agents[a].claimed >= Cardinality(held)
        /\ ~agents[a].exists => agents[a].claimed = 0
    BY DEF TypeOK, AgentStates, ClaimsCounted
  <2>4. holds \subseteq held => Cardinality(holds) <= Cardinality(held)
    BY <2>2, FS_Subset
  <2>5. ~(\E k \in TaskIds : ClaimTask(k, a)) => holds \subseteq held
    BY HeldStep
  <2>6. UNCHANGED tasks => holds = held
    BY DEF ClaimedBy
  <2>7. \A k : Left(a, k) => k \in held /\ k \notin holds
    BY DEF Left
  <2> HIDE DEF held, holds
  <2>8. ASSUME NEW k \in TaskIds, ClaimTask(k, a)
        PROVE  /\ agents'[a].claimed >= Cardinality(holds)
               /\ agents'[a].exists
    <3>1. agents'[a] = Engaged(agents[a]) /\ agents[a] \in AgentStates
      BY <2>8 DEF ClaimTask, TypeOK
    <3>2. agents'[a].exists /\ agents'[a].claimed = agents[a].claimed + 1
      BY <3>1 DEF Engaged, AgentStates
    <3>3. Cardinality(holds) <= Cardinality(held) + 1
      BY <2>2, <2>4, ClaimGrowth DEF held, holds
    <3>4. QED
      BY <2>2, <2>3, <3>2, <3>3
  <2>9. ASSUME NEW k \in TaskIds, Left(a, k), holds \subseteq held
        PROVE  agents'[a].claimed >= Cardinality(holds) /\ agents'[a].exists
    <3>1. holds \subseteq held \ {k} /\ IsFiniteSet(held \ {k})
      BY <2>2, <2>7, <2>9, FS_Subset
    <3>2. Cardinality(held \ {k}) = Cardinality(held) - 1
      BY <2>2, <2>7, <2>9, FS_RemoveElement
    <3>3. Cardinality(holds) <= Cardinality(held \ {k})
      BY <3>1, FS_Subset
    <3>4. agents'[a].claimed = agents[a].claimed - 1 /\ agents'[a].exists
      BY <2>9 DEF Left
    <3>5. QED
      BY <2>2, <2>3, <3>2, <3>3, <3>4
  <2>10. CASE \E k \in TaskIds : ClaimTask(k, a)
    BY <2>8, <2>10 DEF holds
  <2>11. CASE ~(\E k \in TaskIds : ClaimTask(k, a)) /\ Same(a)
    BY <2>2, <2>3, <2>4, <2>5, <2>11 DEF Same, holds
  <2>12. CASE ~(\E k \in TaskIds : ClaimTask(k, a)) /\ \E k \in TaskIds : Left(a, k)
    BY <2>5, <2>9, <2>12 DEF holds
  <2>13. CASE agents[a].claimed = 0 /\ agents'[a].claimed = 0 /\ UNCHANGED tasks
    BY <2>2, <2>3, <2>6, <2>13 DEF holds
  <2>14. QED
    BY <2>10, <2>11, <2>12, <2>13, CountStep
<1>2. QED
  BY <1>1 DEF ClaimsCounted

-----------------------------------------------------------------------------
(* The invariant that is inductive.                                        *)
TaskInv ==
  TypeOK /\ Fresh /\ Priced /\ SettlementCovered /\ DisputeBacked /\ ClaimsCounted

(* The promises about money and claims hold when nothing exists.           *)
LEMMA PromisesInit == Init => SettlementCovered /\ DisputeBacked /\ ClaimsCounted
<1> SUFFICES ASSUME Init PROVE SettlementCovered /\ DisputeBacked /\ ClaimsCounted
  OBVIOUS
<1>1. SettlementCovered
  BY DEF Init, SettlementCovered, Covered, NoTask
<1>2. \A k \in TaskIds : \A u \in Users : challenges[k][u] = NoChallenge
  BY DEF Init
<1>3. \A k \in TaskIds : tasks[k].state = "Absent"
  BY DEF Init, NoTask
<1>4. ~NoChallenge.exists /\ NoChallenge.lamports = 0
  BY DEF NoChallenge
<1>5. DisputeBacked
  BY <1>2, <1>3, <1>4 DEF DisputeBacked, Challengers, Backed
<1>6. ClaimsCounted
  <2>1. ASSUME NEW a \in Users PROVE ClaimedBy(a) = {} /\ agents[a] = NoAgent
    BY <1>3 DEF Init, ClaimedBy
  <2>2. Cardinality({}) = 0 /\ NoAgent.claimed = 0
    BY FS_EmptySet DEF NoAgent
  <2>3. QED
    BY <2>1, <2>2 DEF ClaimsCounted
<1>7. QED
  BY <1>1, <1>5, <1>6

(* All of it holds in every state of every behaviour.                      *)
LEMMA Invariance == Spec => []TaskInv
<1>1. Init => TaskInv
  BY TypeInit, LedgerInit, PromisesInit DEF TaskInv
<1>2. TaskInv /\ [Next]_vars => TaskInv'
  BY TypeStep, LedgerStep, CoveredStep, BackedStep, ClaimsStep DEF TaskInv
<1>3. QED
  BY <1>1, <1>2, PTL DEF Spec

(* finalize_task and resolve_challenge can always afford the verdict: a    *)
(* task holds its whole escrow until it is closed and a verdict divides at *)
(* most that, whatever update_params did in between.                       *)
THEOREM EscrowsCover == Spec => []SettlementCovered
<1>1. TaskInv => SettlementCovered
  BY DEF TaskInv
<1>2. QED
  BY <1>1, Invariance, PTL

(* A disputed task has exactly one challenge, which holds its whole bond   *)
(* of at least twice the escrow; no other task has one.                    *)
THEOREM DisputesBacked == Spec => []DisputeBacked
<1>1. TaskInv => DisputeBacked
  BY DEF TaskInv
<1>2. QED
  BY <1>1, Invariance, PTL

(* A step that does not close a judged task keeps its verdict.             *)
LEMMA StandsStep ==
  ASSUME TaskInv, [Next]_vars, NEW k \in TaskIds,
         tasks[k].state \in {"Verified", "Disputed"}, tasks'[k].state # "Absent"
  PROVE  SameVerdict(tasks'[k], tasks[k])
<1>1. Moved(k) /\ tasks[k] \in Tasks
  BY TaskStep DEF TaskInv, TypeOK
<1>2. k # global.counter
  BY CounterStep DEF TaskInv, Fresh
<1>3. CASE tasks'[k] = tasks[k]
  BY <1>3 DEF SameVerdict
<1>4. CASE tasks'[k] = Contested(tasks[k])
  BY <1>1, <1>4, Fields
<1>5. CASE tasks'[k] = NoTask
  BY <1>5 DEF NoTask
<1>6. QED
  BY <1>1, <1>2, <1>3, <1>4, <1>5 DEF Moved

(* A verdict, once given, keeps payment, fee and the end of its window     *)
(* until finalize_task or resolve_challenge closes the task.               *)
THEOREM VerdictsStand == Spec => VerdictStands
<1> DEFINE Stands ==
      \A k \in TaskIds :
        tasks[k].state \in {"Verified", "Disputed"} /\ tasks'[k].state # "Absent" =>
          /\ tasks'[k].payment = tasks[k].payment
          /\ tasks'[k].fee = tasks[k].fee
          /\ tasks'[k].challengeDeadline = tasks[k].challengeDeadline
<1>1. TaskInv /\ [Next]_vars => [Stands]_vars
  BY StandsStep DEF SameVerdict
<1>2. QED
  BY <1>1, Invariance, PTL DEF Spec, VerdictStands

(* An agent's counter never falls below the tasks it holds, so submit_work *)
(* and expire_task always find a claim to take off it.                     *)
THEOREM ClaimsAreCounted == Spec => []ClaimsCounted
<1>1. TaskInv => ClaimsCounted
  BY DEF TaskInv
<1>2. QED
  BY <1>1, Invariance, PTL

(* A step by which an agent holds more tasks was a claim within the limit. *)
LEMMA LimitStep ==
  ASSUME TaskInv, [Next]_vars, NEW a \in Users,
         Cardinality(ClaimedBy(a)') > Cardinality(ClaimedBy(a))
  PROVE  Cardinality(ClaimedBy(a)') <= global.params.maxClaims
<1> DEFINE held == ClaimedBy(a)
          holds == ClaimedBy(a)'
<1>1. TypeOK /\ ClaimsCounted
  BY DEF TaskInv
<1>2. /\ IsFiniteSet(held) /\ Cardinality(held) \in Nat
      /\ Cardinality(holds) \in Nat
  BY HeldFinite DEF ClaimedBy
<1>3. ~(holds \subseteq held)
  <2>1. SUFFICES ASSUME holds \subseteq held PROVE FALSE
    OBVIOUS
  <2> HIDE DEF held, holds
  <2>2. Cardinality(holds) <= Cardinality(held)
    BY <1>2, <2>1, FS_Subset
  <2>3. QED
    BY <1>2, <2>2 DEF held, holds
<1>4. \E k \in TaskIds : ClaimTask(k, a)
  BY <1>1, <1>3, HeldStep
<1>5. agents[a].claimed < global.params.maxClaims
  BY <1>4 DEF ClaimTask, MayClaim
<1>6. agents[a].claimed \in Nat /\ agents[a].claimed >= Cardinality(held)
  BY <1>1 DEF TypeOK, AgentStates, ClaimsCounted
<1>7. Cardinality(holds) <= Cardinality(held) + 1
  BY <1>1, ClaimGrowth
<1>8. global.params.maxClaims \in Nat
  BY <1>1, ParamsInForce DEF TypeOK, ParamRecords
<1> HIDE DEF held, holds
<1>9. Cardinality(holds) <= global.params.maxClaims
  BY <1>2, <1>5, <1>6, <1>7, <1>8
<1>10. QED
  BY <1>9 DEF holds

(* An agent that takes a task holds no more tasks than the limit in force, *)
(* though claim_task looks at nothing but the counter.                     *)
THEOREM ClaimsLimited == Spec => ClaimLimit
<1> DEFINE Limited ==
      \A a \in Users :
        Cardinality(ClaimedBy(a)') > Cardinality(ClaimedBy(a)) =>
          Cardinality(ClaimedBy(a)') <= global.params.maxClaims
<1>1. TaskInv /\ [Next]_vars => [Limited]_vars
  BY LimitStep
<1>2. QED
  BY <1>1, Invariance, PTL DEF Spec, ClaimLimit
=============================================================================
