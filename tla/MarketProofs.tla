----------------------------- MODULE MarketProofs -----------------------------
(***************************************************************************)
(* The task marketplace as a whole, for every number of users and tasks    *)
(* and all terms, parameters and scores: it implements the commission      *)
(* contract and loses no money, agent sessions add ways to sign and no     *)
(* ways to act, and permissions end with their grants.                     *)
(***************************************************************************)
EXTENDS AgentSessions, TaskProofs

-----------------------------------------------------------------------------
(* How the accounts look as commissions after an instruction.              *)

LEMMA JobsAfter ==
  ASSUME TypeOK, NEW k \in TaskIds, NEW task,
         tasks' = [tasks EXCEPT ![k] = task], global' = global
  PROVE  Jobs' = [Jobs EXCEPT ![k] = JobOf(task, k < global.counter)]
<1>1. tasks'[k] = task /\ \A j \in TaskIds : j # k => tasks'[j] = tasks[j]
  BY DEF TypeOK
<1>2. \A j \in TaskIds : j # k =>
        JobOf(tasks'[j], j < global'.counter) = JobOf(tasks[j], j < global.counter)
  BY <1>1
<1>3. JobOf(tasks'[k], k < global'.counter) = JobOf(task, k < global.counter)
  BY <1>1
<1>4. QED
  BY <1>2, <1>3 DEF Jobs

LEMMA BondsAfter ==
  ASSUME TypeOK, NEW k \in TaskIds, NEW u \in Users, NEW challenge,
         challenges' = [challenges EXCEPT ![k][u] = challenge]
  PROVE  Bonds' = [Bonds EXCEPT ![k][u] = challenge.lamports]
<1>1. challenges \in [TaskIds -> [Users -> Challenges]]
  BY DEF TypeOK
<1>2. \A j \in TaskIds, v \in Users :
        challenges'[j][v].lamports =
          IF j = k /\ v = u THEN challenge.lamports ELSE challenges[j][v].lamports
  <2>1. ASSUME NEW j \in TaskIds, NEW v \in Users
        PROVE  challenges'[j][v] = IF j = k /\ v = u THEN challenge ELSE challenges[j][v]
    BY <1>1
  <2>2. QED
    BY <2>1
<1>3. QED
  BY <1>1, <1>2 DEF Bonds

(* What the contract sees of a task.                                       *)
LEMMA JobFields ==
  ASSUME TypeOK, NEW k \in TaskIds
  PROVE  /\ tasks[k] \in Tasks
         /\ Jobs[k] = JobOf(tasks[k], k < global.counter)
         /\ Jobs[k].client = tasks[k].client /\ Jobs[k].worker = tasks[k].agent
         /\ Jobs[k].price = tasks[k].lamports
         /\ Jobs[k].pay = tasks[k].payment /\ Jobs[k].fee = tasks[k].fee
         /\ Jobs[k].stage = StageOf(tasks[k], k < global.counter)
BY DEF TypeOK, Jobs, JobOf

LEMMA Stages ==
  ASSUME NEW task, NEW used
  PROVE  /\ task.state = "Open" => StageOf(task, used) = "Offered"
         /\ task.state \in {"Claimed", "Submitted"} => StageOf(task, used) = "Taken"
         /\ task.state = "Verified" => StageOf(task, used) = "Judged"
         /\ task.state = "Disputed" => StageOf(task, used) = "Disputed"
         /\ task.state = "Absent" => StageOf(task, used) = IF used THEN "Over" ELSE "Unborn"
BY DEF StageOf

(* A closed account is a job that is over.                                 *)
LEMMA ClosedIsOver ==
  ASSUME TypeOK, Fresh, NEW k \in TaskIds, tasks[k].state # "Absent",
         tasks' = [tasks EXCEPT ![k] = NoTask], global' = global
  PROVE  C!Over(k)
<1>1. k < global.counter
  BY TaskAssumption DEF Fresh, TaskIds, TypeOK, Globals
<1>2. JobOf(NoTask, TRUE) = C!Blank("Over")
  <2>1. StageOf(NoTask, TRUE) = "Over"
    BY DEF StageOf, NoTask
  <2>2. /\ NoTask.client = NoUser /\ NoTask.agent = NoUser /\ NoTask.lamports = 0
        /\ NoTask.payment = 0 /\ NoTask.fee = 0
    BY DEF NoTask
  <2>3. QED
    BY <2>1, <2>2 DEF JobOf, C!Blank, C!Job
<1>3. Jobs' = [Jobs EXCEPT ![k] = JobOf(NoTask, TRUE)]
  <2>1. (k < global.counter) = TRUE
    BY <1>1
  <2>2. Jobs' = [Jobs EXCEPT ![k] = JobOf(NoTask, k < global.counter)]
    BY JobsAfter
  <2>3. QED
    BY <2>1, <2>2
<1>4. QED
  BY <1>2, <1>3 DEF C!Over

-----------------------------------------------------------------------------
(* The fee.                                                                *)

(* update_params caps the fee at a quarter of what a verdict is worth.     *)
LEMMA FeeQuarter ==
  ASSUME NEW gross \in Nat, NEW bps \in Nat, bps <= 2500
  PROVE  4 * FeeOf(gross, bps) <= gross
<1> DEFINE x == gross * bps
<1>1. x \in Nat /\ x <= gross * 2500
  OBVIOUS
<1> HIDE DEF x
<1>2. x \div 10000 \in Nat /\ 10000 * (x \div 10000) <= x
  BY <1>1
<1>3. 4 * (x \div 10000) <= gross
  BY <1>1, <1>2
<1>4. QED
  BY <1>3 DEF FeeOf, x

(* So of every verdict at least three quarters go to the agent.            *)
LEMMA AgentShare ==
  ASSUME NEW p \in ParamRecords, ValidParams(p),
         NEW score \in Nat, score <= MaxScore, NEW escrow \in Nat
  PROVE  LET gross == Gross(score, p.threshold, escrow)
             fee == FeeOf(gross, p.feeBps)
         IN gross - fee >= 3 * fee
<1>1. /\ p.feeBps \in Nat /\ p.feeBps <= 2500
      /\ p.threshold \in Nat /\ p.threshold <= MaxScore
  BY DEF ParamRecords, ValidParams
<1>2. PICK gross \in 0 .. escrow : gross = Gross(score, p.threshold, escrow)
  BY <1>1, GrossBound
<1>3. PICK fee \in 0 .. gross : fee = FeeOf(gross, p.feeBps)
  BY <1>1, <1>2, FeeBound
<1>4. 4 * FeeOf(gross, p.feeBps) <= gross
  BY <1>1, <1>2, FeeQuarter
<1>5. gross - fee >= 3 * fee
  BY <1>2, <1>3, <1>4
<1>6. QED
  BY <1>2, <1>3, <1>5

-----------------------------------------------------------------------------
(* Each instruction is a step of the contract, or none.                    *)

LEMMA CreateOffers ==
  ASSUME TaskInv, NEW u \in Users, NEW t \in Terms, CreateTask(u, t)
  PROVE  /\ global.counter \in TaskIds
         /\ t.escrow \in 1 .. wallet[u] /\ C!Offer(global.counter, u, t.escrow)
<1> DEFINE k == global.counter
          new == Opened(u, t)
<1>1. /\ TypeOK /\ global \in Globals /\ k \in Nat /\ k \in TaskIds /\ TaskIds \subseteq Nat
      /\ tasks \in [TaskIds -> Tasks] /\ wallet \in [Accounts -> Nat] /\ u \in Accounts
  BY TaskAssumption DEF TaskInv, TypeOK, CreateTask, TaskIds, Globals, Accounts
<1>2. /\ t.escrow \in Nat /\ t.escrow > 0 /\ wallet[u] >= t.escrow
      /\ wallet' = [wallet EXCEPT ![u] = @ - t.escrow]
      /\ tasks' = [tasks EXCEPT ![k] = new] /\ challenges' = challenges
      /\ global' = [global EXCEPT !.counter = k + 1]
  BY OpenedType DEF CreateTask, CanPay
<1>3. global'.counter = k + 1
  BY <1>1, <1>2 DEF Globals
<1>4. Jobs[k].stage = "Unborn"
  <2>1. tasks[k].state = "Absent" /\ ~(k < global.counter)
    BY <1>1 DEF TaskInv, Fresh
  <2>2. QED
    BY <1>1, <2>1, JobFields, Stages
<1>5. JobOf(new, TRUE) = C!Job("Offered", u, NoUser, t.escrow, 0, 0)
  <2>1. /\ new.state = "Open" /\ new.client = u /\ new.lamports = t.escrow
        /\ new.payment = 0 /\ new.fee = 0
    BY OpenedFields
  <2>2. new.agent = NoUser
    BY DEF Opened, NoTask
  <2> HIDE DEF new
  <2>3. StageOf(new, TRUE) = "Offered"
    BY <2>1 DEF StageOf
  <2>4. QED
    BY <2>1, <2>2, <2>3 DEF JobOf, C!Job
<1>6. Jobs' = [Jobs EXCEPT ![k] = JobOf(new, TRUE)]
  <2> HIDE DEF new, k
  <2>1. ASSUME NEW j \in TaskIds, j # k
        PROVE  JobOf(tasks'[j], j < global'.counter) = JobOf(tasks[j], j < global.counter)
    <3>1. (j < global'.counter) = (j < global.counter)
      BY <1>1, <1>3, <2>1 DEF k
    <3>2. tasks'[j] = tasks[j]
      BY <1>1, <1>2, <2>1
    <3>3. QED
      BY <3>1, <3>2
  <2>2. JobOf(tasks'[k], k < global'.counter) = JobOf(new, TRUE)
    <3>1. tasks'[k] = new /\ (k < global'.counter) = TRUE
      BY <1>1, <1>2, <1>3
    <3>2. QED
      BY <3>1
  <2>3. QED
    BY <1>1, <2>1, <2>2 DEF Jobs
<1>7. wallet' = C!Paid(wallet, u, -t.escrow)
  BY <1>1, <1>2 DEF C!Paid
<1>8. Bonds' = Bonds
  BY <1>2 DEF Bonds
<1>9. t.escrow \in 1 .. wallet[u]
  BY <1>1, <1>2
<1>10. QED
  BY <1>1, <1>2, <1>4, <1>5, <1>6, <1>7, <1>8, <1>9 DEF C!Offer

LEMMA ClaimTakesUp ==
  ASSUME TaskInv, NEW k \in TaskIds, NEW u \in Users, ClaimTask(k, u)
  PROVE  C!TakeUp(k, u)
<1> DEFINE used == k < global.counter
          new == Taken(tasks[k], u)
<1>1. /\ TypeOK /\ tasks[k] \in Tasks /\ tasks[k].state = "Open"
      /\ tasks' = [tasks EXCEPT ![k] = new] /\ global' = global
      /\ UNCHANGED <<wallet, challenges>>
  BY DEF TaskInv, TypeOK, ClaimTask, MayClaim
<1>2. Jobs' = [Jobs EXCEPT ![k] = JobOf(new, used)]
  BY <1>1, JobsAfter
<1>3. /\ new.state = "Claimed" /\ new.agent = u /\ new.client = tasks[k].client
      /\ new.lamports = tasks[k].lamports
      /\ new.payment = tasks[k].payment /\ new.fee = tasks[k].fee
  BY <1>1, Fields DEF SameDeal, SameVerdict
<1> HIDE DEF used, new
<1>4. Jobs[k] = JobOf(tasks[k], used) /\ Jobs[k].stage = "Offered"
  BY <1>1, JobFields, Stages DEF used
<1>5. JobOf(new, used) =
        C!Job("Taken", Jobs[k].client, u, Jobs[k].price, Jobs[k].pay, Jobs[k].fee)
  <2>1. StageOf(new, used) = "Taken"
    BY <1>3, Stages
  <2>2. QED
    BY <1>1, <1>3, <2>1, JobFields DEF JobOf, C!Job
<1>6. Bonds' = Bonds
  BY <1>1 DEF Bonds
<1>7. QED
  BY <1>1, <1>2, <1>4, <1>5, <1>6 DEF C!TakeUp

(* Handing in the work is between agent and oracle.                        *)
LEMMA SubmitKeeps ==
  ASSUME TaskInv, NEW k \in TaskIds, SubmitWork(k)
  PROVE  UNCHANGED C!state
<1> DEFINE used == k < global.counter
          new == Delivered(tasks[k])
<1>1. /\ TypeOK /\ tasks[k] \in Tasks /\ tasks[k].state = "Claimed"
      /\ tasks' = [tasks EXCEPT ![k] = new] /\ global' = global
      /\ UNCHANGED <<wallet, challenges>>
  BY DEF TaskInv, TypeOK, SubmitWork
<1>2. Jobs' = [Jobs EXCEPT ![k] = JobOf(new, used)]
  BY <1>1, JobsAfter
<1>3. /\ new.state = "Submitted" /\ new.agent = tasks[k].agent
      /\ new.client = tasks[k].client /\ new.lamports = tasks[k].lamports
      /\ new.payment = tasks[k].payment /\ new.fee = tasks[k].fee
  BY <1>1, Fields DEF SameDeal, SameVerdict
<1> HIDE DEF used, new
<1>4. JobOf(new, used) = JobOf(tasks[k], used)
  <2>1. StageOf(new, used) = "Taken" /\ StageOf(tasks[k], used) = "Taken"
    BY <1>1, <1>3, Stages
  <2>2. QED
    BY <1>3, <2>1 DEF JobOf
<1>5. Jobs' = Jobs
  BY <1>1, <1>2, <1>4, JobFields DEF used, Jobs
<1>6. QED
  BY <1>1, <1>5 DEF Bonds, C!state

LEMMA VerifyJudges ==
  ASSUME TaskInv, NEW k \in TaskIds, NEW score \in Scores, VerifyTask(k, score)
  PROVE  \E pay, fee \in 0 .. Jobs[k].price : C!Judge(k, pay, fee)
<1> DEFINE used == k < global.counter
          new == Verdict(tasks[k], score)
<1>1. /\ TypeOK /\ tasks[k] \in Tasks /\ tasks[k].state = "Submitted" /\ score <= MaxScore
      /\ tasks' = [tasks EXCEPT ![k] = new] /\ global' = global
      /\ UNCHANGED <<wallet, challenges>>
  BY DEF TaskInv, TypeOK, VerifyTask, MayVerify
<1>2. Jobs' = [Jobs EXCEPT ![k] = JobOf(new, used)]
  BY <1>1, JobsAfter
<1>3. /\ new.state = "Verified" /\ new.agent = tasks[k].agent
      /\ new.client = tasks[k].client /\ new.lamports = tasks[k].lamports
  BY <1>1, Fields DEF SameDeal
<1>4. new \in Tasks /\ new.payment + new.fee <= tasks[k].terms.escrow
  BY <1>1, VerdictType
<1>5. new.payment >= 3 * new.fee
  <2> DEFINE p == global.params
            gross == Gross(score, p.threshold, tasks[k].terms.escrow)
            fee == FeeOf(gross, p.feeBps)
  <2>1. p \in ParamRecords /\ ValidParams(p) /\ score \in Nat /\ tasks[k].terms.escrow \in Nat
    BY <1>1, ParamsInForce, TermsNat, TaskAssumption DEF TypeOK
  <2>2. gross - fee >= 3 * fee
    BY <1>1, <2>1, AgentShare
  <2>3. new.payment = gross - fee /\ new.fee = fee
    BY <1>1 DEF Verdict, Tasks
  <2> HIDE DEF gross, fee
  <2>4. QED
    BY <2>2, <2>3
<1> HIDE DEF used, new
<1>6. Jobs[k] = JobOf(tasks[k], used) /\ Jobs[k].stage = "Taken" /\ Jobs[k].price = tasks[k].lamports
  BY <1>1, JobFields, Stages DEF used
<1>7. JobOf(new, used) =
        C!Job("Judged", Jobs[k].client, Jobs[k].worker, Jobs[k].price, new.payment, new.fee)
  <2>1. StageOf(new, used) = "Judged"
    BY <1>3, Stages
  <2>2. QED
    BY <1>1, <1>3, <2>1, JobFields DEF JobOf, C!Job
<1>8. tasks[k].lamports = tasks[k].terms.escrow
  BY <1>1 DEF TaskInv, SettlementCovered, Covered
<1>9. /\ new.payment \in 0 .. Jobs[k].price /\ new.fee \in 0 .. Jobs[k].price
      /\ new.payment + new.fee <= Jobs[k].price
  <2>1. new.payment \in Nat /\ new.fee \in Nat /\ tasks[k].lamports \in Nat
    BY <1>1, <1>4 DEF Tasks
  <2>2. QED
    BY <1>4, <1>6, <1>8, <2>1
<1>10. Bonds' = Bonds
  BY <1>1 DEF Bonds
<1>11. C!Judge(k, new.payment, new.fee)
  BY <1>1, <1>2, <1>5, <1>6, <1>7, <1>9, <1>10 DEF C!Judge
<1>12. QED
  BY <1>9, <1>11

LEMMA ChallengeDisputes ==
  ASSUME TaskInv, NEW k \in TaskIds, NEW u \in Users, ChallengeTask(k, u)
  PROVE  \E amount \in 1 .. wallet[u] : C!Dispute(k, u, amount)
<1> DEFINE used == k < global.counter
          new == Contested(tasks[k])
          bond == Bond(tasks[k].terms.escrow, global.params.multiplier)
<1>1. /\ TypeOK /\ tasks[k] \in Tasks /\ tasks[k].state = "Verified"
      /\ tasks' = [tasks EXCEPT ![k] = new] /\ global' = global
      /\ wallet[u] >= bond /\ wallet' = [wallet EXCEPT ![u] = @ - bond]
      /\ challenges' = [challenges EXCEPT ![k][u] = Posted(bond)]
  BY DEF TaskInv, TypeOK, ChallengeTask, MayChallenge, CanPay
<1>2. Jobs' = [Jobs EXCEPT ![k] = JobOf(new, used)]
  BY <1>1, JobsAfter
<1>3. /\ new.state = "Disputed" /\ new.agent = tasks[k].agent
      /\ new.client = tasks[k].client /\ new.lamports = tasks[k].lamports
      /\ new.payment = tasks[k].payment /\ new.fee = tasks[k].fee
  BY <1>1, Fields DEF SameDeal, SameVerdict
<1>4. /\ tasks[k].terms.escrow \in Nat /\ tasks[k].terms.escrow > 0
      /\ tasks[k].lamports = tasks[k].terms.escrow
  BY <1>1, TermsNat DEF TaskInv, Priced, SettlementCovered, Covered
<1>5. bond \in Nat /\ bond >= 2 * tasks[k].terms.escrow
  BY <1>1, <1>4, BondType
<1> HIDE DEF used, new, bond
<1>6. /\ Jobs[k] = JobOf(tasks[k], used) /\ Jobs[k].stage = "Judged"
      /\ Jobs[k].price = tasks[k].lamports
  BY <1>1, JobFields, Stages DEF used
<1>7. JobOf(new, used) =
        C!Job("Disputed", Jobs[k].client, Jobs[k].worker, Jobs[k].price,
              Jobs[k].pay, Jobs[k].fee)
  <2>1. StageOf(new, used) = "Disputed"
    BY <1>3, Stages
  <2>2. QED
    BY <1>1, <1>3, <2>1, JobFields DEF JobOf, C!Job
<1>8. Bonds' = [Bonds EXCEPT ![k][u] = bond]
  <2>1. Posted(bond).lamports = bond
    BY DEF Posted
  <2>2. Bonds' = [Bonds EXCEPT ![k][u] = Posted(bond).lamports]
    BY <1>1, BondsAfter
  <2>3. QED
    BY <2>1, <2>2
<1>9. wallet[u] \in Nat /\ wallet' = C!Paid(wallet, u, -bond)
  BY <1>1, <1>5 DEF TypeOK, Accounts, C!Paid
<1>10. bond \in 1 .. wallet[u] /\ bond >= 2 * Jobs[k].price
  BY <1>1, <1>4, <1>5, <1>6, <1>9
<1>11. C!Dispute(k, u, bond)
  BY <1>1, <1>2, <1>6, <1>7, <1>8, <1>9, <1>10 DEF C!Dispute
<1>12. QED
  BY <1>10, <1>11

(* Expiry and emergency return pay the client the whole price.             *)
LEMMA ReturnCallsOff ==
  ASSUME TaskInv, NEW k \in TaskIds, ExpireTask(k) \/ EmergencyReturn(k)
  PROVE  C!CallOff(k)
<1>1. /\ TypeOK /\ Fresh /\ tasks[k].state \in {"Open", "Claimed", "Submitted"}
      /\ tasks' = [tasks EXCEPT ![k] = NoTask] /\ global' = global
      /\ wallet' = Pay(wallet, tasks[k].client, tasks[k].lamports)
      /\ challenges' = challenges
  BY DEF TaskInv, ExpireTask, EmergencyReturn
<1>2. C!Over(k)
  BY <1>1, ClosedIsOver
<1>3. Jobs[k].stage \in {"Offered", "Taken"}
  BY <1>1, JobFields, Stages
<1>4. wallet' = C!Paid(wallet, Jobs[k].client, Jobs[k].price)
  BY <1>1, JobFields DEF Pay, C!Paid
<1>5. QED
  BY <1>1, <1>2, <1>3, <1>4 DEF Bonds, C!CallOff

(* The code's division of a verdict is the contract's.                     *)
LEMMA DisbursedIsDivided ==
  ASSUME TypeOK, NEW k \in TaskIds
  PROVE  Disbursed(wallet, tasks[k]) = C!Divided(Jobs[k], global.treasury)
BY JobFields DEF Disbursed, Pay, C!Divided, C!Paid

LEMMA FinalizeCompletes ==
  ASSUME TaskInv, NEW k \in TaskIds, NEW stats \in BOOLEAN, FinalizeTask(k, stats)
  PROVE  C!Complete(k, global.treasury)
<1>1. /\ TypeOK /\ Fresh /\ tasks[k].state = "Verified"
      /\ tasks' = [tasks EXCEPT ![k] = NoTask] /\ global' = global
      /\ wallet' = Disbursed(wallet, tasks[k]) /\ challenges' = challenges
  BY DEF TaskInv, FinalizeTask
<1>2. C!Over(k)
  BY <1>1, ClosedIsOver
<1>3. Jobs[k].stage = "Judged"
  BY <1>1, JobFields, Stages
<1>4. QED
  BY <1>1, <1>2, <1>3, DisbursedIsDivided DEF Bonds, C!Complete

LEMMA ResolveEnds ==
  ASSUME TaskInv, NEW k \in TaskIds, NEW u \in Users, NEW won \in BOOLEAN,
         ResolveChallenge(k, u, won)
  PROVE  \/ C!Overturn(k, u)
         \/ \E part \in 0 .. Bonds[k][u] : C!Uphold(k, u, global.treasury, part)
<1> DEFINE challenge == challenges[k][u]
          slash == SlashToTreasury(challenge.bond, global.params.slashBps)
<1>1. /\ TypeOK /\ Fresh /\ tasks[k].state = "Disputed" /\ challenge.exists
      /\ tasks' = [tasks EXCEPT ![k] = NoTask] /\ global' = global
      /\ challenges' = [challenges EXCEPT ![k][u] = NoChallenge]
  BY DEF TaskInv, ResolveChallenge
<1>2. /\ challenge.lamports = challenge.bond /\ challenge.bond > 0
      /\ challenge.bond \in Nat
  BY <1>1 DEF TaskInv, DisputeBacked, Backed, TypeOK, Challenges
<1>3. C!Over(k)
  BY <1>1, ClosedIsOver
<1>4. Jobs[k].stage = "Disputed"
  BY <1>1, JobFields, Stages
<1>5. Bonds[k][u] = challenge.bond /\ Bonds' = [Bonds EXCEPT ![k][u] = 0]
  <2>1. NoChallenge.lamports = 0
    BY DEF NoChallenge
  <2>2. Bonds' = [Bonds EXCEPT ![k][u] = NoChallenge.lamports]
    BY <1>1, BondsAfter
  <2>3. QED
    BY <1>2, <2>1, <2>2 DEF Bonds
<1>6. slash \in 0 .. challenge.bond
  <2> DEFINE bps == global.params.slashBps
  <2>1. global.params \in ParamRecords /\ ValidParams(global.params)
    BY <1>1, ParamsInForce DEF TypeOK
  <2>2. bps \in Nat /\ bps <= 10000
    <3>1. 0 \in Nat
      OBVIOUS
    <3>2. QED
      BY <2>1, <3>1, Periods
  <2> HIDE DEF bps
  <2>3. SlashToTreasury(challenge.bond, bps) \in 0 .. challenge.bond
    BY <1>2, <2>2, SlashBound
  <2>4. QED
    BY <2>3 DEF bps
<1>7. CASE wallet' = Pay(Pay(wallet, tasks[k].client, tasks[k].lamports), u, challenge.lamports)
  <2>1. wallet' = C!Paid(C!Paid(wallet, Jobs[k].client, Jobs[k].price), u, Bonds[k][u])
    BY <1>1, <1>2, <1>5, <1>7, JobFields DEF Pay, C!Paid
  <2>2. C!Overturn(k, u)
    BY <1>2, <1>3, <1>4, <1>5, <2>1 DEF C!Overturn
  <2>3. QED
    BY <2>2
<1>8. CASE wallet' = Pay(Pay(Pay(Disbursed(wallet, tasks[k]),
                                 tasks[k].agent, challenge.bond - slash),
                             global.treasury, slash),
                         u, challenge.lamports - challenge.bond)
  <2> DEFINE upheld == C!Paid(C!Paid(C!Divided(Jobs[k], global.treasury),
                                     Jobs[k].worker, Bonds[k][u] - slash),
                              global.treasury, slash)
  <2>1. wallet' = Pay(upheld, u, 0)
    BY <1>1, <1>2, <1>5, <1>8, JobFields, DisbursedIsDivided DEF Pay, C!Paid
  <2>2. upheld \in [Accounts -> Int]
    <3>1. /\ wallet \in [Accounts -> Nat] /\ tasks[k] \in Tasks
          /\ Jobs[k].pay \in Int /\ Jobs[k].fee \in Int /\ Jobs[k].price \in Int
          /\ Bonds[k][u] - slash \in Int /\ slash \in Int
      BY <1>1, <1>2, <1>5, <1>6, JobFields DEF TypeOK, Tasks
    <3>2. ASSUME NEW purse \in [Accounts -> Int], NEW a, NEW amount \in Int
          PROVE  C!Paid(purse, a, amount) \in [Accounts -> Int]
      <4>1. \A b \in Accounts : purse[b] \in Int /\ purse[b] + amount \in Int
        OBVIOUS
      <4>2. CASE a \in Accounts
        BY <4>1, <4>2 DEF C!Paid
      <4>3. CASE a \notin Accounts
        BY <4>3 DEF C!Paid
      <4>4. QED
        BY <4>2, <4>3
    <3>3. Jobs[k].price - Jobs[k].pay - Jobs[k].fee \in Int
      BY <3>1
    <3>4. wallet \in [Accounts -> Int]
      BY <3>1
    <3> HIDE DEF slash
    <3>5. C!Paid(wallet, Jobs[k].worker, Jobs[k].pay) \in [Accounts -> Int]
      BY <3>1, <3>2, <3>4
    <3>6. C!Paid(C!Paid(wallet, Jobs[k].worker, Jobs[k].pay), global.treasury, Jobs[k].fee)
            \in [Accounts -> Int]
      BY <3>1, <3>2, <3>5
    <3>7. C!Divided(Jobs[k], global.treasury) \in [Accounts -> Int]
      BY <3>2, <3>3, <3>6 DEF C!Divided
    <3>8. C!Paid(C!Divided(Jobs[k], global.treasury), Jobs[k].worker, Bonds[k][u] - slash)
            \in [Accounts -> Int]
      BY <3>1, <3>2, <3>7
    <3>9. QED
      BY <3>1, <3>2, <3>8
  <2> HIDE DEF upheld
  <2>3. wallet' = upheld
    BY <2>1, <2>2 DEF Pay, Accounts
  <2>4. C!Uphold(k, u, global.treasury, slash)
    BY <1>2, <1>3, <1>4, <1>5, <1>6, <2>3 DEF C!Uphold, upheld
  <2>5. QED
    BY <1>5, <1>6, <2>4
<1>9. QED
  BY <1>7, <1>8 DEF ResolveChallenge

(* The authority, the clock and an agent's own account move no money.      *)
LEMMA SettingsKeep ==
  ASSUME TypeOK, [Next]_vars,
         \/ Tick \/ UNCHANGED vars
         \/ \E p \in Params : UpdateParams(p)
         \/ SetSwitchboardFeed
         \/ \E key \in Keys :
              TransferAuthority(key) \/ UpdateTreasury(key) \/ UpdateOracleAuthority(key)
         \/ \E u \in Users : CloseAgentState(u)
  PROVE  UNCHANGED C!state
<1>1. UNCHANGED <<wallet, tasks, challenges>>
  BY DEF Tick, UpdateParams, SetSwitchboardFeed, TransferAuthority, UpdateTreasury,
     UpdateOracleAuthority, CloseAgentState, vars
<1>2. global'.counter = global.counter
  <2>1. \A p : /\ [global EXCEPT !.params = p].counter = global.counter
               /\ [global EXCEPT !.feed = p].counter = global.counter
               /\ [global EXCEPT !.authority = p].counter = global.counter
               /\ [global EXCEPT !.treasury = p].counter = global.counter
               /\ [global EXCEPT !.oracle = p].counter = global.counter
    BY DEF TypeOK, Globals
  <2>2. CASE UNCHANGED global
    BY <2>2
  <2>3. ASSUME NEW p \in Params, UpdateParams(p) PROVE global'.counter = global.counter
    BY <2>1, <2>3 DEF UpdateParams
  <2>4. ASSUME SetSwitchboardFeed PROVE global'.counter = global.counter
    BY <2>1, <2>4 DEF SetSwitchboardFeed
  <2>5. ASSUME NEW key \in Keys, TransferAuthority(key) PROVE global'.counter = global.counter
    BY <2>1, <2>5 DEF TransferAuthority
  <2>6. ASSUME NEW key \in Keys, UpdateTreasury(key) PROVE global'.counter = global.counter
    BY <2>1, <2>6 DEF UpdateTreasury
  <2>7. ASSUME NEW key \in Keys, UpdateOracleAuthority(key)
        PROVE  global'.counter = global.counter
    BY <2>1, <2>7 DEF UpdateOracleAuthority
  <2>8. QED
    BY <2>2, <2>3, <2>4, <2>5, <2>6, <2>7 DEF Tick, CloseAgentState, vars
<1>3. Jobs' = Jobs /\ Bonds' = Bonds
  BY <1>1, <1>2 DEF Jobs, Bonds
<1>4. QED
  BY <1>1, <1>3 DEF C!state

LEMMA CommissionInit == Init => C!Init
<1> SUFFICES ASSUME Init PROVE C!Init
  OBVIOUS
<1>1. wallet \in [Users \cup Keys -> Nat]
  BY TypeInit DEF TypeOK, Accounts
<1>2. Jobs = [k \in TaskIds |-> C!Blank("Unborn")]
  <2>1. ASSUME NEW k \in TaskIds PROVE JobOf(tasks[k], k < global.counter) = C!Blank("Unborn")
    <3>1. tasks[k] = NoTask /\ (k < global.counter) = FALSE
      BY TaskAssumption DEF Init, TaskIds
    <3>2. StageOf(NoTask, FALSE) = "Unborn"
      BY DEF StageOf, NoTask
    <3>3. /\ NoTask.client = NoUser /\ NoTask.agent = NoUser /\ NoTask.lamports = 0
          /\ NoTask.payment = 0 /\ NoTask.fee = 0
      BY DEF NoTask
    <3>4. JobOf(NoTask, FALSE) = C!Blank("Unborn")
      BY <3>2, <3>3 DEF JobOf, C!Blank, C!Job
    <3>5. QED
      BY <3>1, <3>4
  <2>2. QED
    BY <2>1 DEF Jobs
<1>3. Bonds = [k \in TaskIds |-> [u \in Users |-> 0]]
  BY DEF Init, Bonds, NoChallenge
<1>4. QED
  BY <1>1, <1>2, <1>3 DEF C!Init

LEMMA CommissionMoves ==
  ASSUME TaskInv, [Next]_vars
  PROVE  C!Move \/ UNCHANGED C!state
<1> DEFINE Goal == C!Move \/ UNCHANGED C!state
<1>1. TypeOK /\ global.treasury \in Keys
  BY DEF TaskInv, TypeOK, Globals
<1>2. ASSUME NEW u \in Users, NEW t \in Terms, CreateTask(u, t) PROVE Goal
  BY <1>2, CreateOffers DEF C!Move
<1>3. ASSUME NEW k \in TaskIds, NEW u \in Users, ClaimTask(k, u) PROVE Goal
  BY <1>3, ClaimTakesUp DEF C!Move
<1>4. ASSUME NEW k \in TaskIds, SubmitWork(k) PROVE Goal
  BY <1>4, SubmitKeeps
<1>5. ASSUME NEW k \in TaskIds, NEW score \in Scores, VerifyTask(k, score) PROVE Goal
  BY <1>5, VerifyJudges DEF C!Move
<1>6. ASSUME NEW k \in TaskIds, NEW stats \in BOOLEAN, FinalizeTask(k, stats) PROVE Goal
  BY <1>1, <1>6, FinalizeCompletes DEF C!Move
<1>7. ASSUME NEW k \in TaskIds, NEW u \in Users, ChallengeTask(k, u) PROVE Goal
  BY <1>7, ChallengeDisputes DEF C!Move
<1>8. ASSUME NEW k \in TaskIds, NEW u \in Users, NEW won \in BOOLEAN,
             ResolveChallenge(k, u, won)
      PROVE  Goal
  BY <1>1, <1>8, ResolveEnds DEF C!Move
<1>9. ASSUME NEW k \in TaskIds, ExpireTask(k) \/ EmergencyReturn(k) PROVE Goal
  BY <1>9, ReturnCallsOff DEF C!Move
<1>10. ASSUME \/ Tick \/ UNCHANGED vars
              \/ \E p \in Params : UpdateParams(p)
              \/ SetSwitchboardFeed
              \/ \E key \in Keys :
                   TransferAuthority(key) \/ UpdateTreasury(key) \/ UpdateOracleAuthority(key)
              \/ \E u \in Users : CloseAgentState(u)
       PROVE  Goal
  BY <1>1, <1>10, SettingsKeep
<1> HIDE DEF Goal
<1>11. Goal
  BY <1>2, <1>3, <1>4, <1>5, <1>6, <1>7, <1>8, <1>9, <1>10 DEF Next
<1>12. QED
  BY <1>11 DEF Goal

(* The program implements the commission contract: whatever instructions   *)
(* come and whatever the authority changes, the price of a task moves only *)
(* by being put down, divided once as judged, or given back.               *)
THEOREM TaskImplementsCommission == Spec => ImplementsCommission
<1>1. TaskInv /\ [Next]_vars => [C!Next]_(C!state)
  BY CommissionMoves DEF C!Next
<1>2. QED
  BY <1>1, CommissionInit, Invariance, PTL DEF Spec, C!Spec, ImplementsCommission

-----------------------------------------------------------------------------
(* No move of the contract creates or destroys money, so no instruction of *)
(* the program does.                                                       *)

(* The three totals.                                                       *)
InWallets == SumFunction(wallet)
PricesOf(jobs) == [k \in TaskIds |-> jobs[k].price]
Escrowed == SumFunction(PricesOf(Jobs))
Bonded == TableSum(Bonds, TaskIds)

LEMMA FiniteAccounts ==
  IsFiniteSet(Accounts) /\ IsFiniteSet(Users) /\ IsFiniteSet(TaskIds)
<1>1. IsFiniteSet(Users \cup Keys)
  BY TaskAssumption, FS_Union
<1>2. MaxTasks - 1 \in Int /\ 0 \in Int
  BY TaskAssumption
<1>3. IsFiniteSet(0 .. (MaxTasks - 1))
  BY <1>2, FS_Interval
<1>4. QED
  BY <1>1, <1>3, TaskAssumption DEF Accounts, TaskIds

LEMMA MoneyTyped ==
  ASSUME TypeOK
  PROVE  /\ wallet \in [Accounts -> Int] /\ InWallets \in Int
         /\ PricesOf(Jobs) \in [TaskIds -> Int] /\ Escrowed \in Int
         /\ Bonds \in [TaskIds -> [Users -> Int]] /\ Bonded \in Int
<1>1. wallet \in [Accounts -> Int]
  BY DEF TypeOK
<1>2. PricesOf(Jobs) \in [TaskIds -> Int]
  <2>1. \A k \in TaskIds : Jobs[k].price \in Int
    BY DEF TypeOK, Tasks, Jobs, JobOf
  <2>2. QED
    BY <2>1 DEF PricesOf
<1>3. Bonds \in [TaskIds -> [Users -> Int]]
  BY DEF TypeOK, Challenges, Bonds
<1>4. Bonded \in Int
  BY <1>3, FiniteAccounts, TableSumType DEF Bonded
<1>5. QED
  BY <1>1, <1>2, <1>3, <1>4, FiniteAccounts, SumFunctionType DEF InWallets, Escrowed

(* The contract adds up with the same operator.                            *)
LEMMA SameSum == \A f : C!SumFunction(f) = SumFunction(f)
BY DEF C!SumFunction, C!SumFunctionOnSet, C!FoldFunctionOnSet, C!MapThenFoldSet,
       SumFunction, SumFunctionOnSet, FoldFunctionOnSet, MapThenFoldSet

LEMMA WorthIs ==
  /\ C!Worth = InWallets + Escrowed + Bonded
  /\ C!Worth' = InWallets' + Escrowed' + Bonded'
BY SameSum DEF C!Worth, InWallets, Bonded, TableSum, PricesOf, Escrowed

(* How the totals follow the accounts.                                     *)
LEMMA PaidSum ==
  ASSUME NEW book \in [Accounts -> Int], NEW a \in Accounts, NEW n \in Int,
         NEW next, next = C!Paid(book, a, n)
  PROVE  next \in [Accounts -> Int] /\ SumFunction(next) = SumFunction(book) + n
<1> DEFINE v == book[a] + n
<1>1. Rewritten(book, next, a, v) /\ v \in Int /\ v - book[a] = n
  BY DEF C!Paid, Rewritten
<1> HIDE DEF v
<1>2. QED
  BY <1>1, FiniteAccounts, SumExcept

LEMMA BondedAfter ==
  ASSUME TypeOK, NEW k \in TaskIds, NEW u \in Users, NEW v \in Int,
         RewrittenAt(Bonds, Bonds', k, u, v)
  PROVE  Bonded' = Bonded + (v - Bonds[k][u])
<1>1. Bonds \in [TaskIds -> [Users -> Int]]
  BY MoneyTyped
<1>2. TableSum(Bonds', TaskIds) = TableSum(Bonds, TaskIds) + (v - Bonds[k][u])
  BY <1>1, FiniteAccounts, TableSumExcept
<1>3. QED
  BY <1>2 DEF Bonded

LEMMA EscrowedAfter ==
  ASSUME TypeOK, NEW k \in TaskIds, NEW job, job.price \in Int,
         Jobs' = [Jobs EXCEPT ![k] = job]
  PROVE  Escrowed' = Escrowed + (job.price - Jobs[k].price)
<1>1. PricesOf(Jobs) \in [TaskIds -> Int] /\ PricesOf(Jobs)[k] = Jobs[k].price
  BY MoneyTyped DEF PricesOf
<1>2. Rewritten(PricesOf(Jobs), PricesOf(Jobs'), k, job.price)
  BY DEF Jobs, PricesOf, Rewritten
<1>3. SumFunction(PricesOf(Jobs')) = SumFunction(PricesOf(Jobs)) + (job.price - PricesOf(Jobs)[k])
  BY <1>1, <1>2, FiniteAccounts, SumExcept
<1>4. QED
  BY <1>1, <1>3 DEF Escrowed

(* What stage and bonds say of the accounts.                               *)
LEMMA Holdings ==
  ASSUME TaskInv, NEW k \in TaskIds
  PROVE  /\ Jobs[k].price \in Int /\ Jobs[k].pay \in Int /\ Jobs[k].fee \in Int
         /\ Jobs[k].stage = "Unborn" => Jobs[k].price = 0
         /\ Jobs[k].stage \in {"Offered", "Taken", "Judged", "Disputed"} =>
              Jobs[k].client \in Accounts
         /\ Jobs[k].stage \in {"Judged", "Disputed"} => Jobs[k].worker \in Accounts
         /\ Jobs[k].stage = "Judged" => \A u \in Users : Bonds[k][u] = 0
<1>1. tasks[k] \in Tasks /\ Covered(tasks[k]) /\ \A u \in Users : challenges[k][u] \in Challenges
  BY DEF TaskInv, TypeOK, SettlementCovered
<1>2. tasks[k].state # "Disputed" => \A u \in Users : challenges[k][u].lamports = 0
  BY DEF TaskInv, DisputeBacked, Challengers, Backed
<1>3. /\ Jobs[k].price = tasks[k].lamports /\ Jobs[k].pay = tasks[k].payment
      /\ Jobs[k].fee = tasks[k].fee /\ Jobs[k].client = tasks[k].client
      /\ Jobs[k].worker = tasks[k].agent
      /\ Jobs[k].stage = StageOf(tasks[k], k < global.counter)
      /\ \A u \in Users : Bonds[k][u] = challenges[k][u].lamports
  BY DEF Jobs, JobOf, Bonds
<1>4. /\ tasks[k].lamports \in Int /\ tasks[k].payment \in Int /\ tasks[k].fee \in Int
      /\ tasks[k].state \in TaskStates
  BY <1>1 DEF Tasks
<1>5. /\ tasks[k].state = "Absent" => tasks[k].lamports = 0
      /\ tasks[k].state # "Absent" => tasks[k].client \in Accounts
      /\ tasks[k].state \notin {"Absent", "Open"} => tasks[k].agent \in Accounts
  BY <1>1 DEF Covered, Accounts
<1>6. /\ Jobs[k].stage = "Unborn" => tasks[k].state = "Absent"
      /\ Jobs[k].stage \in {"Offered", "Taken", "Judged", "Disputed"} => tasks[k].state # "Absent"
      /\ Jobs[k].stage = "Judged" => tasks[k].state = "Verified"
      /\ Jobs[k].stage = "Disputed" => tasks[k].state = "Disputed"
  BY <1>3, <1>4 DEF StageOf, TaskStates
<1>7. QED
  BY <1>2, <1>3, <1>4, <1>5, <1>6

(* A verdict divides the price and nothing else.                           *)
LEMMA DividedSum ==
  ASSUME TaskInv, NEW k \in TaskIds, NEW key \in Keys,
         Jobs[k].stage \in {"Judged", "Disputed"},
         NEW next, next = C!Divided(Jobs[k], key)
  PROVE  next \in [Accounts -> Int] /\ SumFunction(next) = InWallets + Jobs[k].price
<1> DEFINE worker == Jobs[k].worker
           client == Jobs[k].client
           pay == Jobs[k].pay
           fee == Jobs[k].fee
           rest == Jobs[k].price - pay - fee
           one == C!Paid(wallet, worker, pay)
           two == C!Paid(one, key, fee)
<1>1. /\ worker \in Accounts /\ client \in Accounts /\ key \in Accounts
      /\ pay \in Int /\ fee \in Int /\ rest \in Int /\ Jobs[k].price = pay + fee + rest
  BY Holdings DEF Accounts
<1>2. next = C!Paid(two, client, rest)
  BY DEF C!Divided
<1>3. wallet \in [Accounts -> Int] /\ InWallets \in Int
  BY MoneyTyped DEF TaskInv
<1> HIDE DEF worker, client, pay, fee, rest, two
<1>4. one \in [Accounts -> Int] /\ SumFunction(one) = SumFunction(wallet) + pay
  <2>1. one = C!Paid(wallet, worker, pay)
    OBVIOUS
  <2> HIDE DEF one
  <2>2. QED
    BY <1>1, <1>3, <2>1, PaidSum
<1>5. two \in [Accounts -> Int] /\ SumFunction(two) = SumFunction(one) + fee
  <2>1. two = C!Paid(one, key, fee)
    BY DEF two
  <2> HIDE DEF one
  <2>2. one \in [Accounts -> Int] /\ key \in Accounts /\ fee \in Int
    BY <1>1, <1>4
  <2>3. QED
    BY <2>1, <2>2, PaidSum
<1> HIDE DEF one
<1>6. next \in [Accounts -> Int] /\ SumFunction(next) = SumFunction(two) + rest
  BY <1>1, <1>2, <1>5, PaidSum
<1>7. QED
  BY <1>1, <1>3, <1>4, <1>5, <1>6 DEF InWallets

LEMMA MovesConserve ==
  ASSUME TaskInv, C!Move
  PROVE  C!Worth' = C!Worth
<1>1. TypeOK /\ Keys \subseteq Accounts /\ Users \subseteq Accounts
  BY DEF TaskInv, Accounts
<1>2. /\ wallet \in [Accounts -> Int] /\ InWallets \in Int
      /\ Escrowed \in Int /\ Bonded \in Int
      /\ Bonds \in [TaskIds -> [Users -> Int]]
  BY <1>1, MoneyTyped
<1>3. /\ UNCHANGED wallet => UNCHANGED InWallets
      /\ UNCHANGED Bonds => UNCHANGED Bonded
  BY DEF InWallets, Bonded
<1>4. ASSUME NEW a \in Accounts, NEW n \in Int, wallet' = C!Paid(wallet, a, n)
      PROVE  InWallets' = InWallets + n
  <2>1. SumFunction(wallet') = SumFunction(wallet) + n
    BY <1>2, <1>4, PaidSum
  <2>2. QED
    BY <2>1 DEF InWallets
<1>5. ASSUME NEW k \in TaskIds, NEW stage, NEW client, NEW worker, NEW price \in Int,
             NEW pay, NEW fee,
             Jobs' = [Jobs EXCEPT ![k] = C!Job(stage, client, worker, price, pay, fee)]
      PROVE  Escrowed' = Escrowed + (price - Jobs[k].price)
  <2> DEFINE job == C!Job(stage, client, worker, price, pay, fee)
  <2>1. job.price = price
    BY DEF C!Job
  <2>2. Jobs' = [Jobs EXCEPT ![k] = job]
    BY <1>5
  <2> HIDE DEF job
  <2>3. Escrowed' = Escrowed + (job.price - Jobs[k].price)
    BY <1>1, <2>1, <2>2, EscrowedAfter
  <2>4. QED
    BY <2>1, <2>3
<1>6. ASSUME NEW k \in TaskIds, NEW stage, NEW client, NEW worker, NEW pay, NEW fee,
             Jobs' = [Jobs EXCEPT ![k] = C!Job(stage, client, worker, Jobs[k].price, pay, fee)]
      PROVE  Escrowed' = Escrowed
  <2>1. Jobs[k].price \in Int
    BY Holdings
  <2>2. Escrowed' = Escrowed + (Jobs[k].price - Jobs[k].price)
    BY <1>5, <1>6, <2>1
  <2>3. QED
    BY <1>2, <2>1, <2>2
<1>7. ASSUME NEW k \in TaskIds, C!Over(k)
      PROVE  Escrowed' = Escrowed - Jobs[k].price
  <2>1. Jobs[k].price \in Int
    BY Holdings
  <2> DEFINE none == 0
  <2>2. /\ none \in Int
        /\ Jobs' = [Jobs EXCEPT ![k] = C!Job("Over", NoUser, NoUser, none, none, none)]
    BY <1>7 DEF C!Over, C!Blank
  <2> HIDE DEF none
  <2>3. Escrowed' = Escrowed + (none - Jobs[k].price)
    BY <1>5, <2>2
  <2>4. QED
    BY <1>2, <2>1, <2>3 DEF none
<1>8. ASSUME NEW k \in TaskIds, NEW u \in Users, NEW n \in Int,
             Bonds' = [Bonds EXCEPT ![k][u] = n]
      PROVE  Bonded' = Bonded + (n - Bonds[k][u])
  <2>1. RewrittenAt(Bonds, Bonds', k, u, n)
    BY <1>8 DEF RewrittenAt
  <2>2. QED
    BY <1>1, <2>1, BondedAfter
<1> DEFINE none == 0
<1>0. none \in Int /\ none = 0
  OBVIOUS
<1> HIDE DEF none
<1>9. ASSUME NEW k \in TaskIds, NEW client \in Users, NEW price \in 1 .. wallet[client],
             C!Offer(k, client, price)
      PROVE  C!Worth' = C!Worth
  <2>1. price \in Int /\ -price \in Int /\ client \in Accounts
    BY <1>1
  <2>2. /\ Jobs[k].stage = "Unborn" /\ wallet' = C!Paid(wallet, client, -price)
        /\ Jobs' = [Jobs EXCEPT ![k] = C!Job("Offered", client, NoUser, price, 0, 0)]
        /\ Bonds' = Bonds
    BY <1>9 DEF C!Offer
  <2>3. InWallets' = InWallets + (-price)
    BY <1>4, <2>1, <2>2
  <2>4. Escrowed' = Escrowed + (price - Jobs[k].price)
    BY <1>5, <2>1, <2>2
  <2>5. Jobs[k].price = 0
    BY <2>2, Holdings
  <2>6. QED
    BY <1>2, <1>3, <2>1, <2>2, <2>3, <2>4, <2>5, WorthIs
<1>10. ASSUME NEW k \in TaskIds, NEW worker \in Users, C!TakeUp(k, worker)
       PROVE  C!Worth' = C!Worth
  <2> DEFINE j == Jobs[k]
  <2>1. /\ Jobs' = [Jobs EXCEPT ![k] = C!Job("Taken", j.client, worker, j.price, j.pay, j.fee)]
        /\ wallet' = wallet /\ Bonds' = Bonds
    BY <1>10 DEF C!TakeUp, Jobs
  <2>2. Escrowed' = Escrowed
    BY <1>6, <2>1
  <2>3. QED
    BY <1>3, <2>1, <2>2, WorthIs
<1>11. ASSUME NEW k \in TaskIds, NEW pay, NEW fee, C!Judge(k, pay, fee)
       PROVE  C!Worth' = C!Worth
  <2> DEFINE j == Jobs[k]
  <2>1. /\ Jobs' = [Jobs EXCEPT ![k] = C!Job("Judged", j.client, j.worker, j.price, pay, fee)]
        /\ wallet' = wallet /\ Bonds' = Bonds
    BY <1>11 DEF C!Judge, Jobs
  <2>2. Escrowed' = Escrowed
    BY <1>6, <2>1
  <2>3. QED
    BY <1>3, <2>1, <2>2, WorthIs
<1>12. ASSUME NEW k \in TaskIds, NEW u \in Users, NEW amount \in 1 .. wallet[u],
              C!Dispute(k, u, amount)
       PROVE  C!Worth' = C!Worth
  <2> DEFINE j == Jobs[k]
  <2>1. amount \in Int /\ -amount \in Int /\ u \in Accounts
    BY <1>1
  <2>2. /\ j.stage = "Judged" /\ wallet' = C!Paid(wallet, u, -amount)
        /\ Jobs' = [Jobs EXCEPT ![k] = C!Job("Disputed", j.client, j.worker, j.price, j.pay, j.fee)]
        /\ Bonds' = [Bonds EXCEPT ![k][u] = amount]
    BY <1>12 DEF C!Dispute, Jobs
  <2>3. Escrowed' = Escrowed
    BY <1>6, <2>2
  <2>4. InWallets' = InWallets + (-amount)
    BY <1>4, <2>1, <2>2
  <2>5. Bonded' = Bonded + (amount - Bonds[k][u])
    BY <1>8, <2>1, <2>2
  <2>6. Bonds[k][u] = 0
    BY <2>2, Holdings
  <2>7. QED
    BY <1>2, <2>1, <2>3, <2>4, <2>5, <2>6, WorthIs
<1>13. ASSUME NEW k \in TaskIds, C!CallOff(k)
       PROVE  C!Worth' = C!Worth
  <2> DEFINE client == Jobs[k].client
             price == Jobs[k].price
  <2>1. /\ Jobs[k].stage \in {"Offered", "Taken"}
        /\ wallet' = C!Paid(wallet, client, price) /\ C!Over(k) /\ Bonds' = Bonds
    BY <1>13 DEF C!CallOff
  <2>2. client \in Accounts /\ price \in Int
    BY <2>1, Holdings
  <2>3. Escrowed' = Escrowed - price
    BY <1>7, <2>1
  <2> HIDE DEF client, price
  <2>4. InWallets' = InWallets + price
    BY <1>4, <2>1, <2>2
  <2>5. QED
    BY <1>2, <1>3, <2>1, <2>2, <2>3, <2>4, WorthIs
<1>14. ASSUME NEW k \in TaskIds, NEW key \in Keys, C!Complete(k, key)
       PROVE  C!Worth' = C!Worth
  <2> DEFINE price == Jobs[k].price
  <2>1. /\ Jobs[k].stage = "Judged" /\ wallet' = C!Divided(Jobs[k], key)
        /\ C!Over(k) /\ Bonds' = Bonds
    BY <1>14 DEF C!Complete
  <2>2. SumFunction(wallet') = InWallets + price
    BY <2>1, DividedSum
  <2>3. price \in Int /\ Escrowed' = Escrowed - price
    BY <1>7, <2>1, Holdings
  <2>4. InWallets' = InWallets + price
    BY <2>2 DEF InWallets
  <2> HIDE DEF price
  <2>5. QED
    BY <1>2, <1>3, <2>1, <2>3, <2>4, WorthIs
<1>15. ASSUME NEW k \in TaskIds, NEW u \in Users, C!Overturn(k, u)
       PROVE  C!Worth' = C!Worth
  <2> DEFINE client == Jobs[k].client
             price == Jobs[k].price
             bond == Bonds[k][u]
             one == C!Paid(wallet, client, price)
  <2>1. /\ Jobs[k].stage = "Disputed" /\ wallet' = C!Paid(one, u, bond)
        /\ Bonds' = [Bonds EXCEPT ![k][u] = none] /\ C!Over(k)
    BY <1>0, <1>15 DEF C!Overturn
  <2>2. client \in Accounts /\ price \in Int /\ bond \in Int /\ u \in Accounts
    BY <1>1, <1>2, <2>1, Holdings
  <2>3. Escrowed' = Escrowed - price
    BY <1>7, <2>1
  <2>4. Bonded' = Bonded + (none - bond)
    BY <1>0, <1>8, <2>1
  <2> HIDE DEF client, price, bond
  <2>5. one \in [Accounts -> Int] /\ SumFunction(one) = SumFunction(wallet) + price
    BY <1>2, <2>2, PaidSum
  <2> HIDE DEF one
  <2>6. SumFunction(wallet') = SumFunction(one) + bond
    BY <2>1, <2>2, <2>5, PaidSum
  <2>7. InWallets' = InWallets + price + bond
    BY <2>5, <2>6 DEF InWallets
  <2>8. QED
    BY <1>0, <1>2, <2>2, <2>3, <2>4, <2>7, WorthIs
<1>16. ASSUME NEW k \in TaskIds, NEW u \in Users, NEW key \in Keys,
              NEW part \in 0 .. Bonds[k][u], C!Uphold(k, u, key, part)
       PROVE  C!Worth' = C!Worth
  <2> DEFINE worker == Jobs[k].worker
             price == Jobs[k].price
             bond == Bonds[k][u]
             one == C!Divided(Jobs[k], key)
             rest == bond - part
             two == C!Paid(one, worker, rest)
  <2>1. /\ Jobs[k].stage = "Disputed" /\ wallet' = C!Paid(two, key, part)
        /\ Bonds' = [Bonds EXCEPT ![k][u] = none] /\ C!Over(k)
    BY <1>0, <1>16 DEF C!Uphold
  <2>2. /\ worker \in Accounts /\ key \in Accounts /\ price \in Int /\ bond \in Int
        /\ part \in Int /\ rest \in Int /\ rest + part = bond
    BY <1>1, <1>2, <2>1, Holdings
  <2>3. Escrowed' = Escrowed - price
    BY <1>7, <2>1
  <2>4. Bonded' = Bonded + (none - bond)
    BY <1>0, <1>8, <2>1
  <2>5. one \in [Accounts -> Int] /\ SumFunction(one) = InWallets + price
    BY <2>1, DividedSum
  <2> HIDE DEF worker, price, bond, one, rest
  <2>6. two \in [Accounts -> Int] /\ SumFunction(two) = SumFunction(one) + rest
    BY <2>2, <2>5, PaidSum
  <2> HIDE DEF two
  <2>7. SumFunction(wallet') = SumFunction(two) + part
    BY <2>1, <2>2, <2>6, PaidSum
  <2>8. SumFunction(wallet') = InWallets + price + bond
    <3>1. rest \in Int /\ rest + part = bond
      BY <2>2
    <3>2. QED
      BY <1>2, <2>2, <2>5, <2>6, <2>7, <3>1
  <2>9. InWallets' = InWallets + price + bond
    BY <2>8 DEF InWallets
  <2>10. QED
    BY <1>0, <1>2, <2>2, <2>3, <2>4, <2>9, WorthIs
<1>17. QED
  BY <1>9, <1>10, <1>11, <1>12, <1>13, <1>14, <1>15, <1>16 DEF C!Move

LEMMA WorthAtStart == Init => Conservation
<1> SUFFICES ASSUME Init PROVE Conservation
  OBVIOUS
<1>1. InWallets = Funds * Cardinality(Users)
  <2> DEFINE P == Users
  <2>1. wallet = [x \in Accounts |-> IF x \in P THEN Funds ELSE 0] /\ P \in SUBSET Accounts
    BY DEF Init, Accounts
  <2>2. Funds \in Int
    BY TaskAssumption
  <2> HIDE DEF P
  <2>3. QED
    BY <2>1, <2>2, FiniteAccounts, SumOfShares DEF InWallets, P
<1>2. Escrowed = 0
  <2>1. PricesOf(Jobs) = [k \in TaskIds |-> 0]
    BY DEF Init, Jobs, JobOf, NoTask, PricesOf
  <2>2. QED
    BY <2>1, FiniteAccounts, SumOfNothing DEF Escrowed
<1>3. Bonded = 0
  <2>1. \A k \in TaskIds : Bonds[k] = [u \in Users |-> 0]
    BY DEF Init, Bonds, NoChallenge
  <2>2. \A k \in TaskIds : SumFunction(Bonds[k]) = 0
    BY <2>1, FiniteAccounts, SumOfNothing
  <2>3. [k \in TaskIds |-> SumFunction(Bonds[k])] = [k \in TaskIds |-> 0]
    BY <2>2
  <2>4. QED
    BY <2>3, FiniteAccounts, SumOfNothing DEF Bonded, TableSum
<1>4. Funds * Cardinality(Users) \in Int
  <2>1. Cardinality(Users) \in Nat /\ Funds \in Nat
    BY TaskAssumption, FS_CardinalityType
  <2>2. QED
    BY <2>1
<1>5. QED
  BY <1>1, <1>2, <1>3, <1>4, WorthIs DEF Conservation

(* Whatever is sent, wallets, escrows and bonds together own what the      *)
(* users brought: neither the rounding of fee and slash nor the closing of *)
(* task, challenge and agent accounts loses a lamport or makes one.        *)
THEOREM MoneyConserved == Spec => []Conservation
<1>1. TaskInv /\ [Next]_vars => C!Worth' = C!Worth
  <2>1. SUFFICES ASSUME TaskInv, [Next]_vars PROVE C!Worth' = C!Worth
    OBVIOUS
  <2>2. CASE C!Move
    BY <2>1, <2>2, MovesConserve
  <2>3. CASE UNCHANGED C!state
    BY <2>3 DEF C!state, C!Worth
  <2>4. QED
    BY <2>1, <2>2, <2>3, CommissionMoves
<1>2. TaskInv /\ Conservation /\ [Next]_vars => Conservation'
  BY <1>1 DEF Conservation
<1>3. QED
  BY <1>2, WorthAtStart, Invariance, PTL DEF Spec

-----------------------------------------------------------------------------
(* Agent sessions.                                                         *)


(* Every step of the composition is one of the marketplace, or none.       *)
LEMMA NoNewPowers == [AgentNext]_agentVars => [Next]_vars
<1> SUFFICES ASSUME [AgentNext]_agentVars PROVE [Next]_vars
  OBVIOUS
<1>1. ASSUME NEW k \in TaskIds, NEW a \in Users, NEW d, ClaimTaskSession(k, a, d) PROVE Next
  BY <1>1 DEF ClaimTaskSession, Next
<1>2. ASSUME NEW k \in TaskIds, NEW a \in Users, NEW d, SubmitWorkSession(k, a, d) PROVE Next
  BY <1>2 DEF SubmitWorkSession, Next
<1>3. ASSUME NEW d, SignedBy(d) PROVE Next
  BY <1>1, <1>2, <1>3 DEF SignedBy
<1>4. CASE UNCHANGED agentVars
  BY <1>4 DEF agentVars
<1>5. ASSUME \/ \E a \in Lenders, d \in Delegates, mask \in Masks, duration \in Durations :
                  CreateSession(a, d, mask, duration)
             \/ \E a \in Lenders, d \in Delegates : RevokeSession(a, d)
      PROVE  UNCHANGED vars
  BY <1>5 DEF CreateSession, RevokeSession
<1>6. QED
  BY <1>3, <1>4, <1>5 DEF AgentNext

(* The marketplace with sessions is the marketplace: what is proved of     *)
(* ShillbotTask holds whatever agents delegate to whom.                    *)
THEOREM AgentsImplementTasks == AgentSpec => Spec
<1>1. AgentInit => Init
  BY DEF AgentInit
<1>2. QED
  BY <1>1, NoNewPowers, PTL DEF AgentSpec, Spec

(* So the counters cover the claims that delegates make too ...            *)
THEOREM DelegatedClaimsCounted == AgentSpec => []ClaimsCounted
BY AgentsImplementTasks, ClaimsAreCounted, PTL

(* ... no delegate takes its agent past the limit ...                      *)
THEOREM DelegatedClaimsLimited == AgentSpec => ClaimLimit
BY AgentsImplementTasks, ClaimsLimited, PTL

(* ... the contract about the money stands ...                             *)
THEOREM DelegatedCommission == AgentSpec => ImplementsCommission
BY AgentsImplementTasks, TaskImplementsCommission, PTL

(* ... and no money is lost.                                               *)
THEOREM DelegatedMoney == AgentSpec => []Conservation
BY AgentsImplementTasks, MoneyConserved, PTL

-----------------------------------------------------------------------------
(* Permissions.                                                            *)

(* A session ends, and not after the grant of any of its bits.             *)
Within(session, grants) ==
  session.exists =>
    /\ session.expires > 0
    /\ \A b \in session.mask : session.expires <= grants[b]

GrantsBound == \A a \in Users, d \in Delegates : Within(sessions[a][d], granted[a][d])

AgentInv == AgentTypeOK /\ GrantsBound

LEMMA AgentStart == AgentInit => AgentInv
<1> SUFFICES ASSUME AgentInit PROVE AgentInv
  OBVIOUS
<1>1. TypeOK
  BY TypeInit DEF AgentInit
<1>2. NoSession \in Sessions /\ ~NoSession.exists
  BY DEF NoSession, Sessions
<1>3. /\ sessions \in [Users -> [Delegates -> Sessions]]
      /\ granted \in [Users -> [Delegates -> [Bits -> Nat]]] /\ signer = NoUser
  BY <1>2 DEF AgentInit, Nothing, Grant
<1>4. GrantsBound
  BY <1>2 DEF AgentInit, GrantsBound, Within
<1>5. QED
  BY <1>1, <1>3, <1>4 DEF AgentInv, AgentTypeOK

(* Session and grant of one delegate change together.                      *)
LEMMA GrantChanges ==
  ASSUME AgentInv, TypeOK', NEW a \in Users, NEW d \in Delegates,
         NEW session \in Sessions, NEW grants \in [Bits -> Nat],
         sessions' = [sessions EXCEPT ![a][d] = session],
         granted' = [granted EXCEPT ![a][d] = grants],
         Within(session, grants), signer' = NoUser
  PROVE  AgentInv'
<1>1. /\ sessions \in [Users -> [Delegates -> Sessions]]
      /\ granted \in [Users -> [Delegates -> [Bits -> Nat]]] /\ GrantsBound
  BY DEF AgentInv, AgentTypeOK
<1>2. /\ sessions' \in [Users -> [Delegates -> Sessions]]
      /\ granted' \in [Users -> [Delegates -> [Bits -> Nat]]]
  BY <1>1
<1>3. \A c \in Users, e \in Delegates :
        \/ sessions'[c][e] = session /\ granted'[c][e] = grants
        \/ sessions'[c][e] = sessions[c][e] /\ granted'[c][e] = granted[c][e]
  BY <1>1
<1>4. GrantsBound'
  BY <1>1, <1>3 DEF GrantsBound, Within
<1>5. QED
  BY <1>2, <1>4 DEF AgentInv, AgentTypeOK

LEMMA AgentStep == AgentInv /\ [AgentNext]_agentVars => AgentInv'
<1> SUFFICES ASSUME AgentInv, [AgentNext]_agentVars PROVE AgentInv'
  OBVIOUS
<1>1. TypeOK'
  BY NoNewPowers, TypeStep DEF AgentInv, AgentTypeOK
<1>2. /\ sessions \in [Users -> [Delegates -> Sessions]]
      /\ granted \in [Users -> [Delegates -> [Bits -> Nat]]] /\ signer \in Delegates \cup {NoUser}
  BY DEF AgentInv, AgentTypeOK
<1>3. ASSUME UNCHANGED <<sessions, granted>>, signer' \in Delegates \cup {NoUser}
      PROVE  AgentInv'
  BY <1>1, <1>2, <1>3 DEF AgentInv, AgentTypeOK, GrantsBound
<1>4. ASSUME NEW a \in Lenders, NEW d \in Delegates, RevokeSession(a, d) PROVE AgentInv'
  <2>1. NoSession \in Sessions /\ Nothing \in [Bits -> Nat] /\ Within(NoSession, Nothing)
    BY DEF NoSession, Sessions, Nothing, Grant, Within
  <2>2. /\ sessions' = [sessions EXCEPT ![a][d] = NoSession]
        /\ granted' = [granted EXCEPT ![a][d] = Nothing]
        /\ signer' = NoUser /\ a \in Users
    BY <1>4, DelegateAssumption DEF RevokeSession
  <2>3. QED
    BY <1>1, <2>1, <2>2, GrantChanges
<1>5. CASE UNCHANGED agentVars
  BY <1>2, <1>3, <1>5 DEF agentVars
<1>6. ASSUME NEW a \in Lenders, NEW d \in Delegates, NEW mask \in Masks,
             NEW duration \in Durations, CreateSession(a, d, mask, duration)
      PROVE  AgentInv'
  <2> DEFINE end == now + duration
             session == [exists |-> TRUE, mask |-> mask, expires |-> end]
  <2>1. /\ a \in Users /\ mask \subseteq Bits /\ end \in Nat /\ end > 0
    BY <1>6, DelegateAssumption DEF CreateSession, AgentInv, AgentTypeOK, TypeOK
  <2>2. /\ sessions' = [sessions EXCEPT ![a][d] = session]
        /\ granted' = [granted EXCEPT ![a][d] = Grant(mask, end)] /\ signer' = NoUser
    BY <1>6 DEF CreateSession
  <2> HIDE DEF end
  <2>3. /\ session \in Sessions /\ Grant(mask, end) \in [Bits -> Nat]
        /\ Within(session, Grant(mask, end))
    BY <2>1 DEF Sessions, Grant, Within
  <2> HIDE DEF session
  <2>4. QED
    BY <1>1, <2>1, <2>2, <2>3, GrantChanges
<1>7. CASE AgentNext
  BY <1>3, <1>4, <1>6, <1>7 DEF AgentNext
<1>8. QED
  BY <1>5, <1>7

(* The inductive invariant of the composition.                             *)
THEOREM AgentInvariant == AgentSpec => []AgentInv
BY AgentStart, AgentStep, PTL DEF AgentSpec

(* Sessions and grants keep their types.                                   *)
THEOREM AgentTypes == AgentSpec => []AgentTypeOK
<1>1. AgentInv => AgentTypeOK
  BY DEF AgentInv
<1>2. QED
  BY <1>1, AgentInvariant, PTL

(* What a delegate may sign is covered by a grant that still lasts.        *)
LEMMA AllowedIsGranted ==
  ASSUME AgentInv, NEW a \in Users, NEW d \in Delegates, NEW bit \in Bits,
         Allows(sessions[a][d], bit)
  PROVE  now < granted[a][d][bit]
<1>1. /\ now \in Nat /\ sessions[a][d] \in Sessions /\ granted[a][d][bit] \in Nat
  BY DEF AgentInv, AgentTypeOK, TypeOK
<1>2. /\ sessions[a][d].exists /\ bit \in sessions[a][d].mask
      /\ sessions[a][d].expires > 0 => now < sessions[a][d].expires
  BY DEF Allows
<1>3. sessions[a][d].expires > 0 /\ sessions[a][d].expires <= granted[a][d][bit]
  BY <1>2 DEF AgentInv, GrantsBound, Within
<1>4. sessions[a][d].expires \in Nat
  BY <1>1 DEF Sessions
<1>5. QED
  BY <1>1, <1>2, <1>3, <1>4

(* A delegate acts for an agent only within that agent's own grant to it   *)
(* of the very permission it uses, and not after it was revoked.           *)
THEOREM PermissionsEnd == AgentSpec => PermissionsExpire
<1> DEFINE Kept ==
      signer' # NoUser =>
        \A k \in TaskIds, a \in Users :
          /\ Takes(k, a) => now < granted[a][signer'][ClaimBit]
          /\ Delivers(k, a) => now < granted[a][signer'][SubmitBit]
<1>1. ASSUME AgentInv, [AgentNext]_agentVars PROVE [Kept]_agentVars
  <2> SUFFICES ASSUME ~UNCHANGED agentVars, signer' # NoUser, NEW k \in TaskIds, NEW a \in Users
               PROVE  /\ Takes(k, a) => now < granted[a][signer'][ClaimBit]
                      /\ Delivers(k, a) => now < granted[a][signer'][SubmitBit]
    OBVIOUS
  <2>1. PICK d \in Delegates : SignedBy(d) /\ signer' = d
    <3>1. ~\E b \in Lenders, e \in Delegates, mask \in Masks, duration \in Durations :
             CreateSession(b, e, mask, duration)
      BY DEF CreateSession
    <3>2. ~\E b \in Lenders, e \in Delegates : RevokeSession(b, e)
      BY DEF RevokeSession
    <3>3. QED
      BY <1>1, <3>1, <3>2 DEF AgentNext
  <2>2. tasks \in [TaskIds -> Tasks] /\ ClaimBit \in Bits /\ SubmitBit \in Bits
    BY <1>1 DEF AgentInv, AgentTypeOK, TypeOK, ClaimBit, SubmitBit, Bits
  <2>3. ASSUME NEW j \in TaskIds, NEW b \in Users, ClaimTaskSession(j, b, d)
        PROVE  ~Delivers(k, a) /\ (Takes(k, a) => a = b)
    <3>1. tasks' = [tasks EXCEPT ![j] = Taken(tasks[j], b)]
      BY <2>3 DEF ClaimTaskSession, ClaimTask
    <3>2. Taken(tasks[j], b).state = "Claimed" /\ Taken(tasks[j], b).agent = b
      BY <2>2, Fields
    <3>3. CASE k = j
      BY <2>2, <3>1, <3>2, <3>3 DEF Delivers, Takes
    <3>4. CASE k # j
      BY <2>2, <3>1, <3>4 DEF Delivers, Takes
    <3>5. QED
      BY <3>3, <3>4
  <2>4. ASSUME NEW j \in TaskIds, NEW b \in Users, SubmitWorkSession(j, b, d)
        PROVE  ~Takes(k, a) /\ (Delivers(k, a) => a = b)
    <3>1. tasks' = [tasks EXCEPT ![j] = Delivered(tasks[j])] /\ tasks[j].agent = b
      BY <2>4 DEF SubmitWorkSession, SubmitWork
    <3>2. /\ Delivered(tasks[j]).state = "Submitted"
          /\ Delivered(tasks[j]).agent = tasks[j].agent
      BY <2>2, Fields
    <3>3. CASE k = j
      BY <2>2, <3>1, <3>2, <3>3 DEF Delivers, Takes
    <3>4. CASE k # j
      BY <2>2, <3>1, <3>4 DEF Delivers, Takes
    <3>5. QED
      BY <3>3, <3>4
  <2>5. ASSUME NEW j \in TaskIds, NEW b \in Users, ClaimTaskSession(j, b, d)
        PROVE  now < granted[b][d][ClaimBit]
    BY <1>1, <2>2, <2>5, AllowedIsGranted DEF ClaimTaskSession
  <2>6. ASSUME NEW j \in TaskIds, NEW b \in Users, SubmitWorkSession(j, b, d)
        PROVE  now < granted[b][d][SubmitBit]
    BY <1>1, <2>2, <2>6, AllowedIsGranted DEF SubmitWorkSession
  <2>7. QED
    BY <2>1, <2>3, <2>4, <2>5, <2>6 DEF SignedBy
<1>2. AgentInv /\ [AgentNext]_agentVars => [Kept]_agentVars
  BY <1>1
<1>3. QED
  BY <1>2, AgentInvariant, PTL DEF AgentSpec, PermissionsExpire

=============================================================================
