--------------------------- MODULE TaskProperties ---------------------------
(***************************************************************************)
(* What the task marketplace promises, as invariants, action properties    *)
(* and liveness of ShillbotTask.                                           *)
(***************************************************************************)
EXTENDS ShillbotTask, FiniteSetsExt

(* Every account holds values of its type: no u64 balance and no claim     *)
(* counter ever goes below zero.                                           *)
TypeOK ==
  /\ now \in Nat
  /\ global \in Globals
  /\ wallet \in [Accounts -> Nat]
  /\ tasks \in [TaskIds -> Tasks]
  /\ agents \in [Users -> AgentStates]
  /\ challenges \in [TaskIds -> [Users -> Challenges]]

-----------------------------------------------------------------------------
(* Money.                                                                  *)

(* The escrow stays whole in the task's account from creation to its last  *)
(* instruction, and a verdict never promises more than it, whatever the    *)
(* authority does to fee and threshold between verification and payout:    *)
(* finalize_task and resolve_challenge cannot get stuck on their checks.   *)
Covered(task) ==
  IF task.state = "Absent"
  THEN task.lamports = 0
  ELSE /\ task.lamports = task.terms.escrow
       /\ task.payment + task.fee <= task.terms.escrow
       /\ task.client \in Users
       /\ task.state # "Open" => task.agent \in Users

SettlementCovered == \A k \in TaskIds : Covered(tasks[k])

Challengers(k) == {u \in Users : challenges[k][u].exists}

(* A disputed task has exactly one challenge and any other task has none,  *)
(* though challenge accounts are one per challenger; a challenge holds its *)
(* whole bond, of at least twice the escrow.  So every dispute can be      *)
(* resolved, either way, and no bond is left behind.                       *)
Backed(challenge, task) ==
  IF challenge.exists
  THEN /\ challenge.lamports = challenge.bond
       /\ challenge.bond >= 2 * task.terms.escrow /\ challenge.bond > 0
  ELSE challenge.lamports = 0

DisputeBacked ==
  \A k \in TaskIds :
    /\ tasks[k].state = "Disputed" => \E u \in Users : Challengers(k) = {u}
    /\ tasks[k].state # "Disputed" => Challengers(k) = {}
    /\ \A u \in Users : Backed(challenges[k][u], tasks[k])

(* A verdict, once given, stands: payment, fee and the end of the          *)
(* challenge window survive disputes, parameter changes and any further    *)
(* attestation until the task is closed.                                   *)
VerdictStands ==
  [][\A k \in TaskIds :
       tasks[k].state \in {"Verified", "Disputed"} /\ tasks'[k].state # "Absent" =>
         /\ tasks'[k].payment = tasks[k].payment
         /\ tasks'[k].fee = tasks[k].fee
         /\ tasks'[k].challengeDeadline = tasks[k].challengeDeadline]_vars

-----------------------------------------------------------------------------
(* Claims.                                                                 *)

ClaimedBy(a) == {k \in TaskIds : tasks[k].state = "Claimed" /\ tasks[k].agent = a}

(* An agent's counter never falls below the number of tasks it holds,      *)
(* through claims, submissions, expiries, emergency returns and the        *)
(* closing of its account: every claimed task can still be submitted or    *)
(* expired, for both need a counter to take one from.                      *)
ClaimsCounted ==
  \A a \in Users :
    /\ agents[a].claimed >= Cardinality(ClaimedBy(a))
    /\ ~agents[a].exists => agents[a].claimed = 0

(* An agent that takes another task holds no more tasks than allowed,      *)
(* though the instruction sees only the counter.                           *)
ClaimLimit ==
  [][\A a \in Users :
       Cardinality(ClaimedBy(a)') > Cardinality(ClaimedBy(a)) =>
         Cardinality(ClaimedBy(a)') <= global.params.maxClaims]_vars

-----------------------------------------------------------------------------
(* Liveness.                                                               *)

(* No escrow is locked for good: whatever client, agent, oracle and        *)
(* authority do or leave undone, a task is closed or waits for the         *)
(* authority's ruling on a challenge.                                      *)
TaskEnds ==
  \A k \in TaskIds :
    tasks[k].state \in {"Open", "Claimed", "Submitted", "Verified"}
      ~> tasks[k].state \in {"Absent", "Disputed"}

-----------------------------------------------------------------------------
(* The money of the program, seen as commissions.  Submissions, deadlines, *)
(* pauses, parameters and the agents' accounts disappear.                  *)

StageOf(task, used) ==
  CASE task.state = "Open"                       -> "Offered"
    [] task.state \in {"Claimed", "Submitted"}   -> "Taken"
    [] task.state = "Verified"                   -> "Judged"
    [] task.state = "Disputed"                   -> "Disputed"
    [] OTHER                                     -> IF used THEN "Over" ELSE "Unborn"

JobOf(task, used) ==
  [stage |-> StageOf(task, used), client |-> task.client, worker |-> task.agent,
   price |-> task.lamports, pay |-> task.payment, fee |-> task.fee]

Jobs == [k \in TaskIds |-> JobOf(tasks[k], k < global.counter)]
Bonds == [k \in TaskIds |-> [u \in Users |-> challenges[k][u].lamports]]

C == INSTANCE Commission WITH
       Parties <- Users, NoParty <- NoUser, Ids <- TaskIds,
       purse <- wallet, job <- Jobs, bond <- Bonds

(* The program implements Commission: whatever instructions are sent, in   *)
(* any order, and whatever the authority changes meanwhile, lamports move  *)
(* only as the commission contract allows.  No second verdict, no second   *)
(* dispute, no payout of unjudged or disputed work, nothing left behind.   *)
ImplementsCommission == C!Spec

(* No instruction creates or destroys lamports: wallets, escrows and bonds *)
(* together always own what the users brought.                             *)
Conservation == C!Worth = Funds * Cardinality(Users)

-----------------------------------------------------------------------------
(* Claims of the code's comments that the code does not keep.              *)

(* global.rs:19, "minimum delay between submission and attestation".       *)
AttestationDelayed ==
  [][\A k \in TaskIds :
       tasks[k].state = "Submitted" /\ tasks'[k].state = "Verified" =>
         now >= AttestationTime(tasks[k])]_vars

(* emergency_return.rs:17-18, an agent "can wait for the AgentState to be  *)
(* corrected by subsequent submit_work or expire_task calls".              *)
CountCorrected ==
  [][\A a \in Users :
       agents'[a].exists /\ agents'[a].claimed < agents[a].claimed =>
         agents'[a].claimed = Cardinality(ClaimedBy(a)')]_vars

=============================================================================
