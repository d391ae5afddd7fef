----------------------------- MODULE Commission -----------------------------
(***************************************************************************)
(* What the task marketplace promises about the money of a piece of work:  *)
(* the whole price is put down when the work is offered; it is taken up by *)
(* one worker, judged at most once, disputed at most once, and then ends,  *)
(* once, in one of four ways.  Deadlines, pauses, parameters, counters and *)
(* who sends what are left to the program.                                 *)
(***************************************************************************)
EXTENDS Integers, Functions

CONSTANTS
    Parties,    \* who may offer, take up or dispute work
    Keys,       \* who may earn a fee
    NoParty,    \* not a party
    Ids         \* the ids of jobs

VARIABLES
    purse,   \* what everybody owns
    job,     \* the jobs, by id
    bond     \* what a party has put down to dispute a job

state == <<purse, job, bond>>

Job(stage, client, worker, price, pay, fee) ==
  [stage |-> stage, client |-> client, worker |-> worker,
   price |-> price, pay |-> pay, fee |-> fee]

(* Of a job that has not begun or has ended nothing but that is known.     *)
Blank(stage) == Job(stage, NoParty, NoParty, 0, 0, 0)

Init ==
  /\ purse \in [Parties \cup Keys -> Nat]
  /\ job = [k \in Ids |-> Blank("Unborn")]
  /\ bond = [k \in Ids |-> [u \in Parties |-> 0]]

Paid(book, account, amount) == [book EXCEPT ![account] = @ + amount]

-----------------------------------------------------------------------------

Offer(k, client, price) ==
  /\ job[k].stage = "Unborn"
  /\ price > 0 /\ purse[client] >= price
  /\ purse' = Paid(purse, client, -price)
  /\ job' = [job EXCEPT ![k] = Job("Offered", client, NoParty, price, 0, 0)]
  /\ UNCHANGED bond

TakeUp(k, worker) ==
  /\ job[k].stage = "Offered"
  /\ job' = [job EXCEPT ![k] = Job("Taken", @.client, worker, @.price, @.pay, @.fee)]
  /\ UNCHANGED <<purse, bond>>

(* Pay and fee come out of the price, and of what the client has to pay    *)
(* for the work at least three quarters go to the worker.                  *)
Judge(k, pay, fee) ==
  /\ job[k].stage = "Taken"
  /\ pay + fee <= job[k].price /\ pay >= 3 * fee
  /\ job' = [job EXCEPT ![k] = Job("Judged", @.client, @.worker, @.price, pay, fee)]
  /\ UNCHANGED <<purse, bond>>

Dispute(k, u, amount) ==
  /\ job[k].stage = "Judged"
  /\ amount >= 2 * job[k].price /\ purse[u] >= amount
  /\ purse' = Paid(purse, u, -amount)
  /\ bond' = [bond EXCEPT ![k][u] = amount]
  /\ job' = [job EXCEPT ![k] = Job("Disputed", @.client, @.worker, @.price, @.pay, @.fee)]

-----------------------------------------------------------------------------
(* The four ends.                                                          *)

Over(k) == job' = [job EXCEPT ![k] = Blank("Over")]

(* Unjudged work costs nothing.                                            *)
CallOff(k) ==
  /\ job[k].stage \in {"Offered", "Taken"}
  /\ purse' = Paid(purse, job[k].client, job[k].price)
  /\ Over(k)
  /\ UNCHANGED bond

(* The price as the verdict divides it.                                    *)
Divided(j, key) ==
  Paid(Paid(Paid(purse, j.worker, j.pay), key, j.fee), j.client, j.price - j.pay - j.fee)

Complete(k, key) ==
  /\ job[k].stage = "Judged"
  /\ purse' = Divided(job[k], key)
  /\ Over(k)
  /\ UNCHANGED bond

(* The party that disputed gets back all it put down, and the client the   *)
(* price ...                                                               *)
Overturn(k, u) ==
  /\ job[k].stage = "Disputed" /\ bond[k][u] > 0
  /\ purse' = Paid(Paid(purse, job[k].client, job[k].price), u, bond[k][u])
  /\ bond' = [bond EXCEPT ![k][u] = 0]
  /\ Over(k)

(* ... or the verdict stands, and worker and operator share the bond.      *)
Uphold(k, u, key, part) ==
  /\ job[k].stage = "Disputed" /\ bond[k][u] > 0
  /\ part \in 0 .. bond[k][u]
  /\ purse' = Paid(Paid(Divided(job[k], key), job[k].worker, bond[k][u] - part), key, part)
  /\ bond' = [bond EXCEPT ![k][u] = 0]
  /\ Over(k)

Move ==
  \/ \E k \in Ids, client \in Parties : \E price \in 1 .. purse[client] : Offer(k, client, price)
  \/ \E k \in Ids, worker \in Parties : TakeUp(k, worker)
  \/ \E k \in Ids : \E pay, fee \in 0 .. job[k].price : Judge(k, pay, fee)
  \/ \E k \in Ids, u \in Parties : \E amount \in 1 .. purse[u] : Dispute(k, u, amount)
  \/ \E k \in Ids : CallOff(k)
  \/ \E k \in Ids, key \in Keys : Complete(k, key)
  \/ \E k \in Ids, u \in Parties : Overturn(k, u)
  \/ \E k \in Ids, u \in Parties, key \in Keys : \E part \in 0 .. bond[k][u] :
       Uphold(k, u, key, part)

(* A step of the contract changes something.                               *)
Next == state' # state /\ Move

Spec == Init /\ [][Next]_state

-----------------------------------------------------------------------------

(* All the money there is, which no move of the contract changes.          *)
Worth ==
    SumFunction(purse)
  + SumFunction([k \in Ids |-> job[k].price])
  + SumFunction([k \in Ids |-> SumFunction(bond[k])])

=============================================================================
