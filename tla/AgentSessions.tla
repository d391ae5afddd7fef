---------------------------- MODULE AgentSessions ----------------------------
(***************************************************************************)
(* Agent sessions: an agent lends its claims, its submissions or both to a *)
(* delegate, for as long as it likes.  This module composes the task       *)
(* marketplace with the SessionDelegate accounts.                          *)
(***************************************************************************)
EXTENDS TaskProperties

CONSTANTS
    Delegates,   \* the keys an agent may delegate to, other agents included
    Masks,       \* the allowed_instructions offered to create_session
    Durations,   \* the duration_seconds offered to create_session
    Lenders      \* bound: the agents that create sessions

(* The bits of allowed_instructions: the program knows two of the eight.   *)
ClaimBit == 0
SubmitBit == 1
Bits == 0 .. 7

ASSUME DelegateAssumption ==
  /\ NoUser \notin Delegates
  /\ Masks \subseteq SUBSET Bits /\ Durations \subseteq Int
  /\ Lenders \subseteq Users

VARIABLES
    sessions,   \* the SessionDelegate accounts, by agent and delegate
    granted,    \* history: when the delegate's permission ends, by bit, 0 if not given
    signer      \* history: the delegate that signed the last step, if one did

agentVars == <<vars, sessions, granted, signer>>

Sessions == [exists : BOOLEAN, mask : SUBSET Bits, expires : Nat]
NoSession == [exists |-> FALSE, mask |-> {}, expires |-> 0]

(* The ends of the permissions of a mask, and of none at all.              *)
Grant(mask, end) == [b \in Bits |-> IF b \in mask THEN end ELSE 0]
Nothing == Grant({}, 0)

AgentInit ==
  /\ Init
  /\ sessions = [a \in Users |-> [d \in Delegates |-> NoSession]]
  /\ granted = [a \in Users |-> [d \in Delegates |-> Nothing]]
  /\ signer = NoUser

-----------------------------------------------------------------------------
(* The life of a session.  The account must not exist: a session is        *)
(* changed or prolonged only by revoking it first.                         *)

CreateSession(a, d, mask, duration) ==
  LET end == now + duration IN
  /\ mask # {} /\ duration > 0 /\ a # d
  /\ ~sessions[a][d].exists
  /\ sessions' = [sessions EXCEPT ![a][d] = [exists |-> TRUE, mask |-> mask, expires |-> end]]
  /\ granted' = [granted EXCEPT ![a][d] = Grant(mask, end)]
  /\ signer' = NoUser
  /\ UNCHANGED vars

RevokeSession(a, d) ==
  /\ sessions[a][d].exists
  /\ sessions' = [sessions EXCEPT ![a][d] = NoSession]
  /\ granted' = [granted EXCEPT ![a][d] = Nothing]
  /\ signer' = NoUser
  /\ UNCHANGED vars

-----------------------------------------------------------------------------
(* What a delegate may sign.  Each handler repeats the agent's own; the    *)
(* agent is the one the session names.                                     *)

AllowsAny(session, bit) ==
  session.exists /\ (session.expires > 0 => now < session.expires)

AllowsForever(session, bit) == session.exists /\ bit \in session.mask

(* An end of zero would mean no end, but create_session never writes one.  *)
Allows(session, bit) ==
  /\ session.exists /\ bit \in session.mask
  /\ session.expires > 0 => now < session.expires

ClaimTaskSession(k, a, d) == Allows(sessions[a][d], ClaimBit) /\ ClaimTask(k, a)

SubmitWorkSession(k, a, d) ==
  /\ Allows(sessions[a][d], SubmitBit)
  /\ tasks[k].agent = a
  /\ SubmitWork(k)

SignedBy(d) ==
  \E k \in TaskIds, a \in Users : ClaimTaskSession(k, a, d) \/ SubmitWorkSession(k, a, d)

AgentNext ==
  \/ \E a \in Lenders, d \in Delegates, mask \in Masks, duration \in Durations :
       CreateSession(a, d, mask, duration)
  \/ \E a \in Lenders, d \in Delegates : RevokeSession(a, d)
  \/ Next /\ signer' = NoUser /\ UNCHANGED <<sessions, granted>>
  \/ \E d \in Delegates :
       SignedBy(d) /\ signer' = d /\ UNCHANGED <<sessions, granted>>

AgentSpec == AgentInit /\ [][AgentNext]_agentVars

(* No delegate is assumed to act either.                                   *)
AgentFairSpec == AgentSpec /\ Fairness

-----------------------------------------------------------------------------

(* Every account holds values of its type.                                 *)
AgentTypeOK ==
  /\ TypeOK
  /\ sessions \in [Users -> [Delegates -> Sessions]]
  /\ granted \in [Users -> [Delegates -> [Bits -> Nat]]]
  /\ signer \in Delegates \cup {NoUser}

(* A delegate takes a task for an agent, or hands one in, only while that  *)
(* agent's grant to this very delegate for that instruction lasts: not     *)
(* through the session of another agent or delegate, not with the other    *)
(* permission, and not after the grant ended or was revoked, however often *)
(* sessions were renewed before.                                           *)
Takes(k, a) == tasks[k].state # "Claimed" /\ tasks'[k].state = "Claimed" /\ tasks'[k].agent = a
Delivers(k, a) ==
  tasks[k].state # "Submitted" /\ tasks'[k].state = "Submitted" /\ tasks'[k].agent = a

PermissionsExpire ==
  [][signer' # NoUser =>
       \A k \in TaskIds, a \in Users :
         /\ Takes(k, a) => now < granted[a][signer'][ClaimBit]
         /\ Delivers(k, a) => now < granted[a][signer'][SubmitBit]]_agentVars

=============================================================================
