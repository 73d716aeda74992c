---------------------------- MODULE MsigConsent ----------------------------
(* What eosio.msig promises: a proposed transaction is sent only while the  *)
(* levels that stand by it satisfy it.  A level stands by a proposal from   *)
(* its own approval on, until it revokes, its account invalidates, or the   *)
(* proposal is gone; nobody else moves it.                                  *)
EXTENDS Integers

CONSTANTS Accounts, Levels, Actor, Proposals, Proposer, Trxs, NoTrx, Expiry,
          Quorums

VARIABLES
  pending,   \* the transaction proposed, or NoTrx
  standing,  \* the levels that stand by it
  sent,      \* the transaction sent and not yet delivered, or NoTrx
  voided,    \* when an account last invalidated its approvals
  seconds,
  auth       \* the account that signed the last transaction

vars == <<pending, standing, sent, voided, seconds, auth>>

Init ==
  /\ pending \in [Proposals -> Trxs \cup {NoTrx}]
  /\ standing \in [Proposals -> SUBSET Levels]
  /\ sent = [p \in Proposals |-> NoTrx]
  /\ DOMAIN voided = Accounts
  /\ seconds = 0
  /\ auth \in Accounts

Propose(p, x) ==
  /\ auth' = Proposer[p]
  /\ pending[p] = NoTrx /\ Expiry[x] >= seconds
  /\ pending' = [pending EXCEPT ![p] = x]
  /\ UNCHANGED <<standing, sent, voided, seconds>>

Stand(p, l) ==
  /\ auth' = Actor[l]
  /\ pending[p] # NoTrx
  /\ standing' = [standing EXCEPT ![p] = @ \cup {l}]
  /\ UNCHANGED <<pending, sent, voided, seconds>>

Withdraw(p, l) ==
  /\ auth' = Actor[l]
  /\ standing' = [standing EXCEPT ![p] = @ \ {l}]
  /\ UNCHANGED <<pending, sent, voided, seconds>>

Void(a) ==
  /\ auth' = a
  /\ standing' = [p \in Proposals |-> {l \in standing[p] : Actor[l] # a}]
  /\ \A b \in Accounts \ {a} : voided'[b] = voided[b]
  /\ UNCHANGED <<pending, sent, seconds>>

Close(p) ==
  /\ pending' = [pending EXCEPT ![p] = NoTrx]
  /\ standing' = [standing EXCEPT ![p] = {}]
  /\ UNCHANGED <<voided, seconds>>

Cancel(p) ==
  /\ pending[p] # NoTrx
  /\ auth' = Proposer[p] \/ Expiry[pending[p]] < seconds
  /\ Close(p)
  /\ UNCHANGED sent

Send(p) ==
  /\ pending[p] # NoTrx /\ Expiry[pending[p]] >= seconds
  /\ \E q \in Quorums[pending[p]] : q \subseteq standing[p]
  /\ sent[p] = NoTrx
  /\ sent' = [sent EXCEPT ![p] = pending[p]]
  /\ Close(p)

Deliver(p) ==
  /\ sent' = [sent EXCEPT ![p] = NoTrx]
  /\ UNCHANGED <<pending, standing, voided, seconds, auth>>

Tick == seconds' = seconds + 1 /\ UNCHANGED <<pending, standing, sent, voided, auth>>

(* An approval that adds nothing, a second one that stays after the first   *)
(* is revoked, or an invalidation again at the same moment.                 *)
Internal == auth' \in Accounts /\ UNCHANGED <<pending, standing, sent, voided, seconds>>

Next ==
  \/ Internal \/ Tick
  \/ \E a \in Accounts : Void(a)
  \/ \E p \in Proposals :
       \/ Cancel(p) \/ Send(p) \/ Deliver(p)
       \/ \E x \in Trxs : Propose(p, x)
       \/ \E l \in Levels : Stand(p, l) \/ Withdraw(p, l)

Spec == Init /\ [][Next]_vars

=============================================================================
