----------------------------- MODULE EosioMsig -----------------------------
(* The contract eosio.msig: proposed transactions, the approvals their      *)
(* levels give and take back, and invalidations, by which an account voids  *)
(* every approval it gave before.  Rows of the table approvals that an      *)
(* earlier version of the contract wrote, without times, are still served.  *)
(*                                                                          *)
(* Time is counted in half seconds, the distance of two blocks; expirations *)
(* are in whole seconds.                                                    *)
(*                                                                          *)
(* A definition right above another with the same parameters is a faulty    *)
(* variant of it: PROJECT.json names the property that rules it out.        *)
EXTENDS Integers, Sequences

CONSTANTS
  Accounts,
  Levels,      \* the permission levels that approve
  Actor,       \* [Levels -> Accounts]
  Proposals,   \* the (proposer, name) pairs proposals are stored under
  Proposer,    \* [Proposals -> Accounts]
  Trxs,        \* transactions
  Expiry,      \* [Trxs -> Nat], in seconds
  Quorums,     \* [Trxs -> sets of sets of levels the chain accepts]
  Lists,       \* the lists of levels proposals are made with, as bags
  MaxTime      \* bound on the clock of a run

NoTrx == "no transaction"
Never == -1
Nothing == [l \in Levels |-> <<>>]
NoRow == [exists |-> FALSE, requested |-> [l \in Levels |-> 0], provided |-> Nothing]

ASSUME MsigAssumption ==
  /\ Actor \in [Levels -> Accounts]
  /\ Proposer \in [Proposals -> Accounts]
  /\ NoTrx \notin Trxs
  /\ Expiry \in [Trxs -> Nat]
  /\ Quorums \in [Trxs -> SUBSET SUBSET Levels]
  /\ Lists \subseteq [Levels -> Nat]
  /\ MaxTime \in Nat

VARIABLES
  proposals,     \* table proposal: the transaction, or NoTrx
  approvals,     \* table approvals2: the rows with times
  old_approvals, \* table approvals: rows of the earlier version
  invals,        \* table invals: last_invalidation_time, or Never
  deferred,      \* what exec sent and the chain has not run yet, or NoTrx
  now,           \* current_time_point
  auth           \* the account that signed the last transaction (read by none)

vars == <<proposals, approvals, old_approvals, invals, deferred, now, auth>>

-----------------------------------------------------------------------------
(* time_point_sec(current_time_point()) drops the half second.              *)
Seconds == now \div 2

(* check_transaction_authorization: the levels satisfy the transaction.     *)
Authorised(x, levels) == \E q \in Quorums[x] : q \subseteq levels

(* The rows keep, for each level, how often it is still requested and the   *)
(* times of its approvals, oldest first.                                    *)
Provide(r, l, time) ==
  [r EXCEPT !.requested[l] = @ - 1, !.provided[l] = Append(@, time)]
RevokeNothing(r, l) == [r EXCEPT !.requested[l] = @ + 1]
Revoke(r, l) ==
  [r EXCEPT !.requested[l] = @ + 1, !.provided[l] = Tail(@)]

ListedOnce(r, l) == r.exists
Listed(r, l) == r.exists /\ r.requested[l] > 0
Given(r, l) == r.exists /\ r.provided[l] # <<>>

(* An approval counts while its actor has not invalidated since: at the     *)
(* time of an invalidation nothing counts.  Approvals without a time are    *)
(* void after any invalidation.                                             *)
AfterOrAt(l, time) == invals[Actor[l]] <= time
After(l, time) == invals[Actor[l]] < time

Counted(p) ==
  IF approvals[p].exists
  THEN {l \in Levels : \E i \in DOMAIN approvals[p].provided[l] :
                         After(l, approvals[p].provided[l][i])}
  ELSE {l \in Levels : old_approvals[p].provided[l] # <<>> /\ invals[Actor[l]] = Never}

(* The approvals of the proposal, in whichever table holds them.            *)
KeepApprovals(p) == UNCHANGED <<approvals, old_approvals>>
DropApprovals(p) ==
  \/ /\ approvals[p].exists
     /\ approvals' = [approvals EXCEPT ![p] = NoRow]
     /\ UNCHANGED old_approvals
  \/ /\ ~ approvals[p].exists /\ old_approvals[p].exists
     /\ old_approvals' = [old_approvals EXCEPT ![p] = NoRow]
     /\ UNCHANGED approvals

-----------------------------------------------------------------------------
(* The list must satisfy the transaction at once.                           *)
Propose(p, list, x) ==
  /\ auth' = Proposer[p]
  /\ Expiry[x] >= Seconds
  /\ proposals[p] = NoTrx
  /\ Authorised(x, {l \in Levels : list[l] > 0})
  /\ ~ approvals[p].exists
  /\ proposals' = [proposals EXCEPT ![p] = x]
  /\ approvals' = [approvals EXCEPT ![p] =
                     [exists |-> TRUE, requested |-> list, provided |-> Nothing]]
  /\ UNCHANGED <<old_approvals, invals, deferred, now>>

(* hash is the transaction whose digest the approver sent, or NoTrx.        *)
Approve(p, l, hash) ==
  /\ auth' = Actor[l]
  /\ hash # NoTrx => proposals[p] = hash
  /\ \/ /\ Listed(approvals[p], l)
        /\ approvals' = [approvals EXCEPT ![p] = Provide(@, l, now)]
        /\ UNCHANGED old_approvals
     \/ /\ ~ approvals[p].exists /\ Listed(old_approvals[p], l)
        /\ old_approvals' = [old_approvals EXCEPT ![p] = Provide(@, l, 0)]
        /\ UNCHANGED approvals
  /\ UNCHANGED <<proposals, invals, deferred, now>>

Unapprove(p, l) ==
  /\ auth' = Actor[l]
  /\ \/ /\ Given(approvals[p], l)
        /\ approvals' = [approvals EXCEPT ![p] = Revoke(@, l)]
        /\ UNCHANGED old_approvals
     \/ /\ ~ approvals[p].exists /\ Given(old_approvals[p], l)
        /\ old_approvals' = [old_approvals EXCEPT ![p] = Revoke(@, l)]
        /\ UNCHANGED approvals
  /\ UNCHANGED <<proposals, invals, deferred, now>>

Cancel(p, canceler) ==
  /\ auth' = canceler
  /\ proposals[p] # NoTrx
  /\ canceler # Proposer[p] => Expiry[proposals[p]] < Seconds
  /\ proposals' = [proposals EXCEPT ![p] = NoTrx]
  /\ DropApprovals(p)
  /\ UNCHANGED <<invals, deferred, now>>

(* The deferred transaction takes the name of the proposal and replaces     *)
(* none that is still waiting.                                              *)
Exec(p, executer) ==
  /\ auth' = executer
  /\ proposals[p] # NoTrx
  /\ Expiry[proposals[p]] >= Seconds
  /\ Authorised(proposals[p], Counted(p))
  /\ deferred[p] = NoTrx
  /\ deferred' = [deferred EXCEPT ![p] = proposals[p]]
  /\ proposals' = [proposals EXCEPT ![p] = NoTrx]
  /\ DropApprovals(p)
  /\ UNCHANGED <<invals, now>>

Invalidate(a) ==
  /\ auth' = a
  /\ invals' = [invals EXCEPT ![a] = now]
  /\ UNCHANGED <<proposals, approvals, old_approvals, deferred, now>>

-----------------------------------------------------------------------------
(* The chain: half a second passes, and a deferred transaction runs, fails  *)
(* or expires.                                                              *)
Tick ==
  /\ now < MaxTime
  /\ now' = now + 1
  /\ UNCHANGED <<proposals, approvals, old_approvals, invals, deferred, auth>>

Deliver(p) ==
  /\ deferred[p] # NoTrx
  /\ deferred' = [deferred EXCEPT ![p] = NoTrx]
  /\ UNCHANGED <<proposals, approvals, old_approvals, invals, now, auth>>

(* The earlier version may have left proposals behind, with some of the     *)
(* approvals given.                                                         *)
Left(x, list, given) ==
  [exists    |-> TRUE,
   requested |-> [l \in Levels |-> IF l \in given THEN list[l] - 1 ELSE list[l]],
   provided  |-> [l \in Levels |-> IF l \in given THEN <<0>> ELSE <<>>]]

Legacy ==
  {<<NoTrx, NoRow>>} \cup
  {<<x, Left(x, list, given)>> : x \in Trxs, list \in Lists, given \in SUBSET Levels}

Init ==
  /\ \E old \in [Proposals -> Legacy] :
       /\ \A p \in Proposals, l \in Levels : old[p][2].requested[l] >= 0
       /\ proposals = [p \in Proposals |-> old[p][1]]
       /\ old_approvals = [p \in Proposals |-> old[p][2]]
  /\ approvals = [p \in Proposals |-> NoRow]
  /\ invals = [a \in Accounts |-> Never]
  /\ deferred = [p \in Proposals |-> NoTrx]
  /\ now = 0
  /\ auth \in Accounts

Next ==
  \/ \E p \in Proposals :
       \/ \E list \in Lists, x \in Trxs : Propose(p, list, x)
       \/ \E l \in Levels : Unapprove(p, l)
       \/ \E l \in Levels, hash \in Trxs \cup {NoTrx} : Approve(p, l, hash)
       \/ \E a \in Accounts : Cancel(p, a) \/ Exec(p, a)
       \/ Deliver(p)
  \/ \E a \in Accounts : Invalidate(a)
  \/ Tick

Spec == Init /\ [][Next]_vars

-----------------------------------------------------------------------------
(* Properties.                                                              *)

Row == [exists : BOOLEAN, requested : [Levels -> Nat],
        provided : [Levels -> Seq(Nat)]]

(* Types of the tables: a list never asks a level less than no times.       *)
TypeOK ==
  /\ proposals \in [Proposals -> Trxs \cup {NoTrx}]
  /\ approvals \in [Proposals -> Row] /\ old_approvals \in [Proposals -> Row]
  /\ invals \in [Accounts -> Nat \cup {Never}]
  /\ deferred \in [Proposals -> Trxs \cup {NoTrx}]
  /\ now \in 0 .. MaxTime
  /\ auth \in Accounts

(* A proposal has its approvals in exactly one of the two tables, and no    *)
(* approvals outlive their proposal to count for the next of its name.      *)
OneRow ==
  \A p \in Proposals :
    /\ ~ (approvals[p].exists /\ old_approvals[p].exists)
    /\ proposals[p] # NoTrx <=> approvals[p].exists \/ old_approvals[p].exists

Slots(r, l) == r.requested[l] + Len(r.provided[l])

(* approve and unapprove move a level between the lists of a row and never  *)
(* change how often it is on them: the size of the row stays the same, as   *)
(* the proposer who pays for it was told.                                   *)
SameSize ==
  [][\A p \in Proposals, l \in Levels :
       /\ approvals[p].exists /\ approvals'[p].exists =>
            Slots(approvals'[p], l) = Slots(approvals[p], l)
       /\ old_approvals[p].exists /\ old_approvals'[p].exists =>
            Slots(old_approvals'[p], l) = Slots(old_approvals[p], l)]_vars

(* The contract implements MsigConsent: the levels that stand by a proposal *)
(* are those exec would count now.  An approval counts from when its level  *)
(* gives it, not before its account's last invalidation, only for the       *)
(* proposal it was given to, and a transaction is sent on those alone.      *)
Consent == INSTANCE MsigConsent WITH
  pending  <- proposals,
  standing <- [p \in Proposals |-> Counted(p)],
  sent     <- deferred,
  voided   <- invals,
  seconds  <- Seconds

ImplementsConsent == Consent!Spec

=============================================================================
