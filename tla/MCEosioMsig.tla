---------------------------- MODULE MCEosioMsig ----------------------------
(* Values of the constants of EosioMsig for the model checker.              *)
EXTENDS EosioMsig

CONSTANTS ann, bob, eve, annActive, annOwner, bobActive, P1, X, Y

(* ann approves with two permissions, bob with one; eve proposes.           *)
ActorOf == [l \in Levels |-> IF l = bobActive THEN bob ELSE ann]
ByEve == [p \in Proposals |-> eve]

(* X needs both of them and expires after a second, Y one of them, at once. *)
ExpiryOf == [x \in Trxs |-> IF x = X THEN 1 ELSE 0]
QuorumsOf == [x \in Trxs |-> IF x = X THEN {{annActive, bobActive}}
                             ELSE {{annActive}, {bobActive}}]

ListOf(list) == [l \in Levels |-> IF l \in DOMAIN list THEN list[l] ELSE 0]
Pair == ListOf([l \in {annActive, bobActive} |-> 1])
Everyone == ListOf([l \in Levels |-> 1])
Twice == ListOf([l \in {annActive} |-> 2])
SomeLists == {Pair, Twice, Everyone}

NoAuth == <<proposals, approvals, old_approvals, invals, deferred, now>>

=============================================================================
