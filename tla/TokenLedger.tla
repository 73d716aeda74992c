---------------------------- MODULE TokenLedger ----------------------------
(* What the token contract promises its users, without rows, custody,       *)
(* requests or time: every account has one claim on a token, claims add up  *)
(* to the supply, and a claim falls only under the authority of its holder, *)
(* of a spender its holder approved, or of the issuer.                      *)
EXTENDS Integers

CONSTANTS Accounts, Tokens, Issuer, Basename, Self, MaxAmount

VARIABLES supply, max, claim, auth

vars == <<supply, max, claim, auth>>

Init ==
  /\ supply = [t \in Tokens |-> 0]
  /\ max = [t \in Tokens |-> 0]
  /\ claim = [t \in Tokens |-> [a \in Accounts |-> 0]]
  /\ auth = {}

ByIssuer(t) == Basename[Issuer[t]] \in auth'

Mint(t, v) ==
  /\ auth' = {Self}
  /\ max[t] + v <= MaxAmount
  /\ max' = [max EXCEPT ![t] = @ + v]
  /\ UNCHANGED <<supply, claim>>

Issue(t, a, v) ==
  /\ ByIssuer(t)
  /\ supply[t] + v <= max[t]
  /\ supply' = [supply EXCEPT ![t] = @ + v]
  /\ claim' = [claim EXCEPT ![t][a] = @ + v]
  /\ UNCHANGED max

Retire(t, a, v) ==
  /\ a \in auth' \/ ByIssuer(t)
  /\ claim[t][a] >= v
  /\ supply' = [supply EXCEPT ![t] = @ - v]
  /\ claim' = [claim EXCEPT ![t][a] = @ - v]
  /\ UNCHANGED max

Burn(t, v) ==
  /\ ByIssuer(t) \/ Self \in auth'
  /\ claim[t][Issuer[t]] >= v
  /\ supply' = [supply EXCEPT ![t] = @ - v]
  /\ max' = [max EXCEPT ![t] = @ - v]
  /\ claim' = [claim EXCEPT ![t][Issuer[t]] = @ - v]

Move(t, a, b, v) ==
  /\ a # b
  /\ {a, b, Basename[Issuer[t]]} \cap auth' # {}
  /\ claim[t][a] >= v
  /\ claim' = [claim EXCEPT ![t][a] = @ - v, ![t][b] = @ + v]
  /\ UNCHANGED <<supply, max>>

(* Everything else the contract does leaves supplies and claims alone.      *)
Internal == UNCHANGED <<supply, max, claim>>

Next ==
  \/ Internal
  \/ \E t \in Tokens, v \in 1 .. MaxAmount :
       \/ Mint(t, v)
       \/ Burn(t, v)
       \/ \E a \in Accounts : Issue(t, a, v) \/ Retire(t, a, v)
       \/ \E a, b \in Accounts : Move(t, a, b, v)

Spec == Init /\ [][Next]_vars

=============================================================================
