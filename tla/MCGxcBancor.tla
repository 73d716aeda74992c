---------------------------- MODULE MCGxcBancor ----------------------------
(* Values of the constants of GxcBancor for the model checker.              *)
EXTENDS GxcBancor

CONSTANTS tok, gxc, rsv, bnc, own, iss, ann, GXC, T1, none

OwnName == [a \in Accounts |-> a]
OneSigner == {{a} : a \in {iss, ann, own}}
IssuerOf == [t \in Tokens |-> IF t = GXC THEN gxc ELSE iss]
OwnSymbol == [t \in Tokens |-> t]
First == [t \in Tokens |-> 1]
NoOffers == [t \in Derivatives |-> {}]
NoHolders == [t \in Derivatives |-> {}]

WalletOf == [a \in Accounts |-> CASE a = ann -> 2 [] a = own -> 1 [] OTHER -> 0]

(* Three units without a reserve, or with one of four.                      *)
BackingsOf == {[derivative |-> 3, underlying |-> 0], [derivative |-> 3, underlying |-> 4]}

(* As many digits as the connected token has, or one more or less: two      *)
(* stands for ten, which no payment of the run could cover.                 *)
ScalesOf == {<<1, 1>>, <<2, 1>>}

NoAuth == <<stat, row, allowance, config, charges, connectors, reserves>>

=============================================================================
