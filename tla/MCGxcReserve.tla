---------------------------- MODULE MCGxcReserve ----------------------------
(* Values of the constants of GxcReserve for the model checker.             *)
EXTENDS GxcReserve

CONSTANTS tok, gxc, rsv, iss, ann, GXC, T1, T2

OwnName == [a \in Accounts |-> a]
OneSigner == {{a} : a \in {iss, ann}}
IssuerOf == [t \in Tokens |-> IF t = GXC THEN gxc ELSE iss]
OwnSymbol == [t \in Tokens |-> t]
First == [t \in Tokens |-> 1]

(* T1, three for four, passes between the issuer and ann: one unit is worth *)
(* one and a third, two are worth two and two thirds, which doubles with an *)
(* eighth to spare may round up to three.  T2, one for one, is its issuer's *)
(* and shares what gxc.reserve holds with T1.                               *)
OffersOf == [t \in Derivatives |->
               IF t = T1 THEN {[derivative |-> 3, underlying |-> 4]}
                         ELSE {[derivative |-> 1, underlying |-> 1]}]
HoldersOf == [t \in Derivatives |-> IF t = T1 THEN {iss, ann, rsv} ELSE {iss}]
NoDelay == {[delay |-> 0, min |-> 0]}

NoAuth == <<stat, row, req, allowance, deferred, now, reserves, games>>

=============================================================================
