----------------------------- MODULE MCGxcToken -----------------------------
(* Values of the constants of GxcToken for the model checker.               *)
EXTENDS GxcToken

CONSTANTS tok, iss, ann, T1, T2

(* Everyone signs for itself; transactions have one signer, or the issuer   *)
(* and a holder together.                                                   *)
OwnName == [a \in Accounts |-> a]
OneSigner == {{a} : a \in Accounts \ {tok}}
OneOrTwoSigners == OneSigner \cup {{iss, a} : a \in Accounts \ {tok, iss}}

ByIss == [t \in Tokens |-> iss]
(* A second token of one symbol has another issuer.                         *)
ByTwo == [t \in Tokens |-> IF t = T1 THEN iss ELSE ann]
OneSymbol == [t \in Tokens |-> "SYM"]
OwnSymbol == [t \in Tokens |-> t]
TokenOrder == [t \in Tokens |-> IF t = T1 THEN 1 ELSE 2]
Holders == Accounts \ {tok}

Config(opts, delay) == [opts |-> opts, delay |-> delay, min |-> 0]
Recallable == {Config({"recallable"}, 1)}
Custodial == {Config({"recallable", "freezable"}, 1)}
Delayed == {Config({"recallable"}, d) : d \in {0, 2}}
Regulated == {Config({"recallable", "freezable", "whitelistable"}, 1)}
Plain == {Config({"mintable", "pausable"}, 0),
          [opts |-> {"recallable", "paused"}, delay |-> 1, min |-> 2]}
RecallableOrPlain == Recallable \cup Plain

(* The authorisation of the last transaction guards no action.              *)
NoAuth == <<stat, row, req, allowance, deferred, now>>

=============================================================================
