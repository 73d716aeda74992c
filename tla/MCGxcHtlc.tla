----------------------------- MODULE MCGxcHtlc -----------------------------
(* Values of the constants of GxcHtlc for the model checker.                *)
EXTENDS GxcHtlc

CONSTANTS tok, iss, ann, htl, T1, H1, H2

OwnName == [a \in Accounts |-> a]
OneSigner == {{a} : a \in {iss, ann}}
ByIss == [t \in Tokens |-> iss]
OwnSymbol == [t \in Tokens |-> t]
First == [t \in Tokens |-> 1]

(* ann locks H1; the issuer, who is also gxc.vault, locks H2.               *)
OwnerOf == [id \in Contracts |-> IF id = H1 THEN ann ELSE iss]
RecipientsOf == {ann, AnyHash}

Config(opts, delay) == [opts |-> opts, delay |-> delay, min |-> 0]
Custodial == Config({"mintable", "recallable"}, 1)
Freezable == Config({"recallable", "freezable"}, 1)
Listed == Config({"pausable", "whitelistable"}, 0)
CustodialOrListed == {Custodial, Freezable, Listed}

(* One millisecond of a clock that has a thousand microseconds a second.    *)
AMinimum == {[amount |-> 2, duration |-> 1]}

NoAuth == <<stat, row, req, allowance, deferred, now, htlcs, minimum>>

=============================================================================
