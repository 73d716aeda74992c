----------------------------- MODULE GxcBancor -----------------------------
(* The contract gxc.bancor, composed with the token contract and            *)
(* gxc.reserve.  It issues and takes back smart tokens against the system   *)
(* token, at a price that follows the supply S of the smart token and the   *)
(* balance C and weight of its connector: the code's weight is 1 / factor   *)
(* here, and C / S ^ factor is what an exact conversion leaves unchanged.   *)
(*                                                                          *)
(* Prices are roots and powers of doubles, cut to integers.  A double is    *)
(* any number near enough to the exact price, above it or below, which the  *)
(* model compares with powers of integers.                                  *)
(*                                                                          *)
(* A definition right above another with the same parameters is a faulty    *)
(* variant of it: PROJECT.json names the property that rules it out.        *)
EXTENDS GxcReserve

CONSTANTS
  Bancor,    \* the account gxc.bancor
  Smarts,    \* the smart tokens
  Factors,   \* what connect is called with: 1 / weight ...
  Balances,  \* ... and the opening balance
  Owners,    \* the accounts init and setowner are called with
  Rates,     \* the rates setcharge is called with, but for -1
  Fixed,     \* the fixed amounts it is called with; NoAmount for none
  NoAmount,
  Scales,    \* the powers of ten <<n, d>> that the digits of `to' make of a
             \* sale, to those of the connected token: <<1, 1>> for as many
  Traders,   \* the accounts that convert
  Wallets,   \* [account -> system tokens it holds at the start]
  Backings   \* how a smart token may have been minted: underlying 0 for none

ASSUME BancorAssumption ==
  /\ Bancor \in Accounts \ {Self, Reserve} /\ Basename[Bancor] = Bancor
  /\ Smarts \subseteq Derivatives
  /\ \A t \in Tokens : Issuer[t] # Bancor
  /\ Factors \subseteq Nat \ {0} /\ Balances \subseteq 1 .. MaxAmount
  /\ Owners \subseteq Accounts /\ Traders \subseteq Accounts \ {Bancor}
  /\ Rates \subseteq 0 .. 1000
  /\ Scales \subseteq (Nat \ {0}) \X (Nat \ {0})
  /\ NoAmount \notin Nat /\ Fixed \subseteq Nat \cup {NoAmount}
  /\ Wallets \in [Accounts -> Nat]
  /\ Backings \subseteq [derivative : 1 .. MaxAmount, underlying : Nat]
  /\ \A offer \in [Smarts -> Backings] :
       SumFunctionOnSet([t \in Smarts |-> offer[t].underlying], Smarts)
         + SumFunctionOnSet(Wallets, Accounts) <= MaxAmount

VARIABLES
  config,     \* singleton config: the owner and the default charge
  charges,    \* table charge: the charge of one smart token
  connectors, \* table connector
  trade       \* the last conversion (read by no action)

bancorTables == <<config, charges, connectors>>
chainVars == <<req, deferred, now, games>>
bancorVars == <<config, charges, connectors, trade, reserveVars>>

NoCharge == [exists |-> FALSE, rate |-> 0, fixed |-> 0]
NoConfig == [exists |-> FALSE, rate |-> 0, fixed |-> 0, owner |-> Bancor]
NoConnector == [exists |-> FALSE, balance |-> 0, factor |-> 1]
NoTrade == [by |-> Bancor, backed |-> FALSE, scale |-> <<1, 1>>]

-----------------------------------------------------------------------------
(* Charges.                                                                 *)

ChargeOf(t) == IF charges[t].exists THEN charges[t] ELSE config
IsExempted(c) == c.rate = 0 /\ c.fixed = 0
Parts(c) == 10000 \div c.rate

AtLeastOne(c, fee) == IF ~ IsExempted(c) /\ fee <= 0 THEN 1 ELSE fee

(* get_fee of an amount v that the fee is taken out of.                     *)
Fee(c, v) ==
  AtLeastOne(c, c.fixed + IF c.rate = 0 THEN 0
                          ELSE (v + Parts(c) - 1) \div Parts(c))

(* get_required_fee of an amount v that is left after the fee: the quotient *)
(* plus 0.9, cut.                                                           *)
RequiredFee(c, v) ==
  {AtLeastOne(c, c.fixed + share) :
     share \in IF c.rate = 0 THEN {0}
               ELSE {n - v : n \in Cut(10 * (v + c.fixed) * Parts(c) + 9 * (Parts(c) - 1),
                                       10 * (Parts(c) - 1))}}

-----------------------------------------------------------------------------
(* Rounding.  A price x is given by an operator Excess(n, m) that is        *)
(* positive, zero or negative as x is above, at or below n / m.             *)

(* The price itself, cut to a multiple of 1 / m.                            *)
Below(Excess(_, _), m, low, high) ==
  Max({low} \cup {n \in low .. high : Excess(n, m) >= 0})

(* The doubles computed for a price of at most top, in parts of 1 in        *)
(* Precision.  Where the price is what two numbers of size `scale' differ   *)
(* by, as in pow(..) - 1, it has the error of those.                        *)
Doubles(Excess(_, _), scale, top) ==
  LET k   == Below(Excess, 1, 0, top)
      x   == Below(Excess, Precision, k * Precision, (k + 1) * Precision)
      off == scale + k + 1
  IN  {i \in x - off .. x + 1 + off : i >= 0}
Whole(i) == i \div Precision

(* v - int64_t(v * (1 - int64_t(x) / x)): the part of v that is used when   *)
(* the double x, of i parts, is cut and what that lost is handed back.      *)
Part(v, i) ==
  LET lost == v * (i % Precision) * Precision
      off  == 2 * v * i
  IN  {v - refund : refund \in
         {r \in (lost - off) \div (i * Precision) .. (lost + off) \div (i * Precision) :
            r \in 0 .. v}}

(* What int64_t makes of the doubles: a number of units above 0, the part   *)
(* of v that is used for it and the part of the fee that is kept.           *)
Cuts(doubles, v, fee) ==
  {[units |-> Whole(i), used |-> Part(v, i), kept |-> Part(fee, i)] :
     i \in {i \in doubles : Whole(i) > 0}}

(* pow, for a natural exponent.                                             *)
Power(x, n) == x ^ n

Supply(t) == stat[t].supply
Balance(t) == connectors[t].balance
Rate(t) == reserves[t].rate

BoughtUnweighted(t, q, n, m) == Supply(t) * m * q - n * Balance(t)
(* S * ((1 + q / C) ^ weight - 1), what q system tokens buy.                *)
Bought(t, q, n, m) ==
  LET F == connectors[t].factor
  IN  Power(Supply(t) * m, F) * (Balance(t) + q) - Power(Supply(t) * m + n, F) * Balance(t)
MayBuy(t) == Supply(t) > 0 /\ Balance(t) > 0

(* C * (1 - (1 - v / S) ^ (1 / weight)), the price of v smart tokens.       *)
Price(t, v, n, m) ==
  LET F == connectors[t].factor
  IN  m * Balance(t) * (Power(Supply(t), F) - Power(Supply(t) - v, F)) - n * Power(Supply(t), F)
MayPrice(t, v) == Supply(t) > 0 \/ Price(t, v, 0, 1) < 0

(* The same at the rate of the reserve.                                     *)
BoughtAtRate(t, q, n, m) == m * q * Rate(t)[2] - n * Rate(t)[1]
PriceAtRate(t, v, scale, n, m) ==
  m * v * Rate(t)[1] * scale[1] - n * Rate(t)[2] * scale[2]

(* What a conversion exchanges, before the fee: smart tokens for system     *)
(* tokens, from the curve, or from the reserve where its rate is higher; of *)
(* two doubles that are near to equal, either may be.                       *)
AtCurve(t, core, smart) ==
  Reserved(t) => smart * Rate(t)[1] * (Precision - 1) <= core * Rate(t)[2] * Precision
AtReserve(t, core, smart) ==
  Reserved(t) /\ smart * Rate(t)[1] * (Precision + 1) >= core * Rate(t)[2] * Precision

-----------------------------------------------------------------------------
(* Inline transfers.                                                        *)

(* The fee goes on to the owner.                                            *)
PassedOn(L, fee) ==
  IF fee > 0 THEN Moved({Bancor}, Core, L, Bancor, config.owner, fee) ELSE {L}

IssuedOnly(t, to, v) ==
  IF v > 0 /\ v <= stat[t].max - Supply(t) THEN {AddBalance(row[t], Issuer[t], v)} ELSE {}
(* Smart tokens are issued to their issuer, who signs, and go on to `to'.   *)
Issued(t, to, v) ==
  LET issuer == Issuer[t]
  IN  IF /\ stat[t].exists /\ IsAccount(issuer)
         /\ v > 0 /\ v <= stat[t].max - Supply(t)
         /\ CanAdd({issuer}, t, row[t], issuer, MaySkip)
      THEN Moved({issuer}, t, AddBalance(row[t], issuer, v), issuer, to, v)
      ELSE {}

(* Retired from the balance of gxc.bancor.                                  *)
Retired(t, L, v) ==
  {SubBalance(L, Bancor, v, keep) :
     keep \in {k \in StackFlag : CanSubBalance(t, L, Bancor, v)}}

(* The sender pays core and the fee out of its allowance, and gets smart.   *)
PayForSmart(sender, t, core, fee, smart) ==
  /\ core + fee > 0
  /\ \E A \in Collected(Bancor, Core, sender, core + fee) :
     \E B \in PassedOn(A, fee), L \in Issued(t, sender, smart) :
       row' = [row EXCEPT ![Core] = B, ![t] = L]
  /\ allowance' = Spend(sender, Bancor, Core, core + fee)
  /\ stat' = [stat EXCEPT ![t].supply = @ + smart]
  /\ UNCHANGED reserves

(* The sender gives smart out of its allowance, and gets core less the fee. *)
GetPaidAll(A, sender, core, fee) ==
  UNION {PassedOn(B, fee) : B \in Moved({Bancor}, Core, A, Bancor, sender, core)}
GetPaid(A, sender, core, fee) ==
  UNION {PassedOn(B, fee) :
           B \in Moved({Bancor}, Core, A, Bancor, sender, core - fee)}

PayFromCurve(sender, t, core, fee, smart) ==
  /\ smart > 0 /\ core - fee > 0
  /\ \E M \in Collected(Bancor, t, sender, smart) : \E L \in Retired(t, M, smart) :
     \E B \in GetPaid(row[Core], sender, core, fee) :
       row' = [row EXCEPT ![Core] = B, ![t] = L]
  /\ allowance' = Spend(sender, Bancor, t, smart)
  /\ stat' = [stat EXCEPT ![t].supply = @ - smart]
  /\ UNCHANGED reserves

(* gxc.bancor approves gxc.reserve for what it has collected, and claims    *)
(* its share, which spends all of the approval.                             *)
PayFromReserve(sender, t, core, fee, smart) ==
  /\ smart > 0 /\ core - fee > 0
  /\ \E M \in Collected(Bancor, t, sender, smart), share \in Share(smart, Rate(t)) :
       /\ share > 0
       /\ LessReserved(t, smart, share)
       /\ \E N \in Moved({Reserve}, t, M, Bancor, Reserve, smart) :
          \E L \in Burnt(t, N, smart) :
          \E A \in Moved({Reserve}, Core, row[Core], Reserve, Bancor, share) :
          \E B \in GetPaid(A, sender, core, fee) :
            row' = [row EXCEPT ![Core] = B, ![t] = L]
  /\ allowance' = [Spend(sender, Bancor, t, smart) EXCEPT ![Bancor][Reserve][t] = 0]
  /\ BurnClaimed(t, smart)

-----------------------------------------------------------------------------
(* convert.  Either the given amount or the wanted amount is positive; of   *)
(* the other, only the token matters, and in a sale of a given amount only  *)
(* its number of digits: no check compares it with the connected token.     *)

Adjust(t, core) == connectors' = [connectors EXCEPT ![t].balance = @ + core]

MayConvert(signers, sender, t) ==
  /\ sender \in signers
  /\ config.exists /\ connectors[t].exists /\ stat[t].exists
OnPar == <<1, 1>>
Converts(sender, t, exact, backed, given, scale) ==
  /\ auth' = {sender}
  /\ trade' = [by |-> sender, smart |-> t, exact |-> exact, backed |-> backed,
               given |-> given, scale |-> scale]
  /\ UNCHANGED <<config, charges, chainVars>>

(* The fee shrinks with the part of the payment that is used.               *)
FeeKept(cut, fee, core, q) == IF core < q THEN cut.kept ELSE {fee}

BuyFor(signers, sender, t, v) ==
  LET fee == Fee(ChargeOf(t), v)
      q   == v - fee
      curve(n, m) == Bought(t, q, n, m)
      rate(n, m)  == BoughtAtRate(t, q, n, m)
  IN  /\ MayConvert(signers, sender, t) /\ MayBuy(t)
      /\ q > 0
      /\ \E cut \in Cuts(Doubles(curve, Supply(t), Supply(t) * q), q, fee) :
         \E core \in cut.used :
         \/ /\ Converts(sender, t, FALSE, FALSE, v, OnPar)
            /\ AtCurve(t, core, cut.units)
            /\ Adjust(t, core)
            /\ \E f \in FeeKept(cut, fee, core, q) :
                 PayForSmart(sender, t, core, f, cut.units)
         \/ /\ Converts(sender, t, FALSE, TRUE, v, OnPar)
            /\ AtReserve(t, core, cut.units)
            /\ \E out \in Cuts(Doubles(rate, 0, Rate(t)[2] * q), q, fee) :
               \E paid \in out.used :
                 /\ Adjust(t, paid)
                 /\ \E f \in FeeKept(out, fee, paid, q) :
                      PayForSmart(sender, t, paid, f, out.units)

(* The price of an exact amount is that of selling it.                      *)
BuyExactly(signers, sender, t, v) ==
  LET curve(n, m) == Price(t, v, n, m)
  IN  /\ MayConvert(signers, sender, t) /\ MayPrice(t, v)
      /\ \E core \in {Whole(i) : i \in Doubles(curve, Balance(t), MaxAmount * v)} :
         \/ /\ Converts(sender, t, TRUE, FALSE, v, OnPar)
            /\ AtCurve(t, core, v)
            /\ Adjust(t, core)
            /\ \E fee \in RequiredFee(ChargeOf(t), core) :
                 PayForSmart(sender, t, core, fee, v)
         \/ /\ Converts(sender, t, TRUE, TRUE, v, OnPar)
            /\ AtReserve(t, core, v)
            /\ \E paid \in Cut(v * Rate(t)[1], Rate(t)[2]) :
                 /\ Adjust(t, paid)
                 /\ \E fee \in RequiredFee(ChargeOf(t), paid) :
                      PayForSmart(sender, t, paid, fee, v)

(* A payment out of the reserve leaves the connector as it was, and counts  *)
(* its share in the digits that the sender named for it.                    *)
SellFor(signers, sender, t, v, scale) ==
  LET curve(n, m) == Price(t, v, n, m)
      rate(n, m)  == PriceAtRate(t, v, scale, n, m)
      doubles     == Doubles(curve, Balance(t), MaxAmount * v)
  IN  /\ MayConvert(signers, sender, t) /\ MayPrice(t, v)
      /\ \/ /\ Converts(sender, t, FALSE, FALSE, v, scale)
            /\ \E cut \in Cuts(doubles, v, 0) : \E smart \in cut.used :
                 /\ AtCurve(t, cut.units, v)
                 /\ Adjust(t, - cut.units)
                 /\ PayFromCurve(sender, t, cut.units, Fee(ChargeOf(t), cut.units), smart)
         \/ /\ Converts(sender, t, FALSE, TRUE, v, scale)
            /\ \E core \in {Whole(i) : i \in doubles} : AtReserve(t, core, v)
            /\ UNCHANGED connectors
            /\ \E out \in Cuts(Doubles(rate, 0, v * Rate(t)[1] * scale[1]), v, 0) :
               \E smart \in out.used :
                 PayFromReserve(sender, t, out.units, Fee(ChargeOf(t), out.units), smart)

(* The smart tokens for an exact payment are those it would buy.  A payment *)
(* out of the reserve covers the fee too.                                   *)
SellExactly(signers, sender, t, w) ==
  /\ MayConvert(signers, sender, t) /\ MayBuy(t)
  /\ \E fee \in RequiredFee(ChargeOf(t), w) :
       LET curve(n, m) == Bought(t, w + fee, n, m)
           rate(n, m)  == BoughtAtRate(t, w, n, m)
       IN  \E cut \in Cuts(Doubles(curve, Supply(t), Supply(t) * (w + fee)), w + fee, 0) :
           \E core \in cut.used :
             \/ /\ Converts(sender, t, TRUE, FALSE, w, OnPar)
                /\ AtCurve(t, core, cut.units)
                /\ Adjust(t, - core)
                /\ PayFromCurve(sender, t, core, fee, cut.units)
             \/ /\ Converts(sender, t, TRUE, TRUE, w, OnPar)
                /\ AtReserve(t, core, cut.units)
                /\ UNCHANGED connectors
                /\ \E out \in Cuts(Doubles(rate, 0, Rate(t)[2] * w), w, 0) :
                   \E paid \in out.used :
                     PayFromReserve(sender, t, paid, fee, out.units)

-----------------------------------------------------------------------------
(* Operations of gxc.bancor itself.                                         *)

BancorInitialise(owner) ==
  /\ ~ config.exists
  /\ config' = [NoConfig EXCEPT !.exists = TRUE, !.owner = owner]
  /\ UNCHANGED <<stat, row, reserves, allowance, charges, connectors>>

(* The owner pays the opening balance, out of its allowance.                *)
Connect(t, factor, v) ==
  /\ config.exists
  /\ ~ connectors[t].exists
  /\ connectors' =
       [connectors EXCEPT ![t] = [exists |-> TRUE, balance |-> v, factor |-> factor]]
  /\ \E L \in Collected(Bancor, Core, config.owner, v) :
       row' = [row EXCEPT ![Core] = L]
  /\ allowance' = Spend(config.owner, Bancor, Core, v)
  /\ UNCHANGED <<stat, reserves, config, charges>>

SetDefaultCharge(rate, fixed) ==
  /\ config.exists
  /\ config' = [config EXCEPT !.rate = rate,
                             !.fixed = IF fixed = NoAmount THEN @ ELSE fixed]
  /\ UNCHANGED <<stat, row, reserves, allowance, charges, connectors>>

SetSmartCharge(t, rate, fixed) ==
  /\ config.exists
  /\ charges' = [charges EXCEPT ![t] =
                   [exists |-> TRUE, rate |-> rate,
                    fixed |-> IF fixed = NoAmount THEN @.fixed ELSE fixed]]
  /\ UNCHANGED <<stat, row, reserves, allowance, config, connectors>>

RemoveSmartCharge(t) ==
  /\ config.exists /\ charges[t].exists
  /\ charges' = [charges EXCEPT ![t] = NoCharge]
  /\ UNCHANGED <<stat, row, reserves, allowance, config, connectors>>

SetOwner(owner) ==
  /\ config.exists
  /\ config' = [config EXCEPT !.owner = owner]
  /\ UNCHANGED <<stat, row, reserves, allowance, charges, connectors>>

ContractOperation ==
  /\ auth' = {Bancor} /\ trade' = NoTrade /\ UNCHANGED chainVars
  /\ \/ \E owner \in Owners : BancorInitialise(owner) \/ SetOwner(owner)
     \/ \E t \in Smarts, factor \in Factors, v \in Balances : Connect(t, factor, v)
     \/ \E rate \in Rates, fixed \in Fixed :
          \/ SetDefaultCharge(rate, fixed)
          \/ \E t \in Smarts : SetSmartCharge(t, rate, fixed)
     \/ \E t \in Smarts : RemoveSmartCharge(t)

-----------------------------------------------------------------------------
(* What happens to the tokens meanwhile: the issuer changes the supply, and *)
(* traders and owners approve gxc.bancor.                                   *)
MarketStep(s) ==
  \/ \E t \in Smarts, v \in Amounts :
       \/ \E a \in Traders : Issue(s, t, a, v) \/ Retire(s, t, a, v)
       \/ Burn(s, t, v)
  \/ \E v \in Limits :
       \/ \E a \in Traders \cup Owners : Approve(s, Core, a, Bancor, v)
       \/ \E t \in Smarts, a \in Traders : Approve(s, t, a, Bancor, v)

(* The smart tokens have been minted, with a reserve of system tokens or    *)
(* without; the system tokens in no wallet are with their issuer.           *)
Minting(offer) ==
  IF offer.underlying = 0
  THEN Minted(offer.derivative, [opts |-> {}, delay |-> 0, min |-> 0])
  ELSE Minted(offer.derivative, Default([delay |-> 0, min |-> 0]))

Backing(offer) ==
  IF offer.underlying = 0 THEN NoReserve
  ELSE [derivative |-> offer.derivative, underlying |-> offer.underlying,
        rate |-> <<offer.underlying, offer.derivative>>]

Holding(v) == IF v = 0 THEN NoRow ELSE [NoRow EXCEPT !.open = TRUE, !.bal = v]

BancorInit ==
  /\ \E offer \in [Smarts -> Backings] :
       LET underlying == SumFunctionOnSet([t \in Smarts |-> offer[t].underlying], Smarts)
           wallet == [Wallets EXCEPT ![Reserve] = underlying]
           rest == MaxAmount - SumFunctionOnSet(wallet, Accounts)
       IN  /\ stat = [t \in Tokens |-> CASE t = Core -> CoreStat
                                       [] t \in Smarts -> Minting(offer[t])
                                       [] OTHER -> NoStat]
           /\ row = [t \in Tokens |-> [a \in Accounts |->
                       IF t # Core THEN NoRow
                       ELSE Holding(wallet[a] + IF a = Issuer[Core] THEN rest ELSE 0)]]
           /\ reserves = [t \in Derivatives |->
                            IF t \in Smarts THEN Backing(offer[t]) ELSE NoReserve]
  /\ req = [o \in Accounts |-> [t \in Tokens |-> NoReq]]
  /\ allowance = [o \in Accounts |-> [s \in Accounts |-> [t \in Tokens |-> 0]]]
  /\ deferred = [o \in Accounts |-> None]
  /\ now = 0 /\ auth = {} /\ games = {}
  /\ config = NoConfig
  /\ charges = [t \in Smarts |-> NoCharge]
  /\ connectors = [t \in Smarts |-> NoConnector]
  /\ trade = NoTrade

BancorNext ==
  \/ ContractOperation
  \/ \E s \in Signers :
       \/ /\ auth' = s /\ trade' = NoTrade
          /\ MarketStep(s)
          /\ UNCHANGED <<bancorTables, reserves, games>>
       \/ \E a \in Traders, t \in Smarts, v \in Amounts :
            \/ BuyFor(s, a, t, v) \/ BuyExactly(s, a, t, v)
            \/ SellExactly(s, a, t, v)
            \/ \E scale \in Scales : SellFor(s, a, t, v, scale)

BancorSpec == BancorInit /\ [][BancorNext]_bancorVars

-----------------------------------------------------------------------------
(* Properties.                                                              *)

Converted(t) == trade' # NoTrade /\ trade'.smart = t

Surplus == row[Core][Bancor].bal
           - SumFunctionOnSet([t \in Smarts |-> connectors[t].balance], Smarts)

(* The connector balances are a book kept beside the tokens gxc.bancor      *)
(* holds: whatever the curve, the fee, the refund and the rounding, no step *)
(* books more than it moves.  Only a sale at the rate of the reserve may    *)
(* lose a unit, where the share comes out one short of the payment, and an  *)
(* exact one a second, where its refund does too; as long as doubles carry  *)
(* the amounts, and the sender names the payment in the digits of its own   *)
(* token: nothing bounds the loss otherwise.                                *)
SurplusIsKept ==
  [][~ trade'.backed \/ trade'.scale = OnPar =>
       Surplus' >= Surplus - (IF ~ trade'.backed THEN 0
                              ELSE IF trade'.exact THEN 2 ELSE 1)]_bancorVars

(* A conversion of a given amount never moves the price level in the        *)
(* trader's favour by as much as a unit of the balance: what is cut off     *)
(* stays in the connector or is not taken, and a double that is rounded up  *)
(* gains less than a unit, as long as doubles carry the amounts.  A         *)
(* connector that an exact sale has overdrawn keeps no price level.         *)
PriceLevelIsKept ==
  [][\A t \in Smarts : Converted(t) /\ ~ trade'.exact /\ Balance(t) >= 0 =>
       LET F == connectors[t].factor
       IN  (Balance(t)' + 1) * Power(Supply(t), F)
             > Balance(t) * Power(Supply(t)', F)]_bancorVars

(* A conversion moves the smart tokens of its sender alone, by what the     *)
(* supply changes: the issuer, whose authority it uses, ends with what it   *)
(* had.  System tokens are its own, those of gxc.bancor and gxc.reserve,    *)
(* and a fee for the owner.  The sender pays in one of the two tokens, out  *)
(* of an allowance and no more than it gave; an owner gets its fee back.    *)
ConversionIsPaid ==
  [][\A t \in Smarts : Converted(t) =>
       LET sender == trade'.by
           Left(u) == allowance[sender][Bancor][u] - allowance'[sender][Bancor][u]
       IN  /\ Got(t, sender) = Supply(t)' - Supply(t) /\ Got(t, sender) # 0
           /\ \A a \in Accounts \ {sender} : Got(t, a) = 0
           /\ \A a \in Accounts \ {sender, Bancor, Reserve} :
                /\ Got(Core, a) >= 0
                /\ Got(Core, a) > 0 => a = config.owner
           /\ \E paid \in {t, Core} :
                LET back == Left(paid) + Got(paid, sender)
                IN  /\ Left(paid) > 0 /\ back >= 0
                    /\ back > 0 => sender = config.owner
                    /\ ~ trade'.exact => Left(paid) <= trade'.given]_bancorVars

=============================================================================
