# A verification of the GXC contracts

This directory holds TLA+ models of the system contracts of the Game X Coin
chain (an EOSIO chain; the C++ contracts are under `src/contracts/`), the TLC
configurations that check them on small instances, and theorems checked by
TLAPS. `PROJECT.json` lists the components, the runs, the theorems, the source
lines each definition stands for, the hazards of the code and the property that
covers each, and for every property of a passing run a faulty variant of a
definition under which the property fails.

    tlasany GxcToken.tla
    tlc -workers 2 -config GxcToken_custody.cfg MCGxcToken
    tlapm GxcTokenClaims.tla

## 1. The system

A contract is a set of tables and a set of actions. A transaction carries
actions and the accounts that signed it; an action checks, changes tables, and
may send inline actions, which run in the same transaction, and deferred
transactions, which the chain runs later. Any failed `check` undoes the whole
transaction. So the interleaving is one of whole transactions; what is hard is
what happens *between* them, between the inline actions of one, and inside
objects that keep a cursor or a flag across calls.

| component | state | operations | properties that make it right |
|---|---|---|---|
| **gxc.token** | statistics and options of a token; rows (balance, deposit, options); withdrawal requests; allowances; one deferred `clrwithdraws` per owner | `mint`, `setopts`, `setacntopts`, `issue`, `retire`, `burn`, `transfer` (also recall and approved transfer), `deposit`, `pushwithdraw`, `popwithdraw`, `clrwithdraws`, `open`, `close`, `approve` | rows add up to the supply; the escrow covers the requests; nobody loses tokens without authority; a blocked account is inert; a withdrawal waits its delay, has a deferred transaction, and ends |
| **gxc.htlc** | locked contracts, least amount and duration | `newcontract`, `withdraw`, `refund`, `setconfig` | what is locked is held; a contract ends once and for the right account; an expired one can be refunded |
| **gxc.reserve** | what remains of each derivative token and of the system token behind it | `mint`, `claim` | the reserve of every token is held and covers all units that exist, but for the error of the doubles a share is computed with; a claim can be paid and moves only the claimant |
| **gxc.account** | nicknames and who pays for them; games | `setnick`, `payram4nick`, `setgame`, `seturi`, `connect`, `login` | a nickname is unique, for good, made of the characters that are allowed, and paid for by its user |
| **gxc.system** | users and RAM gift; RAM size, growth rate and market | `newaccount`, `genaccount`, `setalimits`, `setramgift`, `init`, `setram`, `setramrate`; `buyram`, `sellram`, `delegatebw`, `undelegatebw` and `refund` abort | users are named, their limits stay; the market has the RAM there is, added at the rate in force |
| **eosio.msig** | proposals; approvals, with times, in a new table and without in an old one; invalidations | `propose`, `approve`, `unapprove`, `cancel`, `exec`, `invalidate` | a transaction is sent on approvals that stand at that moment, once; an approval never outlives its proposal |
| **gxc.bancor** | the owner and a default charge; charges of single smart tokens; connectors with balance and weight | `init`, `connect`, `convert`, `setcharge`, `setowner` | connector balances are booked as tokens move; converting a given amount gains less than a unit; a conversion touches nobody but its parties |
| eosio.wrap, gxc.bios | none, an ABI hash | forward to the chain | none of their own |
| gxclib, eoslib | none of their own; the `multi_index` wrapper is a cursor on a row | `has_vauth`, the table wrapper, hash functions | the cursor stands on the row the handler means |
| utf8 (vendored) | none; an iterator into a text | decode, validate, repair, walk, convert, checked and unchecked | what is accepted is well-formed; nothing good is lost; both halves agree |
| xxHash, fast-hash (vendored) | a stream: length, accumulators, a buffer of one stripe | hash in one call; reset, update and digest of a stream | a hash depends on every byte, and not on how the input was cut or which processor computed it |

How they interact: gxc.htlc, gxc.reserve and gxc.bancor hold tokens of
gxc.token and move them by inline `transfer`s that they sign as sender, or as
receiver against an `allowance`; gxc.reserve is the way a derivative token is
minted, and asks gxc.account whether its issuer is a game; gxc.system sends
`setnick` and `payram4nick` to gxc.account inline. gxc.token calls itself
inline (`clrwithdraws`) and by deferred transaction. gxc.bancor issues and
retires smart tokens with the authority of their issuer, pays and is paid in the
system token, and turns to gxc.reserve where that pays more than the curve.
gxc.account decodes nicknames with utf8; eoslib offers the contracts the hashes
of xxHash. The behaviours that are
hard here: requests that mature while their owner, the issuer and the chain all
act; a second push that joins a pending request; issuer controls between the
steps of a withdrawal; cursors and flags of the class `account` that outlive a
change of its row; shares and prices rounded from doubles, twice in one
conversion; 32-bit products; texts that end in the middle of a character;
approvals and invalidations in one block; the two generations of the approvals table.

## 2. The modules

| module | what it is |
|---|---|
| `GxcToken` | gxc.token: every action that changes a table, the deferred transaction, the clock |
| `TokenLedger` | the abstract promise of gxc.token: one claim per account and token, changed under authority only |
| `GxcTokenProofs` | theorems about `GxcToken`: lemmas on `SumFunctionOnSet`, types and conservation, and what each operation of the class `account` does to the sums |
| `GxcTokenClaims` | theorems about who owns what: the escrow, authorised losses, the refinement of `TokenLedger`; then about blocked accounts, the delay of withdrawals and their schedule |
| `GxcHtlc` | gxc.htlc composed with all of `GxcToken`: every action, its deferred transactions, the clock |
| `GxcHtlcProofs` | theorems about `GxcHtlc`, from the lemmas of `GxcTokenClaims` |
| `GxcReserve` | gxc.reserve composed with `GxcToken` and the registry of games |
| `GxcReserveProofs` | theorems about `GxcReserve`, from the same lemmas |
| `EosioMsig` | eosio.msig: both approval tables, the deferred transaction, half-second clock |
| `MsigConsent` | the abstract promise of eosio.msig: who stands by a proposal, and when it may be sent |
| `EosioMsigProofs` | theorems about `EosioMsig`, the refinement of `MsigConsent` among them |
| `GxcRam` | RAM size, rate and market of gxc.system |
| `GxcBancor` | gxc.bancor composed with `GxcReserve`: the four forms of `convert`, on the curve and from the reserve, charges, owners, connectors |
| `GxcBancorProofs` | theorems about `GxcBancor`, from the lemmas of `GxcReserveProofs` and on doubles and their cuts |
| `Utf8` | the library utf8, and the check gxc.account makes of a nickname; operators only |
| `XxHash` | XXH32 and XXH64, in one call and as a stream, with symbolic arithmetic |
| `Xxh3` | XXH3 in 64 and 128 bits and fasthash: bytes read, keys used, lanes and products; operators only |
| `Libraries` | puts the three to work on every input within bounds, with the properties |
| `LibrariesProofs` | theorems about the streams of `XxHash`, the bytes and keys that `Xxh3` reads, the validation and the walks of `Utf8`, and nicknames |
| `GxcSystem` | account creation and limits of gxc.system with the nicknames of gxc.account, beside `GxcRam` |
| `GxcSystemProofs` | theorems about `GxcRam` and `GxcSystem` |
| `MC*` | values of the constants for TLC, shared by the configurations |

**From code to model.** A handler is one action: its guard is the conjunction
of its `check`s and of those its inline actions make, its primed variables what
it and they write. A table is a function to rows; an absent row is `NoRow`,
`NoReq`, `NoLock`, and reads as zero, which is what the code's wrapper returns
or creates. The class `account` of gxc.token becomes operators on the table `L`
of one token (`SubBalance`, `AddDeposit`, ...) that a handler nests in the
order of its calls; the flags `keep_balance` and `skip_valid`, which no
constructor initialises, are any value of `StackFlag` at each construction.
`deposit` is two actions: `DepositInRow` when the row survives `sub_balance`,
`DepositInNextRow` when it is erased and the cursor has moved on to the next
row of the owner (`eoslib/multi_index.hpp:110`). `Refresh` is
`refresh_schedule`: it either settles all due requests inline and schedules the
rest, or replaces the deferred transaction.
`auth` (who signed) is a history variable: no guard reads it, properties do;
where a configuration uses a `VIEW` without it, TLC still evaluates action
properties on the step that sets it, and no invariant reads it.

**Abstractions**, and why they keep the properties:

- An asset is its amount; each token has one symbol, and `Symbol` and `Order`
  keep what the tables' order depends on. Memos, RAM payers and events change
  nothing a property reads.
- Amounts go up to `MaxAmount`, the code's `asset::max_amount`; sums past it
  are refused as there.
- `DepositOwners` and `Signers` restrict who acts in a run. gxc.token signs only
  `mint`, and `burn` on behalf of gxc.reserve; that contract accounts (gxc.htlc,
  gxc.reserve) sign nothing but their inline actions is a property of their code.
- `Basename` maps a virtual account to the account that signs for it
  (`has_vauth`). In all runs so far names are accounts; the theorems hold for
  any `Basename`.
- The least withdrawal and deposit of the options' numeric values that the code
  reads from an unset field are zero, as the memory of a new contract instance is.
- Time is in whole seconds (`GxcToken`, `GxcHtlc`), half seconds (`EosioMsig`)
  or block slots (`GxcRam`). `TimeWidth` and `UintWidth` stand for 2^32.
- A hashlock is its only preimage; transaction digests are the transactions.
- A transaction of eosio.msig is its expiration and the sets of levels that the
  chain accepts for it.
- A rate is a pair of integers, and a double any number near enough to the exact
  one, above it or below: `Precision` says how near, as one part in so many. A
  double of the code is off by 2^-53, and a handful of operations on them, `pow`
  among them for weights down to about 1/8, by less than 2^-49, so that
  `Precision` stands for 2^49. What `int64_t` makes of it may therefore be one
  unit above the whole part of the exact value, or one below, and beyond
  `Precision` units more (`Cut`). In the runs `Precision` is 8 and 22, where doubles
  that round up occur with the smallest amounts.
- In `GxcBancor` a price is not computed. An operator says whether it is above, at
  or below n / m (`Bought`, `Price` and their likes, by comparing integer powers).
  `Doubles` are the numbers near it; where the code subtracts 1 from a power, they
  are as far off as the power is, and not as the small difference.
  `Whole` cuts one, and `Part` is what a conversion uses of a payment when what
  the cut lost is handed back (`connector.hpp:162`), computed from the same double.
  The weight of a connector is 1 / `factor`. Both tokens have one precision, so
  the powers of ten cancel, except in the one place where the power is taken from
  an argument that nothing checks: a sale of a given amount at the rate of the
  reserve divides by the digits of the caller's `to` (`gxc.bancor.cpp:146`).
  `Scales` has the factors this may be off by. Whether the reserve or the curve pays is open where
  their prices are too near for doubles to tell. The issuer's authority for the inline `transfer` of
  newly issued tokens is taken as given, as it would be delegated on the chain; a
  `transfer` from gxc.null issues, to gxc.null retires, as gxc.token treats it.
  Tokens that reach gxc.bancor by accident only add to its surplus and are left
  out, and so are direct claims by traders, which are in `GxcReserve`.
- Of gxc.token, `GxcReserve` takes the steps that mint, move, recall, burn and
  freeze derivative tokens or approve them, and the transfers of system tokens that
  reach gxc.reserve; `GxcBancor` those that issue, retire, burn and approve. `GxcHtlc` takes
  all of them.
- A text is a sequence of numbers and an iterator an index; an exception is a
  value with the output written before it. A sequence that reaches behind the
  text is undefined in the unchecked half: the verdict on a nickname is then a
  set with both outcomes.
- A hash is what goes into it: stripes in order, whether the accumulators are
  merged, the length that is added, and the words and bytes of the tail. Two
  hashes are equal here when the real functions compute the same expression.
- `GxcSystem` starts after `init` and with gxc.user and gxc.account running the
  same contract, as the tests set them up.

## 3. The runs

Passing runs; the seconds are of two workers on a small machine.

| run | question | bounds | s |
|---|---|---|---|
| `custody` | Do supply, escrow, authority and the withdrawal delay survive every mix of deposits, pushes, pops, recalls, transfers, approvals and repeated minting, with flags of any value, and does gxc.token implement `TokenLedger`? | one token of three option sets, issuer and holder, amounts 1 and 2 of at most 2, allowances 0 and 2, delay 1, three instants, one- and two-signer transactions, deferred transactions that get lost | 74 |
| `controls` | Is a frozen or unlisted account inert, whoever signs together, when flags start FALSE? | two accounts, one- and two-signer transactions | 76 |
| `schedule` | Is every request covered by the one deferred transaction its owner has? | one owner, two tokens of one symbol code from two issuers, delays 0 and 2, four instants; 228 828 states | 129 |
| `live` | Does every request that matures end? | one token, freezable and recallable, with fairness | 30 |
| `htlc_escrow` | Is what gxc.htlc locked there, ends it once, can it be refunded? | two contracts of an owner and of the vault, who is the issuer; a token with custody, with freezing, or with whitelist and pause; every action of gxc.token, two instants, amounts of 1 of at most 2; 126 484 states | 64 |
| `reserve_backed` | Does one balance cover the reserves of all derivative tokens, each reserve all units that exist but for the error of a double, and is each claim paid? | three units for four held by issuer and player, and a second token of one unit; doubles off by an eighth; 245 256 states | 100 |
| `bancor` | Does gxc.bancor book what it moves, does converting a given amount gain a unit, who is touched, does gxc.reserve stay backed? | one smart token of three units, without a reserve or with one of four; factor 2, charge none or the highest, two system tokens with the trader, allowances up to 2, doubles off by 1 / 22, a payment named in the right digits or in others; 37 880 states | 70 |
| `libraries` | Do utf8, nicknames, xxHash and fasthash do what a definition from outside the code says? | texts of 4 octets of 15 kinds, 3 units, 2 code points; streams of 130 bytes; one call of up to 2112 bytes; words of 6 bits | 37 |
| `msig_consent` | Does eosio.msig implement `MsigConsent`? | three levels of two accounts, plain and double lists, old rows, five half seconds, two transactions of different quorum and expiration | 74 |
| `system` | Are users named once, for good, at their own cost, with the limits they were created with? Do `setram` and `setramrate` keep size and market together and grow at the old rate? | two users, two nicknames, any pair of signers; three slots, products within range | 88 |

Why these bounds are enough to mean something. The amounts 1 and 2 with a
maximum of 2 tell part from whole: a row that is emptied and erased, a request
that is recalled in part, an allowance that is just short. Two owners are
enough for an operation to hit the wrong one, two tokens of one symbol for the
wrong row; no operation touches more than two accounts besides gxc.token. Three
instants separate a request before, at and after its time, and let a second
push postpone the first; the `schedule` run has a fourth so that two requests of
different delays overlap; its one owner has requests of two tokens, and two owners
with a deferred transaction each meet in `live`. In `GxcReserve` four for
three makes a share of one unit one and a third, and of two units two and two thirds, which a
double with an eighth to spare may round up to three; with three units the rounded
shares of a sequence of claims add up, and the second token
makes the common balance larger than any one reserve. In `EosioMsig` two
half seconds share one second, so expirations are tested on both halves; one
proposal slot, reused with either transaction, is enough because a handler
touches one proposal and `invals` none. Every disjunct of each next-state
relation fires in a passing run. In `bancor` the supply runs from none to the
maximum and the factor is 2, so that curves are steep: buying doubles the price and selling
everything empties the connector; 1000 is the highest rate and makes a fee of
every amount; the reserve's rate of four for three is not whole, so that doubles near it round
both ways, and both the
curve and the reserve are the better in some state. The second of `Scales`, <<2, 1>>, stands for one digit more:
ten times the share could not be paid in a run this small. One smart token suffices:
connectors share only the balance, and `SurplusIsKept` is about the sum. In
`libraries` the fifteen octets have one of each kind that decoding tells apart,
the trail octets on both sides of the limits behind E0, ED, F0 and F4, so that
overlong forms, surrogates and numbers above the last code point occur; four
octets are the longest sequence, or two short ones. 130 bytes are more than two
of the scaled lengths (`LengthWrap`, 2^32 in the code), so that the length falls
below that of a stripe twice; 2112 bytes are two blocks of XXH3 and a stripe;
six-bit words with halves of three bits (`HalfWord`) carry as 64-bit words with halves of 32
do. `libraries` stops where inputs reach their bounds, hence
`CHECK_DEADLOCK FALSE`. Symmetry is used over players and nicknames
only, in runs without liveness, and no constant distinguishes them there.

Runs that TLC is expected to refute. Each states what the repository says and
shows a state of the code that does not keep to it; `PROJECT.json` quotes the
lines under "findings".

| run | what it shows |
|---|---|
| `flags` | with `skip_valid` uninitialised, a frozen account may be debited |
| `nextrow` | depositing a whole balance lands in the row of a token that another issuer minted with the same symbol code |

The passing runs stay clear of these, each by a constant:
`controls` sets `StackFlag` to FALSE, which `flags` shows is
needed for `BlockedIsInert` (`custody` and `live` allow any value); tokens of one
symbol occur only in `nextrow` and in `schedule`, which does not claim
conservation; `DepositOwners` leaves out gxc.htlc in `htlc_escrow` and is empty
in `reserve_backed`, because `deposit` called for a contract account moves what
it holds out of reach of its transfers: with gxc.htlc among the
`DepositOwners`, `ExpiredIsRefundable` fails.

Further places where the code is at odds with what is written beside it, which
the models reproduce but no run is spent on: a delay past the range of 32-bit
seconds makes a request due at once (`TimeWidth` 4 and a delay of 3 in
`custody` show it; as they stand, the runs stay below the wrap, and so does the theorem); `deposit` needs no signature of the owner, though
`gxc.token/README.md:178` names it as required; `open` is called by anyone, for anyone; closing an empty
frozen row forgets that it was frozen; the product of slots and rate in
`update_ram_supply` wraps at 2^32 (`UintWidth` 4 in `system`, whose products otherwise stay below it); setcharge of
gxc.bancor says "per mille" of a rate that `10000 / rate` treats as ten-thousandths,
cut to a whole number first, so that 1000 and 910 charge the same tenth.

A sale of a given amount at the rate of the reserve takes the digits of the payment from the
caller's `to` (`gxc.bancor.cpp:146`): named with one digit more than the connected token has, the
payment is ten times the share that gxc.reserve hands over, and the rest comes out of
what gxc.bancor holds for its connectors. `SurplusIsKept` excepts such a sale by its
condition `scale = OnPar`, and fails in `bancor` without it; the other properties do
not except it. The bounds on rounding are for amounts that doubles carry, too: a reserve of more
than some 2^49 units may run out before its last claim, which is then paid from what
lies in the balance for other tokens, and with `Precision` 4 in place of 22 `bancor`
finds conversions that gain more than `PriceLevelIsKept` and `SurplusIsKept` allow.

In gxc.bancor, conversions for a *wanted* amount do not keep the price level,
which is why `PriceLevelIsKept` is about given amounts: buying an exact amount is
priced by the formula for selling it, which is lower unless the factor is 1; from
twice the supply on, for factor 2, that price is nothing and only the fee is paid;
selling for an exact amount is priced by the formula for buying, without bound,
and may take a connector's balance below zero at the expense of the others; from
then on nothing bounds the price level of that connector, and the property does not
speak of it. An exact sale to the reserve may cost gxc.bancor two units, one where
the refund of what rounding left comes out short and one where the share does,
which is why `SurplusIsKept` allows it two.
`get_required_fee` of a rate and a fixed amount counts the latter twice.

Virtual issuers: `gxc.reserve/README.md:3` says users can claim with their game
tokens, and `mint` lets a name that is no account issue them, signed by
`basename` of it. `claim` forwards the tokens to `basename(value.contract)`
(`gxc.reserve.cpp:62`), but `burn` takes them from the row of `value.contract`
itself (`token.cpp:144`), where nothing can be: no claim of such a token
succeeds. `Burnt` says so, and with a second issuer whose `Basename` is the first
and a player among the `Holders` of its token, `ClaimIsHonoured` fails within
seven steps. `reserve_backed` keeps to issuers that are accounts, as every run
does: `Basename` is the identity there.

Nicknames: a NUL inside ends the check before the string does, so what follows
is not looked at; malformed text is decoded as if it were well-formed, so that
overlong forms of allowed characters pass and a lead octet at the end reads past
the string. `NicknameIsDecoded` is therefore about well-formed names without NUL.
In utf8 itself, the exception for an invalid code point always carries 0, and
the unchecked iterator stays where it is on an octet that is no lead. In xxHash,
the branch of `XXH3_mul128` for 64-bit ARM returns a name it does not declare,
which goes unseen because compilers there take the branch before it.

**Faulty variants.** A definition that sits right above another with the same
parameters (`HeadLast` above `Head`, `RevokeNothing` above `Revoke`) is that
definition with a plausible mistake. It is used nowhere; replacing the body of
its neighbour by it makes the property `PROJECT.json` names fail, which shows
that the property depends on that piece of code.

## 4. Fairness

Only `live` assumes any: `WF(Tick)` and `WF(RunDeferred(o))`. Blocks are
produced whether or not anyone sends a transaction, so the clock advances up to
the bound; a block producer runs deferred transactions that are due. With
`DeferredExpires` FALSE they are not lost, which is what the chain promises
while it is not congested; the safety runs let them be lost. Nobody is obliged
to send a transaction: neither owner nor issuer has a fair action.

## 5. What is proved

TLAPS checks the theorems below for every value of the constants that the
modules' ASSUMEs and the named hypotheses allow: any finite set of accounts,
tokens and contracts, any options, amounts, delays, rates, widths and flag
values. A hypothesis excludes a case that the code gets wrong or leaves to its
surroundings, as listed below the table; the run that checks the same property
meets it.

| theorem | hypotheses | conclusion |
|---|---|---|
| `GxcTokenProofs!TypeCorrect` | | `Spec => []TypeOK` |
| `GxcTokenProofs!ConservationHolds` | `DistinctSymbols` | `Spec => []Conservation` |
| `GxcTokenClaims!EscrowHolds` | `EscrowIsApart` | `Spec => []EscrowSolvent` |
| `GxcTokenClaims!LossHolds` | `EscrowIsApart`, `DistinctSymbols` | `Spec => LossIsAuthorised` |
| `GxcTokenClaims!Refinement` | `EscrowIsApart`, `DistinctSymbols` | `Spec => ImplementsLedger` |
| `GxcTokenClaims!BlockedHolds` | `~ MaySkip`, `EscrowIsApart`, `DistinctSymbols` | `Spec => BlockedIsInert` |
| `GxcTokenClaims!WithdrawalHolds` | `NoWrap`, `EscrowIsApart`, `DistinctSymbols` | `Spec => WithdrawalWaits` |
| `GxcTokenClaims!ScheduleHolds` | `~ DeferredExpires`, `NoWhitelist`, `EscrowIsApart` | `Spec => []Scheduled` |
| `GxcHtlcProofs!EscrowIsBacked` | `HtlcIsApart` | `HtlcSpec => []EscrowBacked` |
| `GxcHtlcProofs!SettlesOnce` | `HtlcIsApart` | `HtlcSpec => SettledOnce` |
| `GxcHtlcProofs!HtlcConserves` | `HtlcIsApart` | `HtlcSpec => []Conservation` |
| `GxcHtlcProofs!RefundsAreNotStopped` | `HtlcIsApart` | always, an expired contract meets every condition of `Refund`, unless the issuer blocks it |
| `GxcReserveProofs!Backed` | | `ReserveSpec => []ReserveBacked` |
| `GxcReserveProofs!Full` | | `ReserveSpec => []FullyReserved` |
| `GxcReserveProofs!ClaimsArePaid` | `IssuersAreAccounts` | `ReserveSpec => ClaimIsPaid` |
| `GxcReserveProofs!ReserveConserves` | | `ReserveSpec => []Conservation` |
| `GxcReserveProofs!ClaimsAreNotStopped` | `IssuersAreAccounts`, `OffersAreCarried` | always, a holder meets every condition of `Claim`, unless the issuer freezes one of three accounts |
| `GxcBancorProofs!SurplusHolds` | `AmountsAreCarried` | `BancorSpec => SurplusIsKept` |
| `GxcBancorProofs!ConversionsArePaid` | `IssuersAreAccounts` | `BancorSpec => ConversionIsPaid` |
| `GxcBancorProofs!StaysBacked` | `ReserveIsApart` | `BancorSpec => []ReserveBacked` |
| `GxcBancorProofs!StaysFull` | `ReserveIsApart` | `BancorSpec => []FullyReserved` |
| `GxcBancorProofs!MarketConserves` | | `BancorSpec => []Conservation` |
| `EosioMsigProofs!MsigTypeCorrect` | | `Spec => []TypeOK` |
| `EosioMsigProofs!OneRowHolds` | | `Spec => []OneRow` |
| `EosioMsigProofs!SizesKept` | | `Spec => SameSize` |
| `EosioMsigProofs!Refinement` | | `Spec => ImplementsConsent` |
| `GxcSystemProofs!MarketHolds` | | `Spec => []MarketMatchesSize` |
| `GxcSystemProofs!RamNeverShrinks` | | `Spec => NeverShrinks` |
| `GxcSystemProofs!GrowthHolds` | `NoWrap` | `Spec => GrownAtOldRate` |
| `GxcSystemProofs!RamOfSystem` | | `SystemSpec => Spec` |
| `GxcSystemProofs!UsersAreNamed` | | `SystemSpec => []UserIsNamed` |
| `GxcSystemProofs!NicknamesLast` | | `SystemSpec => NickIsForGood` |
| `GxcSystemProofs!GiftsLast` | | `SystemSpec => UserKeepsGift` |
| `LibrariesProofs!StreamHashes` | `LengthIsWide` | `LibrariesSpec => []StreamIsOneShot` |
| `LibrariesProofs!ValidTextsAreWellFormed` | | `LibrariesSpec => []ValidIsWellFormed` |
| `LibrariesProofs!NicknamesAreDecoded` | | `LibrariesSpec => []NicknameIsDecoded` |
| `LibrariesProofs!WalksGoBack` | | `LibrariesSpec => []WalksAgree` |
| `LibrariesProofs!KeysStayApart` | | `LibrariesSpec => []KeysAreApart` |
| `LibrariesProofs!NoByteIsMissed` | | `LibrariesSpec => []EveryByteIsHashed` |
| `LibrariesProofs!ProcessorsDoTheSame` | | `LibrariesSpec => []ProcessorsAgree` |

**The hypotheses**, and what the code does without them:

- `DistinctSymbols`: no two tokens, of different issuers then, share a symbol.
  Without it a deposit can land in the row of another token; `nextrow` shows it.
- `EscrowIsApart`: gxc.token issues no token and nobody calls `deposit` in its
  name. `deposit` asks for no authority (`token.cpp:216`), so that anybody could
  move the escrow into gxc.token's own deposit, and an issuer may burn or recall
  its own holdings, which for gxc.token are everybody's requests.
- `HtlcIsApart`: the same for gxc.htlc, which signs nothing but its inline
  transfers. That it stays out of `DepositOwners` is what makes the theorem one
  about gxc.htlc, and not about strangers who deposit its balance.
- `ReserveIsApart`: gxc.reserve, which signs nothing but its inline actions, is no
  trader and no owner of gxc.bancor: either would pay with the balance that backs the
  reserves.
- `~ MaySkip`: the flag `skip_valid` of the class `account` starts cleared. No
  constructor sees to it; `flags` shows what follows.
- `NoWrap` of the token: the clock and every delay added to it fit the 32 bits
  of a `time_point_sec`. Otherwise a long delay is over at once.
- `~ DeferredExpires`: a block producer runs a due transaction before it
  expires. Nothing in the code renews one that was lost.
- `NoWhitelist`: no token can turn its whitelist on. Where one does, the deferred
  `clrwithdraws` of an owner that is not listed aborts and is gone, and requests
  of other tokens are left without.
- `IssuersAreAccounts`: the issuer of a derivative token signs for itself;
  section 3 tells what a virtual one meets.
- `OffersAreCarried`: no reserve is minted of as many units as `Precision`; beyond, a share
  that rounds up may be more than what is left.
- `AmountsAreCarried`: what is converted, and what it is worth at the rate of its reserve,
  stays well below `Precision`, so that a double tells a unit from the next. With 2^49 these
  are amounts below some 2^46, seven billion tokens of four digits.
- `NoWrap` of the RAM: the run is too short for a product of slots and rate to
  leave 32 bits, nine hours at the highest rate. The other two theorems about
  RAM hold past it.
- `LengthIsWide`: the length of XXH32 wraps at 32 or more; it does at 2^32. Were it
  narrower than two stripes, a stream could not tell that it had filled one.

**gxc.token.** `TypeOK` is not inductive alone: that an emptied row can be
erased without harm needs that absent rows are zero, and that additions stay
typed needs the types of the tables they come from. The invariant is `Sound`:
types of statistics, tables, requests, allowances and schedule, with supply and
maximum within `MaxAmount` (`Capped`). One lemma per handler proves that it
preserves `Sound`, and with it that the step is `Balanced`: the supply of every
token and what its rows hold change by the same amount. The sum over accounts is
`SumFunctionOnSet`, of which `GxcTokenProofs` first proves that replacing one value
changes the sum by the difference; the lemmas on `SubBalance`, `AddBalance` and
the others follow from it, and a handler composes those of the calls it makes.
The inner loop of `clrwithdraws` needs no induction, because it settles each
token in its own table. `Accounted` (`supply` equals `Held`) together with
`Sound` gives `Conservation`. The only step outside that pattern is
`DepositInNextRow`, which `DistinctSymbols` rules out.

`GxcTokenClaims` refines the sums to single rows: `Delta` says by how much an
operation changes the balance and the deposit of one account, `SameBut` that all
other rows stay. From the composition of these, each handler is shown to be
`Faithful`: what gxc.token holds beyond the requests does not shrink
(`FreeKept`), it comes to owe nobody anything itself (`SelfAside`), whoever owns
less is allowed to (`Authorised`), and, where the escrow is solvent, the step is one of
`TokenLedger`. `EscrowSolvent` alone is not inductive, since a request or an
allowance of gxc.token itself would let somebody draw on it; the invariant is
`Guarded`, which is `Sound`, `SelfAside` and `Solvent`. The refinement mapping is `Owns`:
balance, deposit and pending request of an account, less for gxc.token what it
holds for others. Deposits, pushes, pops and settlements are then `Internal` to
the abstract ledger, a transfer or a recall is a `Move`.

The rest of `GxcTokenClaims` adds, for each handler, that blocked accounts are `Inert`
and that a shrinking deposit with an unchanged claim is one that is `Waited` for.
`Scheduled` is carried along with `Guarded` and with `Unlisted`, that no option of a
token admits a whitelist: a due `clrwithdraws` must not fail, and it cannot,
because the escrow is solvent and nobody is unlisted.

**gxc.htlc and gxc.reserve** take part in the token contract's steps, so their
invariants contain `Sound` and cite the lemmas on handlers. `Escrow` adds to
`EscrowBacked` that gxc.htlc has approved nobody, without which a spender could
empty it. `Covered` has `ReserveBacked` and `FullyReserved` together: that no
unit is claimed twice (the supply shrinks with the reserve) and that a share exceeds
what the rate gives for it by no more than the error of a double (`ShareBelow`) make
`underlying * rate[2]` fall short of `derivative * rate[1]` by no more than one part
in `Precision` of what was claimed: the bound grows with each claim by just what
the claim may add (`Covers`). What a claim takes from the balance it takes from one reserve.

`Conservation` holds in each composition for the reason it holds in `GxcToken`, and
by the same lemmas: every handler, with all its inline actions, is `Balanced`,
which joins the invariant of the contract (`Escrow`, `Covered`, `Booked`) with
`Accounted`. What has to be shown is that each inline action starts from a `Sound`
state, which is the one the action before it left in the same transaction.

`RefundsAreNotStopped` and `ClaimsAreNotStopped` are what `ExpiredIsRefundable` and
`ClaimIsHonoured` say, without ENABLED: `RefundParts` and `ClaimParts` show that an
action is a condition on the state and one value for each variable, and the theorems
that the condition holds. That something is held makes its token exist and its
row open, because the rows add up to the supply (`HeldIsMinted`, from `Accounted`); what is locked or
reserved for one is part of the sum that the balance covers. A claim also needs that no
option stops the tokens on their way: `Unhindered`, an invariant of its own, says that
nothing minted through gxc.reserve can be paused or listed, and that the system token
has no options. Then only a frozen row refuses (`FreeTransfer`), and none of the
transfers changes what is frozen (`MovedPasses`). The share is there because what is
claimed exists, and what exists is covered but for less than a unit, where no reserve has
as many units as `Precision` (`ShareIsThere`).

**gxc.bancor** takes part in the steps of both. Its invariant `Booked` is `Sound`,
the types of charges, connectors and reserves, that an absent connector has
booked nothing, and that a token with a reserve has a positive rate, so that no price is
divided by zero. A conversion pays in one of three ways, and one lemma for each
(`Exchanged`, `Given`, `Spent`) says what `PayForSmart`, `PayFromCurve` and
`PayFromReserve` move between sender, gxc.bancor, owner and gxc.reserve, in
which table and with which allowance. Of the doubles of a price on the curve the surplus needs little: that a part of a payment is
between nothing and the whole (`PartWithin`), however the price was rounded, so that no more is
booked than is paid. At the rate of a reserve, gxc.bancor pays what one double says and
receives what another does: `SaleLoss` and `PurchaseLoss` bound the difference of the two by the
errors of both and by what the cuts lose, and `SaleCovered` and `PurchaseCovered` say that for
amounts that doubles carry it is less than two units, or three, and so at most the one or two of
`SurplusIsKept`. For that, `HighestIs` shows that `Below` is what it is said to be, by a
smallest counterexample, and `BuyNear` and `SaleNear` that a double of a rate is near the quotient.
Each handler is then `TradeSettled`: it has both properties, and is `Balanced`
for `MarketConserves`.

Its last conjunct, `Honoured`, says of gxc.reserve that it keeps what it holds or
burns some of a token and pays its share, which by the lemmas behind `Covered`
(`UpheldKeeps`, `ReleaseKeeps`) preserves both of its invariants: they hold
of the composition too, where claims come only through conversions. The
invariant there is `Backs`. The run `bancor` checks the first; the second it leaves to
`reserve_backed` and to the theorem, as it turns on the rounding of a share, which is
the same in both. In both it is `ShareBelow` that says what a claim may take too much.

**eosio.msig.** `TypeOK` and `OneRow` need each other: that a row of an absent
proposal is absent tells which table a handler writes. The refinement adds `Timely`: no
approval is of a later time than now, and what is absent is blank. So
`invalidate` voids all approvals of an account, those of the same second
included, and a new proposal starts with nobody behind it. `CountedIn` is whom a pair of
rows counts; one lemma per operation on a row (`Provide`, `Revoke`, an
invalidation) says how it changes, and `Standing` follows.

**gxc.system.** `Registered` has the types, that a nickname has one bearer, that
a name without one has no row, and that users are accounts. The third is what
makes `NickIsForGood` inductive: a name that gets a nickname had nobody to pay. `Dated`
says that a rate other than zero was set at a slot of the run, so that the 0
`last_ram_increase` starts from is multiplied by none.

**The streams of xxHash.** `Streamed` is the invariant: of an input of `n` bytes the
state has taken in all whole stripes in order, its buffer begins with the bytes
behind them, and its length and flag are those of `n`; it says nothing of the
rest of the buffer, where bytes of earlier pieces remain. A piece that does not
fill the buffer is appended (`PieceBuffered`). One that does (`PieceFills`)
completes the stripe that is under way (`BufferFills`), and what follows in the
piece begins with a stripe, so that `CutFrom` says where its stripes and its rest lie
in the whole input, and `StripesJoin` that the runs are one. `SameFinal` shows that
`finalize` reads only what the invariant fixes. The flag of XXH32 is right although
the length wraps, because two lengths below a stripe add up to less than
`LengthWrap`.

**The texts of utf8.** The invariant is `Typing`: what is typed as octets is a
sequence of octets. At one place of a text, `ValidateIs` says that `validate_next` takes exactly
one of the sequences of Table 3-7 of the Unicode standard, and with the length that its lead
octet names: that an overlong form, a surrogate or a point above the last one is
refused is decided by the octet behind the lead, because of the range the table leaves
it (`SoundOf1` to `SoundOf4`, one for each length). Over a whole text, both the walk of the
library and the definition it is compared with are recursive functions, which for the
prover are a CHOOSE: `RecursionExists` shows, by a smallest counterexample, that a
function exists which at each position depends on those beyond it, and everything
that follows uses its equation alone. From there, `FindsBoundary` says that the walk
stays on `Boundaries` and that it passes over none, so that it ends at the last.
The verdict on a nickname reads without checks, but on a well-formed one each of its
steps goes from one boundary to the next, and the code point of no sequence but
that of NUL is 0, which is where it ends: at the octet behind the string and
not beyond. No sequence begins with a trail octet, so that no boundary lies inside one
(`AlongBoundaries`) and the step back, which passes over trail octets, finds the
lead; the number of boundaries ahead, one less with each step, is what `distance` returns
and what `advance` uses up.

`NoByteIsMissed` and `KeysStayApart` rest on the weakest of invariants, that a length is a
natural number; the work is in lemmas on the branches. Pieces that follow on one another
flatten to a run of bytes (`FlattenRuns`), and the stripes and the three kinds of reads of
`finalize` follow on one another (`FollowOnJoins`, `ReadsFollowOn`), for XXH32 and XXH64
alike. In XXH3 the quotient by the width of a piece names the piece that holds a byte, from
the front or, past the middle, from the end (`MixedReadsAll`, `LongReadsAll`); the key
is taken in turn, a width of 4, 8 or 16 bytes at a time (`InTurn`), and the stripes of
a block begin 8 bytes apart in it, the fifteen at most of the last block and the one
that overlaps them included.

`ProcessorsDoTheSame` holds for every width of a word, 64 bits included: the model takes
as `HalfWord` the number of values of half a word, and the proof uses of it only that it
is positive. What the lanes read is a case for each of the eight lanes (`LanesAgree`).
For the two ways of multiplying, `WordsAre` splits the product into those of the halves;
`CarryIs` says that comparing the sum, cut to a word, with its first part tells whether
it wrapped, as `XXH3_mul128` does twice, and in the form with `umaal` no sum of
halves leaves its word. `FoldIs` then reads both words off the product.

**Only model-checked.**

- `MaturedIsSettled` (liveness under fairness): outside what the prover handles.
  So are `ExpiredIsRefundable` and `ClaimIsHonoured` as they stand, with ENABLED; two
  theorems prove the conditions of the actions in their place.
- `PriceLevelIsKept`: on the curve, a double is near a root or a power, which the run
  compares exactly. What its error adds to the level depends on the steepness of the
  curve, for which nothing bounds the exponent; the run has the exponent 2.
- `RepairIsSound`, `ConversionsAgree`: they compare recursive functions over
  a text with each other, and sequences put together from the parts of a text
  by folds. Each such fold is an induction over data for which no library
  theorem can be cited; the inductions in the proofs above are done by hand, through a
  smallest counterexample, for one function at a time.

## 6. Not modelled

- `delegate_bandwidth.cpp`, `exchange_state.cpp`, `buyram`, `sellram`: the entry
  points abort with "not activated action".
- `seturi`, `connect`, `login`, `rmvnick`, `regtoken`, events: they change
  nothing, abort, or write text nothing reads. `migrate` of gxc.reserve is
  compiled for the test network only.
- `setpriv`, `setparams`, `setabi`, `setcode`, gxc.bios, eosio.wrap: they hand
  values to the chain.
- The fixed part of a charge is a parameter of `GxcBancor` that its run leaves at
  none, and its rates are the two ends of the range. Weights that are not
  1 / n, and tokens of different precision.
- The issuer of the payment that is named in an exact sale: `gxc.bancor.cpp:176` to 212
  never compare `to.contract` with the connected token, so that a token of another issuer with
  the same symbol would be paid, were gxc.bancor to hold one; the model has none.
- utf8: the deprecated `is_bom`. xxHash: how a round mixes bits, byte order,
  canonical forms, creating, freeing and copying a stream, and the command line
  tool `xxhsum.c`, which is not part of the contracts. `starts_with` and
  `from_hex` of the libraries, which no contract calls.
- The chain itself: permissions and RAM accounting. gxc.token is privileged, so
  that its deferred transaction needs no permission of the owner.

## 7. Plan

Done in this order, the most used contract first: `GxcToken` with `TokenLedger`
and its proofs, `EosioMsig` with `MsigConsent`, `GxcHtlc`, `GxcReserve`,
`GxcRam`, `GxcSystem`, `GxcBancor`, then the libraries; then the theorems of
section 5, both refinements among them. What is left, in order:

1. Of the libraries, theorems on repair and conversions of utf8, from the lemmas
   on validation.
2. Virtual accounts: a run of `GxcToken` with a `Basename` that is not the
   identity, for recall and issue (the row of a fourth account makes `controls`
   too large at these bounds), and one of `GxcReserve` for claims (section 3).
   Charges of `GxcBancor` with a fixed amount.
