-------------------------- MODULE GxcSystemProofs --------------------------
(* The market and the size of the RAM move together and never down, for     *)
(* every rate and size, and also where the product of 32 bits wraps; and    *)
(* the accounts of gxc.system keep their nicknames and their limits, for    *)
(* any names and whoever signs what.                                        *)
EXTENDS GxcSystem, TLAPS

Typed ==
  /\ max_ram_size \in Nat /\ new_ram_per_block \in Nat
  /\ last_ram_increase \in Nat /\ slot \in Nat
  /\ market \in Nat \cup {NoMarket}

IInv == Typed /\ MarketMatchesSize

LEMMA NewRamNat ==
  ASSUME Typed, NEW rate \in Nat PROVE NewRam(rate) \in Nat
BY RamAssumption DEF NewRam, Typed

LEMMA InitIInv == Init => IInv
BY RamAssumption DEF Init, IInv, Typed, MarketMatchesSize, NoMarket

(* update_ram_supply, whatever the rate it is called with.                  *)
LEMMA SupplyOK ==
  ASSUME IInv, NEW rate \in Nat, UpdateRamSupply(rate)
  PROVE  /\ max_ram_size' \in Nat /\ max_ram_size' >= max_ram_size
         /\ last_ram_increase' \in Nat
         /\ market' \in Nat \cup {NoMarket} /\ MarketMatchesSize'
<1>1. NewRam(rate) \in Nat
  BY NewRamNat DEF IInv
<1>2. CASE UNCHANGED <<max_ram_size, market, last_ram_increase>>
  BY <1>2 DEF IInv, Typed, MarketMatchesSize
<1>3. CASE /\ market # NoMarket
           /\ max_ram_size' = max_ram_size + NewRam(rate)
           /\ market' = market + NewRam(rate)
           /\ last_ram_increase' = slot
  BY <1>1, <1>3 DEF IInv, Typed, MarketMatchesSize
<1> QED BY <1>2, <1>3 DEF UpdateRamSupply

LEMMA StepOK ==
  ASSUME IInv, [Next]_vars
  PROVE  IInv' /\ max_ram_size' >= max_ram_size
<1>1. CASE InitMarket
  BY <1>1 DEF IInv, Typed, MarketMatchesSize, InitMarket
<1>2. ASSUME NEW size \in Sizes, SetRam(size)
      PROVE  IInv' /\ max_ram_size' >= max_ram_size
  BY <1>2, RamAssumption DEF IInv, Typed, MarketMatchesSize, SetRam, NoMarket
<1>3. ASSUME NEW bytes \in Rates, SetRamRate(bytes)
      PROVE  IInv' /\ max_ram_size' >= max_ram_size
  <2>1. UpdateRamSupply(new_ram_per_block) /\ new_ram_per_block \in Nat
    BY <1>3 DEF SetRamRate, IInv, Typed
  <2>2. bytes \in Nat
    BY RamAssumption
  <2> QED BY <1>3, <2>1, <2>2, SupplyOK DEF SetRamRate, IInv, Typed
<1>4. CASE NextBlock
  BY <1>4 DEF IInv, Typed, MarketMatchesSize, NextBlock
<1>5. CASE UNCHANGED vars
  BY <1>5 DEF IInv, Typed, MarketMatchesSize, vars
<1> QED BY <1>1, <1>2, <1>3, <1>4, <1>5 DEF Next

(* The RAM the market holds is the RAM of the chain: init, setram and       *)
(* setramrate change both tables of gxc.system by the same amount.          *)
THEOREM MarketHolds == Spec => []MarketMatchesSize
<1>1. IInv /\ [Next]_vars => IInv'
  BY StepOK
<1>2. IInv => MarketMatchesSize
  BY DEF IInv
<1> QED BY InitIInv, <1>1, <1>2, PTL DEF Spec

(* No call and no wrap of the product ever takes RAM away.                  *)
THEOREM RamNeverShrinks == Spec => NeverShrinks
<1>1. IInv /\ [Next]_vars => IInv'
  BY StepOK
<1>2. IInv /\ [Next]_vars => [max_ram_size' >= max_ram_size]_vars
  BY StepOK
<1> QED BY InitIInv, <1>1, <1>2, PTL DEF Spec, NeverShrinks

-----------------------------------------------------------------------------
(* The product that may wrap.                                               *)

(* No run lasts long enough for the RAM of its blocks to pass 32 bits: the  *)
(* rates have 16, so that a run of 2^16 slots, nine hours, never does, and  *)
(* one at lower rates may be longer in proportion.                          *)
NoWrap == \A rate \in Rates : (MaxSlot - FirstSlot) * rate < UintWidth

(* A rate is in force from the slot in which it was set, never from the     *)
(* beginning of time, where last_ram_increase starts.                       *)
Dated ==
  /\ new_ram_per_block \in Rates \cup {0}
  /\ FirstSlot <= slot /\ slot <= MaxSlot
  /\ last_ram_increase <= slot
  /\ new_ram_per_block = 0 \/ FirstSlot <= last_ram_increase

LEMMA DatedStep == IInv /\ Dated /\ [Next]_vars => Dated'
<1> SUFFICES ASSUME IInv, Dated, [Next]_vars PROVE Dated'
  OBVIOUS
<1>1. /\ slot \in Nat /\ last_ram_increase \in Nat
      /\ FirstSlot \in Nat /\ MaxSlot \in Nat
  BY RamAssumption DEF IInv, Typed
<1>2. CASE InitMarket
  BY <1>2 DEF Dated, InitMarket
<1>3. ASSUME NEW size \in Sizes, SetRam(size)
      PROVE  Dated'
  BY <1>3 DEF Dated, SetRam
<1>4. ASSUME NEW bytes \in Rates, SetRamRate(bytes)
      PROVE  Dated'
  BY <1>1, <1>4 DEF Dated, SetRamRate, UpdateRamSupply
<1>5. CASE NextBlock
  BY <1>1, <1>5 DEF Dated, NextBlock
<1>6. CASE UNCHANGED vars
  BY <1>6 DEF Dated, vars
<1> QED BY <1>2, <1>3, <1>4, <1>5, <1>6 DEF Next

LEMMA LessOf ==
  ASSUME NEW m \in Nat, NEW n \in Nat, NEW k \in Nat, m <= n
  PROVE  m * k \in Nat /\ m * k <= n * k
OBVIOUS

(* As long as nothing wraps, what is added is what the rate in force makes. *)
LEMMA NewRamIs ==
  ASSUME NoWrap, IInv, Dated, slot > last_ram_increase
  PROVE  NewRam(new_ram_per_block) = (slot - last_ram_increase) * new_ram_per_block
<1>1. /\ slot \in Nat /\ last_ram_increase \in Nat /\ new_ram_per_block \in Nat
      /\ FirstSlot \in Nat /\ MaxSlot \in Nat /\ UintWidth \in Nat \ {0}
  BY RamAssumption DEF IInv, Typed
<1> DEFINE elapsed == slot - last_ram_increase
           grown == elapsed * new_ram_per_block
<1>2. elapsed \in Nat
  BY <1>1
<1>3. CASE new_ram_per_block = 0
  <2>1. grown = 0
    BY <1>2, <1>3
  <2>2. 0 % UintWidth = 0
    BY <1>1
  <2> QED BY <2>1, <2>2 DEF NewRam
<1>4. CASE new_ram_per_block # 0
  <2>1. /\ new_ram_per_block \in Rates /\ elapsed <= MaxSlot - FirstSlot
        /\ MaxSlot - FirstSlot \in Nat
    BY <1>1, <1>4 DEF Dated
  <2>2. (MaxSlot - FirstSlot) * new_ram_per_block < UintWidth
    BY <2>1 DEF NoWrap
  <2> DEFINE most == MaxSlot - FirstSlot
  <2>3. most \in Nat /\ elapsed <= most /\ most * new_ram_per_block < UintWidth
    BY <2>1, <2>2
  <2> HIDE DEF most, elapsed
  <2>4. grown \in Nat /\ grown <= most * new_ram_per_block
    BY <1>1, <1>2, <2>3, LessOf
  <2>5. most * new_ram_per_block \in Nat
    BY <1>1, <2>3
  <2> DEFINE bound == most * new_ram_per_block
  <2>6. bound \in Nat /\ grown <= bound /\ bound < UintWidth
    BY <2>3, <2>4, <2>5
  <2> HIDE DEF grown, bound
  <2>7. grown % UintWidth = grown
    BY <1>1, <2>4, <2>6
  <2> QED BY <2>7 DEF NewRam, grown, elapsed
<1> QED BY <1>3, <1>4

(* When the rate is switched, all the RAM of the blocks gone by has been    *)
(* added at the old one: setramrate calls update_ram_supply before it       *)
(* writes the new rate, and the slot of the first rate is not lost.         *)
THEOREM GrowthHolds == ASSUME NoWrap PROVE Spec => GrownAtOldRate
<1>1. IInv /\ [Next]_vars => IInv'
  BY StepOK
<1>2. Init => Dated
  BY RamAssumption DEF Init, Dated
<1>3. IInv /\ Dated /\ [Next]_vars =>
        [last_ram_increase' # last_ram_increase =>
           max_ram_size' = max_ram_size
                             + (slot - last_ram_increase) * new_ram_per_block]_vars
  <2> SUFFICES ASSUME IInv, Dated, Next, last_ram_increase' # last_ram_increase
               PROVE  max_ram_size' = max_ram_size
                                        + (slot - last_ram_increase) * new_ram_per_block
    OBVIOUS
  <2>1. PICK bytes \in Rates : SetRamRate(bytes)
    BY DEF Next, InitMarket, SetRam, NextBlock
  <2>2. slot > last_ram_increase /\ max_ram_size' = max_ram_size + NewRam(new_ram_per_block)
    BY <2>1 DEF SetRamRate, UpdateRamSupply
  <2> QED BY <2>2, NewRamIs
<1> QED BY InitIInv, <1>1, <1>2, <1>3, DatedStep, PTL DEF Spec, GrownAtOldRate

-----------------------------------------------------------------------------
(* The whole contract.                                                      *)

(* The accounts leave the RAM alone, and everything proved of GxcRam holds  *)
(* of gxc.system.                                                           *)
THEOREM RamOfSystem == SystemSpec => Spec
<1>1. SystemInit => Init
  BY DEF SystemInit
<1>2. [SystemNext]_systemVars => [Next]_vars
  BY DEF SystemNext, systemVars
<1> QED BY <1>1, <1>2, PTL DEF SystemSpec, Spec

(* A nickname has one bearer, its row somebody who pays, and a user is an   *)
(* account that pays for its own.                                           *)
Registered ==
  /\ accounts \subseteq Names /\ userres \subseteq accounts
  /\ nick \in [Names -> Nicknames \cup {NoNick}]
  /\ payer \in [Names -> Names \cup {NoPayer}]
  /\ limits \in [Names -> Nat \cup {Unlimited}]
  /\ gift \in Nat
  /\ \A a, b \in Names : nick[a] = nick[b] => a = b \/ nick[a] = NoNick
  /\ \A a \in Names : nick[a] = NoNick => payer[a] = NoPayer
  /\ \A a \in userres : nick[a] # NoNick /\ payer[a] = a

(* What a step of an account does for good.                                 *)
Lasting ==
  /\ \A a \in Names : /\ nick[a] # NoNick => nick'[a] = nick[a]
                      /\ payer[a] = a => payer'[a] = a
  /\ \A a \in userres : limits'[a] = limits[a] /\ a \in userres'

LEMMA InitRegistered == SystemInit => Registered
BY AccountsAssumption DEF SystemInit, Registered

LEMMA NickOK ==
  ASSUME Registered, NEW s \in Signers, NEW a \in Names, NickStep(s, a)
  PROVE  Registered' /\ Lasting
<1>1. CASE \E n \in Nicknames : SetNick(s, a, n)
  <2>1. PICK n \in Nicknames : SetNick(s, a, n)
    BY <1>1
  <2>2. payer[a] = NoPayer /\ nick[a] = NoNick /\ a \notin userres /\ n # NoNick
    BY <2>1, AccountsAssumption DEF Registered, SetNick
  <2>3. /\ nick' \in [Names -> Nicknames \cup {NoNick}]
        /\ payer' \in [Names -> Names \cup {NoPayer}]
    BY <2>1, AccountsAssumption DEF Registered, SetNick
  <2>4. /\ nick'[a] = n /\ \A b \in Names \ {a} : nick'[b] = nick[b] /\ payer'[b] = payer[b]
        /\ \A b \in Names : nick[b] # n
    BY <2>1 DEF Registered, SetNick, Occupied
  <2>5. UNCHANGED <<accounts, userres, limits, gift>>
    BY DEF NickStep
  <2>6. Registered'
    BY <2>2, <2>3, <2>4, <2>5 DEF Registered
  <2>7. Lasting
    BY <2>2, <2>4, <2>5, AccountsAssumption DEF Registered, Lasting
  <2> QED BY <2>6, <2>7
<1>2. CASE PayRam(a) /\ UNCHANGED nick
  <2>1. UNCHANGED <<accounts, nick, userres, limits, gift>>
    BY <1>2 DEF NickStep
  <2>2. /\ payer' \in [Names -> Names \cup {NoPayer}] /\ payer'[a] = a /\ nick[a] # NoNick
        /\ \A b \in Names \ {a} : payer'[b] = payer[b]
    BY <1>2 DEF PayRam, Registered
  <2>3. Registered'
    BY <2>1, <2>2 DEF Registered
  <2> QED BY <2>1, <2>2, <2>3 DEF Lasting
<1> QED BY <1>1, <1>2 DEF NickStep

LEMMA NewAccountOK ==
  ASSUME Registered, NEW s \in Signers, NEW creator \in Names, NEW a \in Names,
         NewAccount(s, creator, a)
  PROVE  Registered' /\ Lasting
<1>1. CASE Reserve(a) /\ UNCHANGED payer
  BY <1>1 DEF Registered, Lasting, Reserve, NewAccount
<1>2. CASE Enlist(a) /\ PayRam(a)
  <2>1. /\ a \notin userres /\ userres' = userres \cup {a} /\ accounts' = accounts \cup {a}
        /\ nick[a] # NoNick /\ UNCHANGED <<nick, gift>>
    BY <1>2 DEF NewAccount, Enlist, PayRam
  <2>2. /\ payer' \in [Names -> Names \cup {NoPayer}] /\ payer'[a] = a
        /\ \A b \in Names \ {a} : payer'[b] = payer[b]
    BY <1>2 DEF PayRam, Registered
  <2>3. /\ limits' \in [Names -> Nat \cup {Unlimited}]
        /\ \A b \in Names \ {a} : limits'[b] = limits[b]
    BY <1>2 DEF Enlist, Registered
  <2>4. Registered'
    BY <2>1, <2>2, <2>3 DEF Registered
  <2>5. Lasting
    BY <2>1, <2>2, <2>3 DEF Registered, Lasting
  <2> QED BY <2>4, <2>5
<1> QED BY <1>1, <1>2 DEF NewAccount

LEMMA GenAccountOK ==
  ASSUME Registered, NEW s \in Signers, NEW creator \in Names, NEW a \in Names,
         NEW n \in Nicknames, GenAccount(s, creator, a, n)
  PROVE  Registered' /\ Lasting
<1>1. payer[a] = NoPayer /\ nick[a] = NoNick /\ a \notin userres /\ n # NoNick
  BY AccountsAssumption DEF Registered, GenAccount
<1>2. /\ nick' \in [Names -> Nicknames \cup {NoNick}] /\ nick'[a] = n
      /\ \A b \in Names \ {a} : nick'[b] = nick[b]
      /\ \A b \in Names : nick[b] # n
      /\ UNCHANGED gift
  BY DEF Registered, GenAccount, Occupied
<1>3. CASE Reserve(a) /\ payer' = [payer EXCEPT ![a] = Registry]
  <2>1. /\ payer' \in [Names -> Names \cup {NoPayer}]
        /\ \A b \in Names \ {a} : payer'[b] = payer[b]
        /\ accounts' = accounts \cup {a} /\ UNCHANGED <<userres, limits>>
    BY <1>3, AccountsAssumption DEF Registered, Reserve
  <2>2. Registered'
    BY <1>1, <1>2, <2>1 DEF Registered
  <2>3. Lasting
    BY <1>1, <1>2, <2>1, AccountsAssumption DEF Registered, Lasting
  <2> QED BY <2>2, <2>3
<1>4. CASE Enlist(a) /\ payer' = [payer EXCEPT ![a] = a]
  <2>1. /\ payer' \in [Names -> Names \cup {NoPayer}] /\ payer'[a] = a
        /\ \A b \in Names \ {a} : payer'[b] = payer[b]
    BY <1>4 DEF Registered
  <2>2. /\ limits' \in [Names -> Nat \cup {Unlimited}]
        /\ \A b \in Names \ {a} : limits'[b] = limits[b]
        /\ accounts' = accounts \cup {a} /\ userres' = userres \cup {a}
    BY <1>4 DEF Enlist, Registered
  <2>3. Registered'
    BY <1>1, <1>2, <2>1, <2>2 DEF Registered
  <2>4. Lasting
    BY <1>1, <1>2, <2>1, <2>2, AccountsAssumption DEF Registered, Lasting
  <2> QED BY <2>3, <2>4
<1> QED BY <1>3, <1>4 DEF GenAccount

LEMMA SystemStepOK ==
  ASSUME Registered, [SystemNext]_systemVars
  PROVE  Registered' /\ Lasting
<1>1. CASE UNCHANGED accountVars
  BY <1>1 DEF Registered, Lasting, accountVars
<1>2. CASE AccountStep
  <2>1. PICK s \in Signers :
          \/ \E a \in Names : NickStep(s, a)
          \/ \E creator, a \in Names : NewAccount(s, creator, a)
          \/ \E creator, a \in Names, n \in Nicknames : GenAccount(s, creator, a, n)
          \/ \E a \in Names, ram \in Limits : SetLimits(s, a, ram)
          \/ \E ram \in Gifts : SetRamGift(s, ram)
    BY <1>2 DEF AccountStep
  <2>2. ASSUME NEW a \in Names, NEW ram \in Limits, SetLimits(s, a, ram)
        PROVE  Registered' /\ Lasting
    <3>1. /\ limits' \in [Names -> Nat \cup {Unlimited}]
          /\ a \notin userres /\ \A b \in Names \ {a} : limits'[b] = limits[b]
          /\ UNCHANGED <<accounts, nick, payer, userres, gift>>
      BY <2>2, AccountsAssumption DEF SetLimits, Registered
    <3> QED BY <3>1 DEF Registered, Lasting
  <2>3. ASSUME NEW ram \in Gifts, SetRamGift(s, ram)
        PROVE  Registered' /\ Lasting
    BY <2>3, AccountsAssumption DEF SetRamGift, Registered, Lasting
  <2> QED BY <2>1, <2>2, <2>3, NickOK, NewAccountOK, GenAccountOK
<1> QED BY <1>1, <1>2 DEF SystemNext, systemVars

(* Every user has a nickname of its own and pays for its row, whichever     *)
(* transaction named it and whichever created it, and however setnick,      *)
(* payram4nick, genaccount and newaccount follow one another.               *)
THEOREM UsersAreNamed == SystemSpec => []UserIsNamed
<1>1. Registered => UserIsNamed
  BY DEF Registered, UserIsNamed
<1>2. Registered /\ [SystemNext]_systemVars => Registered'
  BY SystemStepOK
<1> QED BY InitRegistered, <1>1, <1>2, PTL DEF SystemSpec

(* gxc.account never renames a name nor hands the cost of its row back to   *)
(* the contract: setnick is refused where there is a nickname.              *)
THEOREM NicknamesLast == SystemSpec => NickIsForGood
<1>1. Registered /\ [SystemNext]_systemVars => Registered'
  BY SystemStepOK
<1>2. Registered /\ [SystemNext]_systemVars =>
        [\A a \in Names :
           /\ nick[a] # NoNick => nick'[a] = nick[a]
           /\ payer[a] = a => payer'[a] = a]_systemVars
  BY SystemStepOK DEF Lasting
<1> QED BY InitRegistered, <1>1, <1>2, PTL DEF SystemSpec, NickIsForGood

(* No setalimits, setramgift or second newaccount reaches the limits a user *)
(* was created with.                                                        *)
THEOREM GiftsLast == SystemSpec => UserKeepsGift
<1>1. Registered /\ [SystemNext]_systemVars => Registered'
  BY SystemStepOK
<1>2. Registered /\ [SystemNext]_systemVars =>
        [\A a \in userres : limits'[a] = limits[a] /\ a \in userres']_systemVars
  BY SystemStepOK DEF Lasting
<1> QED BY InitRegistered, <1>1, <1>2, PTL DEF SystemSpec, UserKeepsGift

=============================================================================
