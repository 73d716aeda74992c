------------------------------- MODULE GxcRam -------------------------------
(* The RAM of the chain in gxc.system: its size, the rate at which it grows *)
(* and the market that sells it.  Buying and selling are switched off in    *)
(* the code, so that nothing is ever reserved.                              *)
(*                                                                          *)
(* A definition right above another with the same parameters is a faulty    *)
(* variant of it: PROJECT.json names the property that rules it out.        *)
EXTENDS Integers

CONSTANTS
  InitialSize, \* max_ram_size of a new chain
  Sizes,       \* the sizes setram is called with
  Unrealistic, \* the size setram refuses
  Rates,       \* the rates setramrate is called with, uint16_t
  FirstSlot,   \* the slot of the first block of a run
  MaxSlot,     \* bound on the slots of a run
  UintWidth    \* range of uint32_t: 2^32

ASSUME RamAssumption ==
  /\ InitialSize \in Nat /\ Sizes \subseteq Nat /\ Unrealistic \in Nat
  /\ Rates \subseteq Nat
  /\ FirstSlot \in Nat \ {0} /\ MaxSlot \in Nat /\ FirstSlot <= MaxSlot
  /\ UintWidth \in Nat \ {0}

NoMarket == -1

VARIABLES
  max_ram_size,
  new_ram_per_block,
  last_ram_increase, \* the slot up to which RAM has been added
  market,            \* the RAM the market holds, or NoMarket before init
  slot               \* the slot of the current block

vars == <<max_ram_size, new_ram_per_block, last_ram_increase, market, slot>>

-----------------------------------------------------------------------------
InitMarket ==
  /\ market = NoMarket
  /\ market' = max_ram_size
  /\ UNCHANGED <<max_ram_size, new_ram_per_block, last_ram_increase, slot>>

SetRamAnyway(size) ==
  /\ market # NoMarket
  /\ size < Unrealistic
  /\ market' = market + size - max_ram_size
  /\ max_ram_size' = size
  /\ UNCHANGED <<new_ram_per_block, last_ram_increase, slot>>
SetRam(size) ==
  /\ market # NoMarket
  /\ max_ram_size < size /\ size < Unrealistic
  /\ market' = market + size - max_ram_size
  /\ max_ram_size' = size
  /\ UNCHANGED <<new_ram_per_block, last_ram_increase, slot>>

(* Both factors have 32 bits, and so has the product.                       *)
NewRam(rate) == ((slot - last_ram_increase) * rate) % UintWidth

GrowSizeOnly(rate) ==
  \/ slot <= last_ram_increase
     /\ UNCHANGED <<max_ram_size, market, last_ram_increase>>
  \/ /\ slot > last_ram_increase
     /\ max_ram_size' = max_ram_size + NewRam(rate)
     /\ last_ram_increase' = slot
     /\ UNCHANGED market
(* update_ram_supply, which finds no market to modify before init.          *)
UpdateRamSupply(rate) ==
  \/ slot <= last_ram_increase
     /\ UNCHANGED <<max_ram_size, market, last_ram_increase>>
  \/ /\ slot > last_ram_increase
     /\ market # NoMarket
     /\ max_ram_size' = max_ram_size + NewRam(rate)
     /\ market' = market + NewRam(rate)
     /\ last_ram_increase' = slot

SetRateFirst(bytes) ==
  /\ new_ram_per_block' = bytes
  /\ UpdateRamSupply(bytes)
  /\ UNCHANGED slot
SetRamRate(bytes) ==
  /\ UpdateRamSupply(new_ram_per_block)
  /\ new_ram_per_block' = bytes
  /\ UNCHANGED slot

NextBlock ==
  /\ slot < MaxSlot
  /\ slot' = slot + 1
  /\ UNCHANGED <<max_ram_size, new_ram_per_block, last_ram_increase, market>>

Init ==
  /\ max_ram_size = InitialSize
  /\ new_ram_per_block = 0
  /\ last_ram_increase = 0
  /\ market = NoMarket
  /\ slot = FirstSlot

Next ==
  \/ InitMarket
  \/ \E size \in Sizes : SetRam(size)
  \/ \E bytes \in Rates : SetRamRate(bytes)
  \/ NextBlock

Spec == Init /\ [][Next]_vars

-----------------------------------------------------------------------------
(* Properties.                                                              *)

(* The market sells exactly the RAM there is: setram and the growth per     *)
(* block, in any order, move both together.                                 *)
MarketMatchesSize == market # NoMarket => market = max_ram_size

(* RAM may only be increased.                                               *)
NeverShrinks == [][max_ram_size' >= max_ram_size]_vars

(* When the rate is switched, the RAM of every block up to the present one  *)
(* has been added at the rate in force before.                              *)
GrownAtOldRate ==
  [][last_ram_increase' # last_ram_increase =>
       max_ram_size' = max_ram_size
                         + (slot - last_ram_increase) * new_ram_per_block]_vars

=============================================================================
