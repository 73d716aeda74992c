SPECIFICATION SystemSpec
CONSTANTS
  gxc = gxc  reg = reg  vault = vault  ann = ann  bob = bob
  Nick1 = Nick1  Nick2 = Nick2
  Names = {gxc, reg, vault, ann, bob}
  System = gxc
  Registry = reg
  UserNames = {ann, bob}
  Nicknames = {Nick1, Nick2}
  Gifts = {0, 4}
  Limits = {8}
  Signers <- OneOrWithSystem
  InitialSize = 3
  Sizes = {2, 5, 7}
  Unrealistic = 7
  Rates = {0, 3}
  FirstSlot = 2
  MaxSlot = 4
  UintWidth = 64
SYMMETRY HolderSymmetry
INVARIANTS UserIsNamed MarketMatchesSize
PROPERTIES NickIsForGood UserKeepsGift NeverShrinks GrownAtOldRate
