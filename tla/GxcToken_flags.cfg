SPECIFICATION Spec
CONSTANTS
  tok = tok  iss = iss  ann = ann
  T1 = T1  T2 = T2
  Accounts = {tok, iss, ann}
  Self = tok
  Basename <- OwnName
  Signers <- OneSigner
  Tokens = {T1}
  Issuer <- ByIss
  Symbol <- OwnSymbol
  Order <- TokenOrder
  Configs <- Custodial
  Amounts = {1, 2}
  Limits = {}
  Spenders = {}
  DepositOwners <- Holders
  MaxAmount = 2
  MaxTime = 2
  TimeWidth = 8
  StackFlag = {TRUE, FALSE}
  DeferredExpires = TRUE
PROPERTIES BlockedIsInert
