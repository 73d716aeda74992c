SPECIFICATION Spec
CONSTANTS
  tok = tok  iss = iss  ann = ann
  T1 = T1  T2 = T2
  Accounts = {tok, iss, ann}
  Self = tok
  Basename <- OwnName
  Signers <- OneSigner
  Tokens = {T1, T2}
  Issuer <- ByTwo
  Symbol <- OneSymbol
  Order <- TokenOrder
  Configs <- Recallable
  Amounts = {1}
  Limits = {}
  Spenders = {}
  DepositOwners <- Holders
  MaxAmount = 1
  MaxTime = 2
  TimeWidth = 8
  StackFlag = {TRUE, FALSE}
  DeferredExpires = TRUE
INVARIANTS Conservation
