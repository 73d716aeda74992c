SPECIFICATION Spec
CONSTANTS
  tok = tok  iss = iss  ann = ann
  T1 = T1  T2 = T2
  Accounts = {tok, iss, ann}
  Self = tok
  Basename <- OwnName
  Signers <- OneSigner
  Tokens = {T1, T2}
  Issuer <- ByTwo
  Symbol <- OneSymbol
  Order <- TokenOrder
  Configs <- Delayed
  Amounts = {1}
  Limits = {}
  Spenders = {}
  DepositOwners = {ann}
  MaxAmount = 1
  MaxTime = 3
  TimeWidth = 8
  StackFlag = {FALSE}
  DeferredExpires = FALSE
VIEW NoAuth
INVARIANTS Scheduled
