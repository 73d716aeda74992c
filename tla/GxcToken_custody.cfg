SPECIFICATION Spec
CONSTANTS
  tok = tok  iss = iss  ann = ann
  T1 = T1  T2 = T2
  Accounts = {tok, iss, ann}
  Self = tok
  Basename <- OwnName
  Signers <- OneOrTwoSigners
  Tokens = {T1}
  Issuer <- ByIss
  Symbol <- OwnSymbol
  Order <- TokenOrder
  Configs <- RecallableOrPlain
  Amounts = {1, 2}
  Limits = {0, 2}
  Spenders = {ann}
  DepositOwners <- Holders
  MaxAmount = 2
  MaxTime = 2
  TimeWidth = 8
  StackFlag = {TRUE, FALSE}
  DeferredExpires = TRUE
VIEW NoAuth
INVARIANTS TypeOK Conservation EscrowSolvent
PROPERTIES WithdrawalWaits LossIsAuthorised ImplementsLedger
