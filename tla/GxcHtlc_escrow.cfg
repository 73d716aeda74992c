SPECIFICATION HtlcSpec
CONSTANTS
  tok = tok  iss = iss  ann = ann  htl = htl
  T1 = T1  H1 = H1  H2 = H2
  Accounts = {tok, iss, ann, htl}
  Self = tok
  Basename <- OwnName
  Signers <- OneSigner
  Tokens = {T1}
  Issuer <- ByIss
  Symbol <- OwnSymbol
  Order <- First
  Configs <- CustodialOrListed
  Amounts = {1}
  Limits = {1}
  Spenders = {htl}
  DepositOwners = {ann}
  MaxAmount = 2
  MaxTime = 1
  TimeWidth = 8
  StackFlag = {FALSE}
  DeferredExpires = FALSE
  Htlc = htl
  Vault = iss
  Token = T1
  Contracts = {H1, H2}
  Owner <- OwnerOf
  Recipients <- RecipientsOf
  Secrets = {1}
  Minima <- AMinimum
  Second = 1000
  UintWidth = 4096
VIEW NoAuth
INVARIANTS EscrowBacked ExpiredIsRefundable
PROPERTIES SettledOnce
