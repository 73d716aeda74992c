SPECIFICATION ReserveSpec
CONSTANTS
  tok = tok  gxc = gxc  rsv = rsv  iss = iss  ann = ann
  GXC = GXC  T1 = T1  T2 = T2
  Accounts = {tok, gxc, rsv, iss, ann}
  Self = tok
  Basename <- OwnName
  Signers <- OneSigner
  Tokens = {GXC, T1, T2}
  Issuer <- IssuerOf
  Symbol <- OwnSymbol
  Order <- First
  Configs = {}
  Amounts = {1, 2}
  Limits = {4}
  Spenders = {}
  DepositOwners = {}
  MaxAmount = 5
  MaxTime = 0
  TimeWidth = 8
  StackFlag = {FALSE}
  DeferredExpires = FALSE
  Reserve = rsv
  Core = GXC
  Derivatives = {T1, T2}
  Games = {iss}
  Offers <- OffersOf
  Delays <- NoDelay
  Precision = 8
  Holders <- HoldersOf
VIEW NoAuth
INVARIANTS ReserveBacked FullyReserved ClaimIsHonoured
PROPERTIES ClaimIsPaid
