SPECIFICATION BancorSpec
CONSTANTS
  tok = tok  gxc = gxc  rsv = rsv  bnc = bnc  own = own  iss = iss  ann = ann
  GXC = GXC  T1 = T1  none = none
  Accounts = {tok, gxc, rsv, bnc, own, iss, ann}
  Self = tok
  Basename <- OwnName
  Signers <- OneSigner
  Tokens = {GXC, T1}
  Issuer <- IssuerOf
  Symbol <- OwnSymbol
  Order <- First
  Configs = {}
  Amounts = {1, 2}
  Limits = {2}
  Spenders = {}
  DepositOwners = {}
  MaxAmount = 8
  MaxTime = 0
  TimeWidth = 8
  StackFlag = {FALSE}
  DeferredExpires = FALSE
  Reserve = rsv
  Core = GXC
  Derivatives = {T1}
  Games = {}
  Offers <- NoOffers
  Delays = {}
  Precision = 22
  Holders <- NoHolders
  Bancor = bnc
  Smarts = {T1}
  Factors = {2}
  Balances = {1}
  Owners = {own}
  Rates = {1000}
  Fixed = {none}
  NoAmount = none
  Scales <- ScalesOf
  Traders = {ann}
  Wallets <- WalletOf
  Backings <- BackingsOf
VIEW NoAuth
INVARIANT ReserveBacked
PROPERTIES SurplusIsKept PriceLevelIsKept ConversionIsPaid
