SPECIFICATION Spec
CONSTANTS
  ann = ann  bob = bob  eve = eve
  annActive = annActive  annOwner = annOwner  bobActive = bobActive
  P1 = P1  X = X  Y = Y
  Accounts = {ann, bob, eve}
  Levels = {annActive, annOwner, bobActive}
  Actor <- ActorOf
  Proposals = {P1}
  Proposer <- ByEve
  Trxs = {X, Y}
  Expiry <- ExpiryOf
  Quorums <- QuorumsOf
  Lists <- SomeLists
  MaxTime = 4
VIEW NoAuth
INVARIANTS TypeOK OneRow
PROPERTIES SameSize ImplementsConsent
