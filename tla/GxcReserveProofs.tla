--------------------------- MODULE GxcReserveProofs ---------------------------
(* gxc.reserve holds what it owes for every derivative token, owes for      *)
(* every unit of them, and a claim moves nobody's tokens but the            *)
(* claimant's and is never in want of any: for any accounts, tokens, offers *)
(* and rates.                                                               *)
EXTENDS GxcReserve, GxcTokenClaims

Reserve0 == [derivative : Int, underlying : Int, rate : Nat \X (Nat \ {0})]
ReserveTables == [Derivatives -> Reserve0]

(* The invariant: the tables of the token contract are sound, and what is   *)
(* reserved is held and covers what exists.                                 *)
Covered == Sound /\ reserves \in ReserveTables /\ ReserveBacked /\ FullyReserved

-----------------------------------------------------------------------------
(* What is reserved, for all tokens.                                        *)

UnderlyingOf(rs) == [t \in Derivatives |-> rs[t].underlying]
UnderlyingIn(rs) == SumFunctionOnSet(UnderlyingOf(rs), Derivatives)

LEMMA UnderlyingInTables ==
  Underlying = UnderlyingIn(reserves) /\ Underlying' = UnderlyingIn(reserves')
BY Zenon DEF Underlying, UnderlyingIn, UnderlyingOf

LEMMA FiniteDerivatives == IsFiniteSet(Derivatives) /\ Derivatives \subseteq Tokens
<1>1. Derivatives \subseteq Tokens
  BY ReserveAssumption
<1> QED BY <1>1, Domains, FS_Subset

LEMMA UnderlyingInt ==
  ASSUME NEW rs \in ReserveTables
  PROVE  UnderlyingIn(rs) \in Int
<1>1. \A t \in Derivatives : UnderlyingOf(rs)[t] \in Int
  BY DEF ReserveTables, Reserve0, UnderlyingOf
<1> QED BY <1>1, FiniteDerivatives, SumInt DEF UnderlyingIn

LEMMA UnderlyingUpdate ==
  ASSUME NEW rs \in ReserveTables, NEW rp \in ReserveTables, NEW t \in Derivatives,
         \A u \in Derivatives \ {t} : rp[u] = rs[u]
  PROVE  UnderlyingIn(rp) = UnderlyingIn(rs) - rs[t].underlying + rp[t].underlying
<1>1. /\ \A u \in Derivatives : UnderlyingOf(rs)[u] \in Int
      /\ UnderlyingOf(rp)[t] \in Int
      /\ \A u \in Derivatives \ {t} : UnderlyingOf(rp)[u] = UnderlyingOf(rs)[u]
      /\ UnderlyingOf(rs)[t] = rs[t].underlying
      /\ UnderlyingOf(rp)[t] = rp[t].underlying
  BY DEF ReserveTables, Reserve0, UnderlyingOf
<1> QED BY <1>1, FiniteDerivatives, SumUpdate DEF UnderlyingIn

(* A product of a natural number with what is at most a quotient.           *)
LEMMA TimesQuotient ==
  ASSUME NEW a \in Int, NEW b \in Nat \ {0}, NEW c \in Int, c <= a \div b
  PROVE  c * b <= a
<1> DEFINE q == a \div b
<1>1. q \in Int /\ b * q <= a /\ c <= q
  OBVIOUS
<1> HIDE DEF q
<1>2. q - c \in Nat /\ q = c + (q - c)
  BY <1>1
<1>3. b * (c + (q - c)) = b * c + b * (q - c) /\ b * (q - c) \in Nat /\ b * c = c * b
  BY <1>1, <1>2
<1>4. b * q = c * b + b * (q - c) /\ c * b \in Int
  BY <1>2, <1>3
<1> QED BY <1>1, <1>3, <1>4

(* A share is above what it costs by no more than one part in Precision.    *)
LEMMA ShareBelow ==
  ASSUME NEW v \in Nat, NEW rate \in Nat \X (Nat \ {0}), NEW c \in Share(v, rate)
  PROVE  c \in Int /\ (c * rate[2] - v * rate[1]) * Precision <= v * rate[1]
<1> DEFINE n == v * rate[1]
           d == rate[2]
<1>1. n \in Nat /\ d \in Nat \ {0} /\ Precision \in Nat \ {0}
  BY ReserveAssumption
<1>2. /\ c \in (n * (Precision - 1)) \div (d * Precision)
               .. (n * (Precision + 1)) \div (d * Precision)
  BY DEF Share, Cut
<1> HIDE DEF n, d
<1>3. /\ n * (Precision - 1) \in Int /\ n * (Precision + 1) \in Int
      /\ d * Precision \in Nat \ {0}
  BY <1>1
<1> DEFINE a == n * (Precision + 1)
           b == d * Precision
           e == n * (Precision - 1)
<1>4. c \in Int /\ c <= a \div b
  <2> HIDE DEF a, b, e
  <2>1. e \div b \in Int /\ a \div b \in Int
    BY <1>3 DEF a, b, e
  <2> QED BY <1>2, <2>1 DEF a, b, e
<1>5. c * b <= a
  <2> HIDE DEF a, b
  <2> QED BY <1>3, <1>4, TimesQuotient DEF a, b
<1>6. c * (d * Precision) = (c * d) * Precision /\ c * d \in Int
  BY <1>1, <1>4
<1>7. n * (Precision + 1) = n * Precision + n /\ n * Precision \in Nat
  BY <1>1
<1>8. (c * d - n) * Precision = (c * d) * Precision - n * Precision
  BY <1>1, <1>6
<1>9. (c * d) * Precision \in Int
  BY <1>1, <1>6
<1>10. (c * d - n) * Precision <= n
  BY <1>1, <1>5, <1>6, <1>7, <1>8, <1>9
<1> QED BY <1>4, <1>10 DEF n, d

-----------------------------------------------------------------------------
(* What an inline transfer leaves.                                          *)

LEMMA MovedRows ==
  ASSUME NEW signers, NEW t, NEW L, LedgerOK(L), NEW from \in Accounts,
         NEW to \in Accounts, NEW v \in Nat,
         NEW M \in Moved(signers, t, L, from, to, v)
  PROVE  /\ from # to /\ L[from].bal >= v /\ LedgerOK(M)
         /\ Delta(L, M, from, - v, 0) /\ Delta(L, M, to, v, 0)
         /\ SameBut(L, M, {from, to})
<1>1. PICK keep \in StackFlag : M = AddBalance(SubBalance(L, from, v, keep), to, v)
  BY DEF Moved
<1>2. from # to /\ L[from].bal >= v
  BY DEF Moved, MayTransfer, CanSubBalance
<1>3. keep \in BOOLEAN
  BY Domains
<1> DEFINE P == SubBalance(L, from, v, keep)
<1>4. LedgerOK(P) /\ Delta(L, P, from, - v, 0) /\ SameBut(L, P, {from})
  BY <1>2, <1>3, SubBalanceRow
<1>5. M = AddBalance(P, to, v)
  BY <1>1
<1> HIDE DEF P
<1>6. LedgerOK(M) /\ Delta(P, M, to, v, 0) /\ SameBut(P, M, {to})
  BY <1>4, <1>5, AddBalanceRow
<1> QED BY <1>2, <1>4, <1>6, ThenOther

LEMMA BurntRows ==
  ASSUME NEW t \in Tokens, NEW L, LedgerOK(L), NEW v \in Nat, NEW M \in Burnt(t, L, v)
  PROVE  /\ LedgerOK(M)
         /\ Basename[Issuer[t]] = Issuer[t] =>
              \A a \in Accounts \ {Reserve} : M[a].bal = L[a].bal
<1> DEFINE issuer == Basename[Issuer[t]]
           i == Issuer[t]
<1>1. i \in Accounts /\ issuer \in Accounts /\ Reserve \in Accounts
  BY ConstantsAssumption, ReserveAssumption
<1>2. PICK keep \in StackFlag, N \in Moved({Reserve}, t, L, Reserve, issuer, v) :
        M = SubBalance(N, i, v, keep) /\ CanSubBalance(t, N, i, v)
  BY DEF Burnt
<1>3. keep \in BOOLEAN /\ N[i].bal >= v
  BY <1>2, Domains DEF CanSubBalance
<1> HIDE DEF issuer, i
<1>4. /\ Reserve # issuer /\ LedgerOK(N) /\ Delta(L, N, issuer, v, 0)
      /\ SameBut(L, N, {Reserve, issuer})
  BY <1>1, MovedRows
<1>5. LedgerOK(M) /\ Delta(N, M, i, - v, 0) /\ SameBut(N, M, {i})
  BY <1>1, <1>2, <1>3, <1>4, SubBalanceRow
<1>6. ASSUME issuer = i, NEW a \in Accounts \ {Reserve}
      PROVE  M[a].bal = L[a].bal
  <2>1. L[a].bal \in Int
    BY DEF LedgerOK, Ledger, Row
  <2>2. CASE a = i
    <3>1. N[a].bal = L[a].bal + v /\ M[a].bal = N[a].bal + - v
      BY <1>4, <1>5, <1>6, <2>2 DEF Delta
    <3> QED BY <2>1, <3>1
  <2>3. CASE a # i
    BY <1>4, <1>5, <1>6, <2>3 DEF SameBut
  <2> QED BY <2>2, <2>3
<1> QED BY <1>5, <1>6 DEF issuer, i

-----------------------------------------------------------------------------
(* mint.                                                                    *)

LEMMA MintKeeps ==
  ASSUME Covered, NEW signers, NEW t \in Derivatives, NEW offer \in Offers[t],
         NEW w \in Delays, Mint(signers, t, offer, w)
  PROVE  /\ Covered' /\ ~ Reserved(t)
         /\ \A u \in Derivatives \ {t} : reserves'[u] = reserves[u]
<1> DEFINE issuer == Basename[Issuer[t]]
           v == offer.underlying
           new == [derivative |-> offer.derivative, underlying |-> v,
                   rate |-> <<v, offer.derivative>>]
           st == Minted(offer.derivative, Default(w))
<1>1. /\ t \in Tokens /\ t # Core /\ Core \in Tokens /\ issuer \in Accounts
      /\ Reserve \in Accounts /\ Issuer[t] \in Accounts
  BY ConstantsAssumption, ReserveAssumption
<1>2. /\ offer.derivative \in Nat \ {0} /\ offer.derivative <= MaxAmount
      /\ v \in Nat
  BY ReserveAssumption, Domains
<1>3. new \in Reserve0
  BY <1>2 DEF Reserve0
<1>4. /\ reserves' = [reserves EXCEPT ![t] = new]
      /\ ~ Reserved(t) /\ UNCHANGED <<req, deferred, now>>
  BY DEF Mint
<1>5. /\ stat' = [stat EXCEPT ![t] = st]
      /\ allowance' = [allowance EXCEPT ![issuer][Reserve][Core] = @ - v]
  BY DEF Mint, Spend
<1>6. PICK L \in Collected(Reserve, Core, issuer, v) : row' = [row EXCEPT ![Core] = L]
  BY DEF Mint
<1>7. /\ L \in Moved({Reserve}, Core, row[Core], issuer, Reserve, v)
      /\ allowance[issuer][Reserve][Core] >= v
  BY DEF Collected
<1>8. st \in Stat /\ st.supply <= st.max /\ st.max <= MaxAmount /\ st.exists
      /\ st.max = offer.derivative
  <2>1. w \in [delay : Nat, min : 0 .. MaxAmount] /\ w.delay % TimeWidth \in Nat
    BY ReserveAssumption, ConstantsAssumption
  <2> QED BY <1>2, <2>1, Domains DEF Minted, Default, Stat, InitOptions
<1> HIDE DEF issuer, v, new, st
<1>9. StatOK' /\ Capped'
  BY <1>1, <1>5, <1>8 DEF Covered, Sound, StatOK, Capped
<1>10. /\ LedgerOK(row[Core]) /\ LedgerOK(L) /\ Delta(row[Core], L, Reserve, v, 0)
  BY <1>1, <1>2, <1>7, TableOK, MovedRows DEF Covered
<1>11. TablesOK(row') /\ row'[Core] = L
  BY <1>1, <1>6, <1>10 DEF Covered, Sound, TablesOK, LedgerOK
<1>12. allowance' \in [Accounts -> [Accounts -> [Tokens -> Nat]]]
  BY <1>1, <1>2, <1>5, <1>7 DEF Covered, Sound
<1>13. Sound'
  BY <1>4, <1>9, <1>11, <1>12 DEF Covered, Sound
<1>14. /\ reserves' \in ReserveTables /\ reserves'[t] = new
       /\ \A u \in Derivatives \ {t} : reserves'[u] = reserves[u]
  BY <1>3, <1>4 DEF Covered, ReserveTables
<1>15. ReserveBacked'
  <2>1. UnderlyingIn(reserves') = UnderlyingIn(reserves) - 0 + v
    <3>1. reserves[t].underlying = 0 /\ reserves'[t].underlying = v
      BY <1>4, <1>14 DEF Reserved, NoReserve, new
    <3> QED BY <1>14, <3>1, UnderlyingUpdate DEF Covered
  <2>2. row'[Core][Reserve].bal = row[Core][Reserve].bal + v
    BY <1>10, <1>11 DEF Delta
  <2>3. /\ row[Core][Reserve].bal >= UnderlyingIn(reserves)
        /\ row[Core][Reserve].bal \in Nat /\ UnderlyingIn(reserves) \in Int
    BY <1>1, UnderlyingInTables, UnderlyingInt, OwnedInt
    DEF Covered, Sound, ReserveBacked
  <2>4. row'[Core][Reserve].bal >= UnderlyingIn(reserves')
    BY <1>2, <2>1, <2>2, <2>3
  <2> QED BY <2>4, UnderlyingInTables DEF ReserveBacked
<1>16. FullyReserved'
  <2>1. stat'[t].max = offer.derivative
    BY <1>1, <1>5, <1>8 DEF Covered, Sound, StatOK
  <2>2. \A u \in Derivatives \ {t} : stat'[u] = stat[u]
    BY <1>1, <1>5, FiniteDerivatives DEF Covered, Sound, StatOK
  <2>3. stat'[t].max <= reserves'[t].derivative /\ Covers(reserves'[t])
    <3>1. /\ reserves'[t].derivative = offer.derivative
          /\ reserves'[t].underlying = v
          /\ reserves'[t].rate[1] = v /\ reserves'[t].rate[2] = offer.derivative
      BY <1>14 DEF new
    <3>2. offer.derivative * v - v * offer.derivative = 0
      BY <1>2
    <3>3. (offer.derivative * v - v * offer.derivative) * Precision
            <= (offer.derivative - offer.derivative) * v
      BY <1>2, <3>2, ReserveAssumption
    <3> QED BY <1>2, <2>1, <3>1, <3>3 DEF Covers
  <2>4. \A u \in Derivatives : Reserved(u)' =>
          stat'[u].max <= reserves'[u].derivative /\ Covers(reserves'[u])
    BY <1>14, <2>2, <2>3 DEF Covered, FullyReserved, Reserved
  <2> QED BY <2>4 DEF FullyReserved, Covers
<1> QED BY <1>4, <1>13, <1>14, <1>15, <1>16 DEF Covered

-----------------------------------------------------------------------------
(* claim.                                                                   *)

(* Where the four inline actions of a claim leave the rows.                 *)
LEMMA ClaimRows ==
  ASSUME Covered, NEW t \in Derivatives, NEW owner \in Accounts, NEW v \in Amounts,
         NEW c \in Int, Claim(t, owner, v, c)
  PROVE  /\ TablesOK(row') /\ owner # Reserve
         /\ row'[Core][Reserve].bal = row[Core][Reserve].bal - c
         /\ row'[Core][owner].bal = row[Core][owner].bal + c
         /\ \A a \in Accounts \ {owner, Reserve} : row'[Core][a].bal = row[Core][a].bal
         /\ Basename[Issuer[t]] = Issuer[t] =>
              /\ row'[t][owner].bal = row[t][owner].bal - v
              /\ \A a \in Accounts \ {owner, Reserve} : row'[t][a].bal = row[t][a].bal
<1>1. /\ t \in Tokens /\ t # Core /\ Core \in Tokens /\ Reserve \in Accounts
      /\ v \in Nat /\ c \in Nat
  BY ReserveAssumption, Domains DEF Claim
<1>2. PICK L1 \in Collected(Reserve, t, owner, v) : \E L2 \in Burnt(t, L1, v) :
        \E C \in Moved({Reserve}, Core, row[Core], Reserve, owner, c) :
          row' = [row EXCEPT ![t] = L2, ![Core] = C]
  BY DEF Claim
<1>3. PICK L2 \in Burnt(t, L1, v),
           C \in Moved({Reserve}, Core, row[Core], Reserve, owner, c) :
        row' = [row EXCEPT ![t] = L2, ![Core] = C]
  BY <1>2
<1>4. L1 \in Moved({Reserve}, t, row[t], owner, Reserve, v)
  BY DEF Collected
<1>5. LedgerOK(row[t]) /\ LedgerOK(row[Core])
  BY <1>1, TableOK DEF Covered
<1>6. /\ owner # Reserve /\ LedgerOK(L1) /\ Delta(row[t], L1, owner, - v, 0)
      /\ SameBut(row[t], L1, {owner, Reserve})
  BY <1>1, <1>4, <1>5, MovedRows
<1>7. /\ LedgerOK(L2)
      /\ Basename[Issuer[t]] = Issuer[t] =>
           \A a \in Accounts \ {Reserve} : L2[a].bal = L1[a].bal
  BY <1>1, <1>6, BurntRows
<1>8. /\ LedgerOK(C) /\ Delta(row[Core], C, Reserve, - c, 0)
      /\ Delta(row[Core], C, owner, c, 0) /\ SameBut(row[Core], C, {Reserve, owner})
  BY <1>1, <1>5, MovedRows
<1>9. /\ row'[t] = L2 /\ row'[Core] = C
      /\ \A u \in Tokens \ {t, Core} : row'[u] = row[u]
      /\ DOMAIN row' = Tokens /\ row' = [u \in Tokens |-> row'[u]]
  BY <1>1, <1>3 DEF Covered, Sound, TablesOK
<1>10. TablesOK(row')
  <2>1. \A u \in Tokens : LedgerOK(row'[u])
    BY <1>7, <1>8, <1>9 DEF Covered, Sound, TablesOK
  <2> QED BY <1>9, <2>1 DEF TablesOK, LedgerOK
<1>11. /\ row[Core][Reserve].bal \in Int /\ row[t][owner].bal \in Int
  BY <1>1, <1>5 DEF LedgerOK, Ledger, Row
<1>12. /\ row'[Core][Reserve].bal = row[Core][Reserve].bal - c
       /\ row'[Core][owner].bal = row[Core][owner].bal + c
  BY <1>1, <1>8, <1>9, <1>11 DEF Delta
<1>13. \A a \in Accounts \ {owner, Reserve} : row'[Core][a].bal = row[Core][a].bal
  BY <1>8, <1>9 DEF SameBut
<1>14. ASSUME Basename[Issuer[t]] = Issuer[t]
       PROVE  /\ row'[t][owner].bal = row[t][owner].bal - v
              /\ \A a \in Accounts \ {owner, Reserve} : row'[t][a].bal = row[t][a].bal
  <2>1. L2[owner].bal = L1[owner].bal /\ L1[owner].bal = row[t][owner].bal + - v
    BY <1>6, <1>7, <1>14 DEF Delta
  <2>2. row'[t][owner].bal = row[t][owner].bal - v
    BY <1>1, <1>9, <1>11, <2>1
  <2>3. \A a \in Accounts \ {owner, Reserve} : row'[t][a].bal = row[t][a].bal
    BY <1>6, <1>7, <1>9, <1>14 DEF SameBut
  <2> QED BY <2>2, <2>3
<1> QED BY <1>6, <1>10, <1>12, <1>13, <1>14

LEMMA ClaimStat ==
  ASSUME Sound, NEW t \in Derivatives, NEW v \in Nat,
         stat[t].exists, BurnClaimed(t, v)
  PROVE  /\ StatOK' /\ Capped'
         /\ stat[t].supply - stat'[t].supply = v
         /\ stat[t].max - stat'[t].max = v /\ stat[t].max \in Int
         /\ \A u \in Derivatives \ {t} : stat'[u] = stat[u]
<1>1. /\ t \in Tokens /\ v \in Nat /\ stat[t] \in Stat
      /\ stat[t].supply <= stat[t].max /\ stat[t].max <= MaxAmount /\ MaxAmount \in Nat
  BY FiniteDerivatives, Domains DEF Sound, StatOK, Capped
<1>2. /\ stat[t].supply \in Int /\ stat[t].max \in Int
  BY <1>1 DEF Stat
<1>3. /\ DOMAIN stat' = Tokens
      /\ stat'[t] = [exists |-> TRUE, supply |-> stat[t].supply - v,
                     max |-> stat[t].max - v, opts |-> stat[t].opts,
                     delay |-> stat[t].delay, min |-> stat[t].min]
      /\ \A u \in Tokens \ {t} : stat'[u] = stat[u]
      /\ stat' = [u \in Tokens |-> stat'[u]]
  BY <1>1 DEF BurnClaimed, Sound, StatOK, Stat
<1>4. stat'[t] \in Stat /\ stat'[t].exists
  BY <1>1, <1>2, <1>3 DEF Stat
<1>5. StatOK'
  BY <1>3, <1>4 DEF Sound, StatOK
<1>6. stat'[t].supply = stat[t].supply - v /\ stat'[t].max = stat[t].max - v
  BY <1>3
<1>7. Capped'
  BY <1>1, <1>2, <1>3, <1>6 DEF Sound, Capped
<1> QED BY <1>1, <1>2, <1>3, <1>5, <1>6, <1>7, FiniteDerivatives

(* A claimed share leaves the reserve and the balance together, and what is *)
(* left still covers what is left to claim.                                 *)
LEMMA ReleaseKeeps ==
  ASSUME Covered, NEW t \in Derivatives, NEW v \in Nat,
         NEW c \in Share(v, reserves[t].rate), Reserved(t),
         LessReserved(t, v, c), Sound', stat[t].max - stat'[t].max = v,
         \A u \in Derivatives \ {t} : stat'[u] = stat[u],
         row'[Core][Reserve].bal = row[Core][Reserve].bal - c
  PROVE  /\ Covered' /\ c \in Int
         /\ reserves[t].derivative - reserves'[t].derivative = v
         /\ reserves[t].underlying - reserves'[t].underlying = c
         /\ \A u \in Derivatives \ {t} : reserves'[u] = reserves[u]
<1> DEFINE d == reserves[t].derivative
           n == reserves[t].underlying
           r1 == reserves[t].rate[1]
           r2 == reserves[t].rate[2]
<1>1. /\ t \in Tokens /\ Core \in Tokens /\ Reserve \in Accounts
      /\ reserves[t] \in Reserve0 /\ reserves[t].rate \in Nat \X (Nat \ {0})
  BY ReserveAssumption DEF Covered, ReserveTables, Reserve0
<1>2. c \in Int /\ (c * r2 - v * r1) * Precision <= v * r1
  BY <1>1, ShareBelow
<1>3. d \in Int /\ n \in Int /\ r1 \in Nat /\ r2 \in Nat
  BY <1>1 DEF Reserve0
<1>4. /\ reserves'[t] = [derivative |-> d - v, underlying |-> n - c,
                         rate |-> reserves[t].rate]
      /\ \A u \in Derivatives \ {t} : reserves'[u] = reserves[u]
      /\ DOMAIN reserves' = Derivatives
      /\ reserves' = [u \in Derivatives |-> reserves'[u]]
  BY <1>1 DEF LessReserved, Covered, ReserveTables, Reserve0
<1>5. /\ reserves'[t].derivative = d - v /\ reserves'[t].underlying = n - c
      /\ reserves'[t].rate[1] = r1 /\ reserves'[t].rate[2] = r2
  BY <1>4
<1>6. reserves' \in ReserveTables
  <2>1. reserves'[t] \in Reserve0
    BY <1>1, <1>2, <1>3, <1>4 DEF Reserve0
  <2> QED BY <1>4, <2>1 DEF Covered, ReserveTables
<1> HIDE DEF d, n, r1, r2
<1>7. ReserveBacked'
  <2>1. UnderlyingIn(reserves') = UnderlyingIn(reserves) - n + (n - c)
    BY <1>4, <1>5, <1>6, UnderlyingUpdate DEF Covered, n
  <2>2. /\ row[Core][Reserve].bal >= UnderlyingIn(reserves)
        /\ row[Core][Reserve].bal \in Nat /\ UnderlyingIn(reserves) \in Int
    BY <1>1, UnderlyingInTables, UnderlyingInt, OwnedInt
    DEF Covered, Sound, ReserveBacked
  <2>3. row'[Core][Reserve].bal >= UnderlyingIn(reserves')
    BY <1>2, <1>3, <2>1, <2>2
  <2> QED BY <2>3, UnderlyingInTables DEF ReserveBacked
<1>8. FullyReserved'
  <2>1. /\ stat[t].max <= d
        /\ (d * r1 - n * r2) * Precision <= (r2 - d) * r1
    BY DEF Covered, FullyReserved, Covers, d, n, r1, r2
  <2>2. stat[t].max \in Int /\ stat'[t].max \in Int
    BY <1>1 DEF Covered, Sound, StatOK, Stat
  <2>3. stat'[t].max <= d - v
    BY <1>3, <2>1, <2>2
  <2>4. /\ d * r1 \in Int /\ n * r2 \in Int /\ v * r1 \in Int /\ c * r2 \in Int
        /\ (d - v) * r1 = d * r1 - v * r1
        /\ (n - c) * r2 = n * r2 - c * r2
        /\ (r2 - (d - v)) * r1 = (r2 - d) * r1 + v * r1
        /\ (r2 - d) * r1 \in Int /\ Precision \in Nat
    BY <1>2, <1>3, ReserveAssumption
  <2>5. ((d - v) * r1 - (n - c) * r2) * Precision
          = (d * r1 - n * r2) * Precision + (c * r2 - v * r1) * Precision
    <3> DEFINE x == d * r1
               y == n * r2
               z == v * r1
               w == c * r2
    <3>1. /\ x \in Int /\ y \in Int /\ z \in Int /\ w \in Int
          /\ (d - v) * r1 - (n - c) * r2 = (x - y) + (w - z)
      BY <2>4
    <3> HIDE DEF x, y, z, w
    <3>2. ((x - y) + (w - z)) * Precision = (x - y) * Precision + (w - z) * Precision
      BY <2>4, <3>1
    <3> QED BY <3>1, <3>2 DEF x, y, z, w
  <2>6. /\ (d * r1 - n * r2) * Precision \in Int
        /\ (c * r2 - v * r1) * Precision \in Int
    BY <2>4
  <2>7. ((d - v) * r1 - (n - c) * r2) * Precision <= (r2 - (d - v)) * r1
    BY <1>2, <2>1, <2>4, <2>5, <2>6
  <2>8. stat'[t].max <= reserves'[t].derivative /\ Covers(reserves'[t])
    BY <1>5, <2>3, <2>7 DEF Covers
  <2>9. \A u \in Derivatives : Reserved(u)' =>
          stat'[u].max <= reserves'[u].derivative /\ Covers(reserves'[u])
    BY <1>4, <2>8 DEF Covered, FullyReserved, Reserved
  <2> QED BY <2>9 DEF FullyReserved, Covers
<1>9. d - (d - v) = v /\ n - (n - c) = c
  BY <1>2, <1>3
<1> QED BY <1>2, <1>4, <1>5, <1>6, <1>7, <1>8, <1>9 DEF Covered, d, n

LEMMA ClaimKeeps ==
  ASSUME Covered, NEW t \in Derivatives, NEW owner \in Accounts, NEW v \in Amounts,
         NEW c \in Share(v, reserves[t].rate), Claim(t, owner, v, c)
  PROVE  /\ Covered' /\ c \in Int
         /\ reserves[t].derivative - reserves'[t].derivative = v
         /\ reserves[t].underlying - reserves'[t].underlying = c
         /\ \A u \in Derivatives \ {t} : reserves'[u] = reserves[u]
<1>1. /\ t \in Tokens /\ Reserve \in Accounts /\ v \in Nat
      /\ reserves[t].rate \in Nat \X (Nat \ {0})
  BY ReserveAssumption, Domains DEF Covered, ReserveTables, Reserve0
<1>2. c \in Int
  BY <1>1, ShareBelow
<1>3. /\ LessReserved(t, v, c) /\ BurnClaimed(t, v) /\ Reserved(t) /\ stat[t].exists
      /\ UNCHANGED <<req, deferred, now>>
      /\ \E L1 \in Collected(Reserve, t, owner, v) : TRUE
      /\ allowance' = Spend(owner, Reserve, t, v)
  BY DEF Claim
<1>4. /\ StatOK' /\ Capped' /\ stat[t].max - stat'[t].max = v
      /\ \A u \in Derivatives \ {t} : stat'[u] = stat[u]
  BY <1>1, <1>3, ClaimStat DEF Covered
<1>5. /\ TablesOK(row')
      /\ row'[Core][Reserve].bal = row[Core][Reserve].bal - c
  BY <1>2, ClaimRows
<1>6. allowance' \in [Accounts -> [Accounts -> [Tokens -> Nat]]]
  <2>1. allowance[owner][Reserve][t] >= v
    BY <1>3 DEF Collected
  <2> QED BY <1>1, <1>3, <2>1 DEF Spend, Covered, Sound
<1>7. Sound'
  BY <1>3, <1>4, <1>5, <1>6 DEF Covered, Sound
<1> QED BY <1>1, <1>3, <1>4, <1>5, <1>7, ReleaseKeeps

-----------------------------------------------------------------------------
(* The chain around gxc.reserve.                                            *)

(* What nobody but a claim does: lower what gxc.reserve holds of the system *)
(* token.  What nobody but a mint does: raise a maximum.                    *)
Upheld ==
  /\ row'[Core][Reserve].bal >= row[Core][Reserve].bal
  /\ \A u \in Derivatives : stat'[u].max <= stat[u].max

LEMMA UpheldKeeps ==
  ASSUME Covered, Sound', Upheld, reserves' = reserves
  PROVE  Covered'
<1>1. /\ row[Core][Reserve].bal \in Nat /\ row'[Core][Reserve].bal \in Nat
      /\ UnderlyingIn(reserves) \in Int
      /\ row[Core][Reserve].bal >= UnderlyingIn(reserves)
  BY ReserveAssumption, OwnedInt, UnderlyingInt, UnderlyingInTables
  DEF Covered, Sound, ReserveBacked
<1>2. row'[Core][Reserve].bal >= UnderlyingIn(reserves')
  BY <1>1 DEF Upheld
<1>3. ReserveBacked'
  BY <1>2, UnderlyingInTables DEF ReserveBacked
<1>4. \A u \in Derivatives : /\ stat[u].max \in Int /\ stat'[u].max \in Int
                             /\ reserves[u].derivative \in Int
  BY FiniteDerivatives DEF Covered, Sound, StatOK, Stat, ReserveTables, Reserve0
<1>5. \A u \in Derivatives :
        stat[u].max <= reserves[u].derivative => stat'[u].max <= reserves[u].derivative
  BY <1>4 DEF Upheld
<1>6. FullyReserved'
  BY <1>5 DEF Covered, FullyReserved, Reserved
<1> QED BY <1>3, <1>6 DEF Covered

(* A handler that touches neither the system token's rows nor a maximum.    *)
LEMMA ElsewhereUpheld ==
  ASSUME Sound, row'[Core] = row[Core], \A u \in Derivatives : stat'[u].max = stat[u].max
  PROVE  Upheld
<1>1. row[Core][Reserve].bal \in Nat
  BY ReserveAssumption, OwnedInt DEF Sound
<1>2. \A u \in Derivatives : stat[u].max \in Int
  BY FiniteDerivatives DEF Sound, StatOK, Stat
<1> QED BY <1>1, <1>2 DEF Upheld

LEMMA DerivativeStepKeeps ==
  ASSUME Sound, NEW s \in Signers, DerivativeStep(s)
  PROVE  Sound' /\ Upheld
<1>1. PICK t \in Derivatives, v \in Amounts :
        \/ Burn(s, t, v)
        \/ \E a \in Holders[t] :
             \/ Issue(s, t, a, v)
             \/ \E b \in Holders[t] :
                  Transfer(s, t, a, b, v) \/ RecallDeposit(s, t, a, b, v)
             \/ \E chg \in Changes({"frozen"}) : SetAccountOpts(s, t, {a}, chg)
  BY Zenon DEF DerivativeStep
<1>2. /\ t \in Tokens /\ Core \in Tokens /\ t # Core /\ v \in Nat
      /\ Holders[t] \subseteq Accounts
  BY ReserveAssumption, Domains
<1>3. row \in [Tokens -> Ledger] /\ stat \in [Tokens -> Stat]
  BY DEF Sound, TablesOK, StatOK
<1>4. CASE Burn(s, t, v)
  <2>1. Sound'
    BY <1>2, <1>4, BurnOK
  <2>2. row'[Core] = row[Core]
    <3>1. \E keep \in StackFlag :
            row' = [row EXCEPT ![t] = SubBalance(row[t], Issuer[t], v, keep)]
      BY <1>4 DEF Burn
    <3> QED BY <1>2, <1>3, <3>1
  <2>3. row[Core][Reserve].bal \in Nat
    BY <1>2, ReserveAssumption, OwnedInt DEF Sound
  <2>4. \A u \in Derivatives : stat[u].max \in Int /\ stat'[u].max <= stat[u].max
    <3> SUFFICES ASSUME NEW u \in Derivatives
                 PROVE  stat[u].max \in Int /\ stat'[u].max <= stat[u].max
      OBVIOUS
    <3>1. u \in Tokens /\ stat[u].max \in Int
      BY <1>3, FiniteDerivatives DEF Stat
    <3>2. stat' = [stat EXCEPT ![t].supply = @ - v, ![t].max = @ - v]
      BY <1>4 DEF Burn
    <3>3. stat'[u].max = stat[u].max \/ stat'[u].max = stat[u].max - v
      BY <1>2, <1>3, <3>1, <3>2 DEF Stat
    <3> QED BY <1>2, <3>1, <3>3
  <2> QED BY <2>1, <2>2, <2>3, <2>4 DEF Upheld
<1>5. ASSUME NEW a \in Holders[t], Issue(s, t, a, v)
      PROVE  Sound' /\ Upheld
  <2>1. a \in Accounts
    BY <1>2
  <2>2. Sound'
    BY <1>2, <1>5, <2>1, IssueOK
  <2>3. row'[Core] = row[Core]
    BY <1>2, <1>3, <1>5 DEF Issue
  <2>4. \A u \in Derivatives : stat'[u].max = stat[u].max
    BY <1>2, <1>3, <1>5, FiniteDerivatives DEF Issue, Stat
  <2> QED BY <2>2, <2>3, <2>4, ElsewhereUpheld
<1>6. ASSUME NEW a \in Holders[t], NEW b \in Holders[t],
             Transfer(s, t, a, b, v) \/ RecallDeposit(s, t, a, b, v)
      PROVE  Sound' /\ Upheld
  <2>1. a \in Accounts /\ b \in Accounts
    BY <1>2
  <2>2. Sound'
    BY <1>2, <1>6, <2>1, TransferOK, RecallDepositOK
  <2>3. \E M : row' = [row EXCEPT ![t] = M]
    BY <1>6 DEF Transfer, RecallDeposit
  <2>4. row'[Core] = row[Core] /\ stat' = stat
    BY <1>2, <1>3, <1>6, <2>3 DEF Transfer, RecallDeposit
  <2> QED BY <2>2, <2>4, ElsewhereUpheld
<1>7. ASSUME NEW a \in Holders[t], NEW chg \in Changes({"frozen"}),
             SetAccountOpts(s, t, {a}, chg)
      PROVE  Sound' /\ Upheld
  <2>1. chg \in Changes(AccountOptions) /\ {a} \in SUBSET Accounts
    BY <1>2 DEF Changes, AccountOptions
  <2>2. Sound'
    BY <1>2, <1>7, <2>1, SetAccountOptsOK
  <2>3. row'[Core] = row[Core] /\ stat' = stat
    BY <1>2, <1>3, <1>7 DEF SetAccountOpts
  <2> QED BY <2>2, <2>3, ElsewhereUpheld
<1> QED BY <1>1, <1>4, <1>5, <1>6, <1>7

LEMMA TokenStepKeeps ==
  ASSUME Sound, NEW s \in Signers, TokenStep(s)
  PROVE  Sound' /\ Upheld
<1>1. Core \in Tokens /\ Reserve \in Accounts /\ Games \subseteq Accounts
  BY ReserveAssumption
<1>2. CASE DerivativeStep(s)
  BY <1>2, DerivativeStepKeeps
<1>3. ASSUME NEW a \in Accounts, NEW v \in Amounts, Transfer(s, Core, a, Reserve, v)
      PROVE  Sound' /\ Upheld
  <2>1. /\ row'[Core][Reserve].bal = row[Core][Reserve].bal + v
        /\ v \in Nat /\ row[Core][Reserve].bal \in Nat
    BY <1>1, <1>3, TransferRows
  <2>2. row'[Core][Reserve].bal >= row[Core][Reserve].bal
    BY <2>1
  <2>3. Sound'
    BY <1>1, <1>3, TransferOK
  <2>4. stat' = stat
    BY <1>3 DEF Transfer
  <2>5. \A u \in Derivatives : stat'[u].max <= stat[u].max
    BY <2>4, FiniteDerivatives DEF Sound, StatOK, Stat
  <2> QED BY <2>2, <2>3, <2>5 DEF Upheld
<1>4. ASSUME NEW t \in Tokens, NEW a \in Accounts, NEW v \in Limits,
             Approve(s, t, a, Reserve, v)
      PROVE  Sound' /\ Upheld
  <2>1. Sound'
    BY <1>1, <1>4, ApproveOK
  <2>2. row' = row /\ stat' = stat
    BY <1>4 DEF Approve
  <2> QED BY <2>1, <2>2, ElsewhereUpheld
<1>5. \A t \in Derivatives : t \in Tokens /\ Holders[t] \subseteq Accounts
  BY ReserveAssumption
<1> QED BY <1>1, <1>2, <1>3, <1>4, <1>5 DEF TokenStep

-----------------------------------------------------------------------------
(* The specification.                                                       *)

LEMMA CoreStatOK ==
  /\ CoreStat \in Stat /\ CoreStat.exists
  /\ CoreStat.supply <= CoreStat.max /\ CoreStat.max <= MaxAmount
<1> DEFINE z == 0 % TimeWidth
           new == [exists |-> TRUE, supply |-> 0, max |-> MaxAmount,
                   opts |-> {}, delay |-> z, min |-> 0]
<1>1. z \in Nat
  BY ConstantsAssumption
<1>2. Minted(MaxAmount, [opts |-> {}, delay |-> 0, min |-> 0]) = new
  BY DEF Minted
<1>3. CoreStat = [new EXCEPT !.supply = MaxAmount]
  BY <1>2, Zenon DEF CoreStat
<1> HIDE DEF z
<1>4. new \in Stat
  BY <1>1, Domains DEF Stat
<1>5. CoreStat \in Stat
  BY <1>3, <1>4, Domains DEF Stat
<1>6. CoreStat.exists /\ CoreStat.supply = MaxAmount /\ CoreStat.max = MaxAmount
  BY <1>3
<1> QED BY <1>5, <1>6, Domains

LEMMA InitCovered == ReserveInit => Covered
<1> SUFFICES ASSUME ReserveInit PROVE Covered
  OBVIOUS
<1>1. PICK holder \in Games :
        row = [t \in Tokens |-> [a \in Accounts |->
                 IF t = Core /\ a = holder THEN CoreRow ELSE NoRow]]
  BY DEF ReserveInit
<1>2. CoreRow \in Row /\ CoreRow.open /\ NoRow \in Row
  BY Domains DEF CoreRow, NoRow, Row
<1>3. \A t \in Tokens : LedgerOK(row[t])
  BY <1>1, <1>2 DEF LedgerOK, Ledger
<1>4. TablesOK(row)
  BY <1>1, <1>3 DEF TablesOK, LedgerOK
<1>5. StatOK /\ Capped
  <2>1. NoStat \in Stat /\ NoStat.supply <= NoStat.max /\ NoStat.max <= MaxAmount
    BY Domains DEF NoStat, Stat
  <2>2. stat = [t \in Tokens |-> IF t = Core THEN CoreStat ELSE NoStat]
    BY DEF ReserveInit
  <2> HIDE DEF NoStat
  <2> QED BY <2>1, <2>2, CoreStatOK DEF StatOK, Capped
<1>6. /\ req \in Requests /\ deferred \in [Accounts -> Nat \cup {None}]
      /\ allowance \in [Accounts -> [Accounts -> [Tokens -> Nat]]]
      /\ now \in 0 .. MaxTime
  BY Domains DEF ReserveInit, Requests, NoReq, None
<1>7. Sound
  BY <1>4, <1>5, <1>6 DEF Sound
<1>8. reserves \in ReserveTables /\ FullyReserved
  BY DEF ReserveInit, ReserveTables, Reserve0, NoReserve, FullyReserved, Reserved
<1>9. ReserveBacked
  <2>1. \A t \in Derivatives : UnderlyingOf(reserves)[t] = 0
    BY DEF ReserveInit, UnderlyingOf, NoReserve
  <2>2. UnderlyingIn(reserves) = 0
    BY <2>1, FiniteDerivatives, SumZero DEF UnderlyingIn
  <2>3. row[Core][Reserve].bal \in Nat
    BY <1>7, ReserveAssumption, OwnedInt DEF Sound
  <2> QED BY <2>2, <2>3, UnderlyingInTables DEF ReserveBacked
<1> QED BY <1>7, <1>8, <1>9 DEF Covered

(* Who a claim moves tokens of.                                             *)
ClaimPaid(t) ==
  LET v == reserves[t].derivative - reserves'[t].derivative
      c == reserves[t].underlying - reserves'[t].underlying
  IN  Reserved(t) /\ v # 0 =>
        \E owner \in auth' :
          /\ Got(t, owner) = - v /\ Got(Core, owner) = c
          /\ stat[t].supply - stat'[t].supply = v
          /\ stat[t].max - stat'[t].max = v
          /\ \A a \in Accounts \ {owner, Reserve} :
               Got(t, a) = 0 /\ Got(Core, a) = 0

(* burn takes the tokens from the row of the issuer, claim hands them to    *)
(* the account that signs for it: the two are one only when the issuer is   *)
(* no virtual account.                                                      *)
IssuersAreAccounts == \A t \in Derivatives : Basename[Issuer[t]] = Issuer[t]

LEMMA SameReserve ==
  ASSUME Covered, NEW t \in Derivatives, reserves'[t] = reserves[t]
  PROVE  ClaimPaid(t)
<1>1. reserves[t].derivative \in Int
  BY DEF Covered, ReserveTables, Reserve0
<1> QED BY <1>1 DEF ClaimPaid

LEMMA ClaimPays ==
  ASSUME Covered, NEW t \in Derivatives, Basename[Issuer[t]] = Issuer[t],
         NEW owner \in Accounts, NEW v \in Amounts,
         NEW c \in Share(v, reserves[t].rate), Claim(t, owner, v, c)
  PROVE  ClaimPaid(t)
<1>1. /\ c \in Int /\ reserves[t].derivative - reserves'[t].derivative = v
      /\ reserves[t].underlying - reserves'[t].underlying = c
  BY ClaimKeeps
<1>2. stat[t].supply - stat'[t].supply = v /\ stat[t].max - stat'[t].max = v
  BY ClaimStat, Domains DEF Claim, Covered
<1>3. owner \in auth'
  BY DEF Claim
<1>4. /\ row'[Core][owner].bal = row[Core][owner].bal + c
      /\ \A a \in Accounts \ {owner, Reserve} : row'[Core][a].bal = row[Core][a].bal
      /\ row'[t][owner].bal = row[t][owner].bal - v
      /\ \A a \in Accounts \ {owner, Reserve} : row'[t][a].bal = row[t][a].bal
  BY <1>1, ClaimRows
<1>5. \A a \in Accounts : row[t][a].bal \in Int /\ row[Core][a].bal \in Int
  BY ReserveAssumption, FiniteDerivatives, OwnedInt DEF Covered, Sound
<1>6. Got(t, owner) = - v /\ Got(Core, owner) = c
  BY <1>1, <1>4, <1>5, Domains DEF Got
<1>7. \A a \in Accounts \ {owner, Reserve} : Got(t, a) = 0 /\ Got(Core, a) = 0
  BY <1>4, <1>5 DEF Got
<1> QED BY <1>1, <1>2, <1>3, <1>6, <1>7 DEF ClaimPaid

LEMMA StepKeepsCovered ==
  ASSUME Covered, [ReserveNext]_reserveVars
  PROVE  Covered' /\ (IssuersAreAccounts => \A t \in Derivatives : ClaimPaid(t))
<1>1. ASSUME NEW s \in Signers, TokenStep(s), UNCHANGED <<reserves, games>>
      PROVE  Covered' /\ \A t \in Derivatives : ClaimPaid(t)
  <2>1. Sound' /\ Upheld
    BY <1>1, TokenStepKeeps DEF Covered
  <2> QED BY <1>1, <2>1, UpheldKeeps, SameReserve
<1>2. ASSUME NEW s \in Signers, NEW t \in Derivatives, NEW w \in Delays,
             NEW offer \in Offers[t], Mint(s, t, offer, w)
      PROVE  Covered' /\ \A u \in Derivatives : ClaimPaid(u)
  <2>1. /\ Covered' /\ ~ Reserved(t)
        /\ \A u \in Derivatives \ {t} : reserves'[u] = reserves[u]
    BY <1>2, MintKeeps
  <2>2. ClaimPaid(t)
    BY <2>1 DEF ClaimPaid
  <2> QED BY <2>1, <2>2, SameReserve
<1>3. ASSUME NEW s \in Signers, NEW owner \in s, NEW t \in Derivatives,
             NEW v \in Amounts, NEW c \in Share(v, reserves[t].rate),
             Claim(t, owner, v, c)
      PROVE  Covered' /\ (IssuersAreAccounts => \A u \in Derivatives : ClaimPaid(u))
  <2>1. owner \in Accounts
    BY ConstantsAssumption
  <2>2. Covered' /\ \A u \in Derivatives \ {t} : reserves'[u] = reserves[u]
    BY <1>3, <2>1, ClaimKeeps
  <2>3. IssuersAreAccounts => ClaimPaid(t)
    BY <1>3, <2>1, ClaimPays DEF IssuersAreAccounts
  <2> QED BY <2>2, <2>3, SameReserve
<1>4. ASSUME UNCHANGED <<reserves, stat, row, req, allowance, deferred, now>>
      PROVE  Covered' /\ \A t \in Derivatives : ClaimPaid(t)
  <2>1. Sound'
    BY <1>4 DEF Covered, Sound, StatOK, Capped, TablesOK
  <2>2. Upheld
    BY <1>4, ElsewhereUpheld DEF Covered
  <2> QED BY <1>4, <2>1, <2>2, UpheldKeeps, SameReserve
<1>5. (\E a \in Games : SetGame(a)) \/ UNCHANGED reserveVars
        => UNCHANGED <<reserves, stat, row, req, allowance, deferred, now>>
  BY DEF SetGame, reserveVars, vars
<1> QED BY <1>1, <1>2, <1>3, <1>4, <1>5, Zenon DEF ReserveNext

(* What gxc.reserve holds of the system token covers what it owes for all   *)
(* derivative tokens together, through any sequence of mints, claims,       *)
(* burns, recalls and transfers.                                            *)
THEOREM Backed == ReserveSpec => []ReserveBacked
<1>1. Covered /\ [ReserveNext]_reserveVars => Covered'
  BY StepKeepsCovered
<1>2. Covered => ReserveBacked
  BY DEF Covered
<1> QED BY InitCovered, <1>1, <1>2, PTL DEF ReserveSpec

(* Every unit of a derivative that exists or may still be issued is covered *)
(* at the rate of its minting, but for the error of a double in what was    *)
(* claimed: no sequence of claims, whose shares round up or down, nor       *)
(* burning without a claim, adds up to more.                                *)
THEOREM Full == ReserveSpec => []FullyReserved
<1>1. Covered /\ [ReserveNext]_reserveVars => Covered'
  BY StepKeepsCovered
<1>2. Covered => FullyReserved
  BY DEF Covered
<1> QED BY InitCovered, <1>1, <1>2, PTL DEF ReserveSpec

(* A claim through four inline actions, whoever is the owner, takes the     *)
(* derivative from the one who signs it and from nobody else, and hands the *)
(* share to that account.                                                   *)
THEOREM ClaimsArePaid ==
  ASSUME IssuersAreAccounts
  PROVE  ReserveSpec => ClaimIsPaid
<1>1. Covered /\ [ReserveNext]_reserveVars => Covered'
  BY StepKeepsCovered
<1>2. Covered /\ [ReserveNext]_reserveVars
        => [\A t \in Derivatives :
              LET v == reserves[t].derivative - reserves'[t].derivative
                  c == reserves[t].underlying - reserves'[t].underlying
              IN  Reserved(t) /\ v # 0 =>
                    \E owner \in auth' :
                      /\ Got(t, owner) = - v /\ Got(Core, owner) = c
                      /\ stat[t].supply - stat'[t].supply = v
                      /\ stat[t].max - stat'[t].max = v
                      /\ \A a \in Accounts \ {owner, Reserve} :
                           Got(t, a) = 0 /\ Got(Core, a) = 0]_reserveVars
  BY StepKeepsCovered, Zenon DEF ClaimPaid
<1> QED BY InitCovered, <1>1, <1>2, PTL DEF ReserveSpec, ClaimIsPaid

-----------------------------------------------------------------------------
(* Conservation, where minting, claiming and the other steps are one        *)
(* system.                                                                  *)

(* An inline transfer keeps what a token's rows hold.                       *)
LEMMA MovedHeld ==
  ASSUME NEW signers, NEW t, NEW L, LedgerOK(L), NEW from \in Accounts,
         NEW to \in Accounts, NEW v \in Nat,
         NEW M \in Moved(signers, t, L, from, to, v)
  PROVE  LedgerOK(M) /\ Held(M) = Held(L)
<1>1. PICK keep \in StackFlag : M = AddBalance(SubBalance(L, from, v, keep), to, v)
  BY DEF Moved
<1>2. keep \in BOOLEAN /\ L[from].bal >= v
  BY Domains DEF Moved, CanSubBalance
<1> QED BY <1>1, <1>2, MovesOK

(* What is burned, on whichever account of the issuer, leaves the rows.     *)
LEMMA BurntHeld ==
  ASSUME NEW t \in Tokens, NEW L, LedgerOK(L), NEW v \in Nat, NEW M \in Burnt(t, L, v)
  PROVE  LedgerOK(M) /\ Held(M) = Held(L) - v
<1> DEFINE issuer == Basename[Issuer[t]]
           i == Issuer[t]
<1>1. i \in Accounts /\ issuer \in Accounts /\ Reserve \in Accounts
  BY ConstantsAssumption, ReserveAssumption
<1>2. PICK keep \in StackFlag, N \in Moved({Reserve}, t, L, Reserve, issuer, v) :
        M = SubBalance(N, i, v, keep) /\ CanSubBalance(t, N, i, v)
  BY DEF Burnt
<1>3. keep \in BOOLEAN /\ N[i].bal >= v
  BY <1>2, Domains DEF CanSubBalance
<1> HIDE DEF issuer, i
<1>4. LedgerOK(N) /\ Held(N) = Held(L)
  BY <1>1, MovedHeld
<1>5. LedgerOK(M) /\ Held(M) = Held(N) - v
  BY <1>1, <1>2, <1>3, <1>4, SubBalanceOK
<1> QED BY <1>4, <1>5

(* Two tables change at once: the supply of one token by what its rows      *)
(* lose or gain, and the system token by nothing.                           *)
LEMMA BothBalanced ==
  ASSUME Sound, NEW t \in Tokens \ {Core}, NEW L, NEW C, NEW d \in Int,
         LedgerOK(L), LedgerOK(C), Held(L) = Held(row[t]) + d,
         Held(C) = Held(row[Core]),
         row' = [row EXCEPT ![Core] = C, ![t] = L],
         stat'[t].supply = stat[t].supply + d,
         \A u \in Tokens \ {t} : stat'[u].supply = stat[u].supply
  PROVE  Balanced
<1>1. /\ row'[t] = L /\ row'[Core] = C
      /\ \A u \in Tokens \ {t, Core} : row'[u] = row[u]
  BY ReserveAssumption DEF Sound, TablesOK
<1>2. Held(row[t]) \in Int /\ stat[t].supply \in Int
  BY TableOK, HeldInt DEF LedgerOK, Sound, StatOK, Stat
<1>3. stat'[t].supply - Held(row'[t]) = stat[t].supply - Held(row[t])
  BY <1>1, <1>2
<1>4. \A u \in Tokens \ {t} :
        stat'[u].supply - Held(row'[u]) = stat[u].supply - Held(row[u])
  BY <1>1
<1> QED BY <1>3, <1>4 DEF Balanced

(* mint only moves the underlying: nothing of the derivative exists yet.    *)
LEMMA MintBalances ==
  ASSUME Sound, NEW signers, NEW t \in Derivatives, NEW offer \in Offers[t],
         NEW w \in Delays, Mint(signers, t, offer, w)
  PROVE  Balanced
<1> DEFINE issuer == Basename[Issuer[t]]
           v == offer.underlying
<1>1. /\ t \in Tokens /\ t # Core /\ Core \in Tokens /\ issuer \in Accounts
      /\ Reserve \in Accounts /\ v \in Nat
  BY ConstantsAssumption, ReserveAssumption, Domains
<1>2. PICK L \in Collected(Reserve, Core, issuer, v) : row' = [row EXCEPT ![Core] = L]
  BY DEF Mint
<1>3. L \in Moved({Reserve}, Core, row[Core], issuer, Reserve, v)
  BY DEF Collected
<1> HIDE DEF issuer, v
<1>4. Held(L) = Held(row[Core])
  BY <1>1, <1>3, MovedHeld, TableOK
<1>5. \A u \in Tokens : Held(row'[u]) = Held(row[u])
  BY <1>1, <1>2, <1>4 DEF Sound, TablesOK
<1>6. ~ stat[t].exists /\ stat' = [stat EXCEPT ![t] = Minted(offer.derivative, Default(w))]
  BY DEF Mint
<1>7. \A u \in Tokens : stat'[u].supply = stat[u].supply
  BY <1>1, <1>6 DEF Minted, Sound, StatOK, NoStat
<1> QED BY <1>5, <1>7 DEF Balanced

(* claim takes from the supply what it burns.                               *)
LEMMA ClaimBalances ==
  ASSUME Sound, NEW t \in Derivatives, NEW owner \in Accounts, NEW v \in Amounts,
         NEW c \in Int, Claim(t, owner, v, c)
  PROVE  Balanced
<1>1. /\ t \in Tokens \ {Core} /\ Core \in Tokens /\ Reserve \in Accounts
      /\ v \in Nat /\ c \in Nat
  BY ReserveAssumption, Domains DEF Claim
<1>2. PICK L1 \in Collected(Reserve, t, owner, v) : \E L2 \in Burnt(t, L1, v) :
        \E C \in Moved({Reserve}, Core, row[Core], Reserve, owner, c) :
          row' = [row EXCEPT ![t] = L2, ![Core] = C]
  BY DEF Claim
<1>3. PICK L2 \in Burnt(t, L1, v),
           C \in Moved({Reserve}, Core, row[Core], Reserve, owner, c) :
        row' = [row EXCEPT ![t] = L2, ![Core] = C]
  BY <1>2
<1>4. L1 \in Moved({Reserve}, t, row[t], owner, Reserve, v)
  BY DEF Collected
<1>5. LedgerOK(L1) /\ Held(L1) = Held(row[t])
  BY <1>1, <1>4, MovedHeld, TableOK
<1>6. LedgerOK(L2) /\ Held(L2) = Held(L1) - v
  BY <1>1, <1>5, BurntHeld
<1>7. LedgerOK(C) /\ Held(C) = Held(row[Core])
  BY <1>1, MovedHeld, TableOK
<1>8. Held(row[t]) \in Int
  BY <1>1, TableOK, HeldInt DEF LedgerOK
<1>9. /\ stat'[t].supply = stat[t].supply - v /\ stat[t].supply \in Int
      /\ \A u \in Tokens \ {t} : stat'[u].supply = stat[u].supply
  BY <1>1 DEF Claim, BurnClaimed, Sound, StatOK, Stat
<1>10. /\ Held(L2) = Held(row[t]) + - v /\ - v \in Int
       /\ stat'[t].supply = stat[t].supply + - v
  BY <1>1, <1>5, <1>6, <1>8, <1>9
<1>11. row' = [row EXCEPT ![Core] = C, ![t] = L2]
  BY <1>1, <1>3 DEF Sound, TablesOK
<1> QED BY <1>1, <1>6, <1>7, <1>9, <1>10, <1>11, BothBalanced

LEMMA TokenStepBalances ==
  ASSUME Sound, NEW s \in Signers, TokenStep(s)
  PROVE  Balanced
<1>1. /\ Core \in Tokens /\ Reserve \in Accounts /\ Games \subseteq Accounts
      /\ \A t \in Derivatives : t \in Tokens /\ Holders[t] \subseteq Accounts
  BY ReserveAssumption
<1>2. CASE DerivativeStep(s)
  <2>1. PICK t \in Derivatives, v \in Amounts :
          \/ Burn(s, t, v)
          \/ \E a \in Holders[t] :
               \/ Issue(s, t, a, v)
               \/ \E b \in Holders[t] :
                    Transfer(s, t, a, b, v) \/ RecallDeposit(s, t, a, b, v)
               \/ \E chg \in Changes({"frozen"}) : SetAccountOpts(s, t, {a}, chg)
    BY <1>2, Zenon DEF DerivativeStep
  <2>2. t \in Tokens /\ Holders[t] \subseteq Accounts
    BY <1>1
  <2>3. ASSUME NEW a \in Holders[t], NEW chg \in Changes({"frozen"}),
               SetAccountOpts(s, t, {a}, chg)
        PROVE  Balanced
    <3>1. chg \in Changes(AccountOptions) /\ {a} \in SUBSET Accounts
      BY <2>2 DEF Changes, AccountOptions
    <3> QED BY <2>2, <2>3, <3>1, SetAccountOptsOK
  <2>4. Burn(s, t, v) => Balanced
    BY <2>2, BurnOK
  <2>5. ASSUME NEW a \in Holders[t], NEW b \in Holders[t]
        PROVE  /\ Issue(s, t, a, v) => Balanced
               /\ Transfer(s, t, a, b, v) \/ RecallDeposit(s, t, a, b, v) => Balanced
    <3>1. a \in Accounts /\ b \in Accounts
      BY <2>2
    <3> QED BY <2>2, <3>1, IssueOK, TransferOK, RecallDepositOK
  <2> QED BY <2>1, <2>3, <2>4, <2>5, Zenon
<1>3. ASSUME NEW a \in Accounts, NEW v \in Amounts, Transfer(s, Core, a, Reserve, v)
      PROVE  Balanced
  BY <1>1, <1>3, TransferOK
<1>4. ASSUME NEW t \in Tokens, NEW a \in Accounts, NEW v \in Limits,
             Approve(s, t, a, Reserve, v)
      PROVE  Balanced
  BY <1>1, <1>4, ApproveOK
<1> QED BY <1>1, <1>2, <1>3, <1>4 DEF TokenStep

LEMMA StepBalances ==
  ASSUME Sound, reserves \in ReserveTables, [ReserveNext]_reserveVars
  PROVE  Balanced
<1>1. ASSUME NEW s \in Signers, NEW owner \in s, NEW t \in Derivatives,
             NEW v \in Amounts, NEW c \in Share(v, reserves[t].rate),
             Claim(t, owner, v, c)
      PROVE  Balanced
  <2>1. owner \in Accounts /\ v \in Nat /\ reserves[t].rate \in Nat \X (Nat \ {0})
    BY ConstantsAssumption, Domains DEF ReserveTables, Reserve0
  <2>2. c \in Int
    BY <2>1, ShareBelow
  <2> QED BY <1>1, <2>1, <2>2, ClaimBalances
<1>2. ASSUME row' = row, stat' = stat
      PROVE  Balanced
  BY <1>2, SameSupply
<1>3. (\E a \in Games : SetGame(a)) \/ UNCHANGED reserveVars => row' = row /\ stat' = stat
  BY DEF SetGame, reserveVars, vars
<1> QED BY <1>1, <1>2, <1>3, MintBalances, TokenStepBalances, Zenon DEF ReserveNext

(* One row of the system token holds all of it.                             *)
LEMMA InitAccounted == ReserveInit => Accounted
<1> SUFFICES ASSUME ReserveInit, NEW t \in Tokens
             PROVE  stat[t].supply = Held(row[t])
  BY DEF Accounted
<1>1. PICK holder \in Games :
        row = [u \in Tokens |-> [a \in Accounts |->
                 IF u = Core /\ a = holder THEN CoreRow ELSE NoRow]]
  BY DEF ReserveInit
<1> DEFINE Empty == [a \in Accounts |-> NoRow]
<1>2. holder \in Accounts
  BY ReserveAssumption
<1>3. Empty \in Ledger /\ Held(Empty) = 0
  <2>1. NoRow \in Row
    BY DEF NoRow, Row
  <2>2. \A a \in Accounts : Worth(Empty)[a] = 0
    BY DEF Worth, NoRow
  <2>3. Held(Empty) = SumFunctionOnSet(Worth(Empty), Accounts)
    BY Zenon DEF Held, Worth
  <2> QED BY <2>1, <2>2, <2>3, FiniteAccounts, SumZero DEF Ledger
<1>4. CASE t = Core
  <2>1. row[t] = [Empty EXCEPT ![holder] = CoreRow]
    BY <1>1, <1>4
  <2>2. /\ CoreRow \in Row /\ CoreRow.bal = MaxAmount /\ CoreRow.dep = 0
        /\ Empty[holder].bal = 0 /\ Empty[holder].dep = 0
    BY <1>2, Domains DEF CoreRow, NoRow, Row
  <2> HIDE DEF Empty
  <2>3. Held(row[t]) = 0 - (0 + 0) + (MaxAmount + 0)
    BY <1>2, <1>3, <2>1, <2>2, HeldUpdate
  <2>4. stat[t].supply = MaxAmount
    BY <1>4 DEF ReserveInit, CoreStat, Minted
  <2> QED BY <2>3, <2>4, Domains
<1>5. CASE t # Core
  <2>1. row[t] = Empty
    BY <1>1, <1>5
  <2>2. stat[t].supply = 0
    BY <1>5 DEF ReserveInit, NoStat
  <2> QED BY <1>3, <2>1, <2>2
<1> QED BY <1>4, <1>5

LEMMA ReserveStepAccounted ==
  ASSUME Covered, Accounted, [ReserveNext]_reserveVars
  PROVE  (Covered /\ Accounted)'
<1>1. Covered' /\ Balanced
  BY StepKeepsCovered, StepBalances DEF Covered
<1> QED BY <1>1, AccountedOK DEF Covered

(* In the system of the token contract and gxc.reserve, where a derivative  *)
(* is minted against another token, claimed through four inline actions and *)
(* burned on the way, the rows of every token still add up to its supply,   *)
(* within its maximum.                                                      *)
THEOREM ReserveConserves == ReserveSpec => []Conservation
<1>1. ReserveInit => Covered /\ Accounted
  BY InitCovered, InitAccounted
<1>2. Covered /\ Accounted /\ [ReserveNext]_reserveVars => (Covered /\ Accounted)'
  BY ReserveStepAccounted
<1>3. Covered /\ Accounted => Conservation
  BY DEF Covered, Sound, Capped, Accounted, Conservation
<1> QED BY <1>1, <1>2, <1>3, PTL DEF ReserveSpec

-----------------------------------------------------------------------------
(* Nobody can be in the way of a claim.  ENABLED is outside what can be     *)
(* proved: Claim is taken apart into what it asks for, with the tables L of *)
(* the derivative and C of the system token its transfers may leave, and    *)
(* what it assigns, a value to each variable.                               *)

CanClaim(t, owner, v, c, L, C) ==
  /\ Reserved(t) /\ stat[t].exists
  /\ c > 0
  /\ \E L1 \in Collected(Reserve, t, owner, v) : L \in Burnt(t, L1, v)
  /\ C \in Moved({Reserve}, Core, row[Core], Reserve, owner, c)

ClaimLeaves(t, owner, v, c, L, C) ==
  /\ row' = [row EXCEPT ![t] = L, ![Core] = C]
  /\ allowance' = Spend(owner, Reserve, t, v)
  /\ BurnClaimed(t, v)
  /\ LessReserved(t, v, c)
  /\ auth' = {owner}
  /\ UNCHANGED <<req, deferred, now, games>>

LEMMA ClaimParts ==
  ASSUME NEW t, NEW owner, NEW v, NEW c
  PROVE  Claim(t, owner, v, c) <=>
           \E L, C : CanClaim(t, owner, v, c, L, C) /\ ClaimLeaves(t, owner, v, c, L, C)
BY Zenon DEF Claim, CanClaim, ClaimLeaves

(* Only the issuer's freezing can stop a token minted through gxc.reserve,  *)
(* and nothing the system token, which has no options.                      *)
MintedFreely == {"mintable", "recallable", "freezable"}
Unhindered ==
  /\ stat[Core].exists /\ stat[Core].opts = {}
  /\ \A a \in Accounts : row[Core][a].opts = {}
  /\ \A t \in Derivatives : /\ Reserved(t) => stat[t].exists
                            /\ stat[t].opts \subseteq MintedFreely

SameTerms ==
  \A u \in Tokens : stat'[u].exists = stat[u].exists /\ stat'[u].opts = stat[u].opts
SameCoreOptions == \A a \in Accounts : row'[Core][a].opts = row[Core][a].opts

LEMMA MovedOptions ==
  ASSUME NEW signers, NEW t, NEW L, LedgerOK(L), NEW from \in Accounts,
         NEW to \in Accounts, NEW v \in Nat,
         NEW M \in Moved(signers, t, L, from, to, v), NEW a \in Accounts
  PROVE  M[a].opts = L[a].opts
<1>1. /\ Delta(L, M, from, - v, 0) /\ Delta(L, M, to, v, 0)
      /\ SameBut(L, M, {from, to})
  BY MovedRows
<1> QED BY <1>1 DEF Delta, SameBut

LEMMA SameOnCore ==
  ASSUME Sound, NEW t \in Tokens \ {Core}, NEW M, row' = [row EXCEPT ![t] = M]
  PROVE  SameCoreOptions
<1>1. row'[Core] = row[Core]
  BY ReserveAssumption DEF Sound, TablesOK
<1> QED BY <1>1 DEF SameCoreOptions

LEMMA DerivativeStepTerms ==
  ASSUME Sound, NEW s \in Signers, DerivativeStep(s)
  PROVE  SameTerms /\ SameCoreOptions
<1>1. PICK t \in Derivatives, v \in Amounts :
        \/ Burn(s, t, v)
        \/ \E a \in Holders[t] :
             \/ Issue(s, t, a, v)
             \/ \E b \in Holders[t] :
                  Transfer(s, t, a, b, v) \/ RecallDeposit(s, t, a, b, v)
             \/ \E chg \in Changes({"frozen"}) : SetAccountOpts(s, t, {a}, chg)
  BY Zenon DEF DerivativeStep
<1>2. t \in Tokens \ {Core}
  BY ReserveAssumption
<1>3. stat \in [Tokens -> Stat]
  BY DEF Sound, StatOK
<1>4. CASE Burn(s, t, v)
  <2>1. \E M : row' = [row EXCEPT ![t] = M]
    BY <1>4 DEF Burn
  <2>2. stat' = [stat EXCEPT ![t].supply = @ - v, ![t].max = @ - v]
    BY <1>4 DEF Burn
  <2>3. SameTerms
    BY <1>2, <1>3, <2>2 DEF SameTerms, Stat
  <2> QED BY <1>2, <2>1, <2>3, SameOnCore
<1>5. ASSUME NEW a, Issue(s, t, a, v)
      PROVE  SameTerms /\ SameCoreOptions
  <2>1. \E M : row' = [row EXCEPT ![t] = M]
    BY <1>5 DEF Issue
  <2>2. stat' = [stat EXCEPT ![t].supply = @ + v]
    BY <1>5 DEF Issue
  <2>3. SameTerms
    BY <1>2, <1>3, <2>2 DEF SameTerms, Stat
  <2> QED BY <1>2, <2>1, <2>3, SameOnCore
<1>6. ASSUME NEW a, NEW b, Transfer(s, t, a, b, v) \/ RecallDeposit(s, t, a, b, v)
      PROVE  SameTerms /\ SameCoreOptions
  <2>1. \E M : row' = [row EXCEPT ![t] = M]
    BY <1>6 DEF Transfer, RecallDeposit
  <2>2. stat' = stat
    BY <1>6 DEF Transfer, RecallDeposit
  <2> QED BY <1>2, <2>1, <2>2, SameOnCore DEF SameTerms
<1>7. ASSUME NEW a, NEW chg, SetAccountOpts(s, t, {a}, chg)
      PROVE  SameTerms /\ SameCoreOptions
  <2>1. \E M : row' = [row EXCEPT ![t] = M]
    BY <1>7 DEF SetAccountOpts
  <2>2. stat' = stat
    BY <1>7 DEF SetAccountOpts
  <2> QED BY <1>2, <2>1, <2>2, SameOnCore DEF SameTerms
<1> QED BY <1>1, <1>4, <1>5, <1>6, <1>7

LEMMA TokenStepTerms ==
  ASSUME Sound, NEW s \in Signers, TokenStep(s)
  PROVE  SameTerms /\ SameCoreOptions
<1>1. Core \in Tokens /\ Reserve \in Accounts
  BY ReserveAssumption
<1>2. ASSUME NEW a \in Accounts, NEW v \in Amounts, Transfer(s, Core, a, Reserve, v)
      PROVE  SameTerms /\ SameCoreOptions
  <2>1. \E M \in Moved(s, Core, row[Core], a, Reserve, v) : row' = [row EXCEPT ![Core] = M]
    BY <1>2, Zenon DEF Transfer, Moved
  <2>2. PICK M \in Moved(s, Core, row[Core], a, Reserve, v) : row'[Core] = M
    BY <1>1, <2>1 DEF Sound, TablesOK
  <2>3. LedgerOK(row[Core]) /\ v \in Nat
    BY <1>1, TableOK, Domains
  <2>4. \A b \in Accounts : M[b].opts = row[Core][b].opts
    <3>1. /\ Delta(row[Core], M, a, - v, 0) /\ Delta(row[Core], M, Reserve, v, 0)
          /\ SameBut(row[Core], M, {a, Reserve})
      BY <1>1, <2>3, MovedRows
    <3> QED BY <3>1 DEF Delta, SameBut
  <2>5. SameCoreOptions
    BY <2>2, <2>4 DEF SameCoreOptions
  <2>6. stat' = stat
    BY <1>2 DEF Transfer
  <2> QED BY <2>5, <2>6 DEF SameTerms
<1>3. ASSUME NEW t, NEW a, NEW v, Approve(s, t, a, Reserve, v)
      PROVE  SameTerms /\ SameCoreOptions
  BY <1>3 DEF Approve, SameTerms, SameCoreOptions
<1> QED BY <1>2, <1>3, DerivativeStepTerms, Zenon DEF TokenStep

LEMMA StepKeepsUnhindered ==
  ASSUME Covered, Unhindered, [ReserveNext]_reserveVars
  PROVE  Unhindered'
<1>1. /\ Sound /\ stat \in [Tokens -> Stat] /\ reserves \in ReserveTables
      /\ Core \in Tokens /\ Reserve \in Accounts /\ Derivatives \subseteq Tokens \ {Core}
      /\ LedgerOK(row[Core]) /\ DOMAIN row = Tokens
  BY ReserveAssumption, TableOK DEF Covered, Sound, StatOK, TablesOK
<1>2. ASSUME SameTerms, SameCoreOptions, \A u \in Derivatives : reserves'[u] = reserves[u]
      PROVE  Unhindered'
  BY <1>1, <1>2 DEF Unhindered, SameTerms, SameCoreOptions, Reserved
<1>3. ASSUME NEW s \in Signers, TokenStep(s), UNCHANGED <<reserves, games>>
      PROVE  Unhindered'
  BY <1>1, <1>2, <1>3, TokenStepTerms
<1>4. ASSUME NEW s \in Signers, NEW t \in Derivatives, NEW w \in Delays,
             NEW offer \in Offers[t], Mint(s, t, offer, w)
      PROVE  Unhindered'
  <2> DEFINE issuer == Basename[Issuer[t]]
             m == Minted(offer.derivative, Default(w))
  <2>1. PICK L \in Collected(Reserve, Core, issuer, offer.underlying) :
          row' = [row EXCEPT ![Core] = L]
    BY <1>4 DEF Mint
  <2>2. /\ L \in Moved({Reserve}, Core, row[Core], issuer, Reserve, offer.underlying)
        /\ issuer \in Accounts /\ offer.underlying \in Nat
    BY ConstantsAssumption, ReserveAssumption DEF Collected
  <2>3. \A a \in Accounts : L[a].opts = row[Core][a].opts
    BY <1>1, <2>2, MovedOptions
  <2>4. \A a \in Accounts : row'[Core][a].opts = {}
    BY <1>1, <2>1, <2>3 DEF Unhindered
  <2>5. m.exists /\ m.opts = MintedFreely
    BY DEF Minted, Default, MintedFreely
  <2> HIDE DEF m, issuer
  <2>6. stat' = [stat EXCEPT ![t] = m]
    BY <1>4 DEF Mint, m
  <2>7. \A u \in Tokens : stat'[u] = IF u = t THEN m ELSE stat[u]
    BY <1>1, <2>6
  <2>8. \A u \in Derivatives \ {t} : reserves'[u] = reserves[u]
    BY <1>1, <1>4 DEF Mint, ReserveTables
  <2>9. stat'[Core].exists /\ stat'[Core].opts = {}
    BY <1>1, <2>7 DEF Unhindered
  <2>10. ASSUME NEW u \in Derivatives
         PROVE  /\ Reserved(u)' => stat'[u].exists
                /\ stat'[u].opts \subseteq MintedFreely
    <3>1. CASE u = t
      BY <1>1, <2>5, <2>7, <3>1
    <3>2. CASE u # t
      BY <1>1, <2>7, <2>8, <3>2 DEF Unhindered, Reserved
    <3> QED BY <3>1, <3>2
  <2> QED BY <2>4, <2>9, <2>10 DEF Unhindered
<1>5. ASSUME NEW s \in Signers, NEW owner \in s, NEW t \in Derivatives,
             NEW v \in Amounts, NEW c \in Share(v, reserves[t].rate),
             Claim(t, owner, v, c)
      PROVE  Unhindered'
  <2>1. /\ owner \in Accounts /\ v \in Nat /\ t \in Tokens /\ t # Core
        /\ reserves[t].rate \in Nat \X (Nat \ {0})
    BY <1>1, ConstantsAssumption, Domains DEF ReserveTables, Reserve0
  <2>2. c \in Nat
    BY <1>5, <2>1, ShareBelow DEF Claim
  <2>3. PICK L, C : CanClaim(t, owner, v, c, L, C) /\ ClaimLeaves(t, owner, v, c, L, C)
    BY <1>5, ClaimParts, Zenon
  <2>4. SameCoreOptions
    <3>1. row'[Core] = C
      BY <1>1, <2>3 DEF ClaimLeaves
    <3>2. C \in Moved({Reserve}, Core, row[Core], Reserve, owner, c)
      BY <2>3 DEF CanClaim
    <3> QED BY <1>1, <2>1, <2>2, <3>1, <3>2, MovedOptions DEF SameCoreOptions
  <2>5. SameTerms
    BY <1>1, <2>1, <2>3 DEF ClaimLeaves, BurnClaimed, SameTerms, Stat
  <2>6. Reserved(t) /\ \A u \in Derivatives \ {t} : reserves'[u] = reserves[u]
    BY <1>1, <2>3 DEF CanClaim, ClaimLeaves, LessReserved, ReserveTables
  <2>7. stat[t].exists
    BY <2>3 DEF CanClaim
  <2> QED BY <1>1, <2>4, <2>5, <2>6, <2>7
          DEF Unhindered, SameTerms, SameCoreOptions, Reserved
<1>6. (\E a \in Games : SetGame(a)) \/ UNCHANGED reserveVars
        => row' = row /\ stat' = stat /\ reserves' = reserves
  BY DEF SetGame, reserveVars, vars
<1>7. ASSUME row' = row, stat' = stat, reserves' = reserves
      PROVE  Unhindered'
  BY <1>2, <1>7 DEF SameTerms, SameCoreOptions
<1> QED BY <1>3, <1>4, <1>5, <1>6, <1>7, Zenon DEF ReserveNext

LEMMA InitUnhindered == ReserveInit => Unhindered
<1> SUFFICES ASSUME ReserveInit PROVE Unhindered
  OBVIOUS
<1>1. Core \in Tokens /\ Derivatives \subseteq Tokens \ {Core}
  BY ReserveAssumption
<1>2. stat[Core] = CoreStat /\ \A t \in Derivatives : stat[t] = NoStat
  BY <1>1 DEF ReserveInit
<1>3. CoreStat.exists /\ CoreStat.opts = {}
  BY DEF CoreStat, Minted
<1>4. \A a \in Accounts : row[Core][a].opts = {}
  BY <1>1 DEF ReserveInit, CoreRow, NoRow
<1>5. \A t \in Derivatives : ~ Reserved(t)
  BY DEF ReserveInit, Reserved
<1>6. NoStat.opts = {}
  BY DEF NoStat
<1> QED BY <1>2, <1>3, <1>4, <1>5, <1>6 DEF Unhindered

(* Where nothing is paused or listed, only a frozen row refuses.            *)
Runs(t) == stat[t].exists /\ ~ Opt(t, "paused") /\ ~ Opt(t, "whitelist_on")
Passes(L, a) == a = Self \/ "frozen" \notin L[a].opts

LEMMA FreeTransfer ==
  ASSUME NEW signers, NEW t, Runs(t), NEW L, LedgerOK(L), NEW from \in Accounts,
         NEW to \in Accounts, from # to, IsAccount(to), NEW v \in Nat,
         L[from].bal >= v, Passes(L, from), Passes(L, to)
  PROVE  \E M : M \in Moved(signers, t, L, from, to, v)
<1>1. PICK keep : keep \in StackFlag
  BY ConstantsAssumption
<1>2. keep \in BOOLEAN
  BY <1>1, Domains
<1> DEFINE P == SubBalance(L, from, v, keep)
<1>3. P[to] = L[to]
  BY <1>2, SubBalanceRow DEF SameBut
<1> HIDE DEF P
<1>4. MayTransfer(t, from, to)
  BY DEF MayTransfer, Runs
<1>5. CanSubBalance(t, L, from, v)
  BY DEF CanSubBalance, Valid, Runs, Passes
<1>6. CanAdd(signers, t, P, to, MaySkip)
  BY <1>3 DEF CanAdd, CanOpen, Valid, Runs, Passes
<1>7. AddBalance(P, to, v) \in Moved(signers, t, L, from, to, v)
  BY <1>1, <1>4, <1>5, <1>6 DEF Moved, P
<1> QED BY <1>7

LEMMA MovedPasses ==
  ASSUME NEW signers, NEW t, NEW L, LedgerOK(L), NEW from \in Accounts,
         NEW to \in Accounts, NEW v \in Nat,
         NEW M \in Moved(signers, t, L, from, to, v), NEW a \in Accounts, Passes(L, a)
  PROVE  Passes(M, a)
<1>1. M[a].opts = L[a].opts
  BY MovedOptions
<1> QED BY <1>1 DEF Passes

LEMMA TimesGrows ==
  ASSUME NEW x \in Int, NEW y \in Int, NEW k \in Nat, x <= y
  PROVE  x * k <= y * k
OBVIOUS

LEMMA TimesCancels ==
  ASSUME NEW x \in Int, NEW y \in Int, NEW k \in Nat, k > 0, x * k <= y * k
  PROVE  x <= y
OBVIOUS

LEMMA MaxIsNat ==
  ASSUME Sound, Accounted, NEW t \in Tokens
  PROVE  stat[t].max \in Nat
<1>1. \A a \in Accounts : Worth(row[t])[a] \in Nat
  BY TableOK DEF LedgerOK, Ledger, Row, Worth
<1>2. Held(row[t]) \in Nat
  BY <1>1, FiniteAccounts, SumNat DEF Held, Worth
<1>3. /\ stat[t].supply = Held(row[t]) /\ stat[t].supply <= stat[t].max
      /\ stat[t].max \in Int
  BY DEF Accounted, Sound, Capped, StatOK, Stat
<1> QED BY <1>2, <1>3

(* Doubles carry a reserve to the unit.                                     *)
OffersAreCarried ==
  \A t \in Derivatives : \A offer \in Offers[t] : offer.underlying < Precision
Carried == \A t \in Derivatives : reserves[t].rate[1] < Precision

LEMMA StepKeepsCarried ==
  ASSUME OffersAreCarried, Covered, Carried, [ReserveNext]_reserveVars
  PROVE  Carried'
<1>1. DOMAIN reserves = Derivatives /\ \A u \in Derivatives : reserves[u] \in Reserve0
  BY DEF Covered, ReserveTables
<1>2. ASSUME NEW s, NEW t \in Derivatives, NEW w, NEW offer \in Offers[t],
             Mint(s, t, offer, w)
      PROVE  Carried'
  BY <1>1, <1>2 DEF Mint, Carried, OffersAreCarried
<1>3. ASSUME NEW owner, NEW t \in Derivatives, NEW v, NEW c, Claim(t, owner, v, c)
      PROVE  Carried'
  BY <1>1, <1>3 DEF Claim, LessReserved, Carried, Reserve0
<1>4. reserves' = reserves => Carried'
  BY DEF Carried
<1>5. (\E a \in Games : SetGame(a)) \/ UNCHANGED reserveVars => reserves' = reserves
  BY DEF SetGame, reserveVars
<1> QED BY <1>2, <1>3, <1>4, <1>5, Zenon DEF ReserveNext

LEMMA InitCarried == ReserveInit => Carried
BY ReserveAssumption DEF ReserveInit, Carried, NoReserve

(* The shares of what is left do not exceed what is left.                   *)
LEMMA Enough ==
  ASSUME NEW d \in Int, NEW n \in Int, NEW v \in Nat, NEW c \in Int,
         NEW r1 \in Nat, NEW r2 \in Nat \ {0}, NEW K \in Nat \ {0},
         r1 < K, v <= d,
         (d * r1 - n * r2) * K <= (r2 - d) * r1, (c * r2 - v * r1) * K <= v * r1
  PROVE  c <= n
<1> DEFINE x == d * r1
           y == n * r2
           z == v * r1
           w == c * r2
<1>1. /\ x \in Int /\ y \in Int /\ z \in Int /\ w \in Int
      /\ (r2 - d) * r1 = r2 * r1 - x
  OBVIOUS
<1>2. z <= x
  BY TimesGrows
<1>3. (w - y) * r2 = (c - n) * (r2 * r2) /\ w - y = (c - n) * r2
  OBVIOUS
<1> HIDE DEF x, y, z, w
<1>4. /\ (x - y) * K <= r2 * r1 - x /\ (w - z) * K <= z
  BY <1>1 DEF x, y, z, w
<1>5. (x - z) * K >= 0
  BY <1>1, <1>2
<1>6. (w - y) * K = (x - y) * K + (w - z) * K - (x - z) * K
  BY <1>1
<1>7. /\ (x - y) * K \in Int /\ (w - z) * K \in Int /\ (x - z) * K \in Int
      /\ r2 * r1 \in Int
  BY <1>1
<1>8. (w - y) * K <= r2 * r1
  BY <1>1, <1>2, <1>4, <1>5, <1>6, <1>7
<1>9. SUFFICES ASSUME c >= n + 1 PROVE FALSE
  OBVIOUS
<1>10. (c - n) * r2 >= r2
  <2>1. c - n - 1 \in Nat /\ (c - n) * r2 = r2 + (c - n - 1) * r2
    BY <1>9
  <2>2. (c - n - 1) * r2 \in Nat
    BY <2>1
  <2> QED BY <2>1, <2>2
<1>11. (w - y) * K >= r2 * K
  BY <1>1, <1>3, <1>10, TimesGrows
<1>12. r2 * K > r2 * r1
  <2>1. K - r1 - 1 \in Nat /\ r2 * K = r2 * r1 + r2 + r2 * (K - r1 - 1)
    OBVIOUS
  <2>2. r2 * (K - r1 - 1) \in Nat /\ r2 * r1 \in Nat
    BY <2>1
  <2> QED BY <2>1, <2>2
<1>13. r2 * K \in Int /\ (w - y) * K \in Int
  BY <1>1
<1> QED BY <1>7, <1>8, <1>11, <1>12, <1>13

(* What is claimed exists, so that its share is still in the reserve, and   *)
(* what the reserves add up to is there.                                    *)
LEMMA ShareIsThere ==
  ASSUME Covered, Accounted, Carried, NEW t \in Derivatives, Reserved(t),
         NEW o \in Accounts, NEW v \in Nat, row[t][o].bal >= v, NEW c \in Share(v, reserves[t].rate)
  PROVE  c \in Int /\ c <= row[Core][Reserve].bal
<1> DEFINE r == reserves[t]
           r1 == r.rate[1]
           r2 == r.rate[2]
<1>1. /\ \A u \in Derivatives : u \in Tokens /\ reserves[u] \in Reserve0
      /\ Core \in Tokens /\ Reserve \in Accounts /\ reserves \in ReserveTables
      /\ r.rate \in Nat \X (Nat \ {0})
  BY ReserveAssumption DEF Covered, ReserveTables, Reserve0
<1>2. /\ r.derivative \in Int /\ r.underlying \in Int
      /\ r1 \in Nat /\ r2 \in Nat /\ r2 > 0
  BY <1>1 DEF Reserve0
<1>3. c \in Int /\ (c * r2 - v * r1) * Precision <= v * r1
  BY <1>1, ShareBelow
<1>4. v <= r.derivative
  <2>1. LedgerOK(row[t])
    BY <1>1, TableOK DEF Covered
  <2>2. \A b \in Accounts : Worth(row[t])[b] \in Nat
    BY <2>1 DEF LedgerOK, Ledger, Row, Worth
  <2>3. Worth(row[t])[o] <= Held(row[t])
    BY <2>2, FiniteAccounts, SumBoundsTerm DEF Held, Worth
  <2>4. Worth(row[t])[o] >= v
    BY <2>1 DEF LedgerOK, Ledger, Row, Worth
  <2>5. Held(row[t]) = stat[t].supply /\ stat[t].supply <= stat[t].max
    BY <1>1 DEF Accounted, Covered, Sound, Capped
  <2>6. stat[t].max <= r.derivative
    BY DEF Covered, FullyReserved
  <2>7. stat[t].supply \in Int /\ stat[t].max \in Int
    BY <1>1 DEF Covered, Sound, StatOK, Stat
  <2> QED BY <1>2, <2>2, <2>3, <2>4, <2>5, <2>6, <2>7
<1>5. \A u \in Derivatives : UnderlyingOf(reserves)[u] \in Nat
  <2> SUFFICES ASSUME NEW u \in Derivatives
               PROVE  reserves[u].underlying \in Nat
    BY Zenon DEF UnderlyingOf
  <2> DEFINE n == reserves[u].underlying
             d == reserves[u].derivative
             x == reserves[u].rate[1]
             y == reserves[u].rate[2]
  <2>1. CASE ~ Reserved(u)
    BY <2>1 DEF Reserved, NoReserve
  <2>2. CASE Reserved(u)
    <3>1. n \in Int /\ d \in Int /\ x \in Nat /\ y \in Nat /\ y > 0
      BY <1>1 DEF Reserve0
    <3>2. stat[u].max <= d /\ (d * x - n * y) * Precision <= (y - d) * x
      BY <2>2 DEF Covered, FullyReserved, Covers
    <3>3. stat[u].max \in Nat /\ x < Precision /\ Precision \in Nat \ {0}
      BY <1>1, MaxIsNat, ReserveAssumption DEF Covered, Carried
    <3>4. 0 <= d
      BY <3>1, <3>2, <3>3
    <3> HIDE DEF n, d, x, y
    <3>5. (0 * y - 0 * x) * Precision <= 0 * x
      BY <3>1, <3>3
    <3>6. 0 <= n
      BY <3>1, <3>2, <3>3, <3>4, <3>5, Enough
    <3> QED BY <3>1, <3>6 DEF n
  <2> QED BY <2>1, <2>2
<1> HIDE DEF r1, r2
<1>6. c <= r.underlying
  <2>1. (r.derivative * r1 - r.underlying * r2) * Precision <= (r2 - r.derivative) * r1
    BY DEF Covered, FullyReserved, Covers, r1, r2
  <2>2. r1 < Precision /\ Precision \in Nat \ {0}
    BY ReserveAssumption DEF Carried, r1
  <2> DEFINE d == r.derivative
             n == r.underlying
  <2>3. /\ d \in Int /\ n \in Int /\ v <= d /\ r1 \in Nat /\ r2 \in Nat \ {0} /\ c \in Int
        /\ (d * r1 - n * r2) * Precision <= (r2 - d) * r1
        /\ (c * r2 - v * r1) * Precision <= v * r1
    BY <1>2, <1>3, <1>4, <2>1
  <2> HIDE DEF d, n
  <2>4. c <= n
    BY <2>2, <2>3, Enough
  <2> QED BY <2>4 DEF n
<1>7. r.underlying <= UnderlyingIn(reserves)
  <2>1. UnderlyingOf(reserves)[t] <= UnderlyingIn(reserves)
    BY <1>5, FiniteDerivatives, SumBoundsTerm DEF UnderlyingIn
  <2>2. UnderlyingOf(reserves)[t] = r.underlying
    BY DEF UnderlyingOf
  <2> QED BY <2>1, <2>2
<1>8. /\ row[Core][Reserve].bal >= UnderlyingIn(reserves)
      /\ row[Core][Reserve].bal \in Nat /\ UnderlyingIn(reserves) \in Int
  BY <1>1, UnderlyingInTables, UnderlyingInt, OwnedInt DEF Covered, Sound, ReserveBacked
<1> HIDE DEF r
<1> QED BY <1>2, <1>3, <1>6, <1>7, <1>8

LEMMA ClaimCanBePaid ==
  ASSUME Covered, Accounted, Unhindered, Carried, NEW t \in Derivatives,
         IsAccount(Issuer[t]), NEW o \in Accounts \ {Self, Reserve}, IsAccount(o),
         NEW v \in Amounts,
         Reserved(t), row[t][o].bal >= v, allowance[o][Reserve][t] >= v,
         Usable(t, o), Usable(t, Reserve), Usable(t, Issuer[t]),
         NEW c \in Share(v, reserves[t].rate), c > 0
  PROVE  \E L, C : CanClaim(t, o, v, c, L, C)
<1> DEFINE i == Issuer[t]
<1>1. /\ t \in Tokens /\ Core \in Tokens /\ Reserve \in Accounts /\ i \in Accounts
      /\ i # Reserve /\ IsAccount(Reserve) /\ v \in Nat /\ Basename[i] = i
      /\ o \in Accounts /\ o # Reserve /\ Reserve # Self
  BY ReserveAssumption, Domains DEF IsAccount
<1>2. LedgerOK(row[t]) /\ LedgerOK(row[Core])
  BY <1>1, TableOK DEF Covered
<1>3. Runs(t) /\ Runs(Core)
  BY DEF Unhindered, MintedFreely, Runs, Opt
<1>4. \A a \in Accounts : Usable(t, a) => Passes(row[t], a)
  BY <1>2 DEF Usable, Valid, Passes, LedgerOK, NoRow
<1>5. Passes(row[t], o) /\ Passes(row[t], Reserve) /\ Passes(row[t], i)
  BY <1>1, <1>4
<1> HIDE DEF i
<1>6. PICK L1 : L1 \in Moved({Reserve}, t, row[t], o, Reserve, v)
  BY <1>1, <1>2, <1>3, <1>5, FreeTransfer
<1>7. L1 \in Collected(Reserve, t, o, v)
  BY <1>6 DEF Collected
<1>8. LedgerOK(L1) /\ L1[Reserve].bal >= v
  <2>1. LedgerOK(L1) /\ Delta(row[t], L1, Reserve, v, 0)
    BY <1>1, <1>2, <1>6, MovedRows
  <2>2. row[t][Reserve].bal \in Nat
    BY <1>1, <1>2 DEF LedgerOK, Ledger, Row
  <2> QED BY <1>1, <2>1, <2>2 DEF Delta
<1>9. Passes(L1, Reserve) /\ Passes(L1, i)
  BY <1>1, <1>2, <1>5, <1>6, MovedPasses
<1>10. PICK N : N \in Moved({Reserve}, t, L1, Reserve, i, v)
  <2>1. IsAccount(i)
    BY <1>1 DEF IsAccount
  <2> QED BY <1>1, <1>3, <1>8, <1>9, <2>1, FreeTransfer
<1>11. CanSubBalance(t, N, i, v)
  <2>1. Delta(L1, N, i, v, 0)
    BY <1>1, <1>8, <1>10, MovedRows
  <2>2. L1[i].bal \in Nat
    BY <1>1, <1>8 DEF LedgerOK, Ledger, Row
  <2>3. N[i].bal >= v
    BY <1>1, <2>1, <2>2 DEF Delta
  <2>4. Passes(N, i)
    BY <1>1, <1>8, <1>9, <1>10, MovedPasses
  <2> QED BY <1>3, <2>3, <2>4 DEF CanSubBalance, Valid, Runs, Passes
<1>12. PICK L : L \in Burnt(t, L1, v)
  <2>1. PICK keep : keep \in StackFlag
    BY ConstantsAssumption
  <2>2. SubBalance(N, i, v, keep) \in Burnt(t, L1, v)
    BY <1>1, <1>10, <1>11, <2>1 DEF Burnt, i
  <2> QED BY <2>2
<1>13. PICK C : C \in Moved({Reserve}, Core, row[Core], Reserve, o, c)
  <2>1. c \in Nat /\ row[Core][Reserve].bal >= c
    <3>1. c \in Int /\ c <= row[Core][Reserve].bal
      BY <1>1, ShareIsThere
    <3>2. row[Core][Reserve].bal \in Nat
      BY <1>1, <1>2 DEF LedgerOK, Ledger, Row
    <3> QED BY <3>1, <3>2
  <2>2. Passes(row[Core], Reserve) /\ Passes(row[Core], o)
    BY <1>1 DEF Unhindered, Passes
  <2> QED BY <1>1, <1>2, <1>3, <2>1, <2>2, FreeTransfer
<1>14. stat[t].exists
  BY <1>3 DEF Runs
<1> QED BY <1>7, <1>12, <1>13, <1>14, Zenon DEF CanClaim

(* However much was minted, claimed, rounded up or down, burned, recalled   *)
(* or frozen before, of any number of tokens, a holder that approved        *)
(* gxc.reserve can claim its whole share as long as the issuer freezes none *)
(* of the three accounts the derivative passes through; where no reserve    *)
(* has more units than a double can tell apart.                             *)
THEOREM ClaimsAreNotStopped ==
  ASSUME IssuersAreAccounts, OffersAreCarried
  PROVE  ReserveSpec =>
           [](\A t \in Derivatives, o \in Accounts \ {Self, Reserve}, v \in Amounts :
                /\ Reserved(t) /\ IsAccount(o)
                /\ row[t][o].bal >= v /\ allowance[o][Reserve][t] >= v
                /\ Usable(t, o) /\ Usable(t, Reserve) /\ Usable(t, Issuer[t])
                => \A c \in Share(v, reserves[t].rate) :
                     c > 0 => \E L, C : CanClaim(t, o, v, c, L, C))
<1>1. ReserveInit => Covered /\ Accounted /\ Unhindered /\ Carried
  BY InitCovered, InitAccounted, InitUnhindered, InitCarried
<1>2. Covered /\ Accounted /\ Unhindered /\ Carried /\ [ReserveNext]_reserveVars
        => (Covered /\ Accounted /\ Unhindered /\ Carried)'
  BY ReserveStepAccounted, StepKeepsUnhindered, StepKeepsCarried
<1>3. Covered /\ Accounted /\ Unhindered /\ Carried
        => \A t \in Derivatives, o \in Accounts \ {Self, Reserve}, v \in Amounts :
             /\ Reserved(t) /\ IsAccount(o)
             /\ row[t][o].bal >= v /\ allowance[o][Reserve][t] >= v
             /\ Usable(t, o) /\ Usable(t, Reserve) /\ Usable(t, Issuer[t])
             => \A c \in Share(v, reserves[t].rate) :
                  c > 0 => \E L, C : CanClaim(t, o, v, c, L, C)
  BY ClaimCanBePaid, Zenon DEF IssuersAreAccounts, IsAccount
<1> QED BY <1>1, <1>2, <1>3, PTL DEF ReserveSpec

=============================================================================
