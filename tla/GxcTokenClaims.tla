--------------------------- MODULE GxcTokenClaims ---------------------------
(* Who owns what in gxc.token, and who may change it, for every finite set  *)
(* of accounts and tokens: the escrow covers the requests, a loss is        *)
(* authorised, and the contract implements TokenLedger; then what the       *)
(* controls of an issuer hold: a blocked account is inert, a withdrawal     *)
(* waits its delay, and no request is left without its deferred             *)
(* transaction.  GxcTokenProofs says that amounts add up; the lemmas here   *)
(* say where they go.                                                       *)
EXTENDS GxcTokenProofs

(* M is L but for the amounts of one row.                                   *)
Delta(L, M, a, db, dd) ==
  /\ M[a].bal = L[a].bal + db
  /\ M[a].dep = L[a].dep + dd
  /\ M[a].opts = L[a].opts

SameBut(L, M, A) == \A b \in Accounts \ A : M[b] = L[b]

-----------------------------------------------------------------------------
(* The operations of the class account, row by row.                         *)

LEMMA KeptOptions ==
  ASSUME NEW r \in Row, NEW keep \in BOOLEAN
  PROVE  Kept(r, keep).opts = r.opts
BY DEF Kept, Row, NoRow

LEMMA SubBalanceRow ==
  ASSUME NEW L, LedgerOK(L), NEW a \in Accounts, NEW v \in Nat,
         NEW keep \in BOOLEAN, L[a].bal >= v
  PROVE  LET M == SubBalance(L, a, v, keep)
         IN  LedgerOK(M) /\ Delta(L, M, a, - v, 0) /\ SameBut(L, M, {a})
<1> DEFINE r == [L[a] EXCEPT !.bal = L[a].bal - v]
           M == SubBalance(L, a, v, keep)
<1>1. L \in Ledger /\ L[a] \in Row /\ (L[a].open \/ L[a] = NoRow)
  BY DEF LedgerOK, Ledger
<1>2. /\ r \in Row /\ (r.open \/ r = NoRow)
      /\ r.bal = L[a].bal - v /\ r.dep = L[a].dep /\ r.opts = L[a].opts
  BY <1>1 DEF Row, NoRow
<1>3. M = [L EXCEPT ![a] = Kept(r, keep)]
  BY DEF SubBalance
<1>4. LedgerOK(M)
  BY SubBalanceOK
<1> HIDE DEF r, M
<1>5. /\ Kept(r, keep).bal = L[a].bal - v /\ Kept(r, keep).dep = L[a].dep
      /\ Kept(r, keep).opts = L[a].opts
  BY <1>2, KeptRow, KeptOptions
<1>6. M[a] = Kept(r, keep) /\ SameBut(L, M, {a})
  BY <1>1, <1>3 DEF Ledger, SameBut
<1>7. Delta(L, M, a, - v, 0)
  BY <1>1, <1>5, <1>6 DEF Delta, Row
<1> QED BY <1>4, <1>6, <1>7 DEF M

LEMMA SubDepositRow ==
  ASSUME NEW L, LedgerOK(L), NEW a \in Accounts, NEW v \in Nat,
         NEW keep \in BOOLEAN, L[a].dep >= v
  PROVE  LET M == SubDeposit(L, a, v, keep)
         IN  LedgerOK(M) /\ Delta(L, M, a, 0, - v) /\ SameBut(L, M, {a})
<1> DEFINE r == [L[a] EXCEPT !.dep = L[a].dep - v]
           M == SubDeposit(L, a, v, keep)
<1>1. L \in Ledger /\ L[a] \in Row /\ (L[a].open \/ L[a] = NoRow)
  BY DEF LedgerOK, Ledger
<1>2. /\ r \in Row /\ (r.open \/ r = NoRow)
      /\ r.bal = L[a].bal /\ r.dep = L[a].dep - v /\ r.opts = L[a].opts
  BY <1>1 DEF Row, NoRow
<1>3. M = [L EXCEPT ![a] = Kept(r, keep)]
  BY DEF SubDeposit
<1>4. LedgerOK(M)
  BY SubDepositOK
<1> HIDE DEF r, M
<1>5. /\ Kept(r, keep).bal = L[a].bal /\ Kept(r, keep).dep = L[a].dep - v
      /\ Kept(r, keep).opts = L[a].opts
  BY <1>2, KeptRow, KeptOptions
<1>6. M[a] = Kept(r, keep) /\ SameBut(L, M, {a})
  BY <1>1, <1>3 DEF Ledger, SameBut
<1>7. Delta(L, M, a, 0, - v)
  BY <1>1, <1>5, <1>6 DEF Delta, Row
<1> QED BY <1>4, <1>6, <1>7 DEF M

LEMMA AddBalanceRow ==
  ASSUME NEW L, LedgerOK(L), NEW a \in Accounts, NEW v \in Nat
  PROVE  LET M == AddBalance(L, a, v)
         IN  LedgerOK(M) /\ Delta(L, M, a, v, 0) /\ SameBut(L, M, {a})
<1>1. L \in Ledger /\ L[a] \in Row
  BY DEF LedgerOK, Ledger
<1>2. /\ AddBalance(L, a, v)[a].bal = L[a].bal + v
      /\ AddBalance(L, a, v)[a].dep = L[a].dep
      /\ AddBalance(L, a, v)[a].opts = L[a].opts
  BY <1>1 DEF AddBalance, Ledger, Row
<1>3. \A b \in Accounts \ {a} : AddBalance(L, a, v)[b] = L[b]
  BY <1>1 DEF AddBalance, Ledger
<1>4. LedgerOK(AddBalance(L, a, v))
  BY AddBalanceOK
<1> QED BY <1>1, <1>2, <1>3, <1>4 DEF Delta, SameBut, Row

LEMMA AddDepositRow ==
  ASSUME NEW L, LedgerOK(L), NEW a \in Accounts, NEW v \in Nat
  PROVE  LET M == AddDeposit(L, a, v)
         IN  LedgerOK(M) /\ Delta(L, M, a, 0, v) /\ SameBut(L, M, {a})
<1>1. L \in Ledger /\ L[a] \in Row
  BY DEF LedgerOK, Ledger
<1>2. /\ AddDeposit(L, a, v)[a].bal = L[a].bal
      /\ AddDeposit(L, a, v)[a].dep = L[a].dep + v
      /\ AddDeposit(L, a, v)[a].opts = L[a].opts
  BY <1>1 DEF AddDeposit, Ledger, Row
<1>3. \A b \in Accounts \ {a} : AddDeposit(L, a, v)[b] = L[b]
  BY <1>1 DEF AddDeposit, Ledger
<1>4. LedgerOK(AddDeposit(L, a, v))
  BY AddDepositOK
<1> QED BY <1>1, <1>2, <1>3, <1>4 DEF Delta, SameBut, Row

(* A settled request leaves the escrow and reaches its owner, as a deposit  *)
(* when the owner is frozen.                                                *)
LEMMA SettleRow ==
  ASSUME NEW L, LedgerOK(L), NEW o \in Accounts, o # Self, NEW q \in Nat,
         NEW keep \in BOOLEAN, L[Self].bal >= q
  PROVE  LET M == Settle(L, o, q, keep)
         IN  /\ LedgerOK(M)
             /\ Delta(L, M, Self, - q, 0)
             /\ IF "frozen" \in L[o].opts THEN Delta(L, M, o, 0, q)
                ELSE Delta(L, M, o, q, 0)
             /\ SameBut(L, M, {Self, o})
<1> DEFINE P == SubBalance(L, Self, q, keep)
           M == Settle(L, o, q, keep)
<1>1. Self \in Accounts
  BY ConstantsAssumption
<1>2. LedgerOK(P) /\ Delta(L, P, Self, - q, 0) /\ SameBut(L, P, {Self})
  BY <1>1, SubBalanceRow
<1>3. M = IF "frozen" \in P[o].opts THEN AddDeposit(P, o, q) ELSE AddBalance(P, o, q)
  BY Zenon DEF Settle
<1> HIDE DEF P, M
<1>4. P[o] = L[o]
  BY <1>2 DEF SameBut
<1>5. CASE "frozen" \in L[o].opts
  <2>1. M = AddDeposit(P, o, q)
    BY <1>3, <1>4, <1>5
  <2>2. LedgerOK(M) /\ Delta(P, M, o, 0, q) /\ SameBut(P, M, {o})
    BY <1>2, <2>1, AddDepositRow
  <2> QED BY <1>1, <1>2, <1>4, <1>5, <2>2 DEF Delta, SameBut, M
<1>6. CASE "frozen" \notin L[o].opts
  <2>1. M = AddBalance(P, o, q)
    BY <1>3, <1>4, <1>6
  <2>2. LedgerOK(M) /\ Delta(P, M, o, q, 0) /\ SameBut(P, M, {o})
    BY <1>2, <2>1, AddBalanceRow
  <2> QED BY <1>1, <1>2, <1>4, <1>6, <2>2 DEF Delta, SameBut, M
<1> QED BY <1>5, <1>6

-----------------------------------------------------------------------------
(* What an account owns, in any tables.  gxc.token holds the requested      *)
(* amounts for their owners, and the rest of its balance is free.           *)

OwnedIn(rw, rq, t, a) ==
  rw[t][a].bal + rw[t][a].dep + rq[a][t].qty
    - (IF a = Self THEN Escrowed(rq, t) ELSE 0)
FreeIn(rw, rq, t) == rw[t][Self].bal - Escrowed(rq, t)

Quantities(rq, t) == [o \in Accounts |-> rq[o][t].qty]

LEMMA EscrowedInt ==
  ASSUME NEW rq \in Requests, NEW t \in Tokens
  PROVE  Escrowed(rq, t) \in Int
<1>1. \A o \in Accounts : Quantities(rq, t)[o] \in Int
  BY DEF Quantities, Requests
<1>2. Escrowed(rq, t) = SumFunctionOnSet(Quantities(rq, t), Accounts)
  BY Zenon DEF Escrowed, Quantities
<1> QED BY <1>1, <1>2, FiniteAccounts, SumInt

(* The sum of the requests follows the one that changes.                    *)
LEMMA EscrowedUpdate ==
  ASSUME NEW rq \in Requests, NEW rp \in Requests, NEW t \in Tokens,
         NEW o \in Accounts, \A b \in Accounts \ {o} : rp[b][t].qty = rq[b][t].qty
  PROVE  Escrowed(rp, t) = Escrowed(rq, t) - rq[o][t].qty + rp[o][t].qty
<1>1. /\ \A b \in Accounts : Quantities(rq, t)[b] \in Int
      /\ Quantities(rq, t)[o] = rq[o][t].qty
  BY DEF Quantities, Requests
<1>2. /\ Quantities(rp, t)[o] \in Int /\ Quantities(rp, t)[o] = rp[o][t].qty
      /\ \A b \in Accounts \ {o} : Quantities(rp, t)[b] = Quantities(rq, t)[b]
  BY DEF Quantities, Requests
<1>3. Escrowed(rq, t) = SumFunctionOnSet(Quantities(rq, t), Accounts)
  BY Zenon DEF Escrowed, Quantities
<1>4. Escrowed(rp, t) = SumFunctionOnSet(Quantities(rp, t), Accounts)
  BY Zenon DEF Escrowed, Quantities
<1>5. SumFunctionOnSet(Quantities(rp, t), Accounts) =
        SumFunctionOnSet(Quantities(rq, t), Accounts)
          - Quantities(rq, t)[o] + Quantities(rp, t)[o]
  BY <1>1, <1>2, FiniteAccounts, SumUpdate
<1> QED BY <1>1, <1>2, <1>3, <1>4, <1>5

LEMMA OwnedInt ==
  ASSUME NEW rw, TablesOK(rw), NEW rq \in Requests, NEW t \in Tokens,
         NEW a \in Accounts
  PROVE  /\ rw[t][a].bal \in Nat /\ rw[t][a].dep \in Nat /\ rq[a][t].qty \in Nat
         /\ OwnedIn(rw, rq, t, a) \in Int /\ FreeIn(rw, rq, t) \in Int
<1>1. /\ rw[t][a].bal \in Nat /\ rw[t][a].dep \in Nat /\ rw[t][Self].bal \in Nat
      /\ rq[a][t].qty \in Nat
  BY Domains DEF TablesOK, LedgerOK, Ledger, Row, Requests
<1>2. Escrowed(rq, t) \in Int
  BY EscrowedInt
<1> QED BY <1>1, <1>2 DEF OwnedIn, FreeIn

(* Two tables of requests differ in those of o for t alone: what the        *)
(* request of o gains is owed by gxc.token.                                 *)
LEMMA OwnedUpdate ==
  ASSUME NEW rw, TablesOK(rw), NEW rx, TablesOK(rx),
         NEW rq \in Requests, NEW rp \in Requests, NEW t \in Tokens,
         NEW o \in Accounts, \A b \in Accounts \ {o} : rp[b][t].qty = rq[b][t].qty
  PROVE  LET d == rp[o][t].qty - rq[o][t].qty
             worth(x, a) == x[t][a].bal + x[t][a].dep
         IN  /\ \A a \in Accounts :
                  OwnedIn(rx, rp, t, a) =
                    OwnedIn(rw, rq, t, a) + worth(rx, a) - worth(rw, a)
                      + (IF a = o THEN d ELSE 0) - (IF a = Self THEN d ELSE 0)
             /\ FreeIn(rx, rp, t) =
                  FreeIn(rw, rq, t) + rx[t][Self].bal - rw[t][Self].bal - d
<1>1. Escrowed(rp, t) = Escrowed(rq, t) - rq[o][t].qty + rp[o][t].qty
  BY EscrowedUpdate
<1>2. Escrowed(rq, t) \in Int
  BY EscrowedInt
<1>3. /\ \A a \in Accounts : /\ rw[t][a].bal \in Nat /\ rw[t][a].dep \in Nat
                             /\ rx[t][a].bal \in Nat /\ rx[t][a].dep \in Nat
                             /\ rq[a][t].qty \in Nat /\ rp[a][t].qty \in Nat
      /\ Self \in Accounts
  BY OwnedInt, Domains
<1> DEFINE d == rp[o][t].qty - rq[o][t].qty
<1>4. d \in Int /\ Escrowed(rp, t) = Escrowed(rq, t) + d
  BY <1>1, <1>2, <1>3
<1>5. ASSUME NEW a \in Accounts
      PROVE  rp[a][t].qty = rq[a][t].qty + (IF a = o THEN d ELSE 0)
  BY <1>3
<1> HIDE DEF d
<1>6. ASSUME NEW a \in Accounts
      PROVE  OwnedIn(rx, rp, t, a) =
               OwnedIn(rw, rq, t, a) + (rx[t][a].bal + rx[t][a].dep)
                 - (rw[t][a].bal + rw[t][a].dep)
                 + (IF a = o THEN d ELSE 0) - (IF a = Self THEN d ELSE 0)
  <2> DEFINE e == IF a = o THEN d ELSE 0
             E == Escrowed(rq, t)
             F == Escrowed(rp, t)
             s == IF a = Self THEN d ELSE 0
  <2>1. e \in Int /\ rp[a][t].qty = rq[a][t].qty + e
    BY <1>4, <1>5
  <2>2. s \in Int /\ E \in Int /\ F = E + d /\ d \in Int
    BY <1>2, <1>4
  <2>3. /\ OwnedIn(rx, rp, t, a) =
             rx[t][a].bal + rx[t][a].dep + rp[a][t].qty - (IF a = Self THEN F ELSE 0)
        /\ OwnedIn(rw, rq, t, a) =
             rw[t][a].bal + rw[t][a].dep + rq[a][t].qty - (IF a = Self THEN E ELSE 0)
    BY DEF OwnedIn
  <2>4. a = Self => s = d
    OBVIOUS
  <2>5. a # Self => s = 0
    OBVIOUS
  <2> HIDE DEF e, s, E, F
  <2>6. OwnedIn(rx, rp, t, a) =
          OwnedIn(rw, rq, t, a) + (rx[t][a].bal + rx[t][a].dep)
            - (rw[t][a].bal + rw[t][a].dep) + e - s
    <3>1. CASE a = Self
      BY <1>3, <2>1, <2>2, <2>3, <2>4, <3>1
    <3>2. CASE a # Self
      BY <1>3, <2>1, <2>2, <2>3, <2>5, <3>2
    <3> QED BY <3>1, <3>2
  <2> QED BY <2>6 DEF e, s
<1>7. FreeIn(rx, rp, t) = FreeIn(rw, rq, t) + rx[t][Self].bal - rw[t][Self].bal - d
  BY <1>2, <1>3, <1>4 DEF FreeIn
<1> QED BY <1>6, <1>7 DEF d

(* From L to M, q leaves the escrow for o.                                  *)
Paid(signers, t, L, M, o, q) ==
  /\ Delta(L, M, Self, - q, 0)
  /\ \/ "frozen" \in L[o].opts /\ Delta(L, M, o, 0, q)
     \/ /\ "frozen" \notin L[o].opts
        /\ q > 0 => CanAdd(signers, t, L, o, MaySkip)
        /\ Delta(L, M, o, q, 0)
  /\ SameBut(L, M, {Self, o})

(* Settling what is due pays every owner exactly what they requested.       *)
LEMMA RefreshRow ==
  ASSUME NEW signers, NEW rw, NEW rq \in Requests, NEW o \in Accounts,
         TablesOK(rw), o # Self, now \in Nat, Refresh(signers, rw, rq, o),
         NEW t \in Tokens
  PROVE  /\ \A b \in Accounts \ {o} : req'[b][t] = rq[b][t]
         /\ rq[o][t].qty - req'[o][t].qty \in Nat
         /\ Paid(signers, t, rw[t], row'[t], o, rq[o][t].qty - req'[o][t].qty)
         /\ rq[o][t].time > now => req'[o][t] = rq[o][t]
<1> DEFINE D == Due(rq, o)
<1>1. PICK keep \in [D -> StackFlag] :
        row' = [u \in Tokens |->
                  IF u \in D THEN Settle(rw[u], o, rq[o][u].qty, keep[u])
                  ELSE rw[u]]
  BY DEF Refresh
<1>2. req' = [rq EXCEPT ![o] =
               [u \in Tokens |-> IF u \in D THEN NoReq ELSE rq[o][u]]]
  BY DEF Refresh, Requests
<1>3. \A b \in Accounts \ {o} : req'[b][t] = rq[b][t]
  BY <1>2 DEF Requests
<1>4. req'[o][t] = IF t \in D THEN NoReq ELSE rq[o][t]
  BY <1>2 DEF Requests
<1>5. LedgerOK(rw[t]) /\ Self \in Accounts /\ rq[o][t].qty \in Nat
  BY Domains DEF TablesOK, Requests
<1>6. CASE t \in D
  <2>1. /\ rw[t][Self].bal >= rq[o][t].qty
        /\ "frozen" \in rw[t][o].opts \/ CanAdd(signers, t, rw[t], o, MaySkip)
    BY <1>6 DEF Refresh, CanClear, CanSettle
  <2>2. keep[t] \in BOOLEAN /\ rq[o][t].time <= now
    BY <1>6, Domains DEF Due
  <2>3. row'[t] = Settle(rw[t], o, rq[o][t].qty, keep[t])
    BY <1>1, <1>6
  <2>4. req'[o][t].qty = 0
    BY <1>4, <1>6 DEF NoReq
  <2> HIDE DEF D
  <2>5. /\ Delta(rw[t], row'[t], Self, - rq[o][t].qty, 0)
        /\ IF "frozen" \in rw[t][o].opts
           THEN Delta(rw[t], row'[t], o, 0, rq[o][t].qty)
           ELSE Delta(rw[t], row'[t], o, rq[o][t].qty, 0)
        /\ SameBut(rw[t], row'[t], {Self, o})
    <3> DEFINE q == rq[o][t].qty
               M == Settle(rw[t], o, q, keep[t])
    <3>1. /\ Delta(rw[t], M, Self, - q, 0)
          /\ IF "frozen" \in rw[t][o].opts THEN Delta(rw[t], M, o, 0, q)
             ELSE Delta(rw[t], M, o, q, 0)
          /\ SameBut(rw[t], M, {Self, o})
      <4> HIDE DEF q
      <4> q \in Nat /\ rw[t][Self].bal >= q
        BY <1>5, <2>1 DEF q
      <4> QED BY <1>5, <2>2, SettleRow
    <3> QED BY <2>3, <3>1, Zenon
  <2>6. ~ (rq[o][t].time > now)
    <3>1. rq[o][t].time \in Nat
      BY DEF Requests
    <3> QED BY <2>2, <3>1
  <2>7. rq[o][t].qty - req'[o][t].qty = rq[o][t].qty
    BY <1>5, <2>4
  <2>8. Paid(signers, t, rw[t], row'[t], o, rq[o][t].qty)
    BY <2>1, <2>5 DEF Paid
  <2> QED BY <1>3, <1>5, <2>6, <2>7, <2>8
<1>7. CASE t \notin D
  <2>1. row'[t] = rw[t] /\ req'[o][t] = rq[o][t]
    BY <1>1, <1>4, <1>7
  <2>2. /\ rw[t][o].bal \in Nat /\ rw[t][o].dep \in Nat
        /\ rw[t][Self].bal \in Nat /\ rw[t][Self].dep \in Nat
    BY <1>5 DEF LedgerOK, Ledger, Row
  <2>3. rq[o][t].qty - req'[o][t].qty = 0
    BY <1>5, <2>1
  <2>4. Paid(signers, t, rw[t], row'[t], o, 0)
    BY <2>1, <2>2 DEF Delta, SameBut, Paid
  <2> QED BY <1>3, <2>1, <2>3, <2>4
<1> QED BY <1>6, <1>7

(* It is no business of anyone else, and it leaves what is free alone.      *)
LEMMA RefreshOwned ==
  ASSUME NEW signers, NEW rw, NEW rq \in Requests, NEW o \in Accounts,
         TablesOK(rw), o # Self, now \in Nat, Refresh(signers, rw, rq, o),
         deferred \in [Accounts -> Nat \cup {None}], NEW t \in Tokens
  PROVE  /\ \A a \in Accounts : OwnedIn(row', req', t, a) = OwnedIn(rw, rq, t, a)
         /\ FreeIn(row', req', t) = FreeIn(rw, rq, t)
<1>1. TablesOK(row') /\ req' \in Requests /\ Self \in Accounts
  BY RefreshOK, Domains
<1> DEFINE q == rq[o][t].qty - req'[o][t].qty
<1>2. /\ \A b \in Accounts \ {o} : req'[b][t] = rq[b][t]
      /\ q \in Nat
      /\ Delta(rw[t], row'[t], Self, - q, 0)
      /\ Delta(rw[t], row'[t], o, 0, q) \/ Delta(rw[t], row'[t], o, q, 0)
      /\ SameBut(rw[t], row'[t], {Self, o})
  <2>1. /\ \A b \in Accounts \ {o} : req'[b][t] = rq[b][t]
        /\ q \in Nat
        /\ Paid(signers, t, rw[t], row'[t], o, q)
    BY RefreshRow, Zenon
  <2> QED BY <2>1, Zenon DEF Paid
<1>3. /\ \A a \in Accounts :
           OwnedIn(row', req', t, a) =
             OwnedIn(rw, rq, t, a)
               + (row'[t][a].bal + row'[t][a].dep) - (rw[t][a].bal + rw[t][a].dep)
               + (IF a = o THEN - q ELSE 0) - (IF a = Self THEN - q ELSE 0)
      /\ FreeIn(row', req', t) =
           FreeIn(rw, rq, t) + row'[t][Self].bal - rw[t][Self].bal + q
  <2>1. \A b \in Accounts \ {o} : req'[b][t].qty = rq[b][t].qty
    BY <1>2
  <2>2. - q = req'[o][t].qty - rq[o][t].qty
    BY <1>1, OwnedInt
  <2> QED BY <1>1, <2>1, <2>2, OwnedUpdate, OwnedInt
<1>4. \A a \in Accounts : /\ rw[t][a].bal \in Nat /\ rw[t][a].dep \in Nat
                          /\ OwnedIn(rw, rq, t, a) \in Int
                          /\ FreeIn(rw, rq, t) \in Int
  BY OwnedInt
<1> HIDE DEF q
<1>5. ASSUME NEW a \in Accounts
      PROVE  OwnedIn(row', req', t, a) = OwnedIn(rw, rq, t, a)
  <2> DEFINE w == rw[t][a].bal + rw[t][a].dep
             x == row'[t][a].bal + row'[t][a].dep
  <2>1. w \in Int /\ OwnedIn(rw, rq, t, a) \in Int /\ q \in Int
    BY <1>2, <1>4
  <2>2. OwnedIn(row', req', t, a) =
          OwnedIn(rw, rq, t, a) + x - w
            + (IF a = o THEN - q ELSE 0) - (IF a = Self THEN - q ELSE 0)
    BY <1>3
  <2>3. /\ a = o => x = w + q
        /\ a = Self => x = w - q
        /\ a # o /\ a # Self => x = w
    BY <1>2, <1>4 DEF Delta, SameBut
  <2> HIDE DEF w, x
  <2>4. CASE a = o
    BY <2>1, <2>2, <2>3, <2>4
  <2>5. CASE a = Self
    BY <2>1, <2>2, <2>3, <2>5
  <2>6. CASE a # o /\ a # Self
    BY <2>1, <2>2, <2>3, <2>6
  <2> QED BY <2>4, <2>5, <2>6
<1>6. FreeIn(row', req', t) = FreeIn(rw, rq, t)
  <2>1. row'[t][Self].bal = rw[t][Self].bal - q
    BY <1>2, <1>4, Domains DEF Delta
  <2>2. rw[t][Self].bal \in Int /\ FreeIn(rw, rq, t) \in Int /\ q \in Int
    BY <1>1, <1>2, <1>4
  <2>3. FreeIn(row', req', t) =
          FreeIn(rw, rq, t) + row'[t][Self].bal - rw[t][Self].bal + q
    BY <1>3
  <2> QED BY <2>1, <2>2, <2>3
<1> QED BY <1>5, <1>6

-----------------------------------------------------------------------------
(* What a step does to the claims of all accounts on all tokens.            *)

Before(t, a) == OwnedIn(row, req, t, a)
After(t, a) == OwnedIn(row', req', t, a)

ClaimsKept == \A t \in Tokens, a \in Accounts : After(t, a) = Before(t, a)
ClaimChanged(t, a, d) ==
  /\ After(t, a) = Before(t, a) + d
  /\ \A u \in Tokens, b \in Accounts : u # t \/ b # a => After(u, b) = Before(u, b)
ClaimMoved(t, a, b, v) ==
  /\ a # b /\ After(t, a) = Before(t, a) - v /\ After(t, b) = Before(t, b) + v
  /\ \A u \in Tokens, c \in Accounts :
       u # t \/ (c # a /\ c # b) => After(u, c) = Before(u, c)
FreeKept == \A t \in Tokens : FreeIn(row', req', t) >= FreeIn(row, req, t)

(* No row changes but those of A for token t.                               *)
Only(t, A) ==
  \A u \in Tokens, b \in Accounts : u # t \/ b \notin A => row'[u][b] = row[u][b]

(* Requests that stay the same leave the rows to decide.                    *)
LEMMA RowsDecide ==
  ASSUME TablesOK(row), TablesOK(row'), req \in Requests,
         NEW t \in Tokens, \A b \in Accounts : req'[b][t].qty = req[b][t].qty,
         req' \in Requests
  PROVE  /\ \A a \in Accounts :
              /\ After(t, a) = Before(t, a) + (row'[t][a].bal + row'[t][a].dep)
                                 - (row[t][a].bal + row[t][a].dep)
              /\ Before(t, a) \in Int
              /\ row[t][a].bal \in Nat /\ row[t][a].dep \in Nat
              /\ row'[t][a].bal \in Nat /\ row'[t][a].dep \in Nat
         /\ FreeIn(row', req', t) =
              FreeIn(row, req, t) + row'[t][Self].bal - row[t][Self].bal
         /\ FreeIn(row, req, t) \in Int
<1>1. Self \in Accounts
  BY Domains
<1> DEFINE d == req'[Self][t].qty - req[Self][t].qty
           worth(x, a) == x[t][a].bal + x[t][a].dep
<1>2. d = 0
  BY <1>1, OwnedInt
<1>3. /\ \A a \in Accounts :
           OwnedIn(row', req', t, a) =
             OwnedIn(row, req, t, a) + worth(row', a) - worth(row, a)
               + (IF a = Self THEN d ELSE 0) - (IF a = Self THEN d ELSE 0)
      /\ FreeIn(row', req', t) =
           FreeIn(row, req, t) + row'[t][Self].bal - row[t][Self].bal - d
  BY <1>1, OwnedUpdate
<1> HIDE DEF d
<1>4. \A a \in Accounts :
        /\ row[t][a].bal \in Nat /\ row[t][a].dep \in Nat
        /\ row'[t][a].bal \in Nat /\ row'[t][a].dep \in Nat
        /\ OwnedIn(row, req, t, a) \in Int /\ FreeIn(row, req, t) \in Int
  BY OwnedInt
<1>5. ASSUME NEW a \in Accounts
      PROVE  After(t, a) = Before(t, a) + (row'[t][a].bal + row'[t][a].dep)
                             - (row[t][a].bal + row[t][a].dep)
  <2>1. /\ After(t, a) = Before(t, a) + worth(row', a) - worth(row, a)
                + (IF a = Self THEN d ELSE 0) - (IF a = Self THEN d ELSE 0)
        /\ worth(row', a) \in Int /\ worth(row, a) \in Int /\ Before(t, a) \in Int
    BY <1>3, <1>4 DEF Before, After
  <2>2. After(t, a) = Before(t, a) + worth(row', a) - worth(row, a)
    <3> HIDE DEF worth
    <3> QED BY <1>2, <2>1
  <2> QED BY <2>2
<1>6. FreeIn(row', req', t) = FreeIn(row, req, t) + row'[t][Self].bal - row[t][Self].bal
  <2>1. FreeIn(row, req, t) \in Int /\ row[t][Self].bal \in Int /\ row'[t][Self].bal \in Int
    BY <1>1, <1>4
  <2> QED BY <1>2, <1>3, <2>1
<1> QED BY <1>1, <1>4, <1>5, <1>6 DEF Before

(* A row that does not change leaves its owner's claim alone.               *)
LEMMA SameRows ==
  ASSUME TablesOK(row), TablesOK(row'), req \in Requests, req' \in Requests,
         NEW t \in Tokens, \A b \in Accounts : req'[b][t].qty = req[b][t].qty,
         NEW a \in Accounts, row'[t][a].bal = row[t][a].bal,
         row'[t][a].dep = row[t][a].dep
  PROVE  After(t, a) = Before(t, a)
<1>1. /\ After(t, a) = Before(t, a) + (row'[t][a].bal + row'[t][a].dep)
                         - (row[t][a].bal + row[t][a].dep)
      /\ Before(t, a) \in Int
      /\ row[t][a].bal \in Nat /\ row[t][a].dep \in Nat
  BY RowsDecide
<1> QED BY <1>1

(* Only the table of token t changes.                                       *)
Touches(t, M) ==
  row' = [row EXCEPT ![t] = M] /\ req' = req

LEMMA TouchesOne ==
  ASSUME Sound, Sound', NEW t \in Tokens, NEW M, Touches(t, M),
         NEW a \in Accounts, NEW x \in Int, NEW y \in Int, NEW d, x + y = d,
         Delta(row[t], M, a, x, y), SameBut(row[t], M, {a})
  PROVE  /\ ClaimChanged(t, a, d) /\ Only(t, {a})
         /\ x >= 0 \/ a # Self => FreeKept
<1>1. /\ TablesOK(row) /\ TablesOK(row') /\ req \in Requests /\ req' \in Requests
      /\ \A u \in Tokens, b \in Accounts : req'[b][u].qty = req[b][u].qty
      /\ row'[t] = M /\ \A u \in Tokens \ {t} : row'[u] = row[u]
      /\ Self \in Accounts
  BY Domains DEF Sound, Touches, TablesOK
<1>2. After(t, a) = Before(t, a) + d
  <2>1. /\ After(t, a) = Before(t, a) + (row'[t][a].bal + row'[t][a].dep)
                           - (row[t][a].bal + row[t][a].dep)
        /\ Before(t, a) \in Int /\ row[t][a].bal \in Nat /\ row[t][a].dep \in Nat
    BY <1>1, RowsDecide
  <2>2. row'[t][a].bal = row[t][a].bal + x /\ row'[t][a].dep = row[t][a].dep + y
    BY <1>1 DEF Delta
  <2> QED BY <2>1, <2>2
<1>3. ASSUME NEW u \in Tokens, NEW b \in Accounts, u # t \/ b # a
      PROVE  row'[u][b] = row[u][b]
  BY <1>1, <1>3 DEF SameBut
<1>4. ASSUME NEW u \in Tokens, NEW b \in Accounts, u # t \/ b # a
      PROVE  After(u, b) = Before(u, b)
  BY <1>1, <1>3, <1>4, SameRows
<1>5. ASSUME x >= 0 \/ a # Self, NEW u \in Tokens
      PROVE  FreeIn(row', req', u) >= FreeIn(row, req, u)
  <2>1. /\ FreeIn(row', req', u) =
             FreeIn(row, req, u) + row'[u][Self].bal - row[u][Self].bal
        /\ FreeIn(row, req, u) \in Int
        /\ row[u][Self].bal \in Int /\ row'[u][Self].bal \in Int
    BY <1>1, RowsDecide
  <2>2. row'[u][Self].bal >= row[u][Self].bal
    <3>1. CASE u = t /\ a = Self
      BY <1>1, <1>5, <2>1, <3>1 DEF Delta
    <3>2. CASE ~ (u = t /\ a = Self)
      BY <1>1, <1>3, <2>1, <3>2
    <3> QED BY <3>1, <3>2
  <2> QED BY <2>1, <2>2
<1> QED BY <1>2, <1>3, <1>4, <1>5 DEF ClaimChanged, FreeKept, Only

LEMMA TouchesTwo ==
  ASSUME Sound, Sound', NEW t \in Tokens, NEW M, Touches(t, M),
         NEW a \in Accounts, NEW b \in Accounts, a # b, NEW v \in Int,
         NEW x \in Int, NEW y \in Int, x + y = - v, NEW z \in Int, z >= 0,
         NEW w \in Int, z + w = v,
         Delta(row[t], M, a, x, y), Delta(row[t], M, b, z, w),
         SameBut(row[t], M, {a, b})
  PROVE  /\ ClaimMoved(t, a, b, v) /\ Only(t, {a, b})
         /\ x >= 0 \/ a # Self => FreeKept
<1>1. /\ TablesOK(row) /\ TablesOK(row') /\ req \in Requests /\ req' \in Requests
      /\ \A u \in Tokens, c \in Accounts : req'[c][u].qty = req[c][u].qty
      /\ row'[t] = M /\ \A u \in Tokens \ {t} : row'[u] = row[u]
      /\ Self \in Accounts
  BY Domains DEF Sound, Touches, TablesOK
<1>2. After(t, a) = Before(t, a) - v
  <2>1. /\ After(t, a) = Before(t, a) + (row'[t][a].bal + row'[t][a].dep)
                           - (row[t][a].bal + row[t][a].dep)
        /\ Before(t, a) \in Int /\ row[t][a].bal \in Nat /\ row[t][a].dep \in Nat
    BY <1>1, RowsDecide
  <2>2. row'[t][a].bal = row[t][a].bal + x /\ row'[t][a].dep = row[t][a].dep + y
    BY <1>1 DEF Delta
  <2> QED BY <2>1, <2>2
<1>3. After(t, b) = Before(t, b) + v
  <2>1. /\ After(t, b) = Before(t, b) + (row'[t][b].bal + row'[t][b].dep)
                           - (row[t][b].bal + row[t][b].dep)
        /\ Before(t, b) \in Int /\ row[t][b].bal \in Nat /\ row[t][b].dep \in Nat
    BY <1>1, RowsDecide
  <2>2. row'[t][b].bal = row[t][b].bal + z /\ row'[t][b].dep = row[t][b].dep + w
    BY <1>1 DEF Delta
  <2> QED BY <2>1, <2>2
<1>4. ASSUME NEW u \in Tokens, NEW c \in Accounts, u # t \/ (c # a /\ c # b)
      PROVE  row'[u][c] = row[u][c]
  BY <1>1, <1>4 DEF SameBut
<1>5. ASSUME NEW u \in Tokens, NEW c \in Accounts, u # t \/ (c # a /\ c # b)
      PROVE  After(u, c) = Before(u, c)
  BY <1>1, <1>4, <1>5, SameRows
<1>6. ASSUME x >= 0 \/ a # Self, NEW u \in Tokens
      PROVE  FreeIn(row', req', u) >= FreeIn(row, req, u)
  <2>1. /\ FreeIn(row', req', u) =
             FreeIn(row, req, u) + row'[u][Self].bal - row[u][Self].bal
        /\ FreeIn(row, req, u) \in Int
        /\ row[u][Self].bal \in Int /\ row'[u][Self].bal \in Int
    BY <1>1, RowsDecide
  <2>2. row'[u][Self].bal >= row[u][Self].bal
    <3>1. CASE u = t /\ a = Self
      BY <1>1, <1>6, <2>1, <3>1 DEF Delta
    <3>2. CASE u = t /\ b = Self
      BY <1>1, <2>1, <3>2 DEF Delta
    <3>3. CASE u # t \/ (Self # a /\ Self # b)
      BY <1>1, <1>4, <2>1, <3>3
    <3> QED BY <3>1, <3>2, <3>3
  <2> QED BY <2>1, <2>2
<1> QED BY <1>2, <1>3, <1>4, <1>5, <1>6 DEF ClaimMoved, FreeKept, Only

(* Two operations of the class account, one after the other.                *)
LEMMA ThenOther ==
  ASSUME NEW L, NEW P, NEW M, NEW a \in Accounts, NEW b \in Accounts, a # b,
         NEW x, NEW y, NEW z, NEW w,
         Delta(L, P, a, x, y), SameBut(L, P, {a}),
         Delta(P, M, b, z, w), SameBut(P, M, {b})
  PROVE  /\ Delta(L, M, a, x, y) /\ Delta(L, M, b, z, w)
         /\ SameBut(L, M, {a, b})
BY DEF Delta, SameBut

LEMMA ThenSame ==
  ASSUME NEW L, LedgerOK(L), NEW P, NEW M, NEW a \in Accounts,
         NEW x \in Int, NEW y \in Int, NEW z \in Int, NEW w \in Int,
         Delta(L, P, a, x, y), SameBut(L, P, {a}),
         Delta(P, M, a, z, w), SameBut(P, M, {a})
  PROVE  Delta(L, M, a, x + z, y + w) /\ SameBut(L, M, {a})
<1>1. L[a].bal \in Int /\ L[a].dep \in Int
  BY DEF LedgerOK, Ledger, Row
<1> QED BY <1>1 DEF Delta, SameBut

(* The two rows a transfer changes, and by how much.                         *)
LEMMA TransferRows ==
  ASSUME Sound, NEW signers, NEW t \in Tokens, NEW from \in Accounts,
         NEW to \in Accounts, NEW v \in Amounts, Transfer(signers, t, from, to, v)
  PROVE  /\ from # to
         /\ row[t][from].bal \in Nat /\ row[t][to].bal \in Nat /\ v \in Nat /\ v > 0
         /\ row'[t][from].bal = row[t][from].bal - v
         /\ row'[t][to].bal = row[t][to].bal + v
         /\ \A b \in Accounts \ {from, to} : row'[t][b] = row[t][b]
<1>1. /\ LedgerOK(row[t]) /\ v \in Nat /\ v > 0 /\ from # to
      /\ row[t][from].bal \in Nat /\ row[t][to].bal \in Nat
      /\ row[t][from].bal >= v /\ row \in [Tokens -> Ledger]
  BY TableOK, Domains, OwnedInt DEF Sound, TablesOK, Transfer, MayTransfer, CanSubBalance
<1>2. PICK keep \in StackFlag :
        row' = [row EXCEPT ![t] = AddBalance(SubBalance(row[t], from, v, keep), to, v)]
  BY Zenon DEF Transfer
<1>3. keep \in BOOLEAN
  BY Domains
<1> DEFINE P == SubBalance(row[t], from, v, keep)
           M == AddBalance(P, to, v)
<1>4. row'[t] = M
  BY <1>1, <1>2
<1>5. LedgerOK(P) /\ Delta(row[t], P, from, - v, 0) /\ SameBut(row[t], P, {from})
  BY <1>1, <1>3, SubBalanceRow
<1> HIDE DEF P
<1>6. Delta(P, M, to, v, 0) /\ SameBut(P, M, {to})
  BY <1>1, <1>5, AddBalanceRow
<1> HIDE DEF M
<1>7. /\ Delta(row[t], M, from, - v, 0) /\ Delta(row[t], M, to, v, 0)
      /\ SameBut(row[t], M, {from, to})
  BY <1>1, <1>5, <1>6, ThenOther
<1> QED BY <1>1, <1>4, <1>7 DEF Delta, SameBut

-----------------------------------------------------------------------------
(* The invariant: gxc.token requests nothing and approves nobody, and what  *)
(* it holds covers the requests.                                            *)

SelfAside ==
  \A t \in Tokens : /\ req[Self][t].qty = 0
                    /\ \A s \in Accounts : allowance[Self][s][t] = 0
Solvent == \A t \in Tokens : FreeIn(row, req, t) >= 0

(* What an account can lose is part of its claim: gxc.token cannot spend    *)
(* what it holds for others.                                                *)
LEMMA ClaimCovers ==
  ASSUME Sound, NEW t \in Tokens, NEW a \in Accounts
  PROVE  /\ a # Self => Before(t, a) = row[t][a].bal + row[t][a].dep + req[a][t].qty
         /\ SelfAside /\ Solvent => Before(t, a) >= row[t][a].dep
<1>1. /\ row[t][a].bal \in Nat /\ row[t][a].dep \in Nat /\ req[a][t].qty \in Nat
      /\ FreeIn(row, req, t) \in Int /\ Escrowed(req, t) \in Int
  BY OwnedInt, EscrowedInt DEF Sound
<1>2. CASE a # Self
  BY <1>1, <1>2 DEF Before, OwnedIn
<1>3. CASE a = Self
  BY <1>1, <1>3 DEF Before, OwnedIn, FreeIn, Solvent, SelfAside
<1> QED BY <1>2, <1>3

(* Steps that move no amount of any row or request.                         *)
Amountless ==
  /\ \A t \in Tokens, a \in Accounts :
       row'[t][a].bal = row[t][a].bal /\ row'[t][a].dep = row[t][a].dep
  /\ UNCHANGED req

LEMMA AmountlessClaims ==
  ASSUME Sound, Sound', Amountless
  PROVE  ClaimsKept /\ FreeKept
<1>1. /\ TablesOK(row) /\ TablesOK(row') /\ req \in Requests /\ req' \in Requests
      /\ \A u \in Tokens, b \in Accounts : req'[b][u].qty = req[b][u].qty
      /\ Self \in Accounts
  BY Domains DEF Sound, Amountless
<1>2. ASSUME NEW t \in Tokens, NEW a \in Accounts
      PROVE  After(t, a) = Before(t, a)
  BY <1>1, SameRows DEF Amountless
<1>3. ASSUME NEW t \in Tokens
      PROVE  FreeIn(row', req', t) >= FreeIn(row, req, t)
  <2>1. /\ FreeIn(row', req', t) =
             FreeIn(row, req, t) + row'[t][Self].bal - row[t][Self].bal
        /\ FreeIn(row, req, t) \in Int /\ row[t][Self].bal \in Int
    BY <1>1, RowsDecide
  <2>2. row'[t][Self].bal = row[t][Self].bal
    BY <1>1 DEF Amountless
  <2> QED BY <2>1, <2>2
<1> QED BY <1>2, <1>3 DEF ClaimsKept, FreeKept

-----------------------------------------------------------------------------
(* The handlers, as changes of claims.                                      *)

LEMMA IssueClaims ==
  ASSUME Sound, Sound', NEW signers, NEW t \in Tokens, NEW to \in Accounts,
         NEW v \in Amounts, Issue(signers, t, to, v)
  PROVE  ClaimChanged(t, to, v) /\ FreeKept /\ Only(t, {to})
<1> DEFINE M == IF Opt(t, "recallable") /\ to # Issuer[t]
                THEN AddDeposit(row[t], to, v) ELSE AddBalance(row[t], to, v)
<1>1. LedgerOK(row[t]) /\ v \in Nat
  BY TableOK, Domains
<1>2. Touches(t, M)
  BY Zenon DEF Issue, Touches
<1>3. /\ Delta(row[t], M, to, 0, v) \/ Delta(row[t], M, to, v, 0)
      /\ SameBut(row[t], M, {to})
  BY <1>1, AddDepositRow, AddBalanceRow
<1> HIDE DEF M
<1>4. CASE Delta(row[t], M, to, 0, v)
  <2>1. 0 \in Int /\ v \in Int /\ 0 + v = v /\ 0 >= 0
    BY <1>1
  <2> QED BY <1>2, <1>3, <1>4, <2>1, TouchesOne
<1>5. CASE Delta(row[t], M, to, v, 0)
  <2>1. 0 \in Int /\ v \in Int /\ v + 0 = v /\ v >= 0
    BY <1>1
  <2> QED BY <1>2, <1>3, <1>5, <2>1, TouchesOne
<1> QED BY <1>3, <1>4, <1>5

(* Whoever is retired from signed, or is recalled from its deposit.         *)
LEMMA RetireClaims ==
  ASSUME Sound, Sound', NEW signers, Self \notin signers, NEW t \in Tokens,
         NEW a \in Accounts, NEW v \in Amounts, Retire(signers, t, a, v)
  PROVE  /\ ClaimChanged(t, a, - v) /\ FreeKept /\ Only(t, {a})
         /\ SelfAside /\ Solvent => Before(t, a) >= v
         /\ \/ a \in signers
            \/ MayRecall(signers, t) /\ row'[t][a].bal >= row[t][a].bal
<1>1. /\ LedgerOK(row[t]) /\ v \in Nat
      /\ row[t][a].bal \in Nat /\ row[t][a].dep \in Nat /\ req[a][t].qty \in Nat
  BY TableOK, Domains, OwnedInt DEF Sound
<1>2. PICK keep \in StackFlag :
        \/ /\ a \in signers
           /\ row[t][a].bal >= v
           /\ row' = [row EXCEPT ![t] = SubBalance(row[t], a, v, keep)]
        \/ /\ MayRecall(signers, t)
           /\ row[t][a].dep >= v
           /\ row' = [row EXCEPT ![t] = SubDeposit(row[t], a, v, keep)]
  BY DEF Retire, CanSubBalance, CanSubDeposit
<1>3. keep \in BOOLEAN
  BY Domains
<1>4. req' = req
  BY DEF Retire
<1>5. CASE /\ a \in signers
           /\ row[t][a].bal >= v
           /\ row' = [row EXCEPT ![t] = SubBalance(row[t], a, v, keep)]
  <2> DEFINE M == SubBalance(row[t], a, v, keep)
  <2>1. Touches(t, M)
    BY <1>4, <1>5 DEF Touches
  <2>2. Delta(row[t], M, a, - v, 0) /\ SameBut(row[t], M, {a})
    BY <1>1, <1>3, <1>5, SubBalanceRow
  <2> HIDE DEF M
  <2>3. ClaimChanged(t, a, - v) /\ FreeKept /\ Only(t, {a})
    <3>1. 0 \in Int /\ - v \in Int /\ - v + 0 = - v /\ a # Self
      BY <1>1, <1>5
    <3> QED BY <2>1, <2>2, <3>1, TouchesOne
  <2>4. Before(t, a) >= v
    BY <1>1, <1>5, ClaimCovers
  <2> QED BY <1>1, <1>5, <2>3, <2>4
<1>6. CASE /\ MayRecall(signers, t)
           /\ row[t][a].dep >= v
           /\ row' = [row EXCEPT ![t] = SubDeposit(row[t], a, v, keep)]
  <2> DEFINE M == SubDeposit(row[t], a, v, keep)
  <2>1. Touches(t, M) /\ row'[t] = M
    BY <1>4, <1>6 DEF Touches, Sound, TablesOK
  <2>2. Delta(row[t], M, a, 0, - v) /\ SameBut(row[t], M, {a})
    BY <1>1, <1>3, <1>6, SubDepositRow
  <2> HIDE DEF M
  <2>3. ClaimChanged(t, a, - v) /\ FreeKept /\ Only(t, {a})
    <3>1. 0 \in Int /\ - v \in Int /\ 0 + - v = - v /\ 0 >= 0
      BY <1>1
    <3> QED BY <2>1, <2>2, <3>1, TouchesOne
  <2>4. SelfAside /\ Solvent => Before(t, a) >= v
    <3>1. Before(t, a) \in Int
      BY OwnedInt DEF Before, Sound
    <3> QED BY <1>1, <1>6, <3>1, ClaimCovers
  <2>5. row'[t][a].bal >= row[t][a].bal
    BY <1>1, <2>1, <2>2 DEF Delta
  <2> QED BY <1>1, <1>6, <2>3, <2>4, <2>5
<1> QED BY <1>2, <1>5, <1>6

LEMMA BurnClaims ==
  ASSUME Sound, Sound', NEW signers, NEW t \in Tokens, Issuer[t] # Self,
         NEW v \in Amounts, Burn(signers, t, v)
  PROVE  /\ ClaimChanged(t, Issuer[t], - v) /\ FreeKept /\ Only(t, {Issuer[t]})
         /\ Before(t, Issuer[t]) >= v
<1> DEFINE a == Issuer[t]
<1>1. /\ LedgerOK(row[t]) /\ v \in Nat /\ a \in Accounts
      /\ row[t][a].bal \in Nat /\ row[t][a].dep \in Nat /\ req[a][t].qty \in Nat
  BY TableOK, Domains, OwnedInt DEF Sound
<1>2. PICK keep \in StackFlag :
        row' = [row EXCEPT ![t] = SubBalance(row[t], a, v, keep)]
  BY DEF Burn
<1>3. keep \in BOOLEAN /\ row[t][a].bal >= v /\ req' = req
  BY Domains DEF Burn, CanSubBalance
<1> HIDE DEF a
<1> DEFINE M == SubBalance(row[t], a, v, keep)
<1>4. Touches(t, M)
  BY <1>2, <1>3 DEF Touches
<1>5. Delta(row[t], M, a, - v, 0) /\ SameBut(row[t], M, {a}) /\ a # Self
  BY <1>1, <1>3, SubBalanceRow DEF a
<1> HIDE DEF M
<1>6. ClaimChanged(t, a, - v) /\ FreeKept /\ Only(t, {a})
  <2>1. 0 \in Int /\ - v \in Int /\ - v + 0 = - v
    BY <1>1
  <2> QED BY <1>1, <1>4, <1>5, <2>1, TouchesOne
<1>7. Before(t, a) >= v
  BY <1>1, <1>3, <1>5, ClaimCovers
<1> QED BY <1>1, <1>6, <1>7 DEF a

(* The receiver is credited after the sender is debited, in another row.    *)
LEMMA TransferClaims ==
  ASSUME Sound, Sound', NEW signers, Self \notin signers, SelfAside,
         NEW t \in Tokens, NEW from \in Accounts, NEW to \in Accounts,
         NEW v \in Amounts, Transfer(signers, t, from, to, v)
  PROVE  /\ ClaimMoved(t, from, to, v) /\ FreeKept /\ Only(t, {from, to})
         /\ from # Self /\ Before(t, from) >= v
         /\ CanAdd(signers, t, row[t], to, MaySkip)
         /\ \/ from \in signers
            \/ to \in signers /\ allowance[from][to][t] - allowance'[from][to][t] = v
<1>1. /\ LedgerOK(row[t]) /\ v \in Nat /\ v > 0 /\ from # to
      /\ row[t][from].bal \in Nat /\ row[t][from].dep \in Nat
      /\ req[from][t].qty \in Nat /\ row[t][from].bal >= v
  BY TableOK, Domains, OwnedInt DEF Sound, Transfer, MayTransfer, CanSubBalance
<1>2. PICK keep \in StackFlag :
        /\ CanAdd(signers, t, SubBalance(row[t], from, v, keep), to, MaySkip)
        /\ row' = [row EXCEPT ![t] = AddBalance(SubBalance(row[t], from, v, keep), to, v)]
  BY Zenon DEF Transfer
<1>3. keep \in BOOLEAN /\ req' = req
  BY Domains DEF Transfer
<1> DEFINE P == SubBalance(row[t], from, v, keep)
           M == AddBalance(P, to, v)
<1>4. Touches(t, M) /\ CanAdd(signers, t, P, to, MaySkip)
  BY <1>2, <1>3 DEF Touches
<1>5. LedgerOK(P) /\ Delta(row[t], P, from, - v, 0) /\ SameBut(row[t], P, {from})
  BY <1>1, <1>3, SubBalanceRow
<1> HIDE DEF P
<1>6. Delta(P, M, to, v, 0) /\ SameBut(P, M, {to})
  BY <1>1, <1>5, AddBalanceRow
<1> HIDE DEF M
<1>7. /\ Delta(row[t], M, from, - v, 0) /\ Delta(row[t], M, to, v, 0)
      /\ SameBut(row[t], M, {from, to})
  BY <1>1, <1>5, <1>6, ThenOther
<1>8. /\ \/ from \in signers
         \/ to \in signers /\ allowance[from][to][t] - allowance'[from][to][t] = v
      /\ from # Self
  <2>1. CASE from \in signers
    BY <2>1
  <2>2. CASE from \notin signers
    <3>1. /\ to \in signers /\ allowance[from][to][t] >= v
          /\ allowance' = [allowance EXCEPT ![from][to][t] = @ - v]
          /\ allowance \in [Accounts -> [Accounts -> [Tokens -> Nat]]]
      BY <2>2 DEF Transfer, SubAllowance, Sound
    <3>2. allowance[from][to][t] \in Nat
      BY <3>1
    <3>3. allowance'[from][to][t] = allowance[from][to][t] - v
      BY <3>1
    <3>4. from # Self
      BY <1>1, <3>1, <3>2 DEF SelfAside
    <3> QED BY <1>1, <3>1, <3>2, <3>3, <3>4
  <2> QED BY <2>1, <2>2
<1>9. ClaimMoved(t, from, to, v) /\ FreeKept /\ Only(t, {from, to})
  <2>1. /\ 0 \in Int /\ v \in Int /\ - v \in Int
        /\ - v + 0 = - v /\ v + 0 = v /\ v >= 0
    BY <1>1
  <2> QED BY <1>1, <1>4, <1>7, <1>8, <2>1, TouchesTwo
<1>10. Before(t, from) >= v
  BY <1>1, <1>8, ClaimCovers
<1>11. CanAdd(signers, t, row[t], to, MaySkip)
  <2>1. P[to] = row[t][to]
    BY <1>1, <1>5 DEF SameBut
  <2> QED BY <1>4, <2>1 DEF CanAdd
<1> QED BY <1>8, <1>9, <1>10, <1>11

(* A recall leaves the balance alone.                                       *)
LEMMA RecallDepositClaims ==
  ASSUME Sound, Sound', NEW signers, NEW t \in Tokens, NEW from \in Accounts,
         NEW to \in Accounts, NEW v \in Amounts,
         RecallDeposit(signers, t, from, to, v)
  PROVE  /\ ClaimMoved(t, from, to, v) /\ FreeKept /\ Only(t, {from, to})
         /\ SelfAside /\ Solvent => Before(t, from) >= v
         /\ CanAdd(signers, t, row[t], to, MaySkip)
         /\ row'[t][from].bal = row[t][from].bal
<1>1. /\ LedgerOK(row[t]) /\ v \in Nat /\ v > 0 /\ from # to
      /\ row[t][from].bal \in Nat /\ row[t][from].dep \in Nat
      /\ row[t][from].dep >= v
  BY TableOK, Domains, OwnedInt DEF Sound, RecallDeposit, MayTransfer, CanSubDeposit
<1>2. PICK keep \in StackFlag :
        /\ CanAdd(signers, t, SubDeposit(row[t], from, v, keep), to, MaySkip)
        /\ row' = [row EXCEPT ![t] = AddBalance(SubDeposit(row[t], from, v, keep), to, v)]
  BY Zenon DEF RecallDeposit
<1>3. keep \in BOOLEAN /\ req' = req
  BY Domains DEF RecallDeposit
<1> DEFINE P == SubDeposit(row[t], from, v, keep)
           M == AddBalance(P, to, v)
<1>4. Touches(t, M) /\ CanAdd(signers, t, P, to, MaySkip) /\ row'[t] = M
  BY <1>2, <1>3 DEF Touches, Sound, TablesOK
<1>5. LedgerOK(P) /\ Delta(row[t], P, from, 0, - v) /\ SameBut(row[t], P, {from})
  BY <1>1, <1>3, SubDepositRow
<1> HIDE DEF P
<1>6. Delta(P, M, to, v, 0) /\ SameBut(P, M, {to})
  BY <1>1, <1>5, AddBalanceRow
<1> HIDE DEF M
<1>7. /\ Delta(row[t], M, from, 0, - v) /\ Delta(row[t], M, to, v, 0)
      /\ SameBut(row[t], M, {from, to})
  BY <1>1, <1>5, <1>6, ThenOther
<1>8. ClaimMoved(t, from, to, v) /\ FreeKept /\ Only(t, {from, to})
  <2>1. /\ 0 \in Int /\ v \in Int /\ - v \in Int /\ 0 >= 0
        /\ 0 + - v = - v /\ v + 0 = v /\ v >= 0
    BY <1>1
  <2> QED BY <1>1, <1>4, <1>7, <2>1, TouchesTwo
<1>9. SelfAside /\ Solvent => Before(t, from) >= v
  <2>1. Before(t, from) \in Int
    BY OwnedInt DEF Before, Sound
  <2> QED BY <1>1, <2>1, ClaimCovers
<1>10. CanAdd(signers, t, row[t], to, MaySkip)
  <2>1. P[to] = row[t][to]
    BY <1>1, <1>5 DEF SameBut
  <2> QED BY <1>4, <2>1 DEF CanAdd
<1>11. row'[t][from].bal = row[t][from].bal
  BY <1>1, <1>4, <1>7 DEF Delta
<1> QED BY <1>8, <1>9, <1>10, <1>11

(* A deposit in the right row stays with its owner.                         *)
LEMMA DepositInRowClaims ==
  ASSUME Sound, Sound', NEW signers, NEW t \in Tokens, NEW o \in Accounts,
         o # Self, NEW v \in Amounts, DepositInRow(signers, t, o, v)
  PROVE  /\ ClaimsKept /\ FreeKept /\ Only(t, {o})
         /\ row'[t][o].dep >= row[t][o].dep
<1>1. /\ LedgerOK(row[t]) /\ v \in Nat /\ row[t][o].bal >= v
      /\ row[t][o].dep \in Nat
  BY TableOK, Domains, OwnedInt DEF Sound, DepositInRow, Deposit, CanSubBalance
<1>2. PICK keep \in StackFlag :
        row' = [row EXCEPT ![t] = AddDeposit(SubBalance(row[t], o, v, keep), o, v)]
  BY Zenon DEF DepositInRow
<1>3. keep \in BOOLEAN /\ req' = req
  BY Domains DEF DepositInRow, Deposit
<1> DEFINE P == SubBalance(row[t], o, v, keep)
           M == AddDeposit(P, o, v)
<1>4. Touches(t, M) /\ row'[t] = M
  BY <1>2, <1>3 DEF Touches, Sound, TablesOK
<1>5. LedgerOK(P) /\ Delta(row[t], P, o, - v, 0) /\ SameBut(row[t], P, {o})
  BY <1>1, <1>3, SubBalanceRow
<1> HIDE DEF P
<1>6. Delta(P, M, o, 0, v) /\ SameBut(P, M, {o})
  BY <1>1, <1>5, AddDepositRow
<1> HIDE DEF M
<1>7. Delta(row[t], M, o, - v, v) /\ SameBut(row[t], M, {o})
  <2>1. 0 \in Int /\ v \in Int /\ - v \in Int /\ - v + 0 = - v /\ 0 + v = v
    BY <1>1
  <2>2. Delta(row[t], M, o, - v + 0, 0 + v) /\ SameBut(row[t], M, {o})
    BY <1>1, <1>5, <1>6, <2>1, ThenSame, Zenon
  <2> QED BY <2>1, <2>2
<1>8. ClaimChanged(t, o, 0) /\ FreeKept /\ Only(t, {o})
  <2>1. v \in Int /\ - v \in Int /\ - v + v = 0
    BY <1>1
  <2> QED BY <1>4, <1>7, <2>1, TouchesOne
<1>9. ClaimsKept
  <2>1. Before(t, o) \in Int
    BY OwnedInt DEF Before, Sound
  <2> QED BY <1>8, <2>1 DEF ClaimChanged, ClaimsKept
<1>10. row'[t][o].dep >= row[t][o].dep
  BY <1>1, <1>4, <1>7 DEF Delta
<1> QED BY <1>8, <1>9, <1>10

-----------------------------------------------------------------------------
(* Withdrawals: between the tables of a handler and those it hands to       *)
(* refresh_schedule, an amount enters or leaves the escrow.                 *)

KeptIn(rw, rq) ==
  \A t \in Tokens :
    /\ \A a \in Accounts : OwnedIn(rw, rq, t, a) = Before(t, a)
    /\ FreeIn(rw, rq, t) = FreeIn(row, req, t)

LEMMA SameTables ==
  ASSUME Sound, NEW rw, TablesOK(rw), NEW rq \in Requests, NEW t \in Tokens,
         rw[t] = row[t], \A b \in Accounts : rq[b][t].qty = req[b][t].qty
  PROVE  /\ \A a \in Accounts : OwnedIn(rw, rq, t, a) = Before(t, a)
         /\ FreeIn(rw, rq, t) = FreeIn(row, req, t)
<1>1. Escrowed(rq, t) = Escrowed(req, t)
  <2>1. Self \in Accounts /\ req \in Requests
    BY Domains DEF Sound
  <2>2. Escrowed(rq, t) = Escrowed(req, t) - req[Self][t].qty + rq[Self][t].qty
    BY <2>1, EscrowedUpdate
  <2>3. /\ Escrowed(req, t) \in Int /\ req[Self][t].qty \in Int
        /\ rq[Self][t].qty = req[Self][t].qty
    BY <2>1, EscrowedInt DEF Requests
  <2> QED BY <2>2, <2>3
<1> QED BY <1>1 DEF OwnedIn, FreeIn, Before

(* An amount d moves between the row of o and the escrow.                   *)
LEMMA EscrowMove ==
  ASSUME Sound, NEW rw, TablesOK(rw), NEW rq \in Requests, NEW t \in Tokens,
         NEW o \in Accounts, o # Self, NEW d \in Int,
         rq[o][t].qty = req[o][t].qty + d,
         \A b \in Accounts, u \in Tokens :
           b # o \/ u # t => rq[b][u].qty = req[b][u].qty,
         \A u \in Tokens \ {t} : rw[u] = row[u],
         Delta(row[t], rw[t], Self, d, 0), Delta(row[t], rw[t], o, 0, - d),
         SameBut(row[t], rw[t], {Self, o})
  PROVE  KeptIn(rw, rq)
<1>1. TablesOK(row) /\ req \in Requests /\ Self \in Accounts
  BY Domains DEF Sound
<1>2. ASSUME NEW u \in Tokens, u # t
      PROVE  /\ \A a \in Accounts : OwnedIn(rw, rq, u, a) = Before(u, a)
             /\ FreeIn(rw, rq, u) = FreeIn(row, req, u)
  BY <1>2, SameTables
<1>3. Escrowed(rq, t) = Escrowed(req, t) + d /\ Escrowed(req, t) \in Int
  <2>1. \A b \in Accounts \ {o} : rq[b][t].qty = req[b][t].qty
    OBVIOUS
  <2>2. Escrowed(rq, t) = Escrowed(req, t) - req[o][t].qty + rq[o][t].qty
    BY <1>1, <2>1, EscrowedUpdate
  <2>3. Escrowed(req, t) \in Int /\ req[o][t].qty \in Int
    BY <1>1, EscrowedInt DEF Requests
  <2> QED BY <2>2, <2>3
<1>4. ASSUME NEW a \in Accounts
      PROVE  OwnedIn(rw, rq, t, a) = Before(t, a)
  <2>1. /\ row[t][a].bal \in Int /\ row[t][a].dep \in Int /\ req[a][t].qty \in Int
    BY <1>1, OwnedInt
  <2>2. CASE a = o
    BY <1>3, <2>1, <2>2 DEF Delta, OwnedIn, Before
  <2>3. CASE a = Self
    <3>1. rw[t][a].bal = row[t][a].bal + d /\ rw[t][a].dep = row[t][a].dep
      BY <2>1, <2>3 DEF Delta
    <3>2. rq[a][t].qty = req[a][t].qty
      BY <2>3
    <3> QED BY <1>3, <2>1, <2>3, <3>1, <3>2 DEF OwnedIn, Before
  <2>4. CASE a # o /\ a # Self
    BY <2>1, <2>4 DEF SameBut, OwnedIn, Before
  <2> QED BY <2>2, <2>3, <2>4
<1>5. FreeIn(rw, rq, t) = FreeIn(row, req, t)
  <2>1. row[t][Self].bal \in Int
    BY <1>1, OwnedInt
  <2> QED BY <1>3, <2>1 DEF Delta, FreeIn
<1> QED BY <1>2, <1>4, <1>5 DEF KeptIn

LEMMA ClearClaims ==
  ASSUME Sound, NEW signers, NEW o \in Accounts, o # Self,
         NEW rw, TablesOK(rw), NEW rq \in Requests, Refresh(signers, rw, rq, o)
  PROVE  \A t \in Tokens :
           /\ \A a \in Accounts : After(t, a) = OwnedIn(rw, rq, t, a)
           /\ FreeIn(row', req', t) = FreeIn(rw, rq, t)
<1>1. deferred \in [Accounts -> Nat \cup {None}] /\ now \in Nat
  BY Domains DEF Sound
<1> QED BY <1>1, RefreshOwned DEF After

LEMMA KeptInClaims ==
  ASSUME Sound, NEW rw, NEW rq, KeptIn(rw, rq),
         \A t \in Tokens :
           /\ \A a \in Accounts : After(t, a) = OwnedIn(rw, rq, t, a)
           /\ FreeIn(row', req', t) = FreeIn(rw, rq, t)
  PROVE  ClaimsKept /\ FreeKept
<1>1. \A t \in Tokens : FreeIn(row, req, t) \in Int
  BY OwnedInt, Domains DEF Sound
<1> QED BY <1>1 DEF KeptIn, ClaimsKept, FreeKept

(* Who else than o has a row that a refresh of o changes: gxc.token.        *)
Settled(signers, rw, o) ==
  \A t \in Tokens : \E q \in Nat : Paid(signers, t, rw[t], row'[t], o, q)

LEMMA RefreshSettles ==
  ASSUME Sound, NEW signers, NEW o \in Accounts, o # Self,
         NEW rw, TablesOK(rw), NEW rq \in Requests, Refresh(signers, rw, rq, o)
  PROVE  /\ Settled(signers, rw, o)
         /\ \A b \in Accounts \ {o}, t \in Tokens : req'[b][t] = rq[b][t]
         /\ \A t \in Tokens : rq[o][t].time > now => req'[o][t] = rq[o][t]
<1>1. now \in Nat
  BY Domains DEF Sound
<1>2. ASSUME NEW t \in Tokens
      PROVE  /\ \A b \in Accounts \ {o} : req'[b][t] = rq[b][t]
             /\ rq[o][t].qty - req'[o][t].qty \in Nat
             /\ Paid(signers, t, rw[t], row'[t], o, rq[o][t].qty - req'[o][t].qty)
             /\ rq[o][t].time > now => req'[o][t] = rq[o][t]
  BY <1>1, RefreshRow
<1> QED BY <1>2, Zenon DEF Settled

LEMMA ClrWithdrawsClaims ==
  ASSUME Sound, NEW signers, NEW o \in Accounts, o # Self,
         Refresh(signers, row, req, o)
  PROVE  ClaimsKept /\ FreeKept /\ Settled(signers, row, o)
<1>1. TablesOK(row) /\ req \in Requests /\ KeptIn(row, req)
  BY DEF Sound, KeptIn, Before
<1> QED BY <1>1, ClearClaims, KeptInClaims, RefreshSettles

(* What a pushwithdraw hands to refresh_schedule.                           *)
Pushed(t, o, v) ==
  [row EXCEPT ![t] = AddBalance(SubDeposit(row[t], o, v, TRUE), Self, v)]
PushedRequests(t, o, v) == [req EXCEPT ![o][t] = Requested(t, o, v)]

LEMMA PushedTables ==
  ASSUME Sound, NEW t \in Tokens, NEW o \in Accounts, o # Self, NEW v \in Nat,
         row[t][o].dep >= v
  PROVE  /\ TablesOK(Pushed(t, o, v)) /\ PushedRequests(t, o, v) \in Requests
         /\ KeptIn(Pushed(t, o, v), PushedRequests(t, o, v))
         /\ \A u \in Tokens \ {t} : Pushed(t, o, v)[u] = row[u]
         /\ Delta(row[t], Pushed(t, o, v)[t], o, 0, - v)
         /\ SameBut(row[t], Pushed(t, o, v)[t], {Self, o})
<1> DEFINE P == SubDeposit(row[t], o, v, TRUE)
           M == AddBalance(P, Self, v)
           rw == Pushed(t, o, v)
           rq == PushedRequests(t, o, v)
<1>1. LedgerOK(row[t]) /\ Self \in Accounts /\ TRUE \in BOOLEAN
  BY TableOK, Domains
<1>2. LedgerOK(P) /\ Delta(row[t], P, o, 0, - v) /\ SameBut(row[t], P, {o})
  BY <1>1, SubDepositRow
<1>3. rw = [row EXCEPT ![t] = M]
  BY Zenon DEF Pushed
<1> HIDE DEF P
<1>4. LedgerOK(M) /\ Delta(P, M, Self, v, 0) /\ SameBut(P, M, {Self})
  BY <1>1, <1>2, AddBalanceRow
<1> HIDE DEF M, rw
<1>5. /\ Delta(row[t], M, o, 0, - v) /\ Delta(row[t], M, Self, v, 0)
      /\ SameBut(row[t], M, {o, Self})
  BY <1>1, <1>2, <1>4, ThenOther
<1>6. /\ TablesOK(rw) /\ rw[t] = M /\ \A u \in Tokens \ {t} : rw[u] = row[u]
  BY <1>3, <1>4 DEF TablesOK, LedgerOK, Sound
<1>7. /\ rq \in Requests /\ rq[o][t].qty = req[o][t].qty + v
      /\ \A b \in Accounts, u \in Tokens : b # o \/ u # t => rq[b][u] = req[b][u]
  <2>1. (now + stat[t].delay) % TimeWidth \in Nat
    BY ConstantsAssumption DEF Sound, StatOK, Stat
  <2>2. req \in Requests /\ req[o][t].qty + v \in Nat
    BY DEF Sound, Requests
  <2>3. /\ Requested(t, o, v) \in [qty : Nat, time : Nat]
        /\ Requested(t, o, v).qty = req[o][t].qty + v
    BY <2>1, <2>2 DEF Requested
  <2>4. rq = [req EXCEPT ![o][t] = Requested(t, o, v)]
    BY DEF PushedRequests
  <2> HIDE DEF rq
  <2> QED BY <2>2, <2>3, <2>4 DEF Requests
<1> HIDE DEF rq
<1>8. KeptIn(rw, rq)
  <2>1. \A b \in Accounts, u \in Tokens :
          b # o \/ u # t => rq[b][u].qty = req[b][u].qty
    BY <1>7
  <2>2. /\ Delta(row[t], rw[t], Self, v, 0) /\ Delta(row[t], rw[t], o, 0, - v)
        /\ SameBut(row[t], rw[t], {Self, o}) /\ v \in Int
    BY <1>5, <1>6 DEF SameBut
  <2> QED BY <1>6, <1>7, <2>1, <2>2, EscrowMove
<1> QED BY <1>5, <1>6, <1>7, <1>8 DEF rw, rq, SameBut

LEMMA PushWithdrawClaims ==
  ASSUME Sound, NEW signers, Self \notin signers, NEW t \in Tokens,
         NEW o \in Accounts, NEW v \in Amounts, PushWithdraw(signers, t, o, v)
  PROVE  /\ o # Self /\ ClaimsKept /\ FreeKept
         /\ Settled({o}, Pushed(t, o, v), o)
         /\ row[t][o].dep >= v
<1>1. v \in Nat /\ o # Self /\ row[t][o].dep >= v
  BY Domains DEF PushWithdraw, CanSubDeposit
<1>2. Refresh({o}, Pushed(t, o, v), PushedRequests(t, o, v), o)
  BY Zenon DEF PushWithdraw, Pushed, PushedRequests
<1>3. /\ TablesOK(Pushed(t, o, v)) /\ PushedRequests(t, o, v) \in Requests
      /\ KeptIn(Pushed(t, o, v), PushedRequests(t, o, v))
  BY <1>1, PushedTables
<1>4. \A u \in Tokens :
        /\ \A a \in Accounts :
             After(u, a) = OwnedIn(Pushed(t, o, v), PushedRequests(t, o, v), u, a)
        /\ FreeIn(row', req', u) = FreeIn(Pushed(t, o, v), PushedRequests(t, o, v), u)
  BY <1>1, <1>2, <1>3, ClearClaims, Zenon
<1>5. ClaimsKept /\ FreeKept
  BY <1>3, <1>4, KeptInClaims, Zenon
<1>6. Settled({o}, Pushed(t, o, v), o)
  BY <1>1, <1>2, <1>3, RefreshSettles, Zenon
<1> QED BY <1>1, <1>5, <1>6

LEMMA PopWithdrawClaims ==
  ASSUME Sound, Sound', NEW signers, Self \notin signers, NEW t \in Tokens,
         NEW o \in Accounts, PopWithdraw(signers, t, o)
  PROVE  /\ o # Self /\ ClaimsKept /\ FreeKept /\ Only(t, {o, Self})
         /\ CanAdd(signers, t, row[t], o, MaySkip)
         /\ row'[t][o].dep >= row[t][o].dep
<1> DEFINE q == req[o][t].qty
<1>1. /\ LedgerOK(row[t]) /\ q \in Nat /\ row[t][Self].bal >= q
      /\ Self \in Accounts /\ o # Self /\ row[t][o].dep \in Nat
  BY TableOK, Domains, OwnedInt DEF PopWithdraw, CanSubBalance, Sound, Requests
<1>2. PICK keep \in StackFlag :
        /\ CanAdd(signers, t, SubBalance(row[t], Self, q, keep), o, MaySkip)
        /\ row' = [row EXCEPT ![t] = AddDeposit(SubBalance(row[t], Self, q, keep), o, q)]
  BY Zenon DEF PopWithdraw
<1>3. keep \in BOOLEAN /\ req' = [req EXCEPT ![o][t] = NoReq]
  BY Domains DEF PopWithdraw
<1>4. q = req[o][t].qty
  OBVIOUS
<1> HIDE DEF q
<1> DEFINE P == SubBalance(row[t], Self, q, keep)
           M == AddDeposit(P, o, q)
<1>5. row'[t] = M /\ CanAdd(signers, t, P, o, MaySkip)
  BY <1>2 DEF Sound, TablesOK
<1>6. LedgerOK(P) /\ Delta(row[t], P, Self, - q, 0) /\ SameBut(row[t], P, {Self})
  BY <1>1, <1>3, SubBalanceRow
<1> HIDE DEF P
<1>7. Delta(P, M, o, 0, q) /\ SameBut(P, M, {o})
  BY <1>1, <1>6, AddDepositRow
<1> HIDE DEF M
<1>8. /\ Delta(row[t], M, Self, - q, 0) /\ Delta(row[t], M, o, 0, q)
      /\ SameBut(row[t], M, {Self, o})
  BY <1>1, <1>6, <1>7, ThenOther
<1>9. /\ TablesOK(row') /\ req' \in Requests
      /\ \A u \in Tokens \ {t} : row'[u] = row[u]
      /\ \A b \in Accounts, u \in Tokens :
           b # o \/ u # t => req'[b][u].qty = req[b][u].qty
      /\ req'[o][t].qty = 0
  BY <1>2, <1>3 DEF Sound, TablesOK, Requests, NoReq
<1>10. KeptIn(row', req')
  <2>1. - q \in Int /\ - (- q) = q /\ req'[o][t].qty = req[o][t].qty + - q
    BY <1>1, <1>4, <1>9
  <2>2. /\ Delta(row[t], row'[t], Self, - q, 0)
        /\ Delta(row[t], row'[t], o, 0, - (- q))
        /\ SameBut(row[t], row'[t], {Self, o})
    BY <1>5, <1>8, <2>1
  <2> QED BY <1>1, <1>9, <2>1, <2>2, EscrowMove
<1>11. ClaimsKept /\ FreeKept
  BY <1>10, KeptInClaims DEF After
<1>12. Only(t, {o, Self})
  BY <1>5, <1>8, <1>9 DEF Only, SameBut
<1>13. CanAdd(signers, t, row[t], o, MaySkip)
  <2>1. P[o] = row[t][o]
    BY <1>1, <1>6 DEF SameBut
  <2> QED BY <1>5, <2>1 DEF CanAdd
<1>14. row'[t][o].dep >= row[t][o].dep
  BY <1>1, <1>5, <1>8 DEF Delta
<1> QED BY <1>1, <1>11, <1>12, <1>13, <1>14

(* What a recall that reaches into the request leaves, before the schedule  *)
(* is refreshed: the escrow pays what the deposit lacks.                    *)
Recall(t, from, to, v, k1, k2) ==
  [row EXCEPT ![t] =
     AddBalance(SubDeposit(SubBalance(row[t], Self, v - row[t][from].dep, k1),
                           from, row[t][from].dep, k2), to, v)]

(* The debited table, to which the quantity is still to be added.           *)
RecallDebit(t, from, v, k1, k2) ==
  SubDeposit(SubBalance(row[t], Self, v - row[t][from].dep, k1),
             from, row[t][from].dep, k2)

RecallLeaves(t, from, to, v, rw) ==
  LET left == v - row[t][from].dep
  IN  /\ TablesOK(rw) /\ \A u \in Tokens \ {t} : rw[u] = row[u]
      /\ Delta(row[t], rw[t], from, 0, - row[t][from].dep)
      /\ to # Self => /\ Delta(row[t], rw[t], Self, - left, 0)
                      /\ Delta(row[t], rw[t], to, v, 0)
      /\ to = Self => Delta(row[t], rw[t], Self, v - left, 0)
      /\ SameBut(row[t], rw[t], {Self, from, to})

LEMMA RecallTables ==
  ASSUME Sound, NEW t \in Tokens, NEW from \in Accounts, from # Self,
         NEW to \in Accounts, from # to, NEW v \in Nat,
         NEW k1 \in BOOLEAN, NEW k2 \in BOOLEAN, row[t][from].dep < v,
         row[t][Self].bal >= v - row[t][from].dep
  PROVE  /\ RecallLeaves(t, from, to, v, Recall(t, from, to, v, k1, k2))
         /\ to # Self => RecallDebit(t, from, v, k1, k2)[to] = row[t][to]
<1> DEFINE dep == row[t][from].dep
           left == v - dep
           E == SubBalance(row[t], Self, left, k1)
           D == SubDeposit(E, from, dep, k2)
           M == AddBalance(D, to, v)
           rw == Recall(t, from, to, v, k1, k2)
<1>1. /\ LedgerOK(row[t]) /\ Self \in Accounts /\ dep \in Nat
      /\ row[t][Self].bal \in Nat /\ row[t][Self].dep \in Nat
      /\ left \in Nat /\ row[t][Self].bal >= left
  BY TableOK, Domains, OwnedInt DEF Sound
<1>2. LedgerOK(E) /\ Delta(row[t], E, Self, - left, 0) /\ SameBut(row[t], E, {Self})
  <2> HIDE DEF left
  <2> QED BY <1>1, SubBalanceRow
<1>3. rw = [row EXCEPT ![t] = M]
  BY Zenon DEF Recall
<1> D = RecallDebit(t, from, v, k1, k2)
  BY Zenon DEF RecallDebit
<1> HIDE DEF E, left
<1>4. E[from] = row[t][from]
  BY <1>2 DEF SameBut
<1>5. LedgerOK(D) /\ Delta(E, D, from, 0, - dep) /\ SameBut(E, D, {from})
  <2>1. E[from].dep >= dep
    BY <1>1, <1>4
  <2> HIDE DEF dep
  <2> QED BY <1>1, <1>2, <2>1, SubDepositRow
<1> HIDE DEF D
<1>6. LedgerOK(M) /\ Delta(D, M, to, v, 0) /\ SameBut(D, M, {to})
  BY <1>5, AddBalanceRow
<1> HIDE DEF M, rw
<1>7. /\ Delta(row[t], D, Self, - left, 0) /\ Delta(row[t], D, from, 0, - dep)
      /\ SameBut(row[t], D, {Self, from})
  BY <1>1, <1>2, <1>5, ThenOther
<1>8. TablesOK(rw) /\ rw[t] = M /\ \A u \in Tokens \ {t} : rw[u] = row[u]
  BY <1>3, <1>6 DEF TablesOK, LedgerOK, Sound
<1>9. Delta(row[t], M, from, 0, - dep) /\ SameBut(row[t], M, {Self, from, to})
  BY <1>6, <1>7 DEF Delta, SameBut
<1>10. ASSUME to # Self
       PROVE  Delta(row[t], M, Self, - left, 0) /\ Delta(row[t], M, to, v, 0)
  BY <1>1, <1>6, <1>7, <1>10 DEF Delta, SameBut
<1>11. ASSUME to = Self
       PROVE  Delta(row[t], M, Self, v - left, 0)
  BY <1>1, <1>6, <1>7, <1>11 DEF Delta
<1>12. to # Self => D[to] = row[t][to]
  BY <1>2, <1>5 DEF SameBut
<1>13. RecallLeaves(t, from, to, v, rw)
  BY <1>8, <1>9, <1>10, <1>11 DEF RecallLeaves, left
<1> QED BY <1>12, <1>13 DEF rw

(* What is left of the request when it is not used up, and when it is.      *)
RecalledRequests(t, from, left) == [req EXCEPT ![from][t].qty = @ - left]
RequestUsedUp(t, from) == [req EXCEPT ![from][t] = NoReq]

MovedIn(rw, rq, t, a, b, v) ==
  /\ a # b
  /\ OwnedIn(rw, rq, t, a) = Before(t, a) - v
  /\ OwnedIn(rw, rq, t, b) = Before(t, b) + v
  /\ \A u \in Tokens, c \in Accounts :
       u # t \/ (c # a /\ c # b) => OwnedIn(rw, rq, u, c) = Before(u, c)

LEMMA RecallMoves ==
  ASSUME Sound, NEW t \in Tokens, NEW from \in Accounts, from # Self,
         NEW to \in Accounts, from # to, NEW v \in Nat,
         row[t][from].dep < v,
         NEW rw, RecallLeaves(t, from, to, v, rw),
         NEW rq \in Requests,
         rq[from][t].qty = req[from][t].qty - (v - row[t][from].dep),
         \A b \in Accounts, u \in Tokens :
           b # from \/ u # t => rq[b][u].qty = req[b][u].qty
  PROVE  /\ MovedIn(rw, rq, t, from, to, v)
         /\ \A u \in Tokens : FreeIn(rw, rq, u) >= FreeIn(row, req, u)
<1> DEFINE dep == row[t][from].dep
           left == v - dep
<1>1. /\ TablesOK(rw)
      /\ \A u \in Tokens \ {t} : rw[u] = row[u]
      /\ Delta(row[t], rw[t], from, 0, - dep)
      /\ to # Self => /\ Delta(row[t], rw[t], Self, - left, 0)
                      /\ Delta(row[t], rw[t], to, v, 0)
      /\ to = Self => Delta(row[t], rw[t], Self, v - left, 0)
      /\ SameBut(row[t], rw[t], {Self, from, to})
  BY DEF RecallLeaves
<1>2. TablesOK(row) /\ req \in Requests /\ Self \in Accounts
  BY Domains DEF Sound
<1>3. ASSUME NEW u \in Tokens, u # t
      PROVE  /\ \A a \in Accounts : OwnedIn(rw, rq, u, a) = Before(u, a)
             /\ FreeIn(rw, rq, u) = FreeIn(row, req, u)
  BY <1>1, <1>3, SameTables
<1>4. Escrowed(rq, t) = Escrowed(req, t) - left /\ Escrowed(req, t) \in Int
  <2>1. \A b \in Accounts \ {from} : rq[b][t].qty = req[b][t].qty
    OBVIOUS
  <2>2. Escrowed(rq, t) = Escrowed(req, t) - req[from][t].qty + rq[from][t].qty
    BY <1>2, <2>1, EscrowedUpdate
  <2>3. Escrowed(req, t) \in Int
    BY <1>2, EscrowedInt
  <2>4. req[from][t].qty \in Int
    BY <1>2, OwnedInt
  <2>5. row[t][from].dep \in Int
    BY <1>2, OwnedInt
  <2> QED BY <2>2, <2>3, <2>4, <2>5
<1>5. \A a \in Accounts :
        row[t][a].bal \in Int /\ row[t][a].dep \in Int /\ req[a][t].qty \in Int
  BY <1>2, OwnedInt
<1>6. dep \in Int /\ left = v - dep /\ left \in Nat
  BY <1>2, OwnedInt
<1>7. OwnedIn(rw, rq, t, from) = Before(t, from) - v
  <2>1. /\ rw[t][from].bal = row[t][from].bal /\ rw[t][from].dep = row[t][from].dep - dep
        /\ rq[from][t].qty = req[from][t].qty - left
    BY <1>1, <1>5 DEF Delta
  <2> QED BY <1>5, <2>1 DEF OwnedIn, Before
<1> HIDE DEF dep, left
<1>8. OwnedIn(rw, rq, t, to) = Before(t, to) + v
  <2>1. rq[to][t].qty = req[to][t].qty
    OBVIOUS
  <2>2. CASE to # Self
    <3>1. rw[t][to].bal = row[t][to].bal + v /\ rw[t][to].dep = row[t][to].dep
      BY <1>1, <1>5, <2>2 DEF Delta
    <3> QED BY <1>5, <2>1, <2>2, <3>1 DEF OwnedIn, Before
  <2>3. CASE to = Self
    <3>1. rw[t][to].bal = row[t][to].bal + (v - left) /\ rw[t][to].dep = row[t][to].dep
      BY <1>1, <1>5, <2>3 DEF Delta
    <3> QED BY <1>4, <1>5, <1>6, <2>1, <2>3, <3>1 DEF OwnedIn, Before
  <2> QED BY <2>2, <2>3
<1>9. ASSUME NEW c \in Accounts, c # from, c # to
      PROVE  OwnedIn(rw, rq, t, c) = Before(t, c)
  <2>1. rq[c][t].qty = req[c][t].qty
    BY <1>9
  <2>2. CASE c = Self
    <3>1. rw[t][c].bal = row[t][c].bal - left /\ rw[t][c].dep = row[t][c].dep
      BY <1>1, <1>5, <1>6, <1>9, <2>2 DEF Delta
    <3> QED BY <1>4, <1>5, <1>6, <2>1, <2>2, <3>1 DEF OwnedIn, Before
  <2>3. CASE c # Self
    BY <1>1, <1>9, <2>1, <2>3 DEF OwnedIn, Before, SameBut
  <2> QED BY <2>2, <2>3
<1>10. FreeIn(rw, rq, t) >= FreeIn(row, req, t)
  <2>1. CASE to # Self
    BY <1>1, <1>2, <1>4, <1>5, <1>6, <2>1 DEF FreeIn, Delta
  <2>2. CASE to = Self
    BY <1>1, <1>2, <1>4, <1>5, <1>6, <2>2 DEF FreeIn, Delta
  <2> QED BY <2>1, <2>2
<1>11. \A u \in Tokens : FreeIn(rw, rq, u) >= FreeIn(row, req, u)
  BY <1>2, <1>3, <1>10, OwnedInt
<1> QED BY <1>3, <1>7, <1>8, <1>9, <1>11 DEF MovedIn

(* Every row that a partial recall or a refresh leaves, but that of from    *)
(* for t, which gains balance if anything.                                  *)
RecallRows(t, from, to) ==
  /\ \A u \in Tokens, b \in Accounts :
       b # from /\ b # Self /\ (u # t \/ b # to) => row'[u][b] = row[u][b]
  /\ \A u \in Tokens \ {t} :
       \E q \in Nat : Paid({from}, u, row[u], row'[u], from, q)
  /\ row'[t][to].dep = row[t][to].dep
  /\ row'[t][from].bal >= row[t][from].bal

LEMMA PaidNothing ==
  ASSUME NEW signers, NEW t, NEW L, LedgerOK(L), NEW o \in Accounts
  PROVE  Paid(signers, t, L, L, o, 0)
<1>1. /\ L[o].bal \in Nat /\ L[o].dep \in Nat
      /\ L[Self].bal \in Nat /\ L[Self].dep \in Nat
  BY Domains DEF LedgerOK, Ledger, Row
<1> QED BY <1>1 DEF Paid, Delta, SameBut

LEMMA RecallRequestedClaims ==
  ASSUME Sound, Sound', SelfAside, NEW signers, NEW t \in Tokens,
         NEW from \in Accounts, NEW to \in Accounts, NEW v \in Amounts,
         RecallRequested(signers, t, from, to, v)
  PROVE  /\ ClaimMoved(t, from, to, v) /\ FreeKept
         /\ from # Self /\ Before(t, from) >= v /\ req'[Self] = req[Self]
         /\ Valid(t, row[t][from], from, MaySkip) /\ row[t][from].open
         /\ to # Self => CanAdd(signers, t, row[t], to, MaySkip)
         /\ RecallRows(t, from, to)
<1> DEFINE dep  == row[t][from].dep
           left == v - dep
           q    == req[from][t].qty
<1>1. /\ LedgerOK(row[t]) /\ v \in Nat /\ v > 0 /\ Self \in Accounts
      /\ dep \in Nat /\ q \in Nat /\ row[t][from].bal \in Nat
      /\ TablesOK(row) /\ req \in Requests
  BY TableOK, Domains, OwnedInt DEF Sound
<1>2. /\ from # to /\ dep < v /\ q > 0 /\ q >= left /\ row[t][Self].bal >= left
      /\ Valid(t, row[t][from], from, MaySkip) /\ row[t][from].open
  BY DEF RecallRequested, MayTransfer, CanSubBalance
<1>3. left \in Nat /\ from # Self
  BY <1>1, <1>2 DEF SelfAside
<1>4. PICK k1 \in StackFlag, k2 \in StackFlag :
        /\ CanAdd(signers, t, RecallDebit(t, from, v, k1, k2), to, MaySkip)
        /\ \/ /\ q > left
              /\ req' = RecalledRequests(t, from, left)
              /\ row' = Recall(t, from, to, v, k1, k2)
           \/ /\ q = left
              /\ Refresh({from}, Recall(t, from, to, v, k1, k2),
                         RequestUsedUp(t, from), from)
  BY Zenon DEF RecallRequested, RecallDebit, Recall, RecalledRequests, RequestUsedUp
<1>5. k1 \in BOOLEAN /\ k2 \in BOOLEAN
  BY Domains
<1> DEFINE rw == Recall(t, from, to, v, k1, k2)
           some == RecalledRequests(t, from, left)
           none == RequestUsedUp(t, from)
<1>6. \/ q > left /\ req' = some /\ row' = rw
      \/ q = left /\ Refresh({from}, rw, none, from)
  BY <1>4, Zenon
<1>7. to # Self => CanAdd(signers, t, row[t], to, MaySkip)
  <2>1. to # Self => RecallDebit(t, from, v, k1, k2)[to] = row[t][to]
    BY <1>1, <1>2, <1>3, <1>5, RecallTables
  <2> QED BY <1>4, <2>1 DEF CanAdd
<1>8. /\ TablesOK(rw) /\ RecallLeaves(t, from, to, v, rw)
      /\ \A u \in Tokens \ {t} : rw[u] = row[u]
      /\ Delta(row[t], rw[t], from, 0, - dep)
      /\ to # Self => Delta(row[t], rw[t], to, v, 0)
      /\ to = Self => Delta(row[t], rw[t], Self, v - left, 0)
      /\ SameBut(row[t], rw[t], {Self, from, to})
  <2>1. RecallLeaves(t, from, to, v, rw)
    BY <1>1, <1>2, <1>3, <1>5, RecallTables
  <2> QED BY <2>1 DEF RecallLeaves
<1>9. /\ some \in Requests /\ some[from][t].qty = q - left
      /\ \A b \in Accounts, u \in Tokens : b # from \/ u # t => some[b][u] = req[b][u]
  <2>1. q - left \in Nat
    BY <1>1, <1>2, <1>3
  <2> DEFINE x == [req[from][t] EXCEPT !.qty = q - left]
  <2>2. some = [req EXCEPT ![from][t] = x]
    BY <1>1 DEF RecalledRequests, Requests
  <2>3. x \in [qty : Nat, time : Nat] /\ x.qty = q - left
    <3> HIDE DEF left
    <3> QED BY <1>1, <2>1 DEF Requests
  <2> HIDE DEF left, some, x
  <2> QED BY <1>1, <2>2, <2>3 DEF Requests
<1>10. /\ none \in Requests /\ none[from][t].qty = 0
       /\ \A b \in Accounts, u \in Tokens : b # from \/ u # t => none[b][u] = req[b][u]
  <2>1. none = [req EXCEPT ![from][t] = NoReq] /\ NoReq \in [qty : Nat, time : Nat]
    BY DEF RequestUsedUp, NoReq
  <2> HIDE DEF none
  <2> QED BY <1>1, <2>1 DEF Requests, NoReq
<1>11. v <= dep + q /\ v \in Nat
  BY <1>1, <1>2, <1>3
<1> HIDE DEF left, rw, some, none
<1>12. Before(t, from) >= v
  BY <1>1, <1>3, <1>11, ClaimCovers
<1>13. ASSUME NEW rq \in Requests, rq[from][t].qty = q - left,
              \A b \in Accounts, u \in Tokens :
                b # from \/ u # t => rq[b][u] = req[b][u]
       PROVE  /\ MovedIn(rw, rq, t, from, to, v)
              /\ \A u \in Tokens : FreeIn(rw, rq, u) >= FreeIn(row, req, u)
  <2>1. \A b \in Accounts, u \in Tokens :
          b # from \/ u # t => rq[b][u].qty = req[b][u].qty
    BY <1>13
  <2> QED BY <1>1, <1>2, <1>3, <1>8, <1>13, <2>1, RecallMoves DEF left
<1>14. CASE q > left /\ req' = some /\ row' = rw
  <2>1. /\ MovedIn(row', req', t, from, to, v)
        /\ \A u \in Tokens : FreeIn(row', req', u) >= FreeIn(row, req, u)
    BY <1>9, <1>13, <1>14
  <2>2. ClaimMoved(t, from, to, v) /\ FreeKept
    BY <2>1 DEF MovedIn, ClaimMoved, FreeKept, After
  <2>3. req'[Self] = req[Self]
    <3>1. \A u \in Tokens : req'[Self][u] = req[Self][u]
      BY <1>1, <1>3, <1>9, <1>14
    <3>2. req' \in Requests
      BY DEF Sound
    <3> QED BY <1>1, <3>1, <3>2 DEF Requests
  <2>4. RecallRows(t, from, to)
    <3>1. ASSUME NEW u \in Tokens \ {t}
          PROVE  \E p \in Nat : Paid({from}, u, row[u], row'[u], from, p)
      BY <1>1, <1>8, <1>14, PaidNothing DEF TablesOK
    <3>2. row[t][to].dep \in Nat /\ row[t][from].bal \in Nat
      BY <1>1, OwnedInt
    <3>3. row'[t][to].dep = row[t][to].dep /\ row'[t][from].bal >= row[t][from].bal
      BY <1>8, <1>14, <3>2 DEF Delta
    <3>4. ASSUME NEW u \in Tokens, NEW b \in Accounts,
                 b # from, b # Self, u # t \/ b # to
          PROVE  row'[u][b] = row[u][b]
      BY <1>8, <1>14, <3>4 DEF SameBut
    <3> QED BY <3>1, <3>3, <3>4 DEF RecallRows
  <2> QED BY <1>2, <1>3, <1>7, <1>12, <2>2, <2>3, <2>4
<1>15. CASE q = left /\ Refresh({from}, rw, none, from)
  <2>1. /\ MovedIn(rw, none, t, from, to, v)
        /\ \A u \in Tokens : FreeIn(rw, none, u) >= FreeIn(row, req, u)
    <3>1. none[from][t].qty = q - left
      BY <1>1, <1>10, <1>15
    <3> QED BY <1>10, <1>13, <3>1
  <2>2. \A u \in Tokens :
          /\ \A a \in Accounts : After(u, a) = OwnedIn(rw, none, u, a)
          /\ FreeIn(row', req', u) = FreeIn(rw, none, u)
    BY <1>3, <1>8, <1>10, <1>15, ClearClaims
  <2>3. ClaimMoved(t, from, to, v) /\ FreeKept
    BY <2>1, <2>2 DEF MovedIn, ClaimMoved, FreeKept
  <2>4. /\ Settled({from}, rw, from)
        /\ \A b \in Accounts \ {from}, u \in Tokens : req'[b][u] = none[b][u]
    BY <1>3, <1>8, <1>10, <1>15, RefreshSettles
  <2>5. req'[Self] = req[Self]
    <3>1. \A u \in Tokens : req'[Self][u] = req[Self][u]
      BY <1>1, <1>3, <1>10, <2>4
    <3>2. req' \in Requests
      BY DEF Sound
    <3> QED BY <1>1, <3>1, <3>2 DEF Requests
  <2>6. RecallRows(t, from, to)
    <3>1. \A u \in Tokens \ {t} : \E p \in Nat : Paid({from}, u, row[u], row'[u], from, p)
      BY <1>8, <2>4 DEF Settled
    <3>2. PICK p \in Nat : Paid({from}, t, rw[t], row'[t], from, p)
      BY <2>4 DEF Settled
    <3>3. row[t][to].dep \in Nat /\ row[t][from].bal \in Nat
      BY <1>1, OwnedInt
    <3>4. rw[t][to].dep = row[t][to].dep /\ rw[t][from].bal = row[t][from].bal
      BY <1>8, <3>3 DEF Delta
    <3>5. rw[t][Self].bal \in Nat /\ rw[t][Self].dep \in Nat
      BY <1>1, <1>8, <1>10, OwnedInt
    <3>6. row'[t][to].dep = row[t][to].dep
      <4>1. CASE to = Self
        BY <3>2, <3>4, <3>5, <4>1 DEF Paid, Delta
      <4>2. CASE to # Self
        BY <1>2, <3>2, <3>4, <4>2 DEF Paid, SameBut
      <4> QED BY <4>1, <4>2
    <3>7. row'[t][from].bal >= row[t][from].bal
      BY <3>2, <3>3, <3>4 DEF Paid, Delta
    <3>8. ASSUME NEW u \in Tokens, NEW b \in Accounts,
                 b # from, b # Self, u # t \/ b # to
          PROVE  row'[u][b] = row[u][b]
      <4>1. PICK r \in Nat : Paid({from}, u, rw[u], row'[u], from, r)
        BY <2>4 DEF Settled
      <4>2. row'[u][b] = rw[u][b]
        BY <3>8, <4>1 DEF Paid, SameBut
      <4> QED BY <1>8, <3>8, <4>2 DEF SameBut
    <3> QED BY <3>1, <3>6, <3>7, <3>8 DEF RecallRows
  <2> QED BY <1>2, <1>3, <1>7, <1>12, <2>3, <2>5, <2>6
<1> QED BY <1>6, <1>14, <1>15

-----------------------------------------------------------------------------
(* Steps of the abstract ledger.                                            *)

LEMMA OwnedIsClaim ==
  /\ Sound => \A t \in Tokens, a \in Accounts :
                Owned(t, a) = Before(t, a) /\ Before(t, a) \in Int
  /\ Sound' => \A t \in Tokens, a \in Accounts : Owned(t, a)' = After(t, a)
<1>1. ASSUME Sound, NEW t \in Tokens, NEW a \in Accounts
      PROVE  Owned(t, a) = Before(t, a) /\ Before(t, a) \in Int
  <2>1. /\ row[t][a].bal \in Nat /\ row[t][a].dep \in Nat /\ req[a][t].qty \in Nat
        /\ Before(t, a) \in Int /\ Escrowed(req, t) \in Int
    BY <1>1, OwnedInt, EscrowedInt DEF Sound, Before
  <2>2. CASE a = Self
    BY <2>1, <2>2 DEF Owned, Owns, Before, OwnedIn
  <2>3. CASE a # Self
    BY <2>1, <2>3 DEF Owned, Owns, Before, OwnedIn
  <2> QED BY <2>1, <2>2, <2>3
<1>2. ASSUME Sound', NEW t \in Tokens, NEW a \in Accounts
      PROVE  Owned(t, a)' = After(t, a)
  <2>1. /\ row'[t][a].bal \in Nat /\ row'[t][a].dep \in Nat /\ req'[a][t].qty \in Nat
        /\ Escrowed(req', t) \in Int
    BY <1>2, OwnedInt, EscrowedInt DEF Sound
  <2>2. CASE a = Self
    BY <2>1, <2>2 DEF Owned, Owns, After, OwnedIn
  <2>3. CASE a # Self
    BY <2>1, <2>3 DEF Owned, Owns, After, OwnedIn
  <2> QED BY <2>2, <2>3
<1> QED BY <1>1, <1>2

ClaimOf == [t \in Tokens |-> [a \in Accounts |-> Owned(t, a)]]
SupplyOf == [t \in Tokens |-> stat[t].supply]
MaxOf == [t \in Tokens |-> stat[t].max]

LEMMA ClaimChangedIs ==
  ASSUME Sound, Sound', NEW t \in Tokens, NEW a \in Accounts, NEW d,
         ClaimChanged(t, a, d)
  PROVE  ClaimOf' = [ClaimOf EXCEPT ![t][a] = @ + d]
<1>1. \A u \in Tokens, b \in Accounts :
        Owned(u, b) = Before(u, b) /\ Owned(u, b)' = After(u, b)
  BY OwnedIsClaim
<1>2. ClaimOf' = [u \in Tokens |-> [b \in Accounts |-> After(u, b)]]
  BY <1>1 DEF ClaimOf
<1>3. ClaimOf = [u \in Tokens |-> [b \in Accounts |-> Before(u, b)]]
  BY <1>1 DEF ClaimOf
<1> QED BY <1>2, <1>3 DEF ClaimChanged

LEMMA ClaimMovedIs ==
  ASSUME Sound, Sound', NEW t \in Tokens, NEW a \in Accounts, NEW b \in Accounts,
         NEW v, ClaimMoved(t, a, b, v)
  PROVE  ClaimOf' = [ClaimOf EXCEPT ![t][a] = @ - v, ![t][b] = @ + v]
<1>1. \A u \in Tokens, c \in Accounts :
        Owned(u, c) = Before(u, c) /\ Owned(u, c)' = After(u, c)
  BY OwnedIsClaim
<1>2. ClaimOf' = [u \in Tokens |-> [c \in Accounts |-> After(u, c)]]
  BY <1>1 DEF ClaimOf
<1>3. ClaimOf = [u \in Tokens |-> [c \in Accounts |-> Before(u, c)]]
  BY <1>1 DEF ClaimOf
<1> QED BY <1>2, <1>3 DEF ClaimMoved

LEMMA ClaimsKeptIs ==
  ASSUME Sound, Sound', ClaimsKept
  PROVE  ClaimOf' = ClaimOf
<1>1. \A u \in Tokens, b \in Accounts :
        Owned(u, b) = Before(u, b) /\ Owned(u, b)' = After(u, b)
  BY OwnedIsClaim
<1>2. ClaimOf' = [u \in Tokens |-> [b \in Accounts |-> After(u, b)]]
  BY <1>1 DEF ClaimOf
<1>3. ClaimOf = [u \in Tokens |-> [b \in Accounts |-> Before(u, b)]]
  BY <1>1 DEF ClaimOf
<1> QED BY <1>2, <1>3 DEF ClaimsKept

(* Each action of the ledger, from what its counterpart does to the claims. *)
LEMMA IsInternal ==
  ASSUME Sound, Sound', ClaimsKept, SupplyOf' = SupplyOf, MaxOf' = MaxOf
  PROVE  Abstract!Next
<1>1. ClaimOf' = ClaimOf
  BY ClaimsKeptIs
<1>2. Abstract!Internal
  BY <1>1 DEF Abstract!Internal, ClaimOf, SupplyOf, MaxOf
<1> QED BY <1>2 DEF Abstract!Next

LEMMA IsMint ==
  ASSUME Sound, Sound', ClaimsKept, SupplyOf' = SupplyOf, auth' = {Self},
         NEW t \in Tokens, NEW v \in Amounts, stat[t].max + v <= MaxAmount,
         MaxOf' = [MaxOf EXCEPT ![t] = @ + v]
  PROVE  Abstract!Next
<1>1. ClaimOf' = ClaimOf
  BY ClaimsKeptIs
<1>2. Abstract!Mint(t, v)
  BY <1>1 DEF Abstract!Mint, ClaimOf, SupplyOf, MaxOf
<1>3. v \in 1 .. MaxAmount
  BY ConstantsAssumption
<1> QED BY <1>2, <1>3 DEF Abstract!Next

LEMMA IsIssue ==
  ASSUME Sound, Sound', NEW t \in Tokens, NEW a \in Accounts, NEW v \in Amounts,
         ClaimChanged(t, a, v), HasVauth(auth', Issuer[t]),
         stat[t].supply + v <= stat[t].max, MaxOf' = MaxOf,
         SupplyOf' = [SupplyOf EXCEPT ![t] = @ + v]
  PROVE  Abstract!Next
<1>1. ClaimOf' = [ClaimOf EXCEPT ![t][a] = @ + v]
  BY ClaimChangedIs
<1>2. Abstract!Issue(t, a, v)
  BY <1>1 DEF Abstract!Issue, Abstract!ByIssuer, HasVauth, ClaimOf, SupplyOf, MaxOf
<1>3. v \in 1 .. MaxAmount
  BY ConstantsAssumption
<1> QED BY <1>2, <1>3 DEF Abstract!Next

LEMMA IsRetire ==
  ASSUME Sound, Sound', NEW t \in Tokens, NEW a \in Accounts, NEW v \in Amounts,
         ClaimChanged(t, a, - v), a \in auth' \/ HasVauth(auth', Issuer[t]),
         Before(t, a) >= v, MaxOf' = MaxOf,
         SupplyOf' = [SupplyOf EXCEPT ![t] = @ - v]
  PROVE  Abstract!Next
<1>1. ClaimOf' = [ClaimOf EXCEPT ![t][a] = @ + (- v)]
  BY ClaimChangedIs
<1>2. ClaimOf[t][a] = Before(t, a) /\ Before(t, a) \in Int /\ v \in Int
  BY OwnedIsClaim, Domains DEF ClaimOf
<1>3. ClaimOf' = [ClaimOf EXCEPT ![t][a] = @ - v]
  BY <1>1, <1>2
<1>4. Abstract!Retire(t, a, v)
  BY <1>2, <1>3 DEF Abstract!Retire, Abstract!ByIssuer, HasVauth, ClaimOf, SupplyOf, MaxOf
<1>5. v \in 1 .. MaxAmount
  BY ConstantsAssumption
<1> QED BY <1>4, <1>5 DEF Abstract!Next

LEMMA IsBurn ==
  ASSUME Sound, Sound', NEW t \in Tokens, NEW v \in Amounts,
         ClaimChanged(t, Issuer[t], - v), HasVauth(auth', Issuer[t]) \/ Self \in auth',
         Before(t, Issuer[t]) >= v, MaxOf' = [MaxOf EXCEPT ![t] = @ - v],
         SupplyOf' = [SupplyOf EXCEPT ![t] = @ - v]
  PROVE  Abstract!Next
<1> DEFINE a == Issuer[t]
<1>0. a \in Accounts
  BY Domains
<1>1. ClaimOf' = [ClaimOf EXCEPT ![t][a] = @ + (- v)]
  BY <1>0, ClaimChangedIs
<1>2. ClaimOf[t][a] = Before(t, a) /\ Before(t, a) \in Int /\ v \in Int
  BY <1>0, OwnedIsClaim, Domains DEF ClaimOf
<1>3. ClaimOf' = [ClaimOf EXCEPT ![t][a] = @ - v]
  BY <1>1, <1>2
<1>4. Abstract!Burn(t, v)
  BY <1>2, <1>3 DEF Abstract!Burn, Abstract!ByIssuer, HasVauth, ClaimOf, SupplyOf, MaxOf
<1>5. v \in 1 .. MaxAmount
  BY ConstantsAssumption
<1> QED BY <1>4, <1>5 DEF Abstract!Next

LEMMA IsMove ==
  ASSUME Sound, Sound', NEW t \in Tokens, NEW a \in Accounts, NEW b \in Accounts,
         NEW v \in Amounts, ClaimMoved(t, a, b, v),
         a \in auth' \/ b \in auth' \/ HasVauth(auth', Issuer[t]),
         Before(t, a) >= v, MaxOf' = MaxOf, SupplyOf' = SupplyOf
  PROVE  Abstract!Next
<1>1. ClaimOf' = [ClaimOf EXCEPT ![t][a] = @ - v, ![t][b] = @ + v]
  BY ClaimMovedIs
<1>2. ClaimOf[t][a] = Before(t, a) /\ a # b
  BY OwnedIsClaim DEF ClaimOf, ClaimMoved
<1>3. Abstract!Move(t, a, b, v)
  BY <1>1, <1>2 DEF Abstract!Move, HasVauth, ClaimOf, SupplyOf, MaxOf
<1>4. v \in 1 .. MaxAmount
  BY ConstantsAssumption
<1> QED BY <1>3, <1>4 DEF Abstract!Next

-----------------------------------------------------------------------------
(* Who loses.                                                               *)

MayLose(t, a) ==
  a \in auth' \/ Recalled(t, a) \/ SpentAllowance(t, a) \/ Burned(t, a)
Authorised ==
  \A t \in Tokens, a \in Accounts \ {Self} :
    Owns(t, a)' < Owns(t, a) => MayLose(t, a)

LEMMA OwnsIsClaim ==
  ASSUME Sound, Sound', NEW t \in Tokens, NEW a \in Accounts \ {Self}
  PROVE  /\ Owns(t, a) = Before(t, a) /\ Owns(t, a)' = After(t, a)
         /\ Before(t, a) \in Int /\ After(t, a) \in Int
<1>1. /\ Owned(t, a) = Before(t, a) /\ Before(t, a) \in Int
      /\ Owned(t, a)' = After(t, a)
  BY OwnedIsClaim
<1>2. Owned(t, a) = Owns(t, a) /\ Owned(t, a)' = Owns(t, a)'
  BY DEF Owned
<1>3. After(t, a) \in Int
  BY OwnedInt DEF After, Sound
<1> QED BY <1>1, <1>2, <1>3

(* One account loses, if any.                                               *)
LEMMA OneLoses ==
  ASSUME Sound, Sound', NEW t \in Tokens, NEW a \in Accounts,
         \A u \in Tokens, b \in Accounts :
           u # t \/ b # a => After(u, b) >= Before(u, b),
         a # Self => MayLose(t, a)
  PROVE  Authorised
<1> SUFFICES ASSUME NEW u \in Tokens, NEW b \in Accounts \ {Self},
                    Owns(u, b)' < Owns(u, b)
             PROVE  MayLose(u, b)
  BY DEF Authorised
<1>1. After(u, b) < Before(u, b) /\ After(u, b) \in Int /\ Before(u, b) \in Int
  BY OwnsIsClaim
<1>2. u = t /\ b = a
  BY <1>1
<1> QED BY <1>2

LEMMA NobodyLoses ==
  ASSUME Sound, Sound', ClaimsKept
  PROVE  Authorised
<1> SUFFICES ASSUME NEW u \in Tokens, NEW b \in Accounts \ {Self},
                    Owns(u, b)' < Owns(u, b)
             PROVE  FALSE
  BY DEF Authorised
<1> QED BY OwnsIsClaim DEF ClaimsKept

LEMMA ChangedLoses ==
  ASSUME Sound, Sound', NEW t \in Tokens, NEW a \in Accounts, NEW d \in Int,
         ClaimChanged(t, a, d), a # Self /\ d < 0 => MayLose(t, a)
  PROVE  Authorised
<1>1. \A u \in Tokens, b \in Accounts : Before(u, b) \in Int
  BY OwnedIsClaim
<1>2. \A u \in Tokens, b \in Accounts :
        u # t \/ b # a => After(u, b) >= Before(u, b)
  BY <1>1 DEF ClaimChanged
<1>3. CASE a # Self /\ d < 0
  BY <1>2, <1>3, OneLoses
<1>4. CASE a = Self
  BY <1>2, <1>4, OneLoses
<1>5. CASE d >= 0
  <2>1. \A u \in Tokens, b \in Accounts : After(u, b) >= Before(u, b)
    BY <1>1, <1>2, <1>5 DEF ClaimChanged
  <2> SUFFICES ASSUME NEW u \in Tokens, NEW b \in Accounts \ {Self},
                      Owns(u, b)' < Owns(u, b)
               PROVE  FALSE
    BY DEF Authorised
  <2> QED BY <2>1, OwnsIsClaim
<1> QED BY <1>3, <1>4, <1>5

LEMMA MovedLoses ==
  ASSUME Sound, Sound', NEW t \in Tokens, NEW a \in Accounts, NEW b \in Accounts,
         NEW v \in Nat, ClaimMoved(t, a, b, v), a # Self => MayLose(t, a)
  PROVE  Authorised
<1>1. \A u \in Tokens, c \in Accounts : Before(u, c) \in Int
  BY OwnedIsClaim
<1>2. \A u \in Tokens, c \in Accounts :
        u # t \/ c # a => After(u, c) >= Before(u, c)
  BY <1>1 DEF ClaimMoved
<1> QED BY <1>2, OneLoses

-----------------------------------------------------------------------------
(* The steps of the specification.                                          *)

(* gxc.token issues no token and nobody deposits in its name: its balance   *)
(* is the escrow and what was sent to it.                                   *)
EscrowIsApart ==
  Self \notin DepositOwners /\ \A t \in Tokens : Issuer[t] # Self

Faithful ==
  /\ FreeKept /\ SelfAside'
  /\ Authorised
  /\ Solvent => Abstract!Next

LEMMA AmountlessFaithful ==
  ASSUME Sound, Sound', SelfAside, Amountless, allowance'[Self] = allowance[Self],
         SupplyOf' = SupplyOf, MaxOf' = MaxOf
  PROVE  Faithful
<1>1. ClaimsKept /\ FreeKept
  BY AmountlessClaims
<1>2. SelfAside'
  BY DEF SelfAside, Amountless
<1>3. Authorised /\ Abstract!Next
  BY <1>1, NobodyLoses, IsInternal
<1> QED BY <1>1, <1>2, <1>3 DEF Faithful

LEMMA SelfStaysAside ==
  ASSUME SelfAside, req'[Self] = req[Self], allowance'[Self] = allowance[Self]
  PROVE  SelfAside'
BY DEF SelfAside

LEMMA SameStat ==
  ASSUME UNCHANGED stat
  PROVE  SupplyOf' = SupplyOf /\ MaxOf' = MaxOf
BY DEF SupplyOf, MaxOf

LEMMA MintNewFaithful ==
  ASSUME Sound, Sound', SelfAside, auth' = {Self}, NEW t \in Tokens,
         NEW v \in Amounts, NEW c \in Configs, MintNew(t, v, c)
  PROVE  Faithful
<1>1. Amountless /\ UNCHANGED <<req, allowance>>
  BY DEF MintNew, Amountless
<1>2. ClaimsKept /\ FreeKept
  BY <1>1, AmountlessClaims
<1>3. SelfAside'
  BY <1>1, SelfStaysAside
<1>4. stat \in [Tokens -> Stat] /\ stat[t] = NoStat /\ stat' = [stat EXCEPT ![t] = Minted(v, c)]
  BY DEF MintNew, Sound, StatOK
<1>5. SupplyOf' = SupplyOf
  BY <1>4 DEF SupplyOf, Minted, NoStat
<1>6. MaxOf' = [MaxOf EXCEPT ![t] = @ + v] /\ stat[t].max + v <= MaxAmount
  <2>1. v \in Int /\ v <= MaxAmount /\ stat[t].max = 0
    BY <1>4, Domains DEF NoStat
  <2>2. stat[t].max + v = v
    BY <2>1
  <2>3. MaxOf' = [MaxOf EXCEPT ![t] = v]
    BY <1>4 DEF MaxOf, Minted
  <2>4. MaxOf[t] = stat[t].max
    BY DEF MaxOf
  <2> QED BY <2>1, <2>2, <2>3, <2>4
<1>7. Authorised /\ Abstract!Next
  BY <1>2, <1>5, <1>6, NobodyLoses, IsMint
<1> QED BY <1>2, <1>3, <1>7 DEF Faithful

LEMMA MintMoreFaithful ==
  ASSUME Sound, Sound', SelfAside, auth' = {Self}, NEW t \in Tokens,
         NEW v \in Amounts, NEW chg \in Changes(LiveOptions), MintMore(t, v, chg)
  PROVE  Faithful
<1>1. Amountless /\ UNCHANGED <<req, allowance>>
  BY DEF MintMore, Amountless
<1>2. ClaimsKept /\ FreeKept
  BY <1>1, AmountlessClaims
<1>3. SelfAside'
  BY <1>1, SelfStaysAside
<1>4. /\ stat \in [Tokens -> Stat] /\ stat[t].max + v <= MaxAmount
      /\ \E opts : stat' = [stat EXCEPT ![t].max = @ + v, ![t].opts = opts]
  BY DEF MintMore, Sound, StatOK
<1>5. SupplyOf' = SupplyOf
  BY <1>4 DEF SupplyOf, Stat
<1>6. MaxOf' = [MaxOf EXCEPT ![t] = @ + v]
  BY <1>4 DEF MaxOf, Stat
<1>7. Authorised /\ Abstract!Next
  BY <1>2, <1>4, <1>5, <1>6, NobodyLoses, IsMint
<1> QED BY <1>2, <1>3, <1>7 DEF Faithful

LEMMA IssueFaithful ==
  ASSUME Sound, Sound', SelfAside, NEW t \in Tokens, NEW to \in Accounts,
         NEW v \in Amounts, Issue(auth', t, to, v)
  PROVE  Faithful
<1>1. ClaimChanged(t, to, v) /\ FreeKept
  BY IssueClaims
<1>2. SelfAside' /\ HasVauth(auth', Issuer[t])
  BY SelfStaysAside DEF Issue
<1>3. /\ stat[t] \in Stat /\ stat \in [Tokens -> Stat] /\ v \in Nat
      /\ stat' = [stat EXCEPT ![t].supply = @ + v]
  BY Domains DEF Issue, Sound, StatOK
<1>4. /\ SupplyOf' = [SupplyOf EXCEPT ![t] = @ + v] /\ MaxOf' = MaxOf
      /\ stat[t].supply + v <= stat[t].max
  <2>1. stat[t].supply + v <= stat[t].max
    BY <1>3 DEF Stat, Issue
  <2>2. SupplyOf' = [SupplyOf EXCEPT ![t] = @ + v] /\ MaxOf' = MaxOf
    BY <1>3 DEF SupplyOf, MaxOf, Stat
  <2> QED BY <2>1, <2>2
<1>5. Authorised
  <2>1. v \in Int /\ ~ (v < 0)
    BY <1>3
  <2> QED BY <1>1, <2>1, ChangedLoses
<1>6. Abstract!Next
  BY <1>1, <1>2, <1>4, IsIssue
<1> QED BY <1>1, <1>2, <1>5, <1>6 DEF Faithful

LEMMA RetireFaithful ==
  ASSUME Sound, Sound', SelfAside, Self \notin auth', NEW t \in Tokens,
         NEW a \in Accounts, NEW v \in Amounts, Retire(auth', t, a, v)
  PROVE  Faithful
<1>1. /\ ClaimChanged(t, a, - v) /\ FreeKept
      /\ Solvent => Before(t, a) >= v
      /\ \/ a \in auth'
         \/ MayRecall(auth', t) /\ row'[t][a].bal >= row[t][a].bal
  BY RetireClaims
<1>2. SelfAside'
  BY SelfStaysAside DEF Retire
<1>3. /\ stat[t] \in Stat /\ stat \in [Tokens -> Stat] /\ v \in Nat
      /\ stat' = [stat EXCEPT ![t].supply = @ - v]
  BY Domains DEF Retire, Sound, StatOK
<1>4. SupplyOf' = [SupplyOf EXCEPT ![t] = @ - v] /\ MaxOf' = MaxOf
  BY <1>3 DEF SupplyOf, MaxOf, Stat
<1>5. Authorised
  <2>1. MayLose(t, a)
    BY <1>1 DEF MayLose, Recalled, MayRecall
  <2>2. - v \in Int
    BY <1>3
  <2> QED BY <1>1, <2>1, <2>2, ChangedLoses
<1>6. a \in auth' \/ HasVauth(auth', Issuer[t])
  BY <1>1 DEF MayRecall
<1>7. Solvent => Abstract!Next
  BY <1>1, <1>4, <1>6, IsRetire
<1> QED BY <1>1, <1>2, <1>5, <1>7 DEF Faithful

LEMMA BurnFaithful ==
  ASSUME Sound, Sound', SelfAside, NEW t \in Tokens, Issuer[t] # Self,
         NEW v \in Amounts, Burn(auth', t, v)
  PROVE  Faithful
<1>1. /\ ClaimChanged(t, Issuer[t], - v) /\ FreeKept
      /\ Before(t, Issuer[t]) >= v
  BY BurnClaims
<1>2. SelfAside' /\ (HasVauth(auth', Issuer[t]) \/ Self \in auth')
  BY SelfStaysAside DEF Burn
<1>3. /\ stat[t] \in Stat /\ stat \in [Tokens -> Stat] /\ v \in Nat
      /\ stat' = [stat EXCEPT ![t].supply = @ - v, ![t].max = @ - v]
      /\ Issuer[t] \in Accounts
  BY Domains DEF Burn, Sound, StatOK
<1>4. /\ SupplyOf' = [SupplyOf EXCEPT ![t] = @ - v]
      /\ MaxOf' = [MaxOf EXCEPT ![t] = @ - v]
  BY <1>3 DEF SupplyOf, MaxOf, Stat
<1>5. Authorised
  <2>1. MayLose(t, Issuer[t])
    BY <1>2 DEF MayLose, Burned
  <2>2. - v \in Int
    BY <1>3
  <2> QED BY <1>1, <1>3, <2>1, <2>2, ChangedLoses
<1>6. Abstract!Next
  BY <1>1, <1>2, <1>4, IsBurn
<1> QED BY <1>1, <1>2, <1>5, <1>6 DEF Faithful

LEMMA TransferFaithful ==
  ASSUME Sound, Sound', SelfAside, Self \notin auth', NEW t \in Tokens,
         NEW from \in Accounts, NEW to \in Accounts, NEW v \in Amounts,
         Transfer(auth', t, from, to, v)
  PROVE  Faithful
<1>1. /\ ClaimMoved(t, from, to, v) /\ FreeKept
      /\ from # Self /\ Before(t, from) >= v
      /\ \/ from \in auth'
         \/ to \in auth' /\ allowance[from][to][t] - allowance'[from][to][t] = v
  BY TransferClaims
<1>2. SelfAside'
  <2>1. allowance'[Self] = allowance[Self]
    <3>1. \/ UNCHANGED allowance
          \/ allowance' = [allowance EXCEPT ![from][to][t] = @ - v]
      BY DEF Transfer, SubAllowance
    <3> QED BY <1>1, <3>1, Domains DEF Sound
  <2> QED BY <2>1, SelfStaysAside DEF Transfer
<1>3. SupplyOf' = SupplyOf /\ MaxOf' = MaxOf
  BY SameStat DEF Transfer
<1>4. v \in Nat /\ Before(t, from) \in Int
  BY Domains, OwnedIsClaim
<1>5. Authorised
  <2>1. Owns(t, from) - Owns(t, from)' = v
    <3>1. Owns(t, from) = Before(t, from) /\ Owns(t, from)' = After(t, from)
      BY <1>1, OwnsIsClaim
    <3>2. After(t, from) = Before(t, from) - v
      BY <1>1 DEF ClaimMoved
    <3> HIDE DEF Owns
    <3> QED BY <1>4, <3>1, <3>2
  <2>2. MayLose(t, from)
    BY <1>1, <2>1 DEF MayLose, SpentAllowance
  <2> QED BY <1>1, <1>4, <2>2, MovedLoses
<1>6. Abstract!Next
  BY <1>1, <1>3, IsMove
<1> QED BY <1>1, <1>2, <1>5, <1>6 DEF Faithful

LEMMA RecallDepositFaithful ==
  ASSUME Sound, Sound', SelfAside, NEW t \in Tokens, NEW from \in Accounts,
         NEW to \in Accounts, NEW v \in Amounts,
         RecallDeposit(auth', t, from, to, v)
  PROVE  Faithful
<1>1. /\ ClaimMoved(t, from, to, v) /\ FreeKept
      /\ Solvent => Before(t, from) >= v
      /\ row'[t][from].bal = row[t][from].bal
  BY RecallDepositClaims
<1>2. SelfAside' /\ MayRecall(auth', t)
  BY SelfStaysAside DEF RecallDeposit
<1>3. SupplyOf' = SupplyOf /\ MaxOf' = MaxOf
  BY SameStat DEF RecallDeposit
<1>4. v \in Nat /\ row[t][from].bal \in Nat
  BY Domains, OwnedInt DEF Sound
<1>5. Authorised
  <2>1. MayLose(t, from)
    BY <1>1, <1>2, <1>4 DEF MayLose, Recalled, MayRecall
  <2> QED BY <1>1, <1>4, <2>1, MovedLoses
<1>6. Solvent => Abstract!Next
  BY <1>1, <1>2, <1>3, IsMove DEF MayRecall
<1> QED BY <1>1, <1>2, <1>5, <1>6 DEF Faithful

LEMMA RecallRequestedFaithful ==
  ASSUME Sound, Sound', SelfAside, NEW t \in Tokens, NEW from \in Accounts,
         NEW to \in Accounts, NEW v \in Amounts,
         RecallRequested(auth', t, from, to, v)
  PROVE  Faithful
<1>1. /\ ClaimMoved(t, from, to, v) /\ FreeKept
      /\ Before(t, from) >= v /\ req'[Self] = req[Self]
      /\ row'[t][from].bal >= row[t][from].bal
  BY RecallRequestedClaims DEF RecallRows
<1>2. SelfAside' /\ MayRecall(auth', t)
  BY <1>1, SelfStaysAside DEF RecallRequested
<1>3. SupplyOf' = SupplyOf /\ MaxOf' = MaxOf
  BY SameStat DEF RecallRequested
<1>4. v \in Nat
  BY Domains
<1>5. Authorised
  <2>1. MayLose(t, from)
    BY <1>1, <1>2 DEF MayLose, Recalled, MayRecall
  <2> QED BY <1>1, <1>4, <2>1, MovedLoses
<1>6. Abstract!Next
  BY <1>1, <1>2, <1>3, IsMove DEF MayRecall
<1> QED BY <1>1, <1>2, <1>5, <1>6 DEF Faithful

(* Custody moves nobody's claim.                                            *)
LEMMA CustodyFaithful ==
  ASSUME Sound, Sound', SelfAside, ClaimsKept, FreeKept, req'[Self] = req[Self],
         UNCHANGED <<stat, allowance>>
  PROVE  Faithful
<1>1. SelfAside'
  BY SelfStaysAside
<1>2. SupplyOf' = SupplyOf /\ MaxOf' = MaxOf
  BY SameStat
<1>3. Authorised /\ Abstract!Next
  BY <1>2, NobodyLoses, IsInternal
<1> QED BY <1>1, <1>3 DEF Faithful

LEMMA RequestsOfSelf ==
  ASSUME Sound, Sound', \A t \in Tokens : req'[Self][t] = req[Self][t]
  PROVE  req'[Self] = req[Self]
BY Domains DEF Sound, Requests

LEMMA PushWithdrawFaithful ==
  ASSUME Sound, Sound', SelfAside, NEW signers, Self \notin signers,
         NEW t \in Tokens, NEW o \in Accounts, NEW v \in Amounts,
         PushWithdraw(signers, t, o, v)
  PROVE  Faithful
<1>1. o # Self /\ ClaimsKept /\ FreeKept /\ row[t][o].dep >= v /\ v \in Nat
  BY PushWithdrawClaims, Domains
<1>2. Refresh({o}, Pushed(t, o, v), PushedRequests(t, o, v), o)
  BY Zenon DEF PushWithdraw, Pushed, PushedRequests
<1>3. TablesOK(Pushed(t, o, v)) /\ PushedRequests(t, o, v) \in Requests
  BY <1>1, PushedTables
<1>4. \A b \in Accounts \ {o}, u \in Tokens : req'[b][u] = PushedRequests(t, o, v)[b][u]
  BY <1>1, <1>2, <1>3, RefreshSettles
<1>5. \A u \in Tokens : PushedRequests(t, o, v)[Self][u] = req[Self][u]
  BY <1>1, Domains DEF PushedRequests, Sound, Requests
<1>6. req'[Self] = req[Self]
  BY <1>1, <1>4, <1>5, RequestsOfSelf, Domains
<1>7. UNCHANGED <<stat, allowance>>
  BY DEF PushWithdraw
<1> QED BY <1>1, <1>6, <1>7, CustodyFaithful

LEMMA PopWithdrawFaithful ==
  ASSUME Sound, Sound', SelfAside, NEW signers, Self \notin signers,
         NEW t \in Tokens, NEW o \in Accounts, PopWithdraw(signers, t, o)
  PROVE  Faithful
<1>1. o # Self /\ ClaimsKept /\ FreeKept
  BY PopWithdrawClaims
<1>2. req' = [req EXCEPT ![o][t] = NoReq] /\ UNCHANGED <<stat, allowance>>
  BY DEF PopWithdraw
<1>3. req'[Self] = req[Self]
  BY <1>1, <1>2, Domains DEF Sound, Requests
<1> QED BY <1>1, <1>2, <1>3, CustodyFaithful

LEMMA ClearFaithful ==
  ASSUME Sound, Sound', SelfAside, NEW signers, NEW o \in Accounts,
         Pending(req, o) # {}, Refresh(signers, row, req, o),
         UNCHANGED <<stat, allowance>>
  PROVE  Faithful
<1>1. o # Self
  BY DEF Pending, SelfAside, Sound, Requests
<1>2. ClaimsKept /\ FreeKept
  BY <1>1, ClrWithdrawsClaims
<1>3. req'[Self] = req[Self]
  <2>1. TablesOK(row) /\ req \in Requests
    BY DEF Sound
  <2>2. \A b \in Accounts \ {o}, u \in Tokens : req'[b][u] = req[b][u]
    BY <1>1, <2>1, RefreshSettles, Zenon
  <2> QED BY <1>1, <2>2, RequestsOfSelf, Domains
<1> QED BY <1>2, <1>3, CustodyFaithful

(* A deposit that lands in the next row leaves what is free alone.          *)
LEMMA DepositInNextRowFree ==
  ASSUME Sound, Sound', SelfAside, NEW t \in Tokens, NEW o \in Accounts,
         o # Self, NEW v \in Amounts, DepositInNextRow(t, o, v)
  PROVE  FreeKept /\ SelfAside'
<1>1. PICK keep \in StackFlag, u \in NextRows(t, o) :
        row' = [row EXCEPT ![t] = SubBalance(row[t], o, v, keep),
                           ![u] = AddDeposit(@, o, v)]
  BY Zenon DEF DepositInNextRow
<1>2. u \in Tokens /\ u # t
  BY ConstantsAssumption DEF NextRows
<1>3. /\ LedgerOK(row[t]) /\ LedgerOK(row[u]) /\ v \in Nat /\ Self \in Accounts
      /\ row[t][o].bal >= v /\ keep \in BOOLEAN /\ req' = req
      /\ TablesOK(row) /\ TablesOK(row') /\ req \in Requests /\ req' \in Requests
  BY <1>2, TableOK, Domains DEF DepositInNextRow, Deposit, CanSubBalance, Sound
<1>4. \A w \in Tokens : row'[w][Self] = row[w][Self]
  <2>1. SubBalance(row[t], o, v, keep)[Self] = row[t][Self]
    BY <1>3, SubBalanceRow DEF SameBut
  <2>2. AddDeposit(row[u], o, v)[Self] = row[u][Self]
    BY <1>3, AddDepositRow DEF SameBut
  <2>3. /\ row'[t] = SubBalance(row[t], o, v, keep)
        /\ row'[u] = AddDeposit(row[u], o, v)
        /\ \A w \in Tokens : w # t /\ w # u => row'[w] = row[w]
    BY <1>1, <1>2, <1>3 DEF TablesOK
  <2> QED BY <2>1, <2>2, <2>3
<1>5. ASSUME NEW w \in Tokens
      PROVE  FreeIn(row', req', w) >= FreeIn(row, req, w)
  <2>1. FreeIn(row', req', w) = FreeIn(row, req, w)
    BY <1>3, <1>4 DEF FreeIn
  <2>2. FreeIn(row, req, w) \in Int
    BY <1>3, OwnedInt
  <2> QED BY <2>1, <2>2
<1>6. SelfAside'
  BY SelfStaysAside DEF DepositInNextRow, Deposit
<1> QED BY <1>5, <1>6 DEF FreeKept

(* Options, rows without amounts, allowances and the clock.                 *)
LEMMA SetAccountOptsAmounts ==
  ASSUME Sound, NEW signers, NEW t \in Tokens, NEW A \in SUBSET Accounts,
         NEW chg, SetAccountOpts(signers, t, A, chg)
  PROVE  Amountless
<1> DEFINE M == [a \in Accounts |->
                   IF a \in A
                   THEN [row[t][a] EXCEPT !.opts = Apply(row[t][a].opts, chg)]
                   ELSE row[t][a]]
<1>1. row' = [row EXCEPT ![t] = M]
  BY Zenon DEF SetAccountOpts
<1>2. \A a \in Accounts : M[a].bal = row[t][a].bal /\ M[a].dep = row[t][a].dep
  BY DEF Sound, TablesOK, Ledger, Row
<1> HIDE DEF M
<1>3. UNCHANGED req
  BY DEF SetAccountOpts
<1> QED BY <1>1, <1>2, <1>3 DEF Amountless, Sound, TablesOK

LEMMA IssuerStepFaithful ==
  ASSUME Sound, Sound', SelfAside, EscrowIsApart, Self \notin auth',
         IssuerStep(auth')
  PROVE  Faithful
<1>1. CASE \E t \in Tokens, chg \in Changes(LiveOptions) : SetOpts(auth', t, chg)
  <2>1. PICK t \in Tokens, chg \in Changes(LiveOptions) : SetOpts(auth', t, chg)
    BY <1>1
  <2>2. /\ stat \in [Tokens -> Stat] /\ UNCHANGED <<row, req, allowance>>
        /\ \E opts : stat' = [stat EXCEPT ![t].opts = opts]
    BY <2>1 DEF SetOpts, Sound, StatOK
  <2>3. SupplyOf' = SupplyOf /\ MaxOf' = MaxOf
    BY <2>2 DEF SupplyOf, MaxOf, Stat
  <2> QED BY <2>2, <2>3, AmountlessFaithful DEF Amountless
<1>2. CASE \E t \in Tokens, A \in SUBSET Accounts, chg \in Changes(AccountOptions) :
             SetAccountOpts(auth', t, A, chg)
  <2>1. PICK t \in Tokens, A \in SUBSET Accounts, chg \in Changes(AccountOptions) :
          SetAccountOpts(auth', t, A, chg)
    BY <1>2
  <2>2. Amountless
    BY <2>1, SetAccountOptsAmounts
  <2> QED BY <2>1, <2>2, AmountlessFaithful, SameStat DEF SetAccountOpts
<1>3. CASE \E t \in Tokens, a \in Accounts, v \in Amounts : Issue(auth', t, a, v)
  BY <1>3, IssueFaithful, Zenon
<1>4. CASE \E t \in Tokens, v \in Amounts : Burn(auth', t, v)
  BY <1>4, BurnFaithful, Zenon DEF EscrowIsApart
<1>5. CASE \E t \in Tokens, a, b \in Accounts, v \in Amounts :
             RecallDeposit(auth', t, a, b, v) \/ RecallRequested(auth', t, a, b, v)
  BY <1>5, RecallDepositFaithful, RecallRequestedFaithful, Zenon
<1> QED BY <1>1, <1>2, <1>3, <1>4, <1>5, Zenon DEF IssuerStep

LEMMA HolderStepFaithful ==
  ASSUME Sound, Sound', SelfAside, EscrowIsApart, Self \notin auth',
         HolderStep(auth')
  PROVE  FreeKept /\ SelfAside' /\ (DistinctSymbols => Faithful)
<1>1. CASE \E t \in Tokens, a, b \in Accounts, v \in Amounts :
             Transfer(auth', t, a, b, v)
  BY <1>1, TransferFaithful, Zenon DEF Faithful
<1>2. CASE \E t \in Tokens, a \in Accounts, v \in Amounts :
             Retire(auth', t, a, v) \/ PushWithdraw(auth', t, a, v)
  BY <1>2, RetireFaithful, PushWithdrawFaithful, Zenon DEF Faithful
<1>3. CASE \E t \in Tokens, a \in DepositOwners, v \in Amounts :
             DepositInRow(auth', t, a, v) \/ DepositInNextRow(t, a, v)
  <2>1. PICK t \in Tokens, a \in Accounts, v \in Amounts :
          /\ a # Self
          /\ DepositInRow(auth', t, a, v) \/ DepositInNextRow(t, a, v)
    BY <1>3, Domains DEF EscrowIsApart
  <2>2. CASE DepositInRow(auth', t, a, v)
    <3>1. ClaimsKept /\ FreeKept
      BY <2>1, <2>2, DepositInRowClaims
    <3>2. UNCHANGED <<stat, req, allowance>>
      BY <2>2 DEF DepositInRow, Deposit
    <3> QED BY <3>1, <3>2, CustodyFaithful DEF Faithful
  <2>3. CASE DepositInNextRow(t, a, v)
    <3>1. Sound' /\ \E u \in Tokens : u # t /\ Symbol[u] = Symbol[t]
      BY <2>3, DepositInNextRowOK, Zenon
    <3> QED BY <2>1, <2>3, <3>1, DepositInNextRowFree DEF DistinctSymbols
  <2> QED BY <2>1, <2>2, <2>3
<1>4. CASE \E t \in Tokens, a \in Accounts :
             PopWithdraw(auth', t, a) \/ Open(t, a) \/ Close(auth', t, a)
  <2>1. PICK t \in Tokens, a \in Accounts :
          PopWithdraw(auth', t, a) \/ Open(t, a) \/ Close(auth', t, a)
    BY <1>4
  <2>2. row \in [Tokens -> Ledger]
    BY DEF Sound, TablesOK
  <2>3. CASE PopWithdraw(auth', t, a)
    BY <2>3, PopWithdrawFaithful, Zenon DEF Faithful
  <2>4. CASE Open(t, a)
    <3>1. Amountless
      BY <2>2, <2>4 DEF Open, Amountless, Ledger, Row
    <3> QED BY <2>4, <3>1, AmountlessFaithful, SameStat DEF Open, Faithful
  <2>5. CASE Close(auth', t, a)
    <3>1. Amountless
      BY <2>2, <2>5 DEF Close, Amountless, Ledger, Row, NoRow
    <3> QED BY <2>5, <3>1, AmountlessFaithful, SameStat DEF Close, Faithful
  <2> QED BY <2>1, <2>3, <2>4, <2>5
<1>5. CASE \E a \in Accounts : ClrWithdraws(auth', a)
  <2>1. PICK a \in Accounts : ClrWithdraws(auth', a)
    BY <1>5
  <2> QED BY <2>1, ClearFaithful, Zenon DEF ClrWithdraws, Faithful
<1>6. CASE \E t \in Tokens, a \in Accounts, b \in Spenders, v \in Limits :
             Approve(auth', t, a, b, v)
  <2>1. PICK t \in Tokens, a \in Accounts, b \in Spenders, v \in Limits :
          Approve(auth', t, a, b, v)
    BY <1>6
  <2>2. Amountless
    BY <2>1 DEF Approve, Amountless
  <2>3. allowance'[Self] = allowance[Self]
    BY <2>1, Domains DEF Approve, Sound
  <2> QED BY <2>1, <2>2, <2>3, AmountlessFaithful, SameStat DEF Approve, Faithful
<1> QED BY <1>1, <1>2, <1>3, <1>4, <1>5, <1>6, Zenon DEF HolderStep

LEMMA StepFaithful ==
  ASSUME Sound, SelfAside, EscrowIsApart, [Next]_vars
  PROVE  FreeKept /\ SelfAside' /\ (DistinctSymbols => Faithful)
<1>1. Sound'
  BY StepOK
<1>2. CASE ContractStep
  <2>1. PICK t \in Tokens, v \in Amounts :
          \/ \E c \in Configs : MintNew(t, v, c)
          \/ \E chg \in Changes(LiveOptions) : MintMore(t, v, chg)
          \/ Burn({Self}, t, v)
    BY <1>2, Zenon DEF ContractStep
  <2>2. auth' = {Self}
    BY <1>2 DEF ContractStep
  <2>3. CASE \E c \in Configs : MintNew(t, v, c)
    BY <1>1, <2>2, <2>3, MintNewFaithful, Zenon DEF Faithful
  <2>4. CASE \E chg \in Changes(LiveOptions) : MintMore(t, v, chg)
    BY <1>1, <2>2, <2>4, MintMoreFaithful, Zenon DEF Faithful
  <2>5. CASE Burn({Self}, t, v)
    <3>1. Burn(auth', t, v) /\ Issuer[t] # Self
      BY <2>2, <2>5 DEF EscrowIsApart
    <3> QED BY <1>1, <3>1, BurnFaithful DEF Faithful
  <2> QED BY <2>1, <2>3, <2>4, <2>5
<1>3. CASE \E s \in Signers : auth' = s /\ (IssuerStep(s) \/ HolderStep(s))
  <2>1. /\ IssuerStep(auth') \/ HolderStep(auth')
        /\ auth' \in Signers
    BY <1>3
  <2>2. Self \notin auth'
    BY <2>1, ConstantsAssumption
  <2> QED BY <1>1, <2>1, <2>2, IssuerStepFaithful, HolderStepFaithful DEF Faithful
<1>4. CASE Tick
  <2>1. Amountless
    BY <1>4 DEF Tick, Amountless
  <2> QED BY <1>1, <1>4, <2>1, AmountlessFaithful, SameStat DEF Tick, Faithful
<1>5. CASE \E o \in Accounts : RunDeferred(o) \/ DropDeferred(o)
  <2>1. PICK o \in Accounts : RunDeferred(o) \/ DropDeferred(o)
    BY <1>5
  <2>2. CASE RunDeferred(o)
    BY <1>1, <2>2, ClearFaithful, Zenon DEF RunDeferred, Faithful
  <2>3. CASE DropDeferred(o)
    <3>1. Amountless
      BY <2>3 DEF DropDeferred, Amountless
    <3> QED BY <1>1, <2>3, <3>1, AmountlessFaithful, SameStat
            DEF DropDeferred, Faithful
  <2> QED BY <2>1, <2>2, <2>3
<1>6. CASE UNCHANGED vars
  <2>1. Amountless
    BY <1>6 DEF vars, Amountless
  <2> QED BY <1>1, <1>6, <2>1, AmountlessFaithful, SameStat DEF vars, Faithful
<1> QED BY <1>2, <1>3, <1>4, <1>5, <1>6, Zenon DEF Next

-----------------------------------------------------------------------------
(* What the claims are at the start, and along every step.                  *)

Guarded == Sound /\ SelfAside /\ Solvent

LEMMA InitGuarded ==
  ASSUME Init
  PROVE  /\ Guarded
         /\ \A t \in Tokens, a \in Accounts : Owned(t, a) = 0
<1>1. Sound
  BY InitOK
<1>2. SelfAside
  BY Domains DEF Init, SelfAside, NoReq
<1>3. ASSUME NEW t \in Tokens
      PROVE  Escrowed(req, t) = 0
  <2>1. \A o \in Accounts : Quantities(req, t)[o] = 0
    BY DEF Init, Quantities, NoReq
  <2>2. Escrowed(req, t) = SumFunctionOnSet(Quantities(req, t), Accounts)
    BY Zenon DEF Escrowed, Quantities
  <2> QED BY <2>1, <2>2, FiniteAccounts, SumZero
<1>4. \A t \in Tokens, a \in Accounts :
        row[t][a].bal = 0 /\ row[t][a].dep = 0 /\ req[a][t].qty = 0
  BY DEF Init, NoRow, NoReq
<1>5. Solvent
  BY <1>3, <1>4, Domains DEF Solvent, FreeIn
<1>6. ASSUME NEW t \in Tokens, NEW a \in Accounts
      PROVE  Owned(t, a) = 0
  <2>1. Owns(t, a) = 0
    BY <1>4 DEF Owns
  <2> QED BY <1>3, <2>1 DEF Owned
<1> QED BY <1>1, <1>2, <1>5, <1>6 DEF Guarded

LEMMA StepGuarded ==
  ASSUME Guarded, EscrowIsApart, [Next]_vars
  PROVE  /\ Guarded'
         /\ DistinctSymbols => Authorised /\ Abstract!Next
<1>1. Sound' /\ FreeKept /\ SelfAside' /\ (DistinctSymbols => Faithful)
  BY StepOK, StepFaithful DEF Guarded
<1>2. ASSUME NEW t \in Tokens
      PROVE  FreeIn(row', req', t) >= 0
  <2>1. FreeIn(row, req, t) \in Int /\ FreeIn(row', req', t) \in Int
    BY <1>1, OwnedInt, Domains DEF Guarded, Sound
  <2>2. FreeIn(row, req, t) >= 0 /\ FreeIn(row', req', t) >= FreeIn(row, req, t)
    BY <1>1 DEF Guarded, Solvent, FreeKept
  <2> QED BY <2>1, <2>2
<1>3. Solvent'
  BY <1>2 DEF Solvent
<1> QED BY <1>1, <1>3 DEF Guarded, Faithful

(* Nothing takes the balance of gxc.token below what it owes: each action   *)
(* that pays out of the escrow cancels as much of a request, unless         *)
(* gxc.token itself is the issuer or makes a deposit.                       *)
THEOREM EscrowHolds ==
  ASSUME EscrowIsApart
  PROVE  Spec => []EscrowSolvent
<1>1. Init => Guarded
  BY InitGuarded
<1>2. Guarded /\ [Next]_vars => Guarded'
  BY StepGuarded
<1>3. Guarded => EscrowSolvent
  <2> SUFFICES ASSUME Guarded, NEW t \in Tokens
               PROVE  row[t][Self].bal >= Escrowed(req, t)
    BY DEF EscrowSolvent
  <2>1. row[t][Self].bal \in Int /\ Escrowed(req, t) \in Int
    BY OwnedInt, EscrowedInt, Domains DEF Guarded, Sound
  <2>2. FreeIn(row, req, t) >= 0
    BY DEF Guarded, Solvent
  <2> QED BY <2>1, <2>2 DEF FreeIn
<1> QED BY <1>1, <1>2, <1>3, PTL DEF Spec

(* Whatever the tokens, the delays and the uninitialised flags: an account  *)
(* owns less after a transaction only if it signed, if a spender used as    *)
(* much of an allowance, if the issuer recalled its deposit or request, or  *)
(* if its own tokens were burned.                                           *)
THEOREM LossHolds ==
  ASSUME EscrowIsApart, DistinctSymbols
  PROVE  Spec => LossIsAuthorised
<1>1. Init => Guarded
  BY InitGuarded
<1>2. Guarded /\ [Next]_vars => Guarded'
  BY StepGuarded
<1>3. Guarded /\ [Next]_vars =>
        [\A t \in Tokens, a \in Accounts \ {Self} :
           Owns(t, a)' < Owns(t, a) =>
             a \in auth' \/ Recalled(t, a) \/ SpentAllowance(t, a) \/ Burned(t, a)]_vars
  BY StepGuarded DEF Authorised, MayLose
<1> QED BY <1>1, <1>2, <1>3, PTL DEF Spec, LossIsAuthorised

(* The contract implements TokenLedger: custody, requests, time and the     *)
(* deferred transactions are invisible in what the accounts own.            *)
THEOREM Refinement ==
  ASSUME EscrowIsApart, DistinctSymbols
  PROVE  Spec => ImplementsLedger
<1>1. Init => Guarded
  BY InitGuarded
<1>2. Guarded /\ [Next]_vars => Guarded'
  BY StepGuarded
<1>3. Init => Abstract!Init
  <2> SUFFICES ASSUME Init PROVE Abstract!Init
    OBVIOUS
  <2>1. \A t \in Tokens : stat[t].supply = 0 /\ stat[t].max = 0
    BY DEF Init, NoStat
  <2>2. ClaimOf = [t \in Tokens |-> [a \in Accounts |-> 0]]
    BY InitGuarded DEF ClaimOf
  <2>3. auth = {}
    BY DEF Init
  <2> QED BY <2>1, <2>2, <2>3 DEF Abstract!Init, ClaimOf
<1>4. Guarded /\ [Next]_vars => Abstract!Next
  BY StepGuarded
<1> QED BY <1>1, <1>2, <1>3, <1>4, PTL DEF Spec, ImplementsLedger, Abstract!Spec

-----------------------------------------------------------------------------
(* Blocked accounts.                                                        *)

Inert ==
  \A t \in Tokens, a \in Accounts :
    Blocked(t, a) => /\ row'[t][a].bal = row[t][a].bal
                     /\ Owns(t, a)' = Owns(t, a)

(* Every check of the class account refuses a blocked row, unless a flag    *)
(* skips it.                                                                *)
LEMMA BlockedIsRefused ==
  ASSUME ~ MaySkip, NEW t \in Tokens, NEW a \in Accounts, Blocked(t, a)
  PROVE  /\ ~ Valid(t, row[t][a], a, MaySkip) /\ ~ Valid(t, row[t][a], a, FALSE)
         /\ \A signers : ~ CanAdd(signers, t, row[t], a, MaySkip)
BY DEF Blocked, Valid, CanAdd

LEMMA OwnsSame ==
  ASSUME Sound, Sound', NEW t \in Tokens, NEW a \in Accounts, a # Self,
         After(t, a) = Before(t, a)
  PROVE  Owns(t, a)' = Owns(t, a)
BY OwnsIsClaim

LEMMA RowSame ==
  ASSUME NEW t \in Tokens, NEW a \in Accounts, row'[t][a] = row[t][a],
         req'[a][t] = req[a][t]
  PROVE  row'[t][a].bal = row[t][a].bal /\ Owns(t, a)' = Owns(t, a)
BY DEF Owns

(* A handler whose checks cover the rows it changes.                        *)
LEMMA InertOnly ==
  ASSUME NEW t \in Tokens, NEW A, Only(t, A),
         \A a \in Accounts : Blocked(t, a) => a \notin A,
         \A u \in Tokens, b \in Accounts : u # t \/ b \notin A => req'[b][u] = req[b][u]
  PROVE  Inert
<1> SUFFICES ASSUME NEW u \in Tokens, NEW b \in Accounts, Blocked(u, b)
             PROVE  row'[u][b].bal = row[u][b].bal /\ Owns(u, b)' = Owns(u, b)
  BY DEF Inert
<1>1. u # t \/ b \notin A
  OBVIOUS
<1>2. row'[u][b] = row[u][b] /\ req'[b][u] = req[b][u]
  BY <1>1 DEF Only
<1> QED BY <1>2, RowSame

LEMMA InertPair ==
  ASSUME NEW t \in Tokens, NEW a \in Accounts, NEW b \in Accounts,
         Only(t, {a, b}), ~ Blocked(t, a), ~ Blocked(t, b), req' = req
  PROVE  Inert
<1>1. \A c \in Accounts : Blocked(t, c) => c \notin {a, b}
  OBVIOUS
<1>2. \A u \in Tokens, c \in Accounts : u # t \/ c \notin {a, b} => req'[c][u] = req[c][u]
  OBVIOUS
<1> QED BY <1>1, <1>2, InertOnly, Zenon

LEMMA InertOne ==
  ASSUME NEW t \in Tokens, NEW a \in Accounts,
         Only(t, {a}), ~ Blocked(t, a), req' = req
  PROVE  Inert
<1>1. Only(t, {a, a})
  BY DEF Only
<1> QED BY <1>1, InertPair

LEMMA InertAmounts ==
  ASSUME Amountless
  PROVE  Inert
BY DEF Inert, Amountless, Owns

(* What a settled request pays reaches no balance that is blocked.          *)
LEMMA BlockedIsNotPaid ==
  ASSUME ~ MaySkip, Sound, NEW signers, NEW t \in Tokens,
         NEW o \in Accounts, NEW q \in Nat,
         Paid(signers, t, row[t], row'[t], o, q),
         NEW b \in Accounts, Blocked(t, b)
  PROVE  row'[t][b].bal = row[t][b].bal
<1>1. row[t][b].bal \in Nat /\ b # Self
  BY OwnedInt DEF Sound, Blocked
<1>2. CASE b # o
  BY <1>1, <1>2 DEF Paid, SameBut
<1>3. CASE b = o
  <2>1. ~ CanAdd(signers, t, row[t], o, MaySkip)
    BY <1>3, BlockedIsRefused
  <2>2. \/ row'[t][b].bal = row[t][b].bal + 0
        \/ q = 0 /\ row'[t][b].bal = row[t][b].bal + q
    BY <1>3, <2>1 DEF Paid, Delta
  <2> QED BY <1>1, <2>2
<1> QED BY <1>2, <1>3

LEMMA BurnInert ==
  ASSUME ~ MaySkip, Sound, Sound', NEW signers, NEW t \in Tokens,
         Issuer[t] # Self, NEW v \in Amounts, Burn(signers, t, v)
  PROVE  Inert
<1>1. /\ Only(t, {Issuer[t]}) /\ req' = req
      /\ Valid(t, row[t][Issuer[t]], Issuer[t], MaySkip)
  BY BurnClaims DEF Burn, CanSubBalance
<1> QED BY <1>1, Domains, BlockedIsRefused, InertOne

LEMMA PushWithdrawInert ==
  ASSUME ~ MaySkip, Sound, Sound', NEW signers, Self \notin signers,
         NEW t \in Tokens, NEW o \in Accounts, NEW v \in Amounts,
         PushWithdraw(signers, t, o, v)
  PROVE  Inert
<1> SUFFICES ASSUME NEW u \in Tokens, NEW b \in Accounts, Blocked(u, b)
             PROVE  row'[u][b].bal = row[u][b].bal /\ Owns(u, b)' = Owns(u, b)
  BY DEF Inert
<1>1. /\ o # Self /\ ClaimsKept /\ Settled({o}, Pushed(t, o, v), o)
      /\ row[t][o].dep >= v /\ v \in Nat /\ b # Self
  BY PushWithdrawClaims, Domains DEF Blocked
<1>2. Owns(u, b)' = Owns(u, b)
  BY <1>1, OwnsSame DEF ClaimsKept
<1>3. PICK q \in Nat : Paid({o}, u, Pushed(t, o, v)[u], row'[u], o, q)
  BY <1>1 DEF Settled
<1>4. CASE u = t
  <2>1. Valid(t, row[t][o], o, MaySkip)
    BY DEF PushWithdraw, CanSubDeposit
  <2>2. b # o
    BY <1>4, <2>1, BlockedIsRefused
  <2>3. row'[u][b] = Pushed(t, o, v)[u][b]
    BY <1>1, <1>3, <2>2 DEF Paid, SameBut
  <2>4. Pushed(t, o, v)[u][b] = row[u][b]
    BY <1>1, <1>4, <2>2, PushedTables DEF SameBut
  <2> QED BY <1>2, <2>3, <2>4
<1>5. CASE u # t
  <2>1. Pushed(t, o, v)[u] = row[u]
    BY <1>1, <1>5, PushedTables
  <2>2. Paid({o}, u, row[u], row'[u], o, q)
    BY <1>3, <2>1
  <2> QED BY <1>2, <2>2, BlockedIsNotPaid
<1> QED BY <1>4, <1>5

LEMMA ClearInert ==
  ASSUME ~ MaySkip, Sound, Sound', NEW signers, NEW o \in Accounts, o # Self,
         Refresh(signers, row, req, o)
  PROVE  Inert
<1> SUFFICES ASSUME NEW u \in Tokens, NEW b \in Accounts, Blocked(u, b)
             PROVE  row'[u][b].bal = row[u][b].bal /\ Owns(u, b)' = Owns(u, b)
  BY DEF Inert
<1>1. ClaimsKept /\ Settled(signers, row, o) /\ b # Self
  BY ClrWithdrawsClaims DEF Blocked
<1>2. Owns(u, b)' = Owns(u, b)
  BY <1>1, OwnsSame DEF ClaimsKept
<1>3. PICK q \in Nat : Paid(signers, u, row[u], row'[u], o, q)
  BY <1>1 DEF Settled
<1> QED BY <1>2, <1>3, BlockedIsNotPaid

LEMMA RecallRequestedInert ==
  ASSUME ~ MaySkip, Sound, Sound', SelfAside, NEW signers, NEW t \in Tokens,
         NEW from \in Accounts, NEW to \in Accounts, NEW v \in Amounts,
         RecallRequested(signers, t, from, to, v)
  PROVE  Inert
<1> SUFFICES ASSUME NEW u \in Tokens, NEW b \in Accounts, Blocked(u, b)
             PROVE  row'[u][b].bal = row[u][b].bal /\ Owns(u, b)' = Owns(u, b)
  BY DEF Inert
<1>1. /\ ClaimMoved(t, from, to, v) /\ RecallRows(t, from, to)
      /\ Valid(t, row[t][from], from, MaySkip)
      /\ to # Self => CanAdd(signers, t, row[t], to, MaySkip)
      /\ b # Self
  BY RecallRequestedClaims DEF Blocked
<1>2. u = t => b # from /\ b # to
  BY <1>1, BlockedIsRefused
<1>3. Owns(u, b)' = Owns(u, b)
  BY <1>1, <1>2, OwnsSame DEF ClaimMoved
<1>4. CASE b = from
  <2>1. PICK q \in Nat : Paid({from}, u, row[u], row'[u], from, q)
    BY <1>1, <1>2, <1>4 DEF RecallRows
  <2> QED BY <1>3, <2>1, BlockedIsNotPaid
<1>5. CASE b # from
  BY <1>1, <1>2, <1>3, <1>5 DEF RecallRows
<1> QED BY <1>4, <1>5

LEMMA IssuerStepInert ==
  ASSUME ~ MaySkip, Sound, Sound', SelfAside, EscrowIsApart, Self \notin auth',
         IssuerStep(auth')
  PROVE  Inert
<1>1. ASSUME NEW t \in Tokens, NEW chg, SetOpts(auth', t, chg)
      PROVE  Inert
  BY <1>1, InertAmounts DEF SetOpts, Amountless
<1>2. ASSUME NEW t \in Tokens, NEW A \in SUBSET Accounts, NEW chg,
             SetAccountOpts(auth', t, A, chg)
      PROVE  Inert
  BY <1>2, SetAccountOptsAmounts, InertAmounts
<1>3. ASSUME NEW t \in Tokens, NEW a \in Accounts, NEW v \in Amounts,
             Issue(auth', t, a, v)
      PROVE  Inert
  <2>1. Only(t, {a}) /\ req' = req /\ CanAdd(auth', t, row[t], a, MaySkip)
    BY <1>3, IssueClaims DEF Issue
  <2> QED BY <2>1, BlockedIsRefused, InertOne
<1>4. ASSUME NEW t \in Tokens, NEW v \in Amounts, Burn(auth', t, v)
      PROVE  Inert
  BY <1>4, BurnInert DEF EscrowIsApart
<1>5. ASSUME NEW t \in Tokens, NEW a \in Accounts, NEW b \in Accounts,
             NEW v \in Amounts, RecallDeposit(auth', t, a, b, v)
      PROVE  Inert
  <2>1. /\ Only(t, {a, b}) /\ req' = req /\ Valid(t, row[t][a], a, MaySkip)
        /\ CanAdd(auth', t, row[t], b, MaySkip)
    BY <1>5, RecallDepositClaims DEF RecallDeposit, CanSubDeposit
  <2> QED BY <2>1, BlockedIsRefused, InertPair
<1>6. ASSUME NEW t \in Tokens, NEW a \in Accounts, NEW b \in Accounts,
             NEW v \in Amounts, RecallRequested(auth', t, a, b, v)
      PROVE  Inert
  BY <1>6, RecallRequestedInert
<1> QED BY <1>1, <1>2, <1>3, <1>4, <1>5, <1>6, Zenon DEF IssuerStep

LEMMA HolderStepInert ==
  ASSUME ~ MaySkip, Sound, Sound', SelfAside, EscrowIsApart, DistinctSymbols,
         Self \notin auth', HolderStep(auth')
  PROVE  Inert
<1>1. ASSUME NEW t \in Tokens, NEW a \in Accounts, NEW b \in Accounts,
             NEW v \in Amounts, Transfer(auth', t, a, b, v)
      PROVE  Inert
  <2>1. /\ Only(t, {a, b}) /\ req' = req /\ Valid(t, row[t][a], a, MaySkip)
        /\ CanAdd(auth', t, row[t], b, MaySkip)
    BY <1>1, TransferClaims DEF Transfer, CanSubBalance
  <2> QED BY <2>1, BlockedIsRefused, InertPair
<1>2. ASSUME NEW t \in Tokens, NEW a \in Accounts, NEW v \in Amounts,
             Retire(auth', t, a, v)
      PROVE  Inert
  <2>1. Only(t, {a}) /\ req' = req /\ Valid(t, row[t][a], a, MaySkip)
    BY <1>2, RetireClaims DEF Retire, CanSubBalance, CanSubDeposit
  <2> QED BY <2>1, BlockedIsRefused, InertOne
<1>3. ASSUME NEW t \in Tokens, NEW a \in DepositOwners, NEW v \in Amounts,
             DepositInRow(auth', t, a, v)
      PROVE  Inert
  <2>1. a \in Accounts /\ a # Self
    BY Domains DEF EscrowIsApart
  <2>2. Only(t, {a}) /\ req' = req /\ Valid(t, row[t][a], a, MaySkip)
    BY <1>3, <2>1, DepositInRowClaims DEF DepositInRow, Deposit, CanSubBalance
  <2> QED BY <2>1, <2>2, BlockedIsRefused, InertOne
<1>4. ASSUME NEW t \in Tokens, NEW a \in DepositOwners, NEW v \in Amounts,
             DepositInNextRow(t, a, v)
      PROVE  FALSE
  <2>1. a \in Accounts
    BY Domains
  <2>2. \E u \in Tokens : u # t /\ Symbol[u] = Symbol[t]
    BY <1>4, <2>1, DepositInNextRowOK, Zenon
  <2> QED BY <2>2 DEF DistinctSymbols
<1>5. ASSUME NEW t \in Tokens, NEW a \in Accounts, PopWithdraw(auth', t, a)
      PROVE  Inert
  <2>1. /\ Only(t, {a, Self}) /\ CanAdd(auth', t, row[t], a, MaySkip)
        /\ req' = [req EXCEPT ![a][t] = NoReq] /\ req \in Requests
    BY <1>5, PopWithdrawClaims DEF PopWithdraw, Sound
  <2>2. \A u \in Tokens, b \in Accounts :
          u # t \/ b \notin {a, Self} => req'[b][u] = req[b][u]
    BY <2>1 DEF Requests
  <2>3. \A b \in Accounts : Blocked(t, b) => b \notin {a, Self}
    BY <2>1, BlockedIsRefused DEF Blocked
  <2> QED BY <2>1, <2>2, <2>3, InertOnly
<1>6. ASSUME NEW t \in Tokens, NEW a \in Accounts, Open(t, a) \/ Close(auth', t, a)
      PROVE  Inert
  <2>1. row \in [Tokens -> Ledger]
    BY DEF Sound, TablesOK
  <2>2. CASE Open(t, a)
    BY <2>1, <2>2, InertAmounts DEF Open, Amountless, Ledger, Row
  <2>3. CASE Close(auth', t, a)
    BY <2>1, <2>3, InertAmounts DEF Close, Amountless, Ledger, Row, NoRow
  <2> QED BY <1>6, <2>2, <2>3
<1>7. ASSUME NEW t \in Tokens, NEW a \in Accounts, NEW v \in Amounts,
             PushWithdraw(auth', t, a, v)
      PROVE  Inert
  BY <1>7, PushWithdrawInert
<1>8. ASSUME NEW a \in Accounts, ClrWithdraws(auth', a)
      PROVE  Inert
  <2>1. a # Self /\ Refresh(auth', row, req, a)
    BY <1>8 DEF ClrWithdraws
  <2> QED BY <2>1, ClearInert
<1>9. ASSUME NEW t \in Tokens, NEW a \in Accounts, NEW b \in Spenders,
             NEW v \in Limits, Approve(auth', t, a, b, v)
      PROVE  Inert
  BY <1>9, InertAmounts DEF Approve, Amountless
<1> QED BY <1>1, <1>2, <1>3, <1>4, <1>5, <1>6, <1>7, <1>8, <1>9, Zenon
    DEF HolderStep

LEMMA StepInert ==
  ASSUME ~ MaySkip, Guarded, EscrowIsApart, DistinctSymbols, [Next]_vars
  PROVE  Inert
<1>1. Sound /\ Sound' /\ SelfAside
  BY StepGuarded DEF Guarded
<1>2. CASE ContractStep
  <2>1. PICK t \in Tokens, v \in Amounts :
          \/ \E c \in Configs : MintNew(t, v, c)
          \/ \E chg \in Changes(LiveOptions) : MintMore(t, v, chg)
          \/ Burn({Self}, t, v)
    BY <1>2, Zenon DEF ContractStep
  <2>2. CASE Burn({Self}, t, v)
    BY <1>1, <2>2, BurnInert DEF EscrowIsApart
  <2>3. CASE \E c \in Configs : MintNew(t, v, c)
    BY <2>3, InertAmounts DEF MintNew, Amountless
  <2>4. CASE \E chg \in Changes(LiveOptions) : MintMore(t, v, chg)
    BY <2>4, InertAmounts DEF MintMore, Amountless
  <2> QED BY <2>1, <2>2, <2>3, <2>4
<1>3. CASE \E s \in Signers : auth' = s /\ (IssuerStep(s) \/ HolderStep(s))
  <2>1. /\ IssuerStep(auth') \/ HolderStep(auth')
        /\ auth' \in Signers
    BY <1>3
  <2>2. Self \notin auth'
    BY <2>1, ConstantsAssumption
  <2> QED BY <1>1, <2>1, <2>2, IssuerStepInert, HolderStepInert
<1>4. CASE Tick
  BY <1>4, InertAmounts DEF Tick, Amountless
<1>5. CASE \E o \in Accounts : RunDeferred(o) \/ DropDeferred(o)
  <2>1. PICK o \in Accounts : RunDeferred(o) \/ DropDeferred(o)
    BY <1>5
  <2>2. CASE RunDeferred(o)
    <3>1. o # Self /\ Refresh({o}, row, req, o)
      BY <1>1, <2>2 DEF RunDeferred, Pending, SelfAside, Sound, Requests
    <3> QED BY <1>1, <3>1, ClearInert
  <2>3. CASE DropDeferred(o)
    BY <2>3, InertAmounts DEF DropDeferred, Amountless
  <2> QED BY <2>1, <2>2, <2>3
<1>6. CASE UNCHANGED vars
  BY <1>6, InertAmounts DEF vars, Amountless
<1> QED BY <1>2, <1>3, <1>4, <1>5, <1>6, Zenon DEF Next

(* Where the flags of the class account start cleared, as its author meant: *)
(* no transaction, whoever signs it, moves anything into or out of a frozen *)
(* or unlisted account, and its request reverts to its deposit.  A deposit  *)
(* must find its own row: the checks read the options of the token named in *)
(* the call, also for a row of another.                                     *)
THEOREM BlockedHolds ==
  ASSUME ~ MaySkip, EscrowIsApart, DistinctSymbols
  PROVE  Spec => BlockedIsInert
<1>1. Init => Guarded
  BY InitGuarded
<1>2. Guarded /\ [Next]_vars => Guarded'
  BY StepGuarded
<1>3. Guarded /\ [Next]_vars =>
        [\A t \in Tokens, a \in Accounts :
           Blocked(t, a) => /\ row'[t][a].bal = row[t][a].bal
                            /\ Owns(t, a)' = Owns(t, a)]_vars
  BY StepInert DEF Inert
<1> QED BY <1>1, <1>2, <1>3, PTL DEF Spec, BlockedIsInert

-----------------------------------------------------------------------------
(* Withdrawals wait.                                                        *)

LEMMA ModBelow ==
  ASSUME NEW n \in Nat \ {0}, NEW x \in Nat, x < n
  PROVE  x % n = x
OBVIOUS

(* No delay reaches past what a time_point_sec can count.                   *)
NoWrap ==
  MaxTime < TimeWidth /\ \A c \in Configs : c.delay + MaxTime < TimeWidth
Unwrapped == \A t \in Tokens : stat[t].delay + MaxTime < TimeWidth

LEMMA InitUnwrapped ==
  ASSUME Init, NoWrap
  PROVE  Unwrapped
BY Domains, ConstantsAssumption DEF Init, NoStat, NoWrap, Unwrapped

LEMMA DelaySame ==
  ASSUME Unwrapped, \A t \in Tokens : stat'[t].delay = stat[t].delay
  PROVE  Unwrapped'
BY DEF Unwrapped

LEMMA IssuerStepUnwrapped ==
  ASSUME Sound, Unwrapped, NEW s, IssuerStep(s)
  PROVE  Unwrapped'
<1>1. stat \in [Tokens -> Stat]
  BY DEF Sound, StatOK
<1>2. ASSUME NEW t \in Tokens, NEW chg, SetOpts(s, t, chg)
      PROVE  Unwrapped'
  <2>1. \E opts : stat' = [stat EXCEPT ![t].opts = opts]
    BY <1>2 DEF SetOpts
  <2> QED BY <1>1, <2>1, DelaySame DEF Stat
<1>3. ASSUME NEW t \in Tokens, NEW A, NEW chg, SetAccountOpts(s, t, A, chg)
      PROVE  Unwrapped'
  BY <1>3, DelaySame DEF SetAccountOpts
<1>4. ASSUME NEW t \in Tokens, NEW a, NEW v, Issue(s, t, a, v)
      PROVE  Unwrapped'
  <2>1. stat' = [stat EXCEPT ![t].supply = @ + v]
    BY <1>4 DEF Issue
  <2> QED BY <1>1, <2>1, DelaySame DEF Stat
<1>5. ASSUME NEW t \in Tokens, NEW v, Burn(s, t, v)
      PROVE  Unwrapped'
  <2>1. stat' = [stat EXCEPT ![t].supply = @ - v, ![t].max = @ - v]
    BY <1>5 DEF Burn
  <2> QED BY <1>1, <2>1, DelaySame DEF Stat
<1>6. ASSUME NEW t, NEW a, NEW b, NEW v,
             RecallDeposit(s, t, a, b, v) \/ RecallRequested(s, t, a, b, v)
      PROVE  Unwrapped'
  BY <1>6, DelaySame DEF RecallDeposit, RecallRequested
<1> QED BY <1>2, <1>3, <1>4, <1>5, <1>6, Zenon DEF IssuerStep

LEMMA HolderStepUnwrapped ==
  ASSUME Sound, Unwrapped, NEW s, HolderStep(s)
  PROVE  Unwrapped'
<1>1. stat \in [Tokens -> Stat]
  BY DEF Sound, StatOK
<1>2. ASSUME NEW t \in Tokens, NEW a, NEW v, Retire(s, t, a, v)
      PROVE  Unwrapped'
  <2>1. stat' = [stat EXCEPT ![t].supply = @ - v]
    BY <1>2 DEF Retire
  <2> QED BY <1>1, <2>1, DelaySame DEF Stat
<1>3. ASSUME NEW t, NEW a, NEW b, NEW v,
             \/ Transfer(s, t, a, b, v) \/ Approve(s, t, a, b, v)
             \/ DepositInRow(s, t, a, v) \/ DepositInNextRow(t, a, v)
      PROVE  Unwrapped'
  BY <1>3, DelaySame DEF Transfer, Approve, DepositInRow, DepositInNextRow, Deposit
<1>4. ASSUME NEW t, NEW a, NEW v,
             \/ PushWithdraw(s, t, a, v) \/ PopWithdraw(s, t, a)
             \/ Open(t, a) \/ Close(s, t, a) \/ ClrWithdraws(s, a)
      PROVE  Unwrapped'
  BY <1>4, DelaySame DEF PushWithdraw, PopWithdraw, Open, Close, ClrWithdraws
<1> QED BY <1>2, <1>3, <1>4, Zenon DEF HolderStep

LEMMA StepUnwrapped ==
  ASSUME Sound, Unwrapped, NoWrap, [Next]_vars
  PROVE  Unwrapped'
<1>1. stat \in [Tokens -> Stat]
  BY DEF Sound, StatOK
<1>2. CASE ContractStep
  <2>1. PICK t \in Tokens, v \in Amounts :
          \/ \E c \in Configs : MintNew(t, v, c)
          \/ \E chg \in Changes(LiveOptions) : MintMore(t, v, chg)
          \/ Burn({Self}, t, v)
    BY <1>2, Zenon DEF ContractStep
  <2>2. CASE \E c \in Configs : MintNew(t, v, c)
    <3>1. PICK c \in Configs : stat' = [stat EXCEPT ![t] = Minted(v, c)]
      BY <2>2 DEF MintNew
    <3>2. c.delay \in Nat /\ c.delay < TimeWidth /\ c.delay + MaxTime < TimeWidth
      BY ConfigsAssumption, ConstantsAssumption DEF NoWrap
    <3>3. Minted(v, c).delay = c.delay
      BY <3>2, ModBelow, ConstantsAssumption DEF Minted
    <3> QED BY <1>1, <3>1, <3>2, <3>3 DEF Unwrapped
  <2>3. CASE \E chg \in Changes(LiveOptions) : MintMore(t, v, chg)
    <3>1. \E m, opts : stat' = [stat EXCEPT ![t].max = m, ![t].opts = opts]
      BY <2>3 DEF MintMore
    <3> QED BY <1>1, <3>1, DelaySame DEF Stat
  <2>4. CASE Burn({Self}, t, v)
    BY <1>1, <2>4, DelaySame DEF Burn, Stat
  <2> QED BY <2>1, <2>2, <2>3, <2>4
<1>3. CASE \E s \in Signers : auth' = s /\ (IssuerStep(s) \/ HolderStep(s))
  BY <1>3, IssuerStepUnwrapped, HolderStepUnwrapped, Zenon
<1>4. CASE Tick
  BY <1>4, DelaySame DEF Tick
<1>5. CASE \E o \in Accounts : RunDeferred(o) \/ DropDeferred(o)
  BY <1>5, DelaySame DEF RunDeferred, DropDeferred
<1>6. CASE UNCHANGED vars
  BY <1>6, DelaySame DEF vars
<1> QED BY <1>2, <1>3, <1>4, <1>5, <1>6, Zenon DEF Next

Waited ==
  \A t \in Tokens, o \in Accounts \ {Self} :
    row'[t][o].dep < row[t][o].dep /\ Owns(t, o)' = Owns(t, o) =>
      \/ stat[t].delay = 0
      \/ req'[o][t].qty > 0 /\ req'[o][t].time >= now + stat[t].delay

(* Every other handler leaves a deposit in place or changes what its owner  *)
(* owns.                                                                    *)
StaysOrMoves(t, o) == row'[t][o].dep >= row[t][o].dep \/ After(t, o) # Before(t, o)

LEMMA HeldIsWaited ==
  ASSUME Sound, Sound', \A t \in Tokens, o \in Accounts \ {Self} : StaysOrMoves(t, o)
  PROVE  Waited
<1> SUFFICES ASSUME NEW t \in Tokens, NEW o \in Accounts \ {Self},
                    row'[t][o].dep < row[t][o].dep, Owns(t, o)' = Owns(t, o)
             PROVE  FALSE
  BY DEF Waited
<1>1. row[t][o].dep \in Nat /\ row'[t][o].dep \in Nat
  BY OwnedInt DEF Sound
<1>2. After(t, o) # Before(t, o)
  BY <1>1 DEF StaysOrMoves
<1> QED BY <1>2, OwnsIsClaim



LEMMA ClaimsInt ==
  ASSUME Sound, Sound'
  PROVE  \A t \in Tokens, a \in Accounts :
           /\ Before(t, a) \in Int
           /\ row[t][a].dep \in Nat /\ row[t][a].bal \in Nat
BY OwnedIsClaim, OwnedInt DEF Sound

LEMMA AmountlessStays ==
  ASSUME Sound, Sound', Amountless
  PROVE  Waited
<1>1. ASSUME NEW t \in Tokens, NEW o \in Accounts \ {Self}
      PROVE  StaysOrMoves(t, o)
  BY ClaimsInt DEF Amountless, StaysOrMoves
<1> QED BY <1>1, HeldIsWaited

LEMMA ChangedMoves ==
  ASSUME Sound, Sound', NEW t \in Tokens, NEW a \in Accounts, NEW d \in Int,
         d # 0, ClaimChanged(t, a, d), Only(t, {a})
  PROVE  Waited
<1>1. ASSUME NEW u \in Tokens, NEW o \in Accounts \ {Self}
      PROVE  StaysOrMoves(u, o)
  <2>1. CASE u = t /\ o = a
    BY <2>1, ClaimsInt DEF ClaimChanged, StaysOrMoves
  <2>2. CASE u # t \/ o # a
    BY <2>2, ClaimsInt DEF Only, StaysOrMoves
  <2> QED BY <2>1, <2>2
<1> QED BY <1>1, HeldIsWaited

LEMMA BurnWaited ==
  ASSUME Sound, Sound', NEW signers, NEW t \in Tokens, Issuer[t] # Self,
         NEW v \in Amounts, Burn(signers, t, v)
  PROVE  Waited
<1>1. /\ ClaimChanged(t, Issuer[t], - v) /\ Only(t, {Issuer[t]})
      /\ - v \in Int /\ - v # 0 /\ Issuer[t] \in Accounts
  BY BurnClaims, Domains
<1> QED BY <1>1, ChangedMoves

LEMMA AddedStays ==
  ASSUME Sound, Sound', NEW t \in Tokens, NEW a \in Accounts,
         Only(t, {a}) \/ Only(t, {a, Self}), row'[t][a].dep >= row[t][a].dep
  PROVE  Waited
<1>1. ASSUME NEW u \in Tokens, NEW o \in Accounts \ {Self}
      PROVE  StaysOrMoves(u, o)
  BY ClaimsInt DEF Only, StaysOrMoves
<1> QED BY <1>1, HeldIsWaited

LEMMA MovedMoves ==
  ASSUME Sound, Sound', NEW t \in Tokens, NEW a \in Accounts, NEW b \in Accounts,
         NEW v \in Amounts, ClaimMoved(t, a, b, v),
         \A u \in Tokens, o \in Accounts \ {Self} :
           u # t \/ (o # a /\ o # b) => row'[u][o].dep >= row[u][o].dep
  PROVE  Waited
<1>0. v \in Nat /\ v > 0
  BY Domains
<1>1. ASSUME NEW u \in Tokens, NEW o \in Accounts \ {Self}
      PROVE  StaysOrMoves(u, o)
  <2>1. CASE u = t /\ (o = a \/ o = b)
    BY <1>0, <2>1, ClaimsInt DEF ClaimMoved, StaysOrMoves
  <2>2. CASE u # t \/ (o # a /\ o # b)
    BY <2>2 DEF StaysOrMoves
  <2> QED BY <2>1, <2>2
<1> QED BY <1>1, HeldIsWaited

LEMMA OnlyTwoMove ==
  ASSUME Sound, Sound', NEW t \in Tokens, NEW a \in Accounts, NEW b \in Accounts,
         NEW v \in Amounts, ClaimMoved(t, a, b, v), Only(t, {a, b})
  PROVE  Waited
<1>1. \A u \in Tokens, o \in Accounts \ {Self} :
        u # t \/ (o # a /\ o # b) => row'[u][o].dep >= row[u][o].dep
  BY ClaimsInt DEF Only
<1> QED BY <1>1, MovedMoves

(* A settled request leaves deposits in place or adds to them.              *)
LEMMA PaidStays ==
  ASSUME Sound, NEW signers, NEW t \in Tokens, NEW o \in Accounts, NEW q \in Nat,
         Paid(signers, t, row[t], row'[t], o, q), NEW b \in Accounts \ {Self}
  PROVE  row'[t][b].dep >= row[t][b].dep
<1>1. row[t][b].dep \in Nat
  BY OwnedInt DEF Sound
<1>2. CASE b # o
  BY <1>1, <1>2 DEF Paid, SameBut
<1>3. CASE b = o
  BY <1>1, <1>3 DEF Paid, Delta
<1> QED BY <1>2, <1>3

LEMMA ClearStays ==
  ASSUME Sound, Sound', NEW signers, NEW o \in Accounts, o # Self,
         Refresh(signers, row, req, o)
  PROVE  Waited
<1>1. Settled(signers, row, o)
  BY ClrWithdrawsClaims
<1>2. ASSUME NEW u \in Tokens, NEW b \in Accounts \ {Self}
      PROVE  StaysOrMoves(u, b)
  BY <1>1, PaidStays DEF Settled, StaysOrMoves
<1> QED BY <1>2, HeldIsWaited

LEMMA RecallRequestedWaited ==
  ASSUME Sound, Sound', SelfAside, NEW signers, NEW t \in Tokens,
         NEW from \in Accounts, NEW to \in Accounts, NEW v \in Amounts,
         RecallRequested(signers, t, from, to, v)
  PROVE  Waited
<1>1. ClaimMoved(t, from, to, v) /\ RecallRows(t, from, to)
  BY RecallRequestedClaims
<1>2. ASSUME NEW u \in Tokens, NEW o \in Accounts \ {Self},
             u # t \/ (o # from /\ o # to)
      PROVE  row'[u][o].dep >= row[u][o].dep
  <2>1. CASE o = from
    <3>1. PICK q \in Nat : Paid({from}, u, row[u], row'[u], from, q)
      BY <1>1, <1>2, <2>1 DEF RecallRows
    <3> QED BY <3>1, PaidStays
  <2>2. CASE o # from
    BY <1>1, <1>2, <2>2, ClaimsInt DEF RecallRows
  <2> QED BY <2>1, <2>2
<1> QED BY <1>1, <1>2, MovedMoves

(* The one handler that takes from a deposit what its owner keeps: the      *)
(* request it leaves is not due before the whole delay has passed.          *)
LEMMA PushWithdrawWaited ==
  ASSUME Sound, Sound', Unwrapped, NEW signers, Self \notin signers,
         NEW t \in Tokens, NEW o \in Accounts, NEW v \in Amounts,
         PushWithdraw(signers, t, o, v)
  PROVE  Waited
<1> SUFFICES ASSUME NEW u \in Tokens, NEW b \in Accounts \ {Self},
                    row'[u][b].dep < row[u][b].dep, stat[u].delay # 0
             PROVE  req'[b][u].qty > 0 /\ req'[b][u].time >= now + stat[u].delay
  BY DEF Waited
<1>1. /\ o # Self /\ Settled({o}, Pushed(t, o, v), o)
      /\ row[t][o].dep >= v /\ v \in Nat /\ v > 0
  BY PushWithdrawClaims, Domains
<1>2. Refresh({o}, Pushed(t, o, v), PushedRequests(t, o, v), o)
  BY Zenon DEF PushWithdraw, Pushed, PushedRequests
<1>3. TablesOK(Pushed(t, o, v)) /\ PushedRequests(t, o, v) \in Requests
  BY <1>1, PushedTables
<1>4. PICK q \in Nat : Paid({o}, u, Pushed(t, o, v)[u], row'[u], o, q)
  BY <1>1 DEF Settled
<1>5. row[u][b].dep \in Nat /\ row'[u][b].dep \in Nat
  BY OwnedInt DEF Sound
<1>6. u = t
  <2> SUFFICES ASSUME u # t PROVE FALSE
    OBVIOUS
  <2>1. \A w \in Tokens \ {t} : Pushed(t, o, v)[w] = row[w]
    BY <1>1, PushedTables
  <2>2. Paid({o}, u, row[u], row'[u], o, q)
    BY <1>4, <2>1
  <2>3. row'[u][b].dep >= row[u][b].dep
    BY <2>2, PaidStays
  <2> QED BY <1>5, <2>3
<1>7. b = o
  <2> SUFFICES ASSUME b # o PROVE FALSE
    OBVIOUS
  <2>1. Pushed(t, o, v)[t][b] = row[t][b]
    BY <1>1, PushedTables DEF SameBut
  <2>2. row'[t][b] = Pushed(t, o, v)[t][b]
    BY <1>4, <1>6 DEF Paid, SameBut
  <2> QED BY <1>5, <1>6, <2>1, <2>2
<1>8. /\ now \in Nat /\ now <= MaxTime /\ stat[t].delay \in Nat /\ MaxTime \in Nat
      /\ TimeWidth \in Nat \ {0} /\ req \in Requests /\ req[o][t].qty \in Nat
  BY ConstantsAssumption DEF Sound, StatOK, Stat, Requests
<1>9. (now + stat[t].delay) % TimeWidth = now + stat[t].delay
  <2>1. now + stat[t].delay \in Nat /\ now + stat[t].delay < TimeWidth
    BY <1>8 DEF Unwrapped
  <2> QED BY <1>8, <2>1, ModBelow
<1>10. PushedRequests(t, o, v)[o][t] =
         [qty |-> req[o][t].qty + v, time |-> now + stat[t].delay]
  <2>1. Requested(t, o, v) = [qty |-> req[o][t].qty + v, time |-> now + stat[t].delay]
    BY <1>9 DEF Requested
  <2> QED BY <1>8, <2>1 DEF PushedRequests, Requests
<1>11. PushedRequests(t, o, v)[o][t].time > now
  BY <1>6, <1>8, <1>10
<1>12. req'[o][t] = PushedRequests(t, o, v)[o][t]
  BY <1>1, <1>2, <1>3, <1>11, RefreshSettles, Zenon
<1> QED BY <1>1, <1>6, <1>7, <1>8, <1>10, <1>12

LEMMA IssuerStepWaited ==
  ASSUME Sound, Sound', SelfAside, EscrowIsApart, Self \notin auth',
         IssuerStep(auth')
  PROVE  Waited
<1>1. ASSUME NEW t \in Tokens, NEW chg, SetOpts(auth', t, chg)
      PROVE  Waited
  BY <1>1, AmountlessStays DEF SetOpts, Amountless
<1>2. ASSUME NEW t \in Tokens, NEW A \in SUBSET Accounts, NEW chg,
             SetAccountOpts(auth', t, A, chg)
      PROVE  Waited
  BY <1>2, SetAccountOptsAmounts, AmountlessStays
<1>3. ASSUME NEW t \in Tokens, NEW a \in Accounts, NEW v \in Amounts,
             Issue(auth', t, a, v)
      PROVE  Waited
  <2>1. ClaimChanged(t, a, v) /\ Only(t, {a}) /\ v \in Int /\ v # 0
    BY <1>3, IssueClaims, Domains
  <2> QED BY <2>1, ChangedMoves
<1>4. ASSUME NEW t \in Tokens, NEW v \in Amounts, Burn(auth', t, v)
      PROVE  Waited
  BY <1>4, BurnWaited DEF EscrowIsApart
<1>5. ASSUME NEW t \in Tokens, NEW a \in Accounts, NEW b \in Accounts,
             NEW v \in Amounts, RecallDeposit(auth', t, a, b, v)
      PROVE  Waited
  BY <1>5, RecallDepositClaims, OnlyTwoMove
<1>6. ASSUME NEW t \in Tokens, NEW a \in Accounts, NEW b \in Accounts,
             NEW v \in Amounts, RecallRequested(auth', t, a, b, v)
      PROVE  Waited
  BY <1>6, RecallRequestedWaited
<1> QED BY <1>1, <1>2, <1>3, <1>4, <1>5, <1>6, Zenon DEF IssuerStep

LEMMA HolderStepWaited ==
  ASSUME Sound, Sound', SelfAside, EscrowIsApart, DistinctSymbols, Unwrapped,
         Self \notin auth', HolderStep(auth')
  PROVE  Waited
<1>1. ASSUME NEW t \in Tokens, NEW a \in Accounts, NEW b \in Accounts,
             NEW v \in Amounts, Transfer(auth', t, a, b, v)
      PROVE  Waited
  <2>1. ClaimMoved(t, a, b, v) /\ Only(t, {a, b})
    BY <1>1, TransferClaims
  <2> QED BY <2>1, OnlyTwoMove
<1>2. ASSUME NEW t \in Tokens, NEW a \in Accounts, NEW v \in Amounts,
             Retire(auth', t, a, v)
      PROVE  Waited
  <2>1. ClaimChanged(t, a, - v) /\ Only(t, {a})
    BY <1>2, RetireClaims
  <2>2. - v \in Int /\ - v # 0
    BY Domains
  <2> QED BY <2>1, <2>2, ChangedMoves
<1>3. ASSUME NEW t \in Tokens, NEW a \in DepositOwners, NEW v \in Amounts,
             DepositInRow(auth', t, a, v)
      PROVE  Waited
  <2>1. a \in Accounts /\ a # Self
    BY Domains DEF EscrowIsApart
  <2>2. Only(t, {a}) /\ row'[t][a].dep >= row[t][a].dep
    BY <1>3, <2>1, DepositInRowClaims
  <2> QED BY <2>1, <2>2, AddedStays
<1>4. ASSUME NEW t \in Tokens, NEW a \in DepositOwners, NEW v \in Amounts,
             DepositInNextRow(t, a, v)
      PROVE  FALSE
  <2>1. a \in Accounts
    BY Domains
  <2>2. \E u \in Tokens : u # t /\ Symbol[u] = Symbol[t]
    BY <1>4, <2>1, DepositInNextRowOK, Zenon
  <2> QED BY <2>2 DEF DistinctSymbols
<1>5. ASSUME NEW t \in Tokens, NEW a \in Accounts, PopWithdraw(auth', t, a)
      PROVE  Waited
  <2>1. Only(t, {a, Self}) /\ row'[t][a].dep >= row[t][a].dep
    BY <1>5, PopWithdrawClaims
  <2> QED BY <2>1, AddedStays DEF Only
<1>6. ASSUME NEW t \in Tokens, NEW a \in Accounts, Open(t, a) \/ Close(auth', t, a)
      PROVE  Waited
  <2>1. row \in [Tokens -> Ledger]
    BY DEF Sound, TablesOK
  <2>2. CASE Open(t, a)
    BY <2>1, <2>2, AmountlessStays DEF Open, Amountless, Ledger, Row
  <2>3. CASE Close(auth', t, a)
    BY <2>1, <2>3, AmountlessStays DEF Close, Amountless, Ledger, Row, NoRow
  <2> QED BY <1>6, <2>2, <2>3
<1>7. ASSUME NEW t \in Tokens, NEW a \in Accounts, NEW v \in Amounts,
             PushWithdraw(auth', t, a, v)
      PROVE  Waited
  BY <1>7, PushWithdrawWaited
<1>8. ASSUME NEW a \in Accounts, ClrWithdraws(auth', a)
      PROVE  Waited
  <2>1. a # Self /\ Refresh(auth', row, req, a)
    BY <1>8 DEF ClrWithdraws
  <2> QED BY <2>1, ClearStays
<1>9. ASSUME NEW t \in Tokens, NEW a \in Accounts, NEW b \in Spenders,
             NEW v \in Limits, Approve(auth', t, a, b, v)
      PROVE  Waited
  BY <1>9, AmountlessStays DEF Approve, Amountless
<1> QED BY <1>1, <1>2, <1>3, <1>4, <1>5, <1>6, <1>7, <1>8, <1>9, Zenon
    DEF HolderStep

LEMMA StepWaited ==
  ASSUME Guarded, Unwrapped, EscrowIsApart, DistinctSymbols, [Next]_vars
  PROVE  Waited
<1>1. Sound /\ Sound' /\ SelfAside
  BY StepGuarded DEF Guarded
<1>2. CASE ContractStep
  <2>1. PICK t \in Tokens, v \in Amounts :
          \/ \E c \in Configs : MintNew(t, v, c)
          \/ \E chg \in Changes(LiveOptions) : MintMore(t, v, chg)
          \/ Burn({Self}, t, v)
    BY <1>2, Zenon DEF ContractStep
  <2>2. CASE Burn({Self}, t, v)
    BY <1>1, <2>2, BurnWaited DEF EscrowIsApart
  <2>3. CASE \E c \in Configs : MintNew(t, v, c)
    BY <1>1, <2>3, AmountlessStays DEF MintNew, Amountless
  <2>4. CASE \E chg \in Changes(LiveOptions) : MintMore(t, v, chg)
    BY <1>1, <2>4, AmountlessStays DEF MintMore, Amountless
  <2> QED BY <2>1, <2>2, <2>3, <2>4
<1>3. CASE \E s \in Signers : auth' = s /\ (IssuerStep(s) \/ HolderStep(s))
  <2>1. /\ IssuerStep(auth') \/ HolderStep(auth')
        /\ auth' \in Signers
    BY <1>3
  <2>2. Self \notin auth'
    BY <2>1, ConstantsAssumption
  <2> QED BY <1>1, <2>1, <2>2, IssuerStepWaited, HolderStepWaited
<1>4. CASE Tick
  BY <1>1, <1>4, AmountlessStays DEF Tick, Amountless
<1>5. CASE \E o \in Accounts : RunDeferred(o) \/ DropDeferred(o)
  <2>1. PICK o \in Accounts : RunDeferred(o) \/ DropDeferred(o)
    BY <1>5
  <2>2. CASE RunDeferred(o)
    <3>1. o # Self /\ Refresh({o}, row, req, o)
      BY <1>1, <2>2 DEF RunDeferred, Pending, SelfAside, Sound, Requests
    <3> QED BY <1>1, <3>1, ClearStays
  <2>3. CASE DropDeferred(o)
    BY <1>1, <2>3, AmountlessStays DEF DropDeferred, Amountless
  <2> QED BY <2>1, <2>2, <2>3
<1>6. CASE UNCHANGED vars
  BY <1>1, <1>6, AmountlessStays DEF vars, Amountless
<1> QED BY <1>2, <1>3, <1>4, <1>5, <1>6, Zenon DEF Next

(* For delays that a time_point_sec can count: what leaves a deposit for    *)
(* its owner waits the whole delay from the last pushwithdraw, whichever    *)
(* transactions come between, and refresh_schedule settles no request that  *)
(* is not due.                                                              *)
THEOREM WithdrawalHolds ==
  ASSUME NoWrap, EscrowIsApart, DistinctSymbols
  PROVE  Spec => WithdrawalWaits
<1>1. Init => Guarded /\ Unwrapped
  BY InitGuarded, InitUnwrapped
<1>2. Guarded /\ Unwrapped /\ [Next]_vars => (Guarded /\ Unwrapped)'
  BY StepGuarded, StepUnwrapped DEF Guarded
<1>3. Guarded /\ Unwrapped /\ [Next]_vars =>
        [\A t \in Tokens, o \in Accounts \ {Self} :
           row'[t][o].dep < row[t][o].dep /\ Owns(t, o)' = Owns(t, o) =>
             \/ stat[t].delay = 0
             \/ req'[o][t].qty > 0 /\ req'[o][t].time >= now + stat[t].delay]_vars
  BY StepWaited DEF Waited
<1> QED BY <1>1, <1>2, <1>3, PTL DEF Spec, WithdrawalWaits

-----------------------------------------------------------------------------
(* Requests are scheduled.                                                  *)

(* No token can turn a whitelist on, which would fail the deferred          *)
(* clrwithdraws of an owner that is not on it.                              *)
NoWhitelist == \A c \in Configs : "whitelistable" \notin c.opts
Unlisted ==
  \A t \in Tokens : {"whitelistable", "whitelist_on"} \cap stat[t].opts = {}

(* The checks of _setopts keep it off, from a mint to the last setopts.     *)
LEMMA StaysUnlisted ==
  ASSUME NEW opts, NEW chg \in Changes(LiveOptions), NEW init,
         "whitelistable" \notin opts, OptionsAllowed(Apply(opts, chg), init)
  PROVE  {"whitelistable", "whitelist_on"} \cap Apply(opts, chg) = {}
<1>1. "whitelistable" \notin DOMAIN chg
  BY DEF Changes, LiveOptions
<1>2. "whitelistable" \notin Apply(opts, chg)
  BY <1>1 DEF Apply
<1> QED BY <1>2 DEF OptionsAllowed

LEMMA OptsSame ==
  ASSUME Unlisted, \A t \in Tokens : stat'[t].opts = stat[t].opts
  PROVE  Unlisted'
BY DEF Unlisted

LEMMA OptsChanged ==
  ASSUME Unlisted, NEW t \in Tokens, NEW chg \in Changes(LiveOptions),
         OptionsAllowed(Apply(stat[t].opts, chg), FALSE),
         stat'[t].opts = Apply(stat[t].opts, chg),
         \A u \in Tokens \ {t} : stat'[u].opts = stat[u].opts
  PROVE  Unlisted'
<1>1. {"whitelistable", "whitelist_on"} \cap stat'[t].opts = {}
  BY StaysUnlisted DEF Unlisted
<1> QED BY <1>1 DEF Unlisted

LEMMA IssuerStepUnlisted ==
  ASSUME Sound, Unlisted, NEW s, IssuerStep(s)
  PROVE  Unlisted'
<1>1. stat \in [Tokens -> Stat]
  BY DEF Sound, StatOK
<1>2. ASSUME NEW t \in Tokens, NEW chg \in Changes(LiveOptions), SetOpts(s, t, chg)
      PROVE  Unlisted'
  <2>1. /\ stat' = [stat EXCEPT ![t].opts = Apply(stat[t].opts, chg)]
        /\ OptionsAllowed(Apply(stat[t].opts, chg), FALSE)
    BY <1>2, Zenon DEF SetOpts
  <2>2. /\ stat'[t].opts = Apply(stat[t].opts, chg)
        /\ \A u \in Tokens \ {t} : stat'[u].opts = stat[u].opts
    BY <1>1, <2>1 DEF Stat
  <2> QED BY <2>1, <2>2, OptsChanged
<1>3. ASSUME NEW t \in Tokens, NEW A, NEW chg, SetAccountOpts(s, t, A, chg)
      PROVE  Unlisted'
  BY <1>3, OptsSame DEF SetAccountOpts
<1>4. ASSUME NEW t \in Tokens, NEW a, NEW v, Issue(s, t, a, v)
      PROVE  Unlisted'
  <2>1. stat' = [stat EXCEPT ![t].supply = @ + v]
    BY <1>4 DEF Issue
  <2> QED BY <1>1, <2>1, OptsSame DEF Stat
<1>5. ASSUME NEW t \in Tokens, NEW v, Burn(s, t, v)
      PROVE  Unlisted'
  <2>1. stat' = [stat EXCEPT ![t].supply = @ - v, ![t].max = @ - v]
    BY <1>5 DEF Burn
  <2> QED BY <1>1, <2>1, OptsSame DEF Stat
<1>6. ASSUME NEW t, NEW a, NEW b, NEW v,
             RecallDeposit(s, t, a, b, v) \/ RecallRequested(s, t, a, b, v)
      PROVE  Unlisted'
  BY <1>6, OptsSame DEF RecallDeposit, RecallRequested
<1> QED BY <1>2, <1>3, <1>4, <1>5, <1>6, Zenon DEF IssuerStep

LEMMA HolderStepUnlisted ==
  ASSUME Sound, Unlisted, NEW s, HolderStep(s)
  PROVE  Unlisted'
<1>1. stat \in [Tokens -> Stat]
  BY DEF Sound, StatOK
<1>2. ASSUME NEW t \in Tokens, NEW a, NEW v, Retire(s, t, a, v)
      PROVE  Unlisted'
  <2>1. stat' = [stat EXCEPT ![t].supply = @ - v]
    BY <1>2 DEF Retire
  <2> QED BY <1>1, <2>1, OptsSame DEF Stat
<1>3. ASSUME NEW t, NEW a, NEW b, NEW v,
             \/ Transfer(s, t, a, b, v) \/ Approve(s, t, a, b, v)
             \/ DepositInRow(s, t, a, v) \/ DepositInNextRow(t, a, v)
      PROVE  Unlisted'
  BY <1>3, OptsSame DEF Transfer, Approve, DepositInRow, DepositInNextRow, Deposit
<1>4. ASSUME NEW t, NEW a, NEW v,
             \/ PushWithdraw(s, t, a, v) \/ PopWithdraw(s, t, a)
             \/ Open(t, a) \/ Close(s, t, a) \/ ClrWithdraws(s, a)
      PROVE  Unlisted'
  BY <1>4, OptsSame DEF PushWithdraw, PopWithdraw, Open, Close, ClrWithdraws
<1> QED BY <1>2, <1>3, <1>4, Zenon DEF HolderStep

LEMMA StepUnlisted ==
  ASSUME Sound, Unlisted, NoWhitelist, [Next]_vars
  PROVE  Unlisted'
<1>1. stat \in [Tokens -> Stat]
  BY DEF Sound, StatOK
<1>2. CASE ContractStep
  <2>1. PICK t \in Tokens, v \in Amounts :
          \/ \E c \in Configs : MintNew(t, v, c)
          \/ \E chg \in Changes(LiveOptions) : MintMore(t, v, chg)
          \/ Burn({Self}, t, v)
    BY <1>2, Zenon DEF ContractStep
  <2>2. CASE \E c \in Configs : MintNew(t, v, c)
    <3>1. PICK c \in Configs : /\ stat' = [stat EXCEPT ![t] = Minted(v, c)]
                               /\ OptionsAllowed(c.opts, TRUE)
      BY <2>2 DEF MintNew
    <3>2. {"whitelistable", "whitelist_on"} \cap Minted(v, c).opts = {}
      BY <3>1 DEF NoWhitelist, OptionsAllowed, Minted
    <3> QED BY <1>1, <3>1, <3>2 DEF Unlisted
  <2>3. CASE \E chg \in Changes(LiveOptions) : MintMore(t, v, chg)
    <3>1. PICK chg \in Changes(LiveOptions) :
            /\ \E m : stat' = [stat EXCEPT ![t].max = m,
                                           ![t].opts = Apply(stat[t].opts, chg)]
            /\ OptionsAllowed(Apply(stat[t].opts, chg), FALSE)
      BY <2>3 DEF MintMore
    <3>2. /\ stat'[t].opts = Apply(stat[t].opts, chg)
          /\ \A u \in Tokens \ {t} : stat'[u].opts = stat[u].opts
      BY <1>1, <3>1 DEF Stat
    <3> QED BY <3>1, <3>2, OptsChanged
  <2>4. CASE Burn({Self}, t, v)
    BY <1>1, <2>4, OptsSame DEF Burn, Stat
  <2> QED BY <2>1, <2>2, <2>3, <2>4
<1>3. CASE \E s \in Signers : auth' = s /\ (IssuerStep(s) \/ HolderStep(s))
  BY <1>3, IssuerStepUnlisted, HolderStepUnlisted, Zenon
<1>4. CASE Tick
  BY <1>4, OptsSame DEF Tick
<1>5. CASE \E o \in Accounts : RunDeferred(o) \/ DropDeferred(o)
  BY <1>5, OptsSame DEF RunDeferred, DropDeferred
<1>6. CASE UNCHANGED vars
  BY <1>6, OptsSame DEF vars
<1> QED BY <1>2, <1>3, <1>4, <1>5, <1>6, Zenon DEF Next

LEMMA HeadIsFirst ==
  ASSUME NEW rq \in Requests, NEW o \in Accounts, NEW t \in Pending(rq, o)
  PROVE  Head(rq, o) # None /\ Head(rq, o) <= rq[o][t].time
<1> DEFINE S == {rq[o][u].time : u \in Pending(rq, o)}
<1>1. S \subseteq Nat /\ rq[o][t].time \in S
  <2>1. \A u \in Pending(rq, o) : rq[o][u].time \in Nat
    BY DEF Pending, Requests
  <2> QED BY <2>1
<1>2. Head(rq, o) = Min(S)
  BY DEF Head
<1> HIDE DEF S
<1>3. Min(S) \in Nat /\ Min(S) <= rq[o][t].time
  BY <1>1, MinOfNats
<1> QED BY <1>2, <1>3 DEF None

(* A request that stays keeps its time, and so does the schedule.           *)
LEMMA KeepsSchedule ==
  ASSUME Scheduled, deferred' = deferred,
         \A o \in Accounts, t \in Tokens :
           req'[o][t].qty > 0 => req[o][t].qty > 0 /\ req'[o][t].time = req[o][t].time
  PROVE  Scheduled'
BY DEF Scheduled, Pending

LEMMA SameRequests ==
  ASSUME Scheduled, UNCHANGED <<req, deferred>>
  PROVE  Scheduled'
BY DEF Scheduled, Pending

LEMMA RefreshSchedules ==
  ASSUME Sound, Sound', Scheduled, NEW signers, NEW rw, NEW rq \in Requests,
         NEW o \in Accounts, Refresh(signers, rw, rq, o),
         \A b \in Accounts \ {o} : rq[b] = req[b]
  PROVE  Scheduled'
<1>1. /\ req' \in Requests /\ deferred \in [Accounts -> Nat \cup {None}]
      /\ deferred' = [deferred EXCEPT ![o] = Head(req', o)]
      /\ \A b \in Accounts \ {o} : req'[b] = rq[b]
  BY DEF Refresh, Sound, Requests
<1> SUFFICES ASSUME NEW b \in Accounts, NEW t \in Pending(req', b)
             PROVE  deferred'[b] # None /\ deferred'[b] <= req'[b][t].time
  BY DEF Scheduled
<1>2. CASE b = o
  BY <1>1, <1>2, HeadIsFirst
<1>3. CASE b # o
  BY <1>1, <1>3 DEF Scheduled, Pending
<1> QED BY <1>2, <1>3

(* With the escrow solvent, nothing that is due fails to settle: a deferred *)
(* clrwithdraws is never dropped for it.                                    *)
LEMMA DueIsPaid ==
  ASSUME Guarded, Unlisted, NEW signers, NEW o \in Accounts, NEW skip \in BOOLEAN
  PROVE  CanClear(signers, row, req, o, skip)
<1> SUFFICES ASSUME NEW t \in Due(req, o)
             PROVE  CanSettle(signers, t, row[t], o, req[o][t].qty, skip)
  BY DEF CanClear
<1>1. /\ t \in Tokens /\ req \in Requests /\ TablesOK(row)
      /\ row[t][Self].bal \in Nat
  BY OwnedInt, Domains DEF Guarded, Sound, Due, Pending
<1>2. req[o][t].qty <= Escrowed(req, t) /\ Escrowed(req, t) \in Int
  <2>1. /\ \A b \in Accounts : Quantities(req, t)[b] \in Nat
        /\ Quantities(req, t)[o] = req[o][t].qty
    BY <1>1 DEF Quantities, Requests
  <2>2. Escrowed(req, t) = SumFunctionOnSet(Quantities(req, t), Accounts)
    BY Zenon DEF Escrowed, Quantities
  <2> QED BY <1>1, <2>1, <2>2, FiniteAccounts, SumBoundsTerm, EscrowedInt
<1>3. row[t][Self].bal >= req[o][t].qty
  <2>1. row[t][Self].bal - Escrowed(req, t) >= 0
    BY <1>1 DEF Guarded, Solvent, FreeIn
  <2>2. req[o][t].qty \in Nat
    BY <1>1 DEF Requests
  <2> QED BY <1>1, <1>2, <2>1, <2>2
<1>4. "frozen" \in row[t][o].opts \/ CanAdd(signers, t, row[t], o, skip)
  BY <1>1 DEF Unlisted, CanAdd, Valid, CanOpen, Opt
<1> QED BY <1>3, <1>4 DEF CanSettle

LEMMA DropSchedules ==
  ASSUME Guarded, Unlisted, Scheduled, ~ DeferredExpires, NEW o \in Accounts,
         DropDeferred(o)
  PROVE  Scheduled'
<1>1. MustSkip \in BOOLEAN
  BY DEF MustSkip
<1>2. Pending(req, o) = {}
  BY <1>1, DueIsPaid DEF DropDeferred
<1>3. /\ deferred' = [deferred EXCEPT ![o] = None] /\ req' = req
      /\ deferred \in [Accounts -> Nat \cup {None}]
  BY DEF DropDeferred, Guarded, Sound
<1> QED BY <1>2, <1>3 DEF Scheduled, Pending

LEMMA PushSchedules ==
  ASSUME Sound, Sound', Scheduled, NEW signers, Self \notin signers,
         NEW t \in Tokens, NEW o \in Accounts, NEW v \in Amounts,
         PushWithdraw(signers, t, o, v)
  PROVE  Scheduled'
<1>1. o # Self /\ row[t][o].dep >= v /\ v \in Nat
  BY PushWithdrawClaims, Domains
<1>2. Refresh({o}, Pushed(t, o, v), PushedRequests(t, o, v), o)
  BY Zenon DEF PushWithdraw, Pushed, PushedRequests
<1>3. PushedRequests(t, o, v) \in Requests
  BY <1>1, PushedTables
<1>4. \A b \in Accounts \ {o} : PushedRequests(t, o, v)[b] = req[b]
  BY DEF PushedRequests, Sound, Requests
<1> QED BY <1>2, <1>3, <1>4, RefreshSchedules

LEMMA RecallRequestedSchedules ==
  ASSUME Sound, Sound', Scheduled, NEW signers, NEW t \in Tokens,
         NEW from \in Accounts, NEW to \in Accounts, NEW v \in Amounts,
         RecallRequested(signers, t, from, to, v)
  PROVE  Scheduled'
<1> DEFINE left == v - row[t][from].dep
           q == req[from][t].qty
<1>1. PICK rw : \/ /\ q > left
                   /\ req' = [req EXCEPT ![from][t].qty = @ - left]
                   /\ UNCHANGED deferred
                \/ Refresh({from}, rw, RequestUsedUp(t, from), from)
  BY Zenon DEF RecallRequested, RequestUsedUp
<1>2. req \in Requests /\ q \in Nat /\ q > 0 /\ row[t][from].dep \in Nat /\ v \in Nat
  BY OwnedInt, Domains DEF Sound, RecallRequested
<1>3. CASE /\ q > left
           /\ req' = [req EXCEPT ![from][t].qty = @ - left]
           /\ UNCHANGED deferred
  <2>1. \A o \in Accounts, u \in Tokens :
          req'[o][u].qty > 0 => req[o][u].qty > 0 /\ req'[o][u].time = req[o][u].time
    BY <1>2, <1>3 DEF Requests
  <2> QED BY <1>3, <2>1, KeepsSchedule
<1>4. CASE Refresh({from}, rw, RequestUsedUp(t, from), from)
  <2>1. /\ RequestUsedUp(t, from) \in Requests
        /\ \A b \in Accounts \ {from} : RequestUsedUp(t, from)[b] = req[b]
    BY <1>2 DEF RequestUsedUp, Requests, NoReq
  <2> QED BY <1>4, <2>1, RefreshSchedules
<1> QED BY <1>1, <1>3, <1>4

LEMMA PopSchedules ==
  ASSUME Sound, Scheduled, NEW signers, NEW t \in Tokens, NEW o \in Accounts,
         PopWithdraw(signers, t, o)
  PROVE  Scheduled'
<1>1. /\ req' = [req EXCEPT ![o][t] = NoReq] /\ req \in Requests
      /\ deferred' = deferred
  BY DEF PopWithdraw, Sound
<1>2. \A b \in Accounts, u \in Tokens :
        req'[b][u].qty > 0 => req[b][u].qty > 0 /\ req'[b][u].time = req[b][u].time
  BY <1>1 DEF Requests, NoReq
<1> QED BY <1>1, <1>2, KeepsSchedule

LEMMA StepSchedules ==
  ASSUME Guarded, Unlisted, Scheduled, ~ DeferredExpires, EscrowIsApart,
         [Next]_vars
  PROVE  Scheduled'
<1>1. Sound /\ Sound'
  BY StepGuarded DEF Guarded
<1>2. CASE ContractStep
  BY <1>2, SameRequests DEF ContractStep, MintNew, MintMore, Burn
<1>3. CASE \E s \in Signers : auth' = s /\ (IssuerStep(s) \/ HolderStep(s))
  <2>1. PICK s \in Signers : IssuerStep(s) \/ HolderStep(s)
    BY <1>3
  <2>2. Self \notin s
    BY ConstantsAssumption
  <2>3. ASSUME NEW t, NEW a, NEW b, NEW v,
               \/ SetOpts(s, t, v) \/ SetAccountOpts(s, t, a, v)
               \/ Issue(s, t, a, v) \/ Burn(s, t, v) \/ RecallDeposit(s, t, a, b, v)
               \/ Transfer(s, t, a, b, v) \/ Retire(s, t, a, v)
               \/ DepositInRow(s, t, a, v) \/ DepositInNextRow(t, a, v)
               \/ Open(t, a) \/ Close(s, t, a) \/ Approve(s, t, a, b, v)
        PROVE  Scheduled'
    BY <2>3, SameRequests DEF SetOpts, SetAccountOpts, Issue, Burn, RecallDeposit,
       Transfer, Retire, DepositInRow, DepositInNextRow, Deposit, Open, Close, Approve
  <2>4. ASSUME NEW t \in Tokens, NEW a \in Accounts, NEW b \in Accounts,
               NEW v \in Amounts, RecallRequested(s, t, a, b, v)
        PROVE  Scheduled'
    BY <1>1, <2>4, RecallRequestedSchedules
  <2>5. ASSUME NEW t \in Tokens, NEW a \in Accounts, NEW v \in Amounts,
               PushWithdraw(s, t, a, v)
        PROVE  Scheduled'
    BY <1>1, <2>2, <2>5, PushSchedules
  <2>6. ASSUME NEW t \in Tokens, NEW a \in Accounts, PopWithdraw(s, t, a)
        PROVE  Scheduled'
    BY <1>1, <2>6, PopSchedules
  <2>7. ASSUME NEW a \in Accounts, ClrWithdraws(s, a)
        PROVE  Scheduled'
    <3>1. Refresh(s, row, req, a) /\ req \in Requests
      BY <1>1, <2>7 DEF ClrWithdraws, Sound
    <3> QED BY <1>1, <3>1, RefreshSchedules
  <2>8. IssuerStep(s) => Scheduled'
    BY <2>3, <2>4, Zenon DEF IssuerStep
  <2>9. HolderStep(s) => Scheduled'
    BY <2>3, <2>5, <2>6, <2>7, Zenon DEF HolderStep
  <2> QED BY <2>1, <2>8, <2>9
<1>4. CASE Tick
  BY <1>4, SameRequests DEF Tick
<1>5. CASE \E o \in Accounts : RunDeferred(o) \/ DropDeferred(o)
  <2>1. PICK o \in Accounts : RunDeferred(o) \/ DropDeferred(o)
    BY <1>5
  <2>2. CASE RunDeferred(o)
    <3>1. Refresh({o}, row, req, o) /\ req \in Requests
      BY <1>1, <2>2 DEF RunDeferred, Sound
    <3> QED BY <1>1, <3>1, RefreshSchedules
  <2>3. CASE DropDeferred(o)
    BY <2>3, DropSchedules
  <2> QED BY <2>1, <2>2, <2>3
<1>6. CASE UNCHANGED vars
  BY <1>6, SameRequests DEF vars
<1> QED BY <1>2, <1>3, <1>4, <1>5, <1>6, Zenon DEF Next

(* Unless the chain lets a due transaction expire, no request is forgotten: *)
(* popwithdraw and a partial recall, which leave the schedule alone, leave  *)
(* it early and never late, and a due clrwithdraws does not fail, because   *)
(* the escrow is solvent and no whitelist can refuse the owner.             *)
THEOREM ScheduleHolds ==
  ASSUME ~ DeferredExpires, NoWhitelist, EscrowIsApart
  PROVE  Spec => []Scheduled
<1>1. Init => Guarded /\ Unlisted /\ Scheduled
  <2>1. ASSUME Init PROVE Unlisted
    BY <2>1 DEF Init, Unlisted, NoStat
  <2>2. ASSUME Init PROVE Scheduled
    BY <2>2 DEF Init, Scheduled, Pending, NoReq
  <2> QED BY <2>1, <2>2, InitGuarded
<1>2. Guarded /\ Unlisted /\ Scheduled /\ [Next]_vars
        => (Guarded /\ Unlisted /\ Scheduled)'
  BY StepGuarded, StepUnlisted, StepSchedules DEF Guarded
<1> QED BY <1>1, <1>2, PTL DEF Spec

=============================================================================
