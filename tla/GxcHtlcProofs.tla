---------------------------- MODULE GxcHtlcProofs ----------------------------
(* gxc.htlc never owes what it does not hold, settles a contract once, and  *)
(* can always refund one that expired, for any accounts, contracts, amounts *)
(* and timelocks.                                                           *)
EXTENDS GxcHtlc, GxcTokenClaims

(* gxc.htlc signs nothing but its inline transfers, and nobody deposits for *)
(* it: deposit asks for no authority, and would take the balance it pays    *)
(* from.  Nor is gxc.token, which holds the requests, an issuer or a        *)
(* depositor.                                                               *)
HtlcIsApart ==
  Htlc \notin DepositOwners /\ (\A s \in Signers : Htlc \notin s) /\ EscrowIsApart

Lock == [recipient : Recipients, value : Amounts, hashlock : Secrets,
         timelock : 0 .. MaxTime]
LockTables == [Contracts -> Lock \cup {NoLock}]
ApprovesNobody == \A s \in Accounts : allowance[Htlc][s][Token] = 0

Issued == \A id \in Contracts : Locked(id) => stat[Token].exists

(* The invariant: what is locked is held, and no spender can take it.       *)
Escrow ==
  /\ Sound /\ SelfAside /\ Issued
  /\ htlcs \in LockTables /\ ApprovesNobody /\ EscrowBacked

-----------------------------------------------------------------------------
(* What is locked.                                                          *)

AmountsIn(h) == [id \in Contracts |-> IF h[id] # NoLock THEN h[id].value ELSE 0]
LockedIn(h) == SumFunctionOnSet(AmountsIn(h), Contracts)

LEMMA LockedInTables ==
  LockedInAll = LockedIn(htlcs) /\ LockedInAll' = LockedIn(htlcs')
BY Zenon DEF LockedInAll, LockedIn, AmountsIn, Locks, Locked

LEMMA LocksNat ==
  ASSUME NEW h \in LockTables
  PROVE  /\ \A id \in Contracts : AmountsIn(h)[id] \in Nat
         /\ LockedIn(h) \in Nat
<1>1. \A id \in Contracts : AmountsIn(h)[id] \in Nat
  BY Domains DEF LockTables, Lock, NoLock, AmountsIn
<1> QED BY <1>1, HtlcAssumption, SumNat DEF LockedIn

(* One contract changes what is locked by as much as its own lock.          *)
LEMMA LocksUpdate ==
  ASSUME NEW h \in LockTables, NEW g \in LockTables, NEW id \in Contracts,
         \A other \in Contracts \ {id} : g[other] = h[other]
  PROVE  LockedIn(g) = LockedIn(h) - AmountsIn(h)[id] + AmountsIn(g)[id]
<1>1. /\ \A i \in Contracts : AmountsIn(h)[i] \in Int
      /\ AmountsIn(g)[id] \in Int
  BY LocksNat
<1>2. \A other \in Contracts \ {id} : AmountsIn(g)[other] = AmountsIn(h)[other]
  BY DEF AmountsIn
<1> QED BY <1>1, <1>2, SumUpdate, HtlcAssumption DEF LockedIn

-----------------------------------------------------------------------------
(* What the handlers of the token do to the rows.                           *)

(* Whoever signs, the balance of an account that neither signs nor approves *)
(* anyone does not fall.                                                    *)
LEMMA IssueAdds ==
  ASSUME Sound, NEW signers, NEW t \in Tokens, NEW to \in Accounts,
         NEW v \in Amounts, Issue(signers, t, to, v), NEW a \in Accounts
  PROVE  row'[t][a].bal >= row[t][a].bal
<1>1. /\ LedgerOK(row[t]) /\ v \in Nat /\ row[t][a].bal \in Nat
      /\ row \in [Tokens -> Ledger]
  BY TableOK, Domains, OwnedInt DEF Sound, TablesOK
<1>2. row'[t] = AddDeposit(row[t], to, v) \/ row'[t] = AddBalance(row[t], to, v)
  BY <1>1 DEF Issue
<1>3. \/ Delta(row[t], row'[t], to, 0, v) /\ SameBut(row[t], row'[t], {to})
      \/ Delta(row[t], row'[t], to, v, 0) /\ SameBut(row[t], row'[t], {to})
  BY <1>1, <1>2, AddDepositRow, AddBalanceRow
<1> QED BY <1>1, <1>3 DEF Delta, SameBut

LEMMA RecallDepositAdds ==
  ASSUME Sound, NEW signers, NEW t \in Tokens, NEW from \in Accounts,
         NEW to \in Accounts, NEW v \in Amounts,
         RecallDeposit(signers, t, from, to, v), NEW a \in Accounts
  PROVE  row'[t][a].bal >= row[t][a].bal
<1>1. /\ LedgerOK(row[t]) /\ v \in Nat /\ from # to
      /\ row[t][a].bal \in Nat /\ row[t][from].dep >= v /\ row \in [Tokens -> Ledger]
  BY TableOK, Domains, OwnedInt
  DEF Sound, TablesOK, RecallDeposit, MayTransfer, CanSubDeposit
<1>2. PICK keep \in StackFlag :
        row' = [row EXCEPT ![t] = AddBalance(SubDeposit(row[t], from, v, keep), to, v)]
  BY Zenon DEF RecallDeposit
<1>3. keep \in BOOLEAN
  BY Domains
<1> DEFINE P == SubDeposit(row[t], from, v, keep)
           M == AddBalance(P, to, v)
<1>4. row'[t] = M
  BY <1>1, <1>2
<1>5. LedgerOK(P) /\ Delta(row[t], P, from, 0, - v) /\ SameBut(row[t], P, {from})
  BY <1>1, <1>3, SubDepositRow
<1> HIDE DEF P
<1>6. Delta(P, M, to, v, 0) /\ SameBut(P, M, {to})
  BY <1>1, <1>5, AddBalanceRow
<1> HIDE DEF M
<1>7. /\ Delta(row[t], M, from, 0, - v) /\ Delta(row[t], M, to, v, 0)
      /\ SameBut(row[t], M, {from, to})
  BY <1>1, <1>5, <1>6, ThenOther
<1> QED BY <1>1, <1>4, <1>7 DEF Delta, SameBut

LEMMA DepositOfOthers ==
  ASSUME Sound, NEW signers, NEW t \in Tokens, NEW o \in Accounts,
         NEW v \in Amounts, DepositInRow(signers, t, o, v),
         NEW a \in Accounts, a # o
  PROVE  row'[t][a] = row[t][a]
<1>1. /\ LedgerOK(row[t]) /\ v \in Nat /\ row[t][o].bal >= v
      /\ row \in [Tokens -> Ledger]
  BY TableOK, Domains DEF Sound, TablesOK, DepositInRow, Deposit, CanSubBalance
<1>2. PICK keep \in StackFlag :
        row' = [row EXCEPT ![t] = AddDeposit(SubBalance(row[t], o, v, keep), o, v)]
  BY Zenon DEF DepositInRow
<1>3. keep \in BOOLEAN
  BY Domains
<1> DEFINE P == SubBalance(row[t], o, v, keep)
<1>4. row'[t] = AddDeposit(P, o, v)
  BY <1>1, <1>2
<1>5. LedgerOK(P) /\ SameBut(row[t], P, {o})
  BY <1>1, <1>3, SubBalanceRow
<1> HIDE DEF P
<1>6. SameBut(P, AddDeposit(P, o, v), {o})
  BY <1>1, <1>5, AddDepositRow
<1> QED BY <1>4, <1>5, <1>6 DEF SameBut

-----------------------------------------------------------------------------
(* The chain around gxc.htlc.                                               *)

Untaken == ApprovesNobody' /\ row'[Token][Htlc].bal >= row[Token][Htlc].bal

LEMMA HtlcRow ==
  ASSUME Sound
  PROVE  /\ Token \in Tokens /\ Htlc \in Accounts /\ Htlc # Self
         /\ row[Token][Htlc].bal \in Nat /\ Issuer[Token] # Htlc
BY HtlcAssumption, OwnedInt DEF Sound, TablesOK

LEMMA UntakenElsewhere ==
  ASSUME Sound, ApprovesNobody, allowance' = allowance, NEW t \in Tokens,
         NEW A, Only(t, A), t # Token \/ Htlc \notin A
  PROVE  Untaken
<1>1. row'[Token][Htlc] = row[Token][Htlc]
  BY HtlcRow DEF Only
<1> QED BY <1>1, HtlcRow DEF Untaken, ApprovesNobody

LEMMA UntakenAmountless ==
  ASSUME Sound, ApprovesNobody, allowance' = allowance, Amountless
  PROVE  Untaken
BY HtlcRow DEF Untaken, ApprovesNobody, Amountless

(* Settling a request pays its owner and takes from gxc.token alone.        *)
LEMMA PaidAdds ==
  ASSUME NEW signers, NEW t, NEW L, NEW M, NEW o \in Accounts, NEW q \in Nat,
         Paid(signers, t, L, M, o, q), NEW a \in Accounts \ {Self},
         L[a].bal \in Nat
  PROVE  M[a].bal >= L[a].bal
BY DEF Paid, Delta, SameBut

LEMMA UntakenSettled ==
  ASSUME Sound, ApprovesNobody, allowance' = allowance, NEW signers,
         NEW o \in Accounts, NEW rw, Settled(signers, rw, o),
         rw[Token][Htlc].bal = row[Token][Htlc].bal
  PROVE  Untaken
<1>1. PICK q \in Nat : Paid(signers, Token, rw[Token], row'[Token], o, q)
  BY HtlcRow DEF Settled
<1>2. row'[Token][Htlc].bal >= rw[Token][Htlc].bal
  BY <1>1, HtlcRow, PaidAdds
<1> QED BY <1>2 DEF Untaken, ApprovesNobody

(* A recall that reaches into a request takes no balance.                   *)
LEMMA RecallRequestedAdds ==
  ASSUME Sound, Sound', SelfAside, NEW signers, NEW t \in Tokens,
         NEW from \in Accounts, NEW to \in Accounts, NEW v \in Amounts,
         RecallRequested(signers, t, from, to, v)
  PROVE  row'[Token][Htlc].bal >= row[Token][Htlc].bal
<1>1. /\ ClaimMoved(t, from, to, v) /\ RecallRows(t, from, to)
  BY RecallRequestedClaims
<1>2. CASE Htlc = from
  <2>1. CASE t = Token
    BY <1>1, <1>2, <2>1 DEF RecallRows
  <2>2. CASE t # Token
    <3>1. PICK q \in Nat : Paid({from}, Token, row[Token], row'[Token], from, q)
      BY <1>1, <2>2, HtlcRow DEF RecallRows
    <3> QED BY <3>1, HtlcRow, PaidAdds
  <2> QED BY <2>1, <2>2
<1>3. CASE Htlc # from /\ (t # Token \/ Htlc # to)
  <2>1. row'[Token][Htlc] = row[Token][Htlc]
    BY <1>1, <1>3, HtlcRow DEF RecallRows
  <2> QED BY <2>1, HtlcRow
<1>4. CASE Htlc # from /\ t = Token /\ Htlc = to
  <2>1. req'[to] = req[to]
    <3>1. PICK rq : /\ \E rw : Refresh({from}, rw, rq, from) \/ req' = rq
                    /\ rq = RequestUsedUp(t, from)
                         \/ rq = RecalledRequests(t, from, v - row[t][from].dep)
      BY Zenon DEF RecallRequested, RequestUsedUp, RecalledRequests
    <3>2. rq[to] = req[to] /\ rq = [b \in Accounts |-> rq[b]]
      BY <1>4, <3>1 DEF RequestUsedUp, RecalledRequests, Sound, Requests
    <3>3. \/ req' = rq
          \/ \E x : req' = [rq EXCEPT ![from] = x]
      BY <3>1 DEF Refresh
    <3> QED BY <1>4, <3>2, <3>3
  <2>2. After(t, to) = Before(t, to) + v /\ row'[t][to].dep = row[t][to].dep
    BY <1>1 DEF ClaimMoved, RecallRows
  <2>3. /\ row[t][to].bal \in Nat /\ row[t][to].dep \in Nat /\ v \in Nat
        /\ row'[t][to].bal \in Nat /\ req[to][t].qty \in Nat
    BY OwnedInt, Domains DEF Sound, Requests
  <2>4. /\ Before(t, to) = row[t][to].bal + row[t][to].dep + req[to][t].qty
        /\ After(t, to) = row'[t][to].bal + row'[t][to].dep + req'[to][t].qty
    <3>1. to # Self /\ row'[t][to].dep \in Nat /\ req'[to][t].qty \in Nat
      BY <1>4, HtlcRow, <2>1, <2>2, <2>3
    <3> QED BY <2>3, <3>1 DEF Before, After, OwnedIn
  <2>5. row'[t][to].bal >= row[t][to].bal
    BY <2>1, <2>2, <2>3, <2>4
  <2> QED BY <1>4, <2>5
<1> QED BY <1>2, <1>3, <1>4

LEMMA RefreshUntaken ==
  ASSUME Sound, ApprovesNobody, allowance' = allowance, NEW signers,
         NEW o \in Accounts, o # Self, Refresh(signers, row, req, o)
  PROVE  Untaken
<1>1. Settled(signers, row, o)
  BY RefreshSettles DEF Sound
<1> QED BY <1>1, UntakenSettled

(* A deposit that lands in the next row is still its owner's.               *)
LEMMA DepositInNextRowOthers ==
  ASSUME Sound, NEW t \in Tokens, NEW o \in Accounts, o # Htlc, NEW v \in Amounts,
         DepositInNextRow(t, o, v)
  PROVE  row'[Token][Htlc] = row[Token][Htlc]
<1>1. /\ LedgerOK(row[t]) /\ v \in Nat /\ row[t][o].bal >= v
      /\ row \in [Tokens -> Ledger]
  BY TableOK, Domains DEF Sound, TablesOK, DepositInNextRow, Deposit, CanSubBalance
<1>2. PICK keep \in StackFlag, u \in NextRows(t, o) :
        row' = [row EXCEPT ![t] = SubBalance(row[t], o, v, keep),
                              ![u] = AddDeposit(@, o, v)]
  BY Zenon DEF DepositInNextRow
<1>3. u \in Tokens /\ u # t /\ keep \in BOOLEAN
  BY Domains, ConstantsAssumption DEF NextRows
<1>4. LedgerOK(row[u])
  BY <1>3, TableOK
<1>5. SameBut(row[t], SubBalance(row[t], o, v, keep), {o})
  BY <1>1, <1>3, SubBalanceRow
<1>6. SameBut(row[u], AddDeposit(row[u], o, v), {o})
  BY <1>1, <1>4, AddDepositRow
<1> HIDE DEF SubBalance
<1>7. /\ row'[t] = SubBalance(row[t], o, v, keep)
      /\ row'[u] = AddDeposit(row[u], o, v)
      /\ \A w \in Tokens \ {t, u} : row'[w] = row[w]
  BY <1>1, <1>2, <1>3
<1> QED BY <1>5, <1>6, <1>7, HtlcRow DEF SameBut

LEMMA IssuerStepUntaken ==
  ASSUME Sound, Sound', SelfAside, ApprovesNobody, HtlcIsApart,
         NEW s \in Signers, IssuerStep(s)
  PROVE  Untaken
<1>1. ASSUME NEW t \in Tokens, NEW chg, SetOpts(s, t, chg)
      PROVE  Untaken
  BY <1>1, UntakenAmountless DEF SetOpts, Amountless
<1>2. ASSUME NEW t \in Tokens, NEW A \in SUBSET Accounts, NEW chg,
             SetAccountOpts(s, t, A, chg)
      PROVE  Untaken
  BY <1>2, SetAccountOptsAmounts, UntakenAmountless DEF SetAccountOpts
<1>3. ASSUME NEW t \in Tokens, NEW a \in Accounts, NEW v \in Amounts, Issue(s, t, a, v)
      PROVE  Untaken
  <2>1. Only(t, {a}) /\ allowance' = allowance
    BY <1>3, IssueClaims DEF Issue
  <2>2. CASE t # Token
    BY <2>1, <2>2, UntakenElsewhere
  <2>3. CASE t = Token
    BY <1>3, <2>1, <2>3, IssueAdds, HtlcRow DEF Untaken, ApprovesNobody
  <2> QED BY <2>2, <2>3
<1>4. ASSUME NEW t \in Tokens, NEW v \in Amounts, Burn(s, t, v)
      PROVE  Untaken
  <2>1. Only(t, {Issuer[t]}) /\ allowance' = allowance
    BY <1>4, BurnClaims DEF Burn, HtlcIsApart, EscrowIsApart
  <2>2. t # Token \/ Htlc \notin {Issuer[t]}
    BY HtlcRow
  <2> QED BY <2>1, <2>2, UntakenElsewhere
<1>5. ASSUME NEW t \in Tokens, NEW a \in Accounts, NEW b \in Accounts,
             NEW v \in Amounts, RecallDeposit(s, t, a, b, v)
      PROVE  Untaken
  <2>1. Only(t, {a, b}) /\ allowance' = allowance
    BY <1>5, RecallDepositClaims DEF RecallDeposit
  <2>2. CASE t # Token
    BY <2>1, <2>2, UntakenElsewhere
  <2>3. CASE t = Token
    BY <1>5, <2>1, <2>3, RecallDepositAdds, HtlcRow DEF Untaken, ApprovesNobody
  <2> QED BY <2>2, <2>3
<1>6. ASSUME NEW t \in Tokens, NEW a \in Accounts, NEW b \in Accounts,
             NEW v \in Amounts, RecallRequested(s, t, a, b, v)
      PROVE  Untaken
  <2>1. row'[Token][Htlc].bal >= row[Token][Htlc].bal
    BY <1>6, RecallRequestedAdds
  <2>2. allowance' = allowance
    BY <1>6 DEF RecallRequested
  <2> QED BY <2>1, <2>2 DEF Untaken, ApprovesNobody
<1> QED BY <1>1, <1>2, <1>3, <1>4, <1>5, <1>6, Zenon DEF IssuerStep

(* A token that was minted stays so.                                        *)
LEMMA MintedStays ==
  ASSUME Sound, [Next]_vars
  PROVE  \A t \in Tokens : stat[t].exists => stat'[t].exists
<1>1. stat \in [Tokens -> Stat]
  BY DEF Sound, StatOK
<1>2. ASSUME NEW t \in Tokens, NEW v, NEW c, MintNew(t, v, c)
      PROVE  \A u \in Tokens : stat[u].exists => stat'[u].exists
  BY <1>1, <1>2 DEF MintNew, Minted
<1>3. ASSUME NEW t \in Tokens, NEW v, NEW chg, MintMore(t, v, chg)
      PROVE  \A u \in Tokens : stat[u].exists => stat'[u].exists
  BY <1>1, <1>3 DEF MintMore, Stat
<1>4. ASSUME NEW s, NEW t \in Tokens, NEW v, Burn(s, t, v)
      PROVE  \A u \in Tokens : stat[u].exists => stat'[u].exists
  BY <1>1, <1>4 DEF Burn, Stat
<1>5. ASSUME NEW s, IssuerStep(s)
      PROVE  \A u \in Tokens : stat[u].exists => stat'[u].exists
  <2>1. ASSUME NEW t \in Tokens, NEW chg, SetOpts(s, t, chg)
        PROVE  \A u \in Tokens : stat[u].exists => stat'[u].exists
    BY <1>1, <2>1 DEF SetOpts, Stat
  <2>2. ASSUME NEW t \in Tokens, NEW a, NEW v, Issue(s, t, a, v)
        PROVE  \A u \in Tokens : stat[u].exists => stat'[u].exists
    BY <1>1, <2>2 DEF Issue, Stat
  <2>3. ASSUME NEW t \in Tokens, NEW a, NEW b, NEW v,
               \/ SetAccountOpts(s, t, a, b) \/ RecallDeposit(s, t, a, b, v)
               \/ RecallRequested(s, t, a, b, v)
        PROVE  stat' = stat
    BY <2>3, Zenon DEF SetAccountOpts, RecallDeposit, RecallRequested
  <2> QED BY <1>4, <1>5, <2>1, <2>2, <2>3, Zenon DEF IssuerStep
<1>6. ASSUME NEW s, HolderStep(s)
      PROVE  \A u \in Tokens : stat[u].exists => stat'[u].exists
  <2>1. ASSUME NEW t \in Tokens, NEW a, NEW v, Retire(s, t, a, v)
        PROVE  \A u \in Tokens : stat[u].exists => stat'[u].exists
    BY <1>1, <2>1 DEF Retire, Stat
  <2>2. ASSUME NEW t \in Tokens, NEW a, NEW b, NEW v,
               \/ Transfer(s, t, a, b, v) \/ PushWithdraw(s, t, a, v)
               \/ DepositInRow(s, t, a, v) \/ DepositInNextRow(t, a, v)
               \/ PopWithdraw(s, t, a) \/ Open(t, a) \/ Close(s, t, a)
               \/ ClrWithdraws(s, a) \/ Approve(s, t, a, b, v)
        PROVE  stat' = stat
    BY <2>2, Zenon DEF Transfer, PushWithdraw, DepositInRow, DepositInNextRow, Deposit,
                PopWithdraw, Open, Close, ClrWithdraws, Approve
  <2>3. ASSUME NEW a, ClrWithdraws(s, a)
        PROVE  stat' = stat
    BY <2>3 DEF ClrWithdraws
  <2> QED BY <1>6, <2>1, <2>2, <2>3, Zenon DEF HolderStep
<1>7. Tick \/ (\E o \in Accounts : RunDeferred(o) \/ DropDeferred(o)) \/ UNCHANGED vars
        => stat' = stat
  BY DEF Tick, RunDeferred, DropDeferred, vars
<1> QED BY <1>2, <1>3, <1>4, <1>5, <1>6, <1>7, Zenon DEF Next, ContractStep

LEMMA TransferUntaken ==
  ASSUME Sound, ApprovesNobody, HtlcIsApart, NEW s \in Signers, NEW t \in Tokens,
         NEW a \in Accounts, NEW b \in Accounts, NEW v \in Amounts,
         Transfer(s, t, a, b, v)
  PROVE  Untaken
<1> Htlc \notin s
  BY DEF HtlcIsApart
<1>1. /\ v \in Nat /\ v > 0
      /\ \A c \in Accounts \ {a, b} : row'[t][c] = row[t][c]
      /\ row'[t][b].bal = row[t][b].bal + v
  BY TransferRows
<1>2. t # Token \/ a # Htlc
  BY <1>1 DEF Transfer, SubAllowance, ApprovesNobody
<1>3. ApprovesNobody'
  <2>1. \/ allowance' = allowance
        \/ allowance' = [allowance EXCEPT ![a][b][t] = @ - v]
    BY DEF Transfer, SubAllowance
  <2>2. allowance \in [Accounts -> [Accounts -> [Tokens -> Nat]]]
    BY DEF Sound
  <2>3. \A c \in Accounts : allowance'[Htlc][c][Token] = allowance[Htlc][c][Token]
    <3>1. CASE a # Htlc
      BY <2>1, <2>2, <3>1, HtlcRow
    <3>2. CASE a = Htlc /\ t # Token
      <4> DEFINE A == allowance[a][b]
      <4>1. A \in [Tokens -> Nat] /\ [A EXCEPT ![t] = @ - v][Token] = A[Token]
        BY <2>2, <3>2, HtlcRow
      <4>2. \/ allowance' = allowance
            \/ allowance'[a] = [allowance[a] EXCEPT ![b] = [A EXCEPT ![t] = @ - v]]
        BY <2>1, <2>2
      <4> HIDE DEF A
      <4>3. \A c \in Accounts : allowance'[a][c][Token] = allowance[a][c][Token]
        BY <2>2, <4>1, <4>2 DEF A
      <4> QED BY <3>2, <4>3
    <3> QED BY <1>2, <3>1, <3>2
  <2> QED BY <2>3 DEF ApprovesNobody
<1>4. CASE t # Token
  <2>1. row'[Token] = row[Token]
    BY <1>4, HtlcRow DEF Transfer, Sound, TablesOK
  <2> QED BY <1>3, <2>1, HtlcRow DEF Untaken
<1>5. CASE t = Token /\ b = Htlc
  BY <1>1, <1>3, <1>5, HtlcRow DEF Untaken
<1>6. CASE t = Token /\ b # Htlc
  BY <1>1, <1>2, <1>3, <1>6, HtlcRow DEF Untaken
<1> QED BY <1>4, <1>5, <1>6

LEMMA HolderStepUntaken ==
  ASSUME Sound, Sound', SelfAside, ApprovesNobody, HtlcIsApart,
         NEW s \in Signers, HolderStep(s)
  PROVE  Untaken
<1>1. Htlc \notin s /\ Self \notin s
  BY ConstantsAssumption DEF HtlcIsApart
<1>2. ASSUME NEW t \in Tokens, NEW a \in Accounts, NEW b \in Accounts,
             NEW v \in Amounts, Transfer(s, t, a, b, v)
      PROVE  Untaken
  BY <1>2, TransferUntaken
<1>3. ASSUME NEW t \in Tokens, NEW a \in Accounts, NEW v \in Amounts,
             Retire(s, t, a, v)
      PROVE  Untaken
  <2>1. Only(t, {a}) /\ allowance' = allowance
        /\ (a \in s \/ row'[t][a].bal >= row[t][a].bal)
    BY <1>1, <1>3, RetireClaims DEF Retire
  <2>2. CASE t # Token \/ a # Htlc
    BY <2>1, <2>2, UntakenElsewhere
  <2>3. CASE t = Token /\ a = Htlc
    BY <1>1, <2>1, <2>3 DEF Untaken, ApprovesNobody
  <2> QED BY <2>2, <2>3
<1>4. ASSUME NEW t \in Tokens, NEW a \in DepositOwners, NEW v \in Amounts,
             DepositInRow(s, t, a, v)
      PROVE  Untaken
  <2>1. a \in Accounts /\ a # Self /\ a # Htlc
    BY Domains DEF HtlcIsApart, EscrowIsApart
  <2>2. Only(t, {a}) /\ allowance' = allowance
    BY <1>4, <2>1, DepositInRowClaims DEF DepositInRow, Deposit
  <2> QED BY <2>1, <2>2, UntakenElsewhere
<1>5. ASSUME NEW t \in Tokens, NEW a \in DepositOwners, NEW v \in Amounts,
             DepositInNextRow(t, a, v)
      PROVE  Untaken
  <2>1. a \in Accounts /\ a # Htlc /\ allowance' = allowance
    BY <1>5, Domains DEF HtlcIsApart, DepositInNextRow, Deposit
  <2>2. row'[Token][Htlc] = row[Token][Htlc]
    BY <1>5, <2>1, DepositInNextRowOthers
  <2> QED BY <2>1, <2>2, HtlcRow DEF Untaken, ApprovesNobody
<1>6. ASSUME NEW t \in Tokens, NEW a \in Accounts, PopWithdraw(s, t, a)
      PROVE  Untaken
  <2>1. Only(t, {a, Self}) /\ allowance' = allowance /\ a # Htlc
    BY <1>1, <1>6, PopWithdrawClaims DEF PopWithdraw
  <2> QED BY <2>1, HtlcRow, UntakenElsewhere
<1>7. ASSUME NEW t \in Tokens, NEW a \in Accounts, Open(t, a) \/ Close(s, t, a)
      PROVE  Untaken
  <2>1. row \in [Tokens -> Ledger]
    BY DEF Sound, TablesOK
  <2>2. CASE Open(t, a)
    BY <2>1, <2>2, UntakenAmountless DEF Open, Amountless, Ledger, Row
  <2>3. CASE Close(s, t, a)
    BY <2>1, <2>3, UntakenAmountless DEF Close, Amountless, Ledger, Row, NoRow
  <2> QED BY <1>7, <2>2, <2>3
<1>8. ASSUME NEW t \in Tokens, NEW a \in Accounts, NEW v \in Amounts,
             PushWithdraw(s, t, a, v)
      PROVE  Untaken
  <2>1. /\ Settled({a}, Pushed(t, a, v), a) /\ a # Self /\ row[t][a].dep >= v
        /\ allowance' = allowance /\ a # Htlc /\ v \in Nat
    BY <1>1, <1>8, PushWithdrawClaims, Domains DEF PushWithdraw
  <2>2. Pushed(t, a, v)[Token][Htlc].bal = row[Token][Htlc].bal
    <3>1. /\ \A u \in Tokens \ {t} : Pushed(t, a, v)[u] = row[u]
          /\ SameBut(row[t], Pushed(t, a, v)[t], {Self, a})
      BY <2>1, PushedTables
    <3> QED BY <2>1, <3>1, HtlcRow DEF SameBut
  <2> QED BY <2>1, <2>2, UntakenSettled
<1>9. ASSUME NEW a \in Accounts, ClrWithdraws(s, a)
      PROVE  Untaken
  <2>1. a # Self /\ Refresh(s, row, req, a) /\ allowance' = allowance
    BY <1>1, <1>9 DEF ClrWithdraws
  <2> QED BY <2>1, RefreshUntaken
<1>10. ASSUME NEW t \in Tokens, NEW a \in Accounts, NEW b \in Spenders,
              NEW v \in Limits, Approve(s, t, a, b, v)
       PROVE  Untaken
  <2>1. a # Htlc
    BY <1>1, <1>10 DEF Approve
  <2>2. ApprovesNobody'
    BY <1>10, <2>1, HtlcRow DEF Approve, ApprovesNobody, Sound
  <2> QED BY <1>10, <2>2, HtlcRow DEF Approve, Untaken
<1> QED BY <1>2, <1>3, <1>4, <1>5, <1>6, <1>7, <1>8, <1>9, <1>10, Zenon
    DEF HolderStep

LEMMA ChainUntaken ==
  ASSUME Sound, Sound', SelfAside, ApprovesNobody, HtlcIsApart,
         NEW o \in Accounts, RunDeferred(o) \/ DropDeferred(o)
  PROVE  Untaken
<1>1. CASE RunDeferred(o)
  <2>1. o # Self /\ Refresh({o}, row, req, o) /\ allowance' = allowance
    BY <1>1 DEF RunDeferred, Pending, SelfAside, Sound, Requests
  <2> QED BY <2>1, RefreshUntaken
<1>2. CASE DropDeferred(o)
  BY <1>2, UntakenAmountless DEF DropDeferred, Amountless
<1> QED BY <1>1, <1>2

(* Whoever signs, no operation of gxc.token takes the balance of an account *)
(* that neither signs nor approves anyone, issues nothing and makes no      *)
(* deposit.                                                                 *)
LEMMA NextUntaken ==
  ASSUME Sound, SelfAside, ApprovesNobody, HtlcIsApart, Next
  PROVE  Sound' /\ SelfAside' /\ Untaken
<1>1. Sound' /\ SelfAside'
  BY StepOK, StepFaithful DEF HtlcIsApart
<1>2. CASE ContractStep
  <2>1. PICK t \in Tokens, v \in Amounts :
          \/ \E c \in Configs : MintNew(t, v, c)
          \/ \E chg \in Changes(LiveOptions) : MintMore(t, v, chg)
          \/ Burn({Self}, t, v)
    BY <1>2, Zenon DEF ContractStep
  <2>2. CASE Burn({Self}, t, v)
    <3>1. Only(t, {Issuer[t]}) /\ allowance' = allowance
      BY <1>1, <2>2, BurnClaims DEF Burn, HtlcIsApart, EscrowIsApart
    <3>2. t # Token \/ Htlc \notin {Issuer[t]}
      BY HtlcRow
    <3>3. Untaken
      BY <3>1, <3>2, UntakenElsewhere
    <3> QED BY <1>1, <3>3
  <2>3. CASE \E c \in Configs : MintNew(t, v, c)
    BY <1>1, <2>3, UntakenAmountless DEF MintNew, Amountless
  <2>4. CASE \E chg \in Changes(LiveOptions) : MintMore(t, v, chg)
    BY <1>1, <2>4, UntakenAmountless DEF MintMore, Amountless
  <2>5. Untaken
    BY <2>1, <2>2, <2>3, <2>4
  <2> QED BY <1>1, <2>5
<1>3. CASE \E s \in Signers : auth' = s /\ (IssuerStep(s) \/ HolderStep(s))
  BY <1>1, <1>3, IssuerStepUntaken, HolderStepUntaken
<1>4. CASE Tick
  BY <1>1, <1>4, UntakenAmountless DEF Tick, Amountless
<1>5. CASE \E o \in Accounts : RunDeferred(o) \/ DropDeferred(o)
  BY <1>1, <1>5, ChainUntaken
<1> QED BY <1>2, <1>3, <1>4, <1>5, Zenon DEF Next

-----------------------------------------------------------------------------
(* The handlers of gxc.htlc.                                                *)

LEMMA NewContractKeeps ==
  ASSUME Escrow, NEW id \in Contracts, NEW r \in Recipients, NEW v \in Amounts,
         NEW s \in Secrets, NEW tl \in 0 .. MaxTime, NewContract(id, r, v, s, tl)
  PROVE  Escrow'
<1> DEFINE new == [recipient |-> r, value |-> v, hashlock |-> s, timelock |-> tl]
           o == Owner[id]
<1>1. /\ Token \in Tokens /\ Htlc \in Accounts /\ o \in Accounts \ {Self, Htlc}
      /\ htlcs \in LockTables
  BY HtlcAssumption DEF Escrow
<1>2. /\ Transfer({Htlc}, Token, o, Htlc, v)
      /\ htlcs' = [htlcs EXCEPT ![id] = new] /\ htlcs[id] = NoLock
  BY DEF NewContract, Locked
<1>3. new \in Lock /\ new.value = v /\ new # NoLock
  <2>1. v > 0 /\ NoLock.value = 0 /\ new.value = v
    BY Domains DEF NoLock
  <2> QED BY <2>1, Domains DEF Lock
<1> HIDE DEF new, o
<1>4. htlcs' \in LockTables
  BY <1>1, <1>2, <1>3 DEF LockTables
<1>5. LockedIn(htlcs') = LockedIn(htlcs) + v
  <2>1. AmountsIn(htlcs)[id] = 0 /\ AmountsIn(htlcs')[id] = v
    BY <1>1, <1>2, <1>3 DEF AmountsIn, LockTables
  <2>2. \A other \in Contracts \ {id} : htlcs'[other] = htlcs[other]
    BY <1>1, <1>2 DEF LockTables
  <2>3. LockedIn(htlcs') = LockedIn(htlcs) - AmountsIn(htlcs)[id] + AmountsIn(htlcs')[id]
    BY <1>1, <1>4, <2>2, LocksUpdate
  <2> QED BY <1>1, <2>1, <2>3, LocksNat, Domains
<1>6. Sound' /\ row'[Token][Htlc].bal = row[Token][Htlc].bal + v
  BY <1>1, <1>2, TransferOK, TransferRows DEF Escrow
<1>7. ApprovesNobody' /\ SelfAside'
  BY <1>1, <1>2, Domains
  DEF Transfer, SubAllowance, ApprovesNobody, SelfAside, Escrow, Sound
<1>8. EscrowBacked'
  <2>1. /\ row[Token][Htlc].bal \in Nat /\ LockedIn(htlcs) \in Nat /\ v \in Nat
        /\ row[Token][Htlc].bal >= LockedIn(htlcs)
    BY <1>1, OwnedInt, LocksNat, Domains, LockedInTables DEF Escrow, Sound, EscrowBacked
  <2>2. row'[Token][Htlc].bal >= LockedIn(htlcs')
    BY <1>5, <1>6, <2>1
  <2> QED BY <2>2, LockedInTables DEF EscrowBacked
<1>9. Issued'
  <2>1. stat[Token].exists /\ stat' = stat
    BY <1>2 DEF Transfer, MayTransfer
  <2> QED BY <2>1 DEF Issued
<1> QED BY <1>4, <1>6, <1>7, <1>8, <1>9 DEF Escrow

(* What a settlement pays leaves gxc.htlc together with its lock.           *)
LEMMA PayKeeps ==
  ASSUME Escrow, NEW id \in Contracts, Locked(id), NEW a \in Accounts, Pay(id, a)
  PROVE  /\ Escrow'
         /\ htlcs'[id] = NoLock
         /\ \A other \in Contracts \ {id} : htlcs'[other] = htlcs[other]
         /\ Gained(Htlc) = - htlcs[id].value /\ Gained(a) = htlcs[id].value
<1> DEFINE v == htlcs[id].value
<1>1. /\ Token \in Tokens /\ Htlc \in Accounts /\ htlcs \in LockTables
  BY HtlcAssumption DEF Escrow
<1>2. htlcs[id] \in Lock /\ v \in Amounts
  BY <1>1 DEF LockTables, Lock, Locked
<1>3. /\ Transfer({Htlc}, Token, Htlc, a, v)
      /\ htlcs' = [htlcs EXCEPT ![id] = NoLock]
  BY DEF Pay
<1>4. htlcs' \in LockTables
  BY <1>1, <1>3 DEF LockTables
<1>5. \A other \in Contracts \ {id} : htlcs'[other] = htlcs[other]
  BY <1>1, <1>3 DEF LockTables
<1>6. LockedIn(htlcs') = LockedIn(htlcs) - v
  <2>1. AmountsIn(htlcs)[id] = v /\ AmountsIn(htlcs')[id] = 0
    BY <1>1, <1>3 DEF AmountsIn, LockTables, Locked
  <2>2. LockedIn(htlcs') = LockedIn(htlcs) - AmountsIn(htlcs)[id] + AmountsIn(htlcs')[id]
    BY <1>1, <1>4, <1>5, LocksUpdate
  <2> QED BY <1>1, <1>2, <2>1, <2>2, LocksNat, Domains
<1> HIDE DEF v
<1>7. /\ Sound' /\ row'[Token][Htlc].bal = row[Token][Htlc].bal - v
      /\ row'[Token][a].bal = row[Token][a].bal + v
      /\ row[Token][a].bal \in Nat /\ row[Token][Htlc].bal \in Nat /\ v \in Nat
  BY <1>1, <1>2, <1>3, TransferOK, TransferRows DEF Escrow
<1>8. ApprovesNobody' /\ SelfAside'
  BY <1>3 DEF Transfer, ApprovesNobody, SelfAside, Escrow
<1>9. EscrowBacked'
  <2>1. LockedIn(htlcs) \in Nat /\ row[Token][Htlc].bal >= LockedIn(htlcs)
    BY <1>1, LocksNat, LockedInTables DEF Escrow, EscrowBacked
  <2>2. row'[Token][Htlc].bal >= LockedIn(htlcs')
    BY <1>6, <1>7, <2>1
  <2> QED BY <2>2, LockedInTables DEF EscrowBacked
<1>10. htlcs'[id] = NoLock
  BY <1>1, <1>3 DEF LockTables
<1>11. Issued'
  <2>1. stat' = stat
    BY <1>3 DEF Transfer
  <2> QED BY <1>5, <1>10, <2>1 DEF Issued, Escrow, Locked
<1>12. Gained(Htlc) = - v /\ Gained(a) = v
  BY <1>7 DEF Gained
<1> QED BY <1>4, <1>5, <1>7, <1>8, <1>9, <1>10, <1>11, <1>12 DEF Escrow, v

LEMMA PayeeIsAccount ==
  ASSUME Escrow, NEW id \in Contracts, Locked(id)
  PROVE  Payee(id) \in Accounts
<1>1. htlcs[id].recipient \in Recipients
  BY DEF Escrow, LockTables, Lock, Locked
<1> QED BY <1>1, HtlcAssumption DEF Payee

Settles(id) ==
  Locked(id) /\ htlcs'[id] # htlcs[id] =>
    /\ htlcs'[id] = NoLock
    /\ Gained(Htlc) = - htlcs[id].value
    /\ IF now <= htlcs[id].timelock
       THEN Gained(Payee(id)) = htlcs[id].value
       ELSE Gained(Owner[id]) = htlcs[id].value

LEMMA SameHtlcs ==
  ASSUME htlcs' = htlcs
  PROVE  \A id \in Contracts : Settles(id)
BY DEF Settles

LEMMA StepKeepsEscrow ==
  ASSUME Escrow, HtlcIsApart, [HtlcNext]_htlcVars
  PROVE  Escrow' /\ \A id \in Contracts : Settles(id)
<1>1. /\ htlcs \in LockTables /\ Token \in Tokens /\ Htlc \in Accounts
      /\ row[Token][Htlc].bal \in Nat /\ LockedIn(htlcs) \in Nat
      /\ row[Token][Htlc].bal >= LockedIn(htlcs)
  BY HtlcAssumption, OwnedInt, LocksNat, LockedInTables DEF Escrow, Sound, EscrowBacked
<1>2. CASE Next /\ UNCHANGED <<htlcs, minimum>>
  <2>1. /\ Sound' /\ SelfAside' /\ ApprovesNobody'
        /\ row'[Token][Htlc].bal >= row[Token][Htlc].bal
    BY <1>2, NextUntaken DEF Escrow, Untaken
  <2>2. row'[Token][Htlc].bal \in Nat
    BY <1>1, <2>1, OwnedInt DEF Sound
  <2>3. row'[Token][Htlc].bal >= LockedIn(htlcs')
    BY <1>1, <1>2, <2>1, <2>2
  <2>4. EscrowBacked'
    BY <2>3, LockedInTables DEF EscrowBacked
  <2>5. Issued'
    BY <1>1, <1>2, MintedStays DEF Escrow, Issued, Locked
  <2> QED BY <1>1, <1>2, <2>1, <2>4, <2>5, SameHtlcs DEF Escrow
<1>3. CASE UNCHANGED <<htlcs, stat, row, req, allowance, deferred, now>>
  <2>1. Sound'
    BY <1>3 DEF Escrow, Sound, StatOK, Capped, TablesOK
  <2>2. ApprovesNobody' /\ SelfAside' /\ Issued'
    BY <1>3 DEF Escrow, ApprovesNobody, SelfAside, Issued, Locked
  <2>3. EscrowBacked'
    BY <1>1, <1>3, LockedInTables DEF EscrowBacked
  <2> QED BY <1>1, <1>3, <2>1, <2>2, <2>3, SameHtlcs DEF Escrow
<1>4. ASSUME NEW id \in Contracts, NEW r \in Recipients, NEW v \in Amounts,
             NEW s \in Secrets, NEW tl \in 0 .. MaxTime, NewContract(id, r, v, s, tl)
      PROVE  Escrow' /\ \A i \in Contracts : Settles(i)
  <2>1. \A i \in Contracts : Locked(i) => htlcs'[i] = htlcs[i]
    BY <1>1, <1>4 DEF NewContract, LockTables, Locked
  <2> QED BY <1>4, <2>1, NewContractKeeps DEF Settles
<1>5. ASSUME NEW id \in Contracts, NEW s \in Secrets, Withdraw(id, s)
      PROVE  Escrow' /\ \A i \in Contracts : Settles(i)
  <2>1. /\ Locked(id) /\ Pay(id, Payee(id)) /\ Payee(id) \in Accounts
        /\ htlcs[id].timelock >= now
    BY <1>5, PayeeIsAccount DEF Withdraw
  <2>2. htlcs[id].timelock \in Int /\ now \in Int
    BY <1>1, <2>1 DEF LockTables, Lock, Locked, Escrow, Sound
  <2> QED BY <2>1, <2>2, PayKeeps DEF Settles
<1>6. ASSUME NEW id \in Contracts, Refund(id)
      PROVE  Escrow' /\ \A i \in Contracts : Settles(i)
  <2>1. /\ Locked(id) /\ Pay(id, Owner[id]) /\ Owner[id] \in Accounts
        /\ htlcs[id].timelock < now
    BY <1>6, HtlcAssumption DEF Refund, Expired
  <2>2. htlcs[id].timelock \in Int /\ now \in Int
    BY <1>1, <2>1 DEF LockTables, Lock, Locked, Escrow, Sound
  <2> QED BY <2>1, <2>2, PayKeeps DEF Settles
<1>7. (\E m \in Minima : SetConfig(m)) \/ UNCHANGED htlcVars
        => UNCHANGED <<htlcs, stat, row, req, allowance, deferred, now>>
  BY DEF SetConfig, htlcVars, vars
<1> QED BY <1>2, <1>3, <1>4, <1>5, <1>6, <1>7, Zenon DEF HtlcNext

LEMMA InitEscrow == HtlcInit => Escrow
<1> SUFFICES ASSUME HtlcInit PROVE Escrow
  OBVIOUS
<1>1. Sound /\ Token \in Tokens /\ Htlc \in Accounts
  BY InitOK, HtlcAssumption DEF HtlcInit
<1>2. htlcs \in LockTables /\ ApprovesNobody /\ SelfAside /\ Issued
  BY <1>1, InitGuarded
  DEF HtlcInit, Init, LockTables, ApprovesNobody, Guarded, Issued, Locked
<1>3. LockedIn(htlcs) = 0
  <2>1. \A id \in Contracts : AmountsIn(htlcs)[id] = 0
    BY DEF HtlcInit, AmountsIn
  <2> QED BY <2>1, SumZero, HtlcAssumption DEF LockedIn
<1>4. EscrowBacked
  BY <1>1, <1>3, LockedInTables DEF HtlcInit, Init, NoRow, EscrowBacked
<1> QED BY <1>1, <1>2, <1>4 DEF Escrow

(* Whatever issuers, owners and strangers do to the token, to its options   *)
(* and to each other, and whatever the contracts, gxc.htlc can pay all that *)
(* is locked.                                                               *)
THEOREM EscrowIsBacked ==
  ASSUME HtlcIsApart
  PROVE  HtlcSpec => []EscrowBacked
<1>1. Escrow /\ [HtlcNext]_htlcVars => Escrow'
  BY StepKeepsEscrow
<1>2. Escrow => EscrowBacked
  BY DEF Escrow
<1> QED BY InitEscrow, <1>1, <1>2, PTL DEF HtlcSpec

(* A contract is settled at most once and to the one its timelock names,    *)
(* recipient or owner, for the amount that was locked: no order of          *)
(* withdrawals, refunds, freezes and burns pays it twice or pays it short.  *)
THEOREM SettlesOnce ==
  ASSUME HtlcIsApart
  PROVE  HtlcSpec => SettledOnce
<1>1. Escrow /\ [HtlcNext]_htlcVars => Escrow'
  BY StepKeepsEscrow
<1>2. Escrow /\ [HtlcNext]_htlcVars
        => [\A id \in Contracts :
              Locked(id) /\ htlcs'[id] # htlcs[id] =>
                /\ htlcs'[id] = NoLock
                /\ Gained(Htlc) = - htlcs[id].value
                /\ IF now <= htlcs[id].timelock
                   THEN Gained(Payee(id)) = htlcs[id].value
                   ELSE Gained(Owner[id]) = htlcs[id].value]_htlcVars
  BY StepKeepsEscrow, Zenon DEF Settles
<1> QED BY InitEscrow, <1>1, <1>2, PTL DEF HtlcSpec, SettledOnce

-----------------------------------------------------------------------------
(* Conservation, where tokens are locked and paid inline.                   *)

LEMMA StepBalances ==
  ASSUME DistinctSymbols, Escrow, [HtlcNext]_htlcVars
  PROVE  Balanced
<1>1. Sound /\ Token \in Tokens /\ Htlc \in Accounts /\ htlcs \in LockTables
  BY HtlcAssumption DEF Escrow
<1>2. ASSUME NEW a \in Accounts, NEW b \in Accounts, NEW v \in Amounts,
             Transfer({Htlc}, Token, a, b, v)
      PROVE  Balanced
  BY <1>1, <1>2, TransferOK
<1>3. ASSUME NEW id \in Contracts, NEW r \in Recipients, NEW v \in Amounts,
             NEW s \in Secrets, NEW tl \in 0 .. MaxTime, NewContract(id, r, v, s, tl)
      PROVE  Balanced
  BY <1>1, <1>2, <1>3, HtlcAssumption DEF NewContract
<1>4. ASSUME NEW id \in Contracts, Locked(id), NEW a \in Accounts, Pay(id, a)
      PROVE  Balanced
  <2>1. htlcs[id].value \in Amounts
    BY <1>1, <1>4 DEF LockTables, Lock, Locked
  <2> QED BY <1>1, <1>2, <1>4, <2>1 DEF Pay
<1>5. ASSUME NEW id \in Contracts, NEW s \in Secrets, Withdraw(id, s)
      PROVE  Balanced
  BY <1>4, <1>5, PayeeIsAccount DEF Withdraw
<1>6. ASSUME NEW id \in Contracts, Refund(id)
      PROVE  Balanced
  BY <1>4, <1>6, HtlcAssumption DEF Refund
<1>7. ASSUME row' = row, stat' = stat
      PROVE  Balanced
  BY <1>7, SameSupply
<1>8. (\E m \in Minima : SetConfig(m)) \/ UNCHANGED htlcVars
        => row' = row /\ stat' = stat
  BY DEF SetConfig, htlcVars, vars
<1>9. Next => Balanced
  BY <1>1, StepOK
<1> QED BY <1>3, <1>5, <1>6, <1>7, <1>8, <1>9, Zenon DEF HtlcNext

LEMMA EscrowStays ==
  ASSUME HtlcIsApart, DistinctSymbols, Escrow, Accounted, [HtlcNext]_htlcVars
  PROVE  (Escrow /\ Accounted)'
<1>1. Escrow' /\ Balanced
  BY StepKeepsEscrow, StepBalances
<1> QED BY <1>1, AccountedOK DEF Escrow

(* Locking, withdrawing and refunding through inline transfers, in any      *)
(* order with what the chain does to the tokens, leave the rows of every    *)
(* token adding up to its supply, within its maximum, as long as no two     *)
(* issuers mint one symbol.                                                 *)
THEOREM HtlcConserves ==
  ASSUME HtlcIsApart, DistinctSymbols
  PROVE  HtlcSpec => []Conservation
<1>1. HtlcInit => Escrow /\ Accounted
  BY InitEscrow, InitOK DEF HtlcInit, Accounted
<1>2. Escrow /\ Accounted /\ [HtlcNext]_htlcVars => (Escrow /\ Accounted)'
  BY EscrowStays
<1>3. Escrow /\ Accounted => Conservation
  BY DEF Escrow, Sound, Capped, Accounted, Conservation
<1> QED BY <1>1, <1>2, <1>3, PTL DEF HtlcSpec

-----------------------------------------------------------------------------
(* Nobody can be in the way of a refund.  ENABLED is outside what can be    *)
(* proved: Refund is taken apart into what it asks for and what it assigns, *)
(* a value to each variable.                                                *)

Debited(id, keep) == SubBalance(row[Token], Htlc, htlcs[id].value, keep)

CanRefund(id, keep) ==
  /\ Locked(id) /\ Expired(id)
  /\ MayTransfer(Token, Htlc, Owner[id])
  /\ CanSubBalance(Token, row[Token], Htlc, htlcs[id].value)
  /\ CanAdd({Htlc}, Token, Debited(id, keep), Owner[id], MaySkip)

RefundLeaves(id, keep) ==
  /\ auth' = {Owner[id]}
  /\ row' = [row EXCEPT ![Token] = AddBalance(Debited(id, keep), Owner[id], htlcs[id].value)]
  /\ htlcs' = [htlcs EXCEPT ![id] = NoLock]
  /\ UNCHANGED <<minimum, stat, req, allowance, deferred, now>>

LEMMA RefundParts ==
  ASSUME NEW id \in Contracts
  PROVE  Refund(id) <=> \E keep \in StackFlag : CanRefund(id, keep) /\ RefundLeaves(id, keep)
<1>1. Htlc \in {Htlc}
  OBVIOUS
<1> QED BY <1>1, Zenon DEF Refund, Pay, Transfer, CanRefund, RefundLeaves, Debited

LEMMA ExpiredCanBePaid ==
  ASSUME Escrow, NEW id \in Contracts, Locked(id), Expired(id),
         Usable(Htlc), Usable(Owner[id]), ~ Opt(Token, "paused"), NEW keep \in StackFlag
  PROVE  CanRefund(id, keep)
<1> DEFINE v == htlcs[id].value
           o == Owner[id]
           L == row[Token]
<1>1. /\ Token \in Tokens /\ Htlc \in Accounts /\ htlcs \in LockTables
      /\ o \in Accounts \ {Self, Htlc} /\ IsAccount(o)
  BY HtlcAssumption DEF Escrow
<1>2. LedgerOK(L)
  BY <1>1, TableOK DEF Escrow
<1>3. v \in Amounts /\ v \in Nat /\ v > 0 /\ L[Htlc].bal \in Nat /\ keep \in BOOLEAN
  <2>1. v \in Amounts
    BY <1>1 DEF LockTables, Lock, Locked
  <2> QED BY <1>1, <2>1, Domains, OwnedInt, ConstantsAssumption DEF Escrow, Sound
<1>4. v <= L[Htlc].bal
  <2>1. AmountsIn(htlcs)[id] = v
    BY <1>1 DEF AmountsIn, Locked
  <2>2. v <= LockedIn(htlcs)
    BY <1>1, <2>1, LocksNat, SumBoundsTerm, HtlcAssumption DEF LockedIn
  <2>3. L[Htlc].bal >= LockedIn(htlcs) /\ LockedIn(htlcs) \in Nat
    BY <1>1, LocksNat, LockedInTables DEF Escrow, EscrowBacked
  <2> QED BY <1>3, <2>2, <2>3
<1>5. stat[Token].exists /\ L[Htlc].open
  BY <1>1, <1>2, <1>3, <1>4 DEF Escrow, Issued, LedgerOK, NoRow
<1>6. MayTransfer(Token, Htlc, o)
  BY <1>1, <1>5 DEF MayTransfer
<1>7. CanSubBalance(Token, L, Htlc, v)
  BY <1>3, <1>4, <1>5 DEF CanSubBalance, Usable, CanAdd, Valid
<1>8. Debited(id, keep)[o] = L[o]
  BY <1>1, <1>2, <1>3, <1>4, SubBalanceRow DEF Debited, SameBut
<1>9. CanAdd({Htlc}, Token, Debited(id, keep), o, MaySkip)
  BY <1>8, Zenon DEF Usable, CanAdd, Valid
<1> QED BY <1>6, <1>7, <1>9 DEF CanRefund

(* Whatever was locked, settled, recalled, frozen or paused before, of any  *)
(* number of contracts, one that has expired can be refunded unless the     *)
(* issuer now blocks gxc.htlc or the owner, or pauses the token.            *)
THEOREM RefundsAreNotStopped ==
  ASSUME HtlcIsApart
  PROVE  HtlcSpec => [](\A id \in Contracts :
                          Locked(id) /\ Expired(id) /\ Usable(Htlc) /\ Usable(Owner[id])
                            /\ ~ Opt(Token, "paused")
                          => \E keep \in StackFlag : CanRefund(id, keep))
<1>1. HtlcInit => Escrow
  BY InitEscrow
<1>2. Escrow /\ [HtlcNext]_htlcVars => Escrow'
  BY StepKeepsEscrow
<1>3. Escrow
        => \A id \in Contracts :
             Locked(id) /\ Expired(id) /\ Usable(Htlc) /\ Usable(Owner[id])
               /\ ~ Opt(Token, "paused")
             => \E keep \in StackFlag : CanRefund(id, keep)
  <2>1. \E keep : keep \in StackFlag
    BY ConstantsAssumption
  <2> QED BY <2>1, ExpiredCanBePaid
<1> QED BY <1>1, <1>2, <1>3, PTL DEF HtlcSpec

=============================================================================
