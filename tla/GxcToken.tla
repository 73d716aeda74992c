------------------------------ MODULE GxcToken ------------------------------
(* The token contract gxc.token: currency statistics, account rows with a   *)
(* spendable balance and a deposit in the issuer's custody, delayed         *)
(* withdrawal requests with their deferred transaction, and allowances.     *)
(*                                                                          *)
(* An action of the contract is one transaction: every check that fails     *)
(* rolls the whole of it back, so a handler is one action whose guard is    *)
(* the conjunction of its checks.  An inline action runs in the transaction *)
(* that sends it and is part of the handler that sends it.                  *)
(*                                                                          *)
(* A definition right above another with the same parameters is a faulty    *)
(* variant of it: PROJECT.json names the property that rules it out.        *)
EXTENDS Integers, FiniteSets, Functions, FiniteSetsExt

CONSTANTS
  Accounts,       \* names that may hold a row: accounts and virtual accounts
  Self,           \* the account gxc.token, which escrows requested amounts
  Basename,       \* [Accounts -> Accounts]: the account that signs for a name
  Signers,        \* sets of accounts that may sign one transaction together
  Tokens,         \* the (issuer, symbol code) pairs a token may be minted for
  Issuer,         \* [Tokens -> Accounts]
  Symbol,         \* [Tokens -> ...]: the symbol, without the issuer
  Order,          \* [Tokens -> Nat]: position in an account's table
  Configs,        \* the options a token may be minted with
  Amounts,        \* the quantities operations are called with
  Limits,         \* the quantities approve is called with
  Spenders,       \* the accounts approve is called for
  DepositOwners,  \* the accounts deposit is called for
  MaxAmount,      \* asset::max_amount
  MaxTime,        \* bound on the clock of a run
  TimeWidth,      \* seconds a time_point_sec can count: 2^32
  StackFlag,      \* values an uninitialised bool of an account object holds
  DeferredExpires \* TRUE when a due deferred transaction may be lost

VARIABLES
  stat,      \* table stat: one currency_stats per token
  row,       \* table accounts: row[t][a]
  req,       \* table withdraws: req[o][t]
  allowance, \* table allowance: allowance[o][s][t], 0 when there is none
  deferred,  \* the deferred clrwithdraws of an owner: its time, or None
  now,       \* head block time, in seconds
  auth       \* who authorised the last transaction (read by no action)

vars == <<stat, row, req, allowance, deferred, now, auth>>

-----------------------------------------------------------------------------
(* Options are bits of opts_ in the code, names in a set here.              *)
InitOptions == {"mintable", "recallable", "freezable", "pausable",
                "whitelistable"}
LiveOptions == {"paused", "whitelist_on"}
AccountOptions == {"frozen", "whitelist"}

(* A vector of key_value pairs: the keys it names and their new values.     *)
Changes(keys) == UNION {[K -> BOOLEAN] : K \in SUBSET keys}
Apply(opts, chg) == (opts \ DOMAIN chg) \cup {k \in DOMAIN chg : chg[k]}

NoStat == [exists |-> FALSE, supply |-> 0, max |-> 0, opts |-> {},
           delay |-> 0, min |-> 0]
NoRow == [open |-> FALSE, bal |-> 0, dep |-> 0, opts |-> {}]
NoReq == [qty |-> 0, time |-> 0]
None == -1

ASSUME ConstantsAssumption ==
  /\ IsFiniteSet(Accounts) /\ IsFiniteSet(Tokens)
  /\ Self \in Accounts
  /\ Basename \in [Accounts -> Accounts]
  /\ Issuer \in [Tokens -> Accounts]
  /\ Signers \subseteq SUBSET {a \in Accounts \ {Self} : Basename[a] = a}
  /\ Order \in [Tokens -> Nat]
  /\ DepositOwners \subseteq Accounts /\ Spenders \subseteq Accounts
  /\ MaxAmount \in Nat /\ MaxTime \in Nat /\ TimeWidth \in Nat \ {0}
  /\ Amounts \subseteq 1 .. MaxAmount /\ Limits \subseteq 0 .. MaxAmount
  /\ StackFlag \subseteq BOOLEAN /\ StackFlag # {}
  /\ DeferredExpires \in BOOLEAN

(* The table stat is scoped by the issuer and keyed by the symbol code.     *)
ASSUME TokensAssumption ==
  \A t, u \in Tokens : Issuer[t] = Issuer[u] /\ Symbol[t] = Symbol[u] => t = u

ASSUME ConfigsAssumption ==
  Configs \subseteq [opts : SUBSET (InitOptions \cup LiveOptions),
                     delay : Nat, min : 0 .. MaxAmount]

Opt(t, o) == o \in stat[t].opts

IsAccount(n) == Basename[n] = n
HasVauth(signers, n) == Basename[n] \in signers

MayRecallByAnyone(signers, t) == Opt(t, "recallable")
(* The issuer moves deposits of a recallable token it issued.               *)
MayRecall(signers, t) == Opt(t, "recallable") /\ HasVauth(signers, Issuer[t])

-----------------------------------------------------------------------------
(* The class account: L is the table of one token, [Accounts -> row].  The  *)
(* flags keep_balance and skip_valid are never initialised, so an account   *)
(* object starts with any value of StackFlag in each.                       *)

Row == [open : BOOLEAN, bal : Nat, dep : Nat, opts : SUBSET AccountOptions]
Ledger == [Accounts -> Row]

MaySkip == TRUE \in StackFlag
MustSkip == FALSE \notin StackFlag

ValidUnlisted(t, r, a, skip) == skip \/ a = Self \/ "frozen" \notin r.opts
Valid(t, r, a, skip) ==
  \/ skip
  \/ a = Self
  \/ "frozen" \notin r.opts /\ (Opt(t, "whitelist_on") => "whitelist" \in r.opts)

(* An emptied row without options is erased unless the caller keeps it.     *)
KeptByBalance(r, keep) == IF r.bal = 0 /\ r.opts = {} /\ ~ keep THEN NoRow ELSE r
KeptByDeposit(r, keep) == IF r.dep = 0 /\ r.opts = {} /\ ~ keep THEN NoRow ELSE r
Kept(r, keep) ==
  IF r.bal = 0 /\ r.dep = 0 /\ r.opts = {} /\ ~ keep THEN NoRow ELSE r

CanSubBalance(t, L, a, v) == Valid(t, L[a], a, MaySkip) /\ L[a].bal >= v
SubBalance(L, a, v, keep) ==
  [L EXCEPT ![a] = Kept([L[a] EXCEPT !.bal = L[a].bal - v], keep)]

CanOverdraw(t, L, a, v) == Valid(t, L[a], a, MaySkip)
CanSubDeposit(t, L, a, v) == Valid(t, L[a], a, MaySkip) /\ L[a].dep >= v
SubDeposit(L, a, v, keep) ==
  [L EXCEPT ![a] = Kept([L[a] EXCEPT !.dep = L[a].dep - v], keep)]

(* add_balance and add_deposit create a missing row, which a token with its *)
(* whitelist on leaves to the issuer.                                       *)
CanOpen(signers, t) == Opt(t, "whitelist_on") => HasVauth(signers, Issuer[t])
CanAdd(signers, t, L, a, skip) ==
  IF L[a].open THEN Valid(t, L[a], a, skip) ELSE CanOpen(signers, t)
AddBalance(L, a, v) ==
  [L EXCEPT ![a] = [L[a] EXCEPT !.open = TRUE, !.bal = L[a].bal + v]]
AddDeposit(L, a, v) ==
  [L EXCEPT ![a] = [L[a] EXCEPT !.open = TRUE, !.dep = L[a].dep + v]]

-----------------------------------------------------------------------------
(* The class requests.                                                      *)

Pending(rq, o) == {t \in Tokens : rq[o][t].qty > 0}
Due(rq, o) == {t \in Pending(rq, o) : rq[o][t].time <= now}

(* When the next deferred clrwithdraws of o runs: at its earliest request.  *)
HeadLast(rq, o) ==
  IF Pending(rq, o) = {} THEN None
  ELSE Max({rq[o][t].time : t \in Pending(rq, o)})
Head(rq, o) ==
  IF Pending(rq, o) = {} THEN None
  ELSE Min({rq[o][t].time : t \in Pending(rq, o)})

(* A due request pays the balance, or reverts to the deposit of an account  *)
(* that is frozen.                                                          *)
CanSettleOpen(signers, t, L, o, q, skip) ==
  L[Self].bal >= q /\ CanAdd(signers, t, L, o, skip)
CanSettle(signers, t, L, o, q, skip) ==
  /\ L[Self].bal >= q
  /\ "frozen" \in L[o].opts \/ CanAdd(signers, t, L, o, skip)
SettleFromNowhere(L, o, q, keep) == AddBalance(L, o, q)
SettleUnlessFrozen(L, o, q, keep) ==
  LET paid == SubBalance(L, Self, q, keep)
  IN  IF "frozen" \in paid[o].opts THEN paid ELSE AddBalance(paid, o, q)
Settle(L, o, q, keep) ==
  LET paid == SubBalance(L, Self, q, keep)
  IN  IF "frozen" \in paid[o].opts THEN AddDeposit(paid, o, q)
      ELSE AddBalance(paid, o, q)

CanClear(signers, rw, rq, o, skip) ==
  \A t \in Due(rq, o) : CanSettle(signers, t, rw[t], o, rq[o][t].qty, skip)

(* refresh_schedule, from the tables rw and rq that a handler leaves: when  *)
(* the head is due, the inline clrwithdraws settles every due request and   *)
(* schedules the rest; otherwise the deferred transaction is replaced.      *)
Refresh(signers, rw, rq, o) ==
  /\ CanClear(signers, rw, rq, o, MaySkip)
  /\ \E keep \in [Due(rq, o) -> StackFlag] :
       row' = [t \in Tokens |->
                 IF t \in Due(rq, o)
                 THEN Settle(rw[t], o, rq[o][t].qty, keep[t]) ELSE rw[t]]
  /\ req' = [rq EXCEPT ![o] =
               [t \in Tokens |-> IF t \in Due(rq, o) THEN NoReq ELSE @[t]]]
  /\ deferred' = [deferred EXCEPT ![o] = Head(req', o)]

-----------------------------------------------------------------------------
(* Issuer operations.                                                       *)

(* _setopts: the options after the changes must be allowed.                 *)
OptionsAllowed(opts, init) ==
  /\ "paused" \in opts => init \/ "pausable" \in opts
  /\ "whitelist_on" \in opts => "whitelistable" \in opts

Minted(v, c) ==
  [exists |-> TRUE, supply |-> 0, max |-> v, opts |-> c.opts,
   delay |-> c.delay % TimeWidth, min |-> c.min]

MintNew(t, v, c) ==
  /\ ~ stat[t].exists
  /\ OptionsAllowed(c.opts, TRUE)
  /\ stat' = [stat EXCEPT ![t] = Minted(v, c)]
  /\ UNCHANGED <<row, req, allowance, deferred, now>>

MintMoreUncapped(t, v, chg) ==
  /\ stat[t].exists /\ Opt(t, "mintable")
  /\ OptionsAllowed(Apply(stat[t].opts, chg), FALSE)
  /\ stat' = [stat EXCEPT ![t].max = @ + v, ![t].opts = Apply(@, chg)]
  /\ UNCHANGED <<row, req, allowance, deferred, now>>
MintMore(t, v, chg) ==
  LET opts == Apply(stat[t].opts, chg)
  IN  /\ stat[t].exists
      /\ Opt(t, "mintable")
      /\ stat[t].max + v <= MaxAmount
      /\ OptionsAllowed(opts, FALSE)
      /\ stat' = [stat EXCEPT ![t].max = @ + v, ![t].opts = opts]
      /\ UNCHANGED <<row, req, allowance, deferred, now>>

SetOpts(signers, t, chg) ==
  LET opts == Apply(stat[t].opts, chg)
  IN  /\ stat[t].exists
      /\ DOMAIN chg # {}
      /\ HasVauth(signers, Issuer[t])
      /\ OptionsAllowed(opts, FALSE)
      /\ stat' = [stat EXCEPT ![t].opts = opts]
      /\ UNCHANGED <<row, req, allowance, deferred, now>>

(* setacntopts and setacntsopts: every account or none.                     *)
SetAccountOpts(signers, t, A, chg) ==
  /\ stat[t].exists
  /\ DOMAIN chg # {}
  /\ HasVauth(signers, Issuer[t])
  /\ "frozen" \in DOMAIN chg => Opt(t, "freezable")
  /\ "whitelist" \in DOMAIN chg => Opt(t, "whitelistable")
  /\ \A a \in A : /\ row[t][a].open
                  /\ \A k \in DOMAIN chg : (k \in row[t][a].opts) # chg[k]
  /\ row' = [row EXCEPT ![t] =
               [a \in Accounts |->
                  IF a \in A
                  THEN [row[t][a] EXCEPT !.opts = Apply(row[t][a].opts, chg)]
                  ELSE row[t][a]]]
  /\ UNCHANGED <<stat, req, allowance, deferred, now>>

(* transfer from gxc.null.                                                  *)
Issue(signers, t, to, v) ==
  /\ stat[t].exists
  /\ IsAccount(to)
  /\ HasVauth(signers, Issuer[t])
  /\ v <= stat[t].max - stat[t].supply
  /\ CanAdd(signers, t, row[t], to, MaySkip)
  /\ stat' = [stat EXCEPT ![t].supply = @ + v]
  /\ row' = [row EXCEPT ![t] =
               IF Opt(t, "recallable") /\ to # Issuer[t]
               THEN AddDeposit(@, to, v) ELSE AddBalance(@, to, v)]
  /\ UNCHANGED <<req, allowance, deferred, now>>

(* transfer to gxc.null: by the holder, or recalled by the issuer.          *)
Retire(signers, t, a, v) ==
  /\ stat[t].exists
  /\ \E keep \in StackFlag :
       \/ /\ a \in signers
          /\ CanSubBalance(t, row[t], a, v)
          /\ row' = [row EXCEPT ![t] = SubBalance(@, a, v, keep)]
       \/ /\ a \notin signers /\ MayRecall(signers, t)
          /\ CanSubDeposit(t, row[t], a, v)
          /\ row' = [row EXCEPT ![t] = SubDeposit(@, a, v, keep)]
  /\ stat' = [stat EXCEPT ![t].supply = @ - v]
  /\ UNCHANGED <<req, allowance, deferred, now>>

Burn(signers, t, v) ==
  /\ stat[t].exists
  /\ HasVauth(signers, Issuer[t]) \/ Self \in signers
  /\ CanSubBalance(t, row[t], Issuer[t], v)
  /\ \E keep \in StackFlag :
       row' = [row EXCEPT ![t] = SubBalance(@, Issuer[t], v, keep)]
  /\ stat' = [stat EXCEPT ![t].supply = @ - v, ![t].max = @ - v]
  /\ UNCHANGED <<req, allowance, deferred, now>>

-----------------------------------------------------------------------------
(* Transfers.                                                               *)

MayTransfer(t, from, to) ==
  stat[t].exists /\ from # to /\ IsAccount(to) /\ ~ Opt(t, "paused")

SpendFreely(t, from, to, v) ==
  allowance[from][to][t] >= v /\ UNCHANGED allowance
SubAllowance(t, from, to, v) ==
  /\ allowance[from][to][t] >= v
  /\ allowance' = [allowance EXCEPT ![from][to][t] = @ - v]

(* By the holder, or by the receiver within its allowance.  An issuer that  *)
(* signs recalls instead, whoever else signs.                               *)
Transfer(signers, t, from, to, v) ==
  /\ MayTransfer(t, from, to)
  /\ \/ from \in signers /\ UNCHANGED allowance
     \/ /\ from \notin signers /\ ~ MayRecall(signers, t) /\ to \in signers
        /\ SubAllowance(t, from, to, v)
  /\ CanSubBalance(t, row[t], from, v)
  /\ \E keep \in StackFlag :
       LET debited == SubBalance(row[t], from, v, keep)
       IN  /\ CanAdd(signers, t, debited, to, MaySkip)
           /\ row' = [row EXCEPT ![t] = AddBalance(debited, to, v)]
  /\ UNCHANGED <<stat, req, deferred, now>>

(* By the issuer, from the deposit alone.                                   *)
RecallDeposit(signers, t, from, to, v) ==
  /\ MayTransfer(t, from, to)
  /\ from \notin signers /\ MayRecall(signers, t)
  /\ CanSubDeposit(t, row[t], from, v)
  /\ \E keep \in StackFlag :
       LET debited == SubDeposit(row[t], from, v, keep)
       IN  /\ CanAdd(signers, t, debited, to, MaySkip)
           /\ row' = [row EXCEPT ![t] = AddBalance(debited, to, v)]
  /\ UNCHANGED <<stat, req, allowance, deferred, now>>

(* By the issuer, from the deposit and part of the withdrawal request.  The *)
(* schedule is refreshed only when the request is used up.                  *)
RecallRequested(signers, t, from, to, v) ==
  LET dep  == row[t][from].dep
      left == v - dep
      q    == req[from][t].qty
  IN  /\ MayTransfer(t, from, to)
      /\ from \notin signers /\ MayRecall(signers, t)
      /\ row[t][from].open
      /\ dep < v /\ q > 0 /\ q >= left
      /\ CanSubBalance(t, row[t], Self, left)
      /\ Valid(t, row[t][from], from, MaySkip)
      /\ \E k1, k2 \in StackFlag :
           LET escrow  == SubBalance(row[t], Self, left, k1)
               debited == SubDeposit(escrow, from, dep, k2)
               rw      == [row EXCEPT ![t] = AddBalance(debited, to, v)]
           IN  /\ CanAdd(signers, t, debited, to, MaySkip)
               /\ \/ /\ q > left
                     /\ req' = [req EXCEPT ![from][t].qty = @ - left]
                     /\ row' = rw
                     /\ UNCHANGED deferred
                  \/ /\ q = left
                     /\ Refresh({from}, rw, [req EXCEPT ![from][t] = NoReq], from)
      /\ UNCHANGED <<stat, allowance, now>>

-----------------------------------------------------------------------------
(* Deposits and withdrawals.                                                *)

(* deposit asks for no authority.  Both steps use one account object: when  *)
(* the first erases the row, the object moves on to the next row of the     *)
(* owner's table, and the second adds the deposit to that row.  A validity  *)
(* check consumes skip_valid, so the second check is never skipped.         *)
NextRows(t, o) == {u \in Tokens : row[u][o].open /\ Order[u] > Order[t]}

Deposit(t, o, v) ==
  /\ stat[t].exists
  /\ Opt(t, "recallable")
  /\ CanSubBalance(t, row[t], o, v)
  /\ UNCHANGED <<stat, req, allowance, deferred, now>>

DepositInRow(signers, t, o, v) ==
  /\ Deposit(t, o, v)
  /\ \E keep \in StackFlag :
       LET debited == SubBalance(row[t], o, v, keep)
       IN  /\ debited[o].open \/ NextRows(t, o) = {}
           /\ CanAdd(signers, t, debited, o, FALSE)
           /\ row' = [row EXCEPT ![t] = AddDeposit(debited, o, v)]

DepositInNextRow(t, o, v) ==
  /\ Deposit(t, o, v)
  /\ \E keep \in StackFlag, u \in NextRows(t, o) :
       LET debited == SubBalance(row[t], o, v, keep)
       IN  /\ ~ debited[o].open
           /\ \A w \in NextRows(t, o) : Order[u] <= Order[w]
           /\ Symbol[u] = Symbol[t]
           /\ Valid(t, row[u][o], o, FALSE)
           /\ row' = [row EXCEPT ![t] = debited, ![u] = AddDeposit(@, o, v)]

RequestedBefore(t, o, v) ==
  [qty  |-> req[o][t].qty + v,
   time |-> IF req[o][t].qty > 0 THEN req[o][t].time ELSE now + stat[t].delay]
Requested(t, o, v) ==
  [qty  |-> req[o][t].qty + v,
   time |-> (now + stat[t].delay) % TimeWidth]

(* pushwithdraw: the whole request waits the delay again.                   *)
PushWithdraw(signers, t, o, v) ==
  LET debited == SubDeposit(row[t], o, v, TRUE)
  IN  /\ stat[t].exists
      /\ o \in signers
      /\ Opt(t, "recallable")
      /\ v >= stat[t].min
      /\ CanSubDeposit(t, row[t], o, v)
      /\ CanAdd(signers, t, debited, Self, MaySkip)
      /\ Refresh({o}, [row EXCEPT ![t] = AddBalance(debited, Self, v)],
                 [req EXCEPT ![o][t] = Requested(t, o, v)], o)
      /\ UNCHANGED <<stat, allowance, now>>

(* popwithdraw: the schedule is left as it is.                              *)
PopWithdraw(signers, t, o) ==
  LET q == req[o][t].qty
  IN  /\ o \in signers
      /\ q > 0
      /\ CanSubBalance(t, row[t], Self, q)
      /\ \E keep \in StackFlag :
           LET released == SubBalance(row[t], Self, q, keep)
           IN  /\ CanAdd(signers, t, released, o, MaySkip)
               /\ row' = [row EXCEPT ![t] = AddDeposit(released, o, q)]
      /\ req' = [req EXCEPT ![o][t] = NoReq]
      /\ UNCHANGED <<stat, allowance, deferred, now>>

(* clrwithdraws, sent by the owner.                                         *)
ClrWithdraws(signers, o) ==
  /\ o \in signers
  /\ Pending(req, o) # {}
  /\ Refresh(signers, row, req, o)
  /\ UNCHANGED <<stat, allowance, now>>

-----------------------------------------------------------------------------
(* Rows and allowances.                                                     *)

Open(t, o) ==
  /\ stat[t].exists
  /\ row' = [row EXCEPT ![t][o].open = TRUE]
  /\ UNCHANGED <<stat, req, allowance, deferred, now>>

Close(signers, t, o) ==
  /\ stat[t].exists
  /\ o \in signers
  /\ row[t][o].open /\ row[t][o].bal = 0 /\ row[t][o].dep = 0
  /\ row' = [row EXCEPT ![t][o] = NoRow]
  /\ UNCHANGED <<stat, req, allowance, deferred, now>>

Approve(signers, t, o, s, v) ==
  /\ stat[t].exists
  /\ o \in signers
  /\ v > 0 \/ allowance[o][s][t] > 0
  /\ allowance' = [allowance EXCEPT ![o][s][t] = v]
  /\ UNCHANGED <<stat, row, req, deferred, now>>

-----------------------------------------------------------------------------
(* The chain: the clock, and the one deferred clrwithdraws an owner has.    *)

Tick ==
  /\ now < MaxTime
  /\ now' = now + 1
  /\ auth' = {}
  /\ UNCHANGED <<stat, row, req, allowance, deferred>>

DeferredDue(o) == deferred[o] # None /\ deferred[o] <= now

RunDeferred(o) ==
  /\ DeferredDue(o)
  /\ Pending(req, o) # {}
  /\ Refresh({o}, row, req, o)
  /\ auth' = {o}
  /\ UNCHANGED <<stat, allowance, now>>

(* A deferred transaction whose action fails is dropped, and so may one be  *)
(* that is not run before it expires.                                       *)
DropDeferred(o) ==
  /\ DeferredDue(o)
  /\ \/ DeferredExpires
     \/ Pending(req, o) = {}
     \/ ~ CanClear({o}, row, req, o, MustSkip)
  /\ deferred' = [deferred EXCEPT ![o] = None]
  /\ auth' = {}
  /\ UNCHANGED <<stat, row, req, allowance, now>>

-----------------------------------------------------------------------------
Init ==
  /\ stat = [t \in Tokens |-> NoStat]
  /\ row = [t \in Tokens |-> [a \in Accounts |-> NoRow]]
  /\ req = [o \in Accounts |-> [t \in Tokens |-> NoReq]]
  /\ allowance = [o \in Accounts |-> [s \in Accounts |-> [t \in Tokens |-> 0]]]
  /\ deferred = [o \in Accounts |-> None]
  /\ now = 0
  /\ auth = {}

(* Transactions gxc.token signs itself: mint, and burn through gxc.reserve. *)
ContractStep ==
  /\ auth' = {Self}
  /\ \E t \in Tokens, v \in Amounts :
       \/ \E c \in Configs : MintNew(t, v, c)
       \/ \E chg \in Changes(LiveOptions) : MintMore(t, v, chg)
       \/ Burn({Self}, t, v)

IssuerStep(s) ==
  \/ \E t \in Tokens, chg \in Changes(LiveOptions) : SetOpts(s, t, chg)
  \/ \E t \in Tokens, A \in SUBSET Accounts, chg \in Changes(AccountOptions) :
       SetAccountOpts(s, t, A, chg)
  \/ \E t \in Tokens, a \in Accounts, v \in Amounts : Issue(s, t, a, v)
  \/ \E t \in Tokens, v \in Amounts : Burn(s, t, v)
  \/ \E t \in Tokens, a, b \in Accounts, v \in Amounts :
       RecallDeposit(s, t, a, b, v) \/ RecallRequested(s, t, a, b, v)

HolderStep(s) ==
  \/ \E t \in Tokens, a, b \in Accounts, v \in Amounts : Transfer(s, t, a, b, v)
  \/ \E t \in Tokens, a \in Accounts, v \in Amounts :
       Retire(s, t, a, v) \/ PushWithdraw(s, t, a, v)
  \/ \E t \in Tokens, a \in DepositOwners, v \in Amounts :
       DepositInRow(s, t, a, v) \/ DepositInNextRow(t, a, v)
  \/ \E t \in Tokens, a \in Accounts :
       PopWithdraw(s, t, a) \/ Open(t, a) \/ Close(s, t, a)
  \/ \E a \in Accounts : ClrWithdraws(s, a)
  \/ \E t \in Tokens, a \in Accounts, b \in Spenders, v \in Limits :
       Approve(s, t, a, b, v)

Next ==
  \/ ContractStep
  \/ \E s \in Signers : auth' = s /\ (IssuerStep(s) \/ HolderStep(s))
  \/ Tick
  \/ \E o \in Accounts : RunDeferred(o) \/ DropDeferred(o)

Spec == Init /\ [][Next]_vars

(* The clock advances and the chain runs a deferred transaction that stays  *)
(* due; nobody is obliged to send one of their own.                         *)
Fairness ==
  /\ WF_vars(Tick)
  /\ \A o \in Accounts : WF_vars(RunDeferred(o))

LiveSpec == Spec /\ Fairness

-----------------------------------------------------------------------------
(* Properties.                                                              *)

Stat == [exists : BOOLEAN, supply : Int, max : Int,
         opts : SUBSET (InitOptions \cup LiveOptions), delay : Nat, min : Nat]

(* Types of the tables: balances and deposits never go negative, because    *)
(* sub_balance and sub_deposit check them, and what is absent is all zero.  *)
TypeOK ==
  /\ stat \in [Tokens -> Stat]
  /\ row \in [Tokens -> Ledger]
  /\ req \in [Accounts -> [Tokens -> [qty : Nat, time : Nat]]]
  /\ allowance \in [Accounts -> [Accounts -> [Tokens -> Nat]]]
  /\ deferred \in [Accounts -> Nat \cup {None}]
  /\ now \in 0 .. MaxTime
  /\ auth \in SUBSET Accounts
  /\ \A t \in Tokens : ~ stat[t].exists => stat[t] = NoStat
  /\ \A t \in Tokens, a \in Accounts : ~ row[t][a].open => row[t][a] = NoRow

Held(L) == SumFunctionOnSet([a \in Accounts |-> L[a].bal + L[a].dep], Accounts)
Escrowed(rq, t) == SumFunctionOnSet([o \in Accounts |-> rq[o][t].qty], Accounts)

(* No operation creates or destroys tokens behind the statistics: the rows  *)
(* of a token add up to its supply, which stays within the maximum.  Issue, *)
(* retire and burn move the supply, everything else moves the rows only.    *)
Conservation ==
  \A t \in Tokens : /\ stat[t].supply = Held(row[t])
                    /\ stat[t].supply <= stat[t].max
                    /\ stat[t].max <= MaxAmount

(* The balance gxc.token holds covers every withdrawal request of a token,  *)
(* so that clrwithdraws, popwithdraw and recall find what they pay out.     *)
EscrowSolvent == \A t \in Tokens : row[t][Self].bal >= Escrowed(req, t)

(* An owner with requests has a deferred clrwithdraws, no later than the    *)
(* earliest of them: no request is forgotten by refresh_schedule, which     *)
(* popwithdraw and a partial recall do not call.                            *)
Scheduled ==
  \A o \in Accounts : \A t \in Pending(req, o) :
     deferred[o] # None /\ deferred[o] <= req[o][t].time

(* What an account owns of a token: balance, deposit and request.           *)
Owns(t, a) == row[t][a].bal + row[t][a].dep + req[a][t].qty

(* The issuer of a recallable token signed, and the balance did not pay.    *)
Recalled(t, a) ==
  /\ HasVauth(auth', Issuer[t]) /\ Opt(t, "recallable")
  /\ row'[t][a].bal >= row[t][a].bal
SpentAllowance(t, a) ==
  \E s \in auth' : allowance[a][s][t] - allowance'[a][s][t] = Owns(t, a) - Owns(t, a)'
Burned(t, a) == a = Issuer[t] /\ (Self \in auth' \/ HasVauth(auth', a))

(* An account loses tokens only when it signs, when a spender it approved   *)
(* takes exactly what the allowance loses, when the issuer recalls from its *)
(* deposit or request and never its balance, or when its own are burned.    *)
LossIsAuthorised ==
  [][\A t \in Tokens, a \in Accounts \ {Self} :
       Owns(t, a)' < Owns(t, a) =>
         a \in auth' \/ Recalled(t, a) \/ SpentAllowance(t, a) \/ Burned(t, a)]_vars

Blocked(t, a) ==
  /\ row[t][a].open /\ a # Self
  /\ \/ "frozen" \in row[t][a].opts
     \/ Opt(t, "whitelist_on") /\ "whitelist" \notin row[t][a].opts

(* While an account is frozen, or not on the whitelist in force, nothing    *)
(* moves into or out of it: its balance and what it owns stay the same,     *)
(* whoever signs, and a request that matures meanwhile reverts to deposit.  *)
BlockedIsInert ==
  [][\A t \in Tokens, a \in Accounts :
       Blocked(t, a) => /\ row'[t][a].bal = row[t][a].bal
                        /\ Owns(t, a)' = Owns(t, a)]_vars

(* A deposit leaves custody through a request that waits the whole delay,   *)
(* counted from the last pushwithdraw, even when it joins an older request. *)
WithdrawalWaits ==
  [][\A t \in Tokens, o \in Accounts \ {Self} :
       row'[t][o].dep < row[t][o].dep /\ Owns(t, o)' = Owns(t, o) =>
         \/ stat[t].delay = 0
         \/ req'[o][t].qty > 0 /\ req'[o][t].time >= now + stat[t].delay]_vars

(* A request whose time comes within the run is paid, reverted, recalled or *)
(* put off by its owner: the deferred transactions reach every one.         *)
MaturedIsSettled ==
  \A o \in Accounts, t \in Tokens :
    (req[o][t].qty > 0 /\ req[o][t].time <= MaxTime) ~>
      (req[o][t].qty = 0 \/ req[o][t].time > MaxTime)

(* The contract implements TokenLedger: an account's claim is its balance,  *)
(* deposit and request together, and the escrow of gxc.token belongs to the *)
(* accounts that requested it.                                              *)
Owned(t, a) == IF a = Self THEN Owns(t, a) - Escrowed(req, t) ELSE Owns(t, a)

Abstract == INSTANCE TokenLedger WITH
  supply <- [t \in Tokens |-> stat[t].supply],
  max    <- [t \in Tokens |-> stat[t].max],
  claim  <- [t \in Tokens |-> [a \in Accounts |-> Owned(t, a)]]

ImplementsLedger == Abstract!Spec

=============================================================================
