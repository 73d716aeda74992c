----------------------------- MODULE GxcReserve -----------------------------
(* The contract gxc.reserve, composed with the token contract and the game  *)
(* registry of gxc.account.  A game account mints a derivative token        *)
(* against an amount of the system token, and holders claim their share of  *)
(* that amount by burning theirs.                                           *)
(*                                                                          *)
(* The inline actions of a handler run in its transaction, in the order     *)
(* they were sent: each finds the tables the one before it left, and if one *)
(* fails none of it happens.                                                *)
(*                                                                          *)
(* A definition right above another with the same parameters is a faulty    *)
(* variant of it: PROJECT.json names the property that rules it out.        *)
EXTENDS GxcToken

CONSTANTS
  Reserve,     \* the account gxc.reserve
  Core,        \* the system token, issued by gxc
  Derivatives, \* the tokens minted through gxc.reserve, and no other way
  Games,       \* the accounts gxc.account registers as games
  Offers,      \* what mint is called with: derivative and underlying amounts
  Delays,      \* the withdraw options of mint
  Precision,   \* a double is off by no more than one part in as many
  Holders      \* the accounts that hold a derivative token in a run

ASSUME ReserveAssumption ==
  /\ Reserve \in Accounts \ {Self} /\ Basename[Reserve] = Reserve
  /\ Core \in Tokens /\ Derivatives \subseteq Tokens \ {Core}
  /\ \A t \in Tokens : Issuer[t] # Reserve
  /\ Games \subseteq Accounts
  /\ Holders \in [Derivatives -> SUBSET Accounts]
  /\ Offers \in [Derivatives -> SUBSET [derivative : 1 .. MaxAmount,
                                        underlying : 1 .. MaxAmount]]
  /\ Delays \subseteq [delay : Nat, min : 0 .. MaxAmount]
  /\ Precision \in Nat \ {0}

VARIABLES
  reserves, \* table reserve: what is left to claim and what is left for it
  games     \* table game of gxc.account

reserveVars == <<reserves, games, vars>>

NoReserve == [derivative |-> 0, underlying |-> 0, rate |-> <<0, 1>>]
Reserved(t) == reserves[t] # NoReserve

-----------------------------------------------------------------------------
(* setgame of gxc.account, by its own authority.                            *)
SetGame(a) ==
  /\ auth' = {}
  /\ games' = IF a \in games THEN games \ {a} ELSE games \cup {a}
  /\ UNCHANGED <<reserves, stat, row, req, allowance, deferred, now>>

(* The tables an inline transfer may leave, L being that of its token and   *)
(* signers who gave their authority to the inline action.                   *)
Moved(signers, t, L, from, to, v) ==
  {AddBalance(SubBalance(L, from, v, keep), to, v) :
     keep \in {k \in StackFlag :
                 /\ MayTransfer(t, from, to)
                 /\ CanSubBalance(t, L, from, v)
                 /\ CanAdd(signers, t, SubBalance(L, from, v, k), to, MaySkip)}}

(* Signed by the receiver alone, which spends an allowance.                 *)
Collected(to, t, from, v) ==
  IF allowance[from][to][t] >= v THEN Moved({to}, t, row[t], from, to, v) ELSE {}
Spend(from, to, t, v) == [allowance EXCEPT ![from][to][t] = @ - v]

(* The options a token gets when mint names none but the withdraw ones.     *)
Default(w) ==
  [opts |-> {"mintable", "recallable", "freezable"}, delay |-> w.delay, min |-> w.min]

Mint(signers, t, offer, w) ==
  LET issuer == Basename[Issuer[t]]
  IN  /\ HasVauth(signers, Issuer[t]) /\ issuer \in games
      /\ ~ Reserved(t) /\ ~ stat[t].exists
      /\ reserves' = [reserves EXCEPT ![t] =
                        [derivative |-> offer.derivative,
                         underlying |-> offer.underlying,
                         rate |-> <<offer.underlying, offer.derivative>>]]
      /\ \E L \in Collected(Reserve, Core, issuer, offer.underlying) :
           row' = [row EXCEPT ![Core] = L]
      /\ allowance' = Spend(issuer, Reserve, Core, offer.underlying)
      /\ stat' = [stat EXCEPT ![t] = Minted(offer.derivative, Default(w))]
      /\ auth' = signers
      /\ UNCHANGED <<req, deferred, now, games>>

(* int64_t(x) of a double x that is computed for n / d: each step rounds,   *)
(* up or down, so x may be cut to one more than n / d or to one less, and   *)
(* beyond Precision units by more.                                          *)
Cut(n, d) ==
  (n * (Precision - 1)) \div (d * Precision) .. (n * (Precision + 1)) \div (d * Precision)
ShareUp(v, rate) == {(v * rate[1] + rate[2] - 1) \div rate[2]}
(* The share of v in the underlying.                                        *)
Share(v, rate) == Cut(v * rate[1], rate[2])

LessDerivative(t, v, c) == reserves' = [reserves EXCEPT ![t].derivative = @ - v]
LessSwapped(t, v, c) ==
  reserves' = [reserves EXCEPT ![t].derivative = @ - c, ![t].underlying = @ - v]
LessReserved(t, v, c) ==
  reserves' = [reserves EXCEPT ![t].derivative = @ - v, ![t].underlying = @ - c]

BurntFirst(t, L, v) ==
  UNION {Moved({Reserve}, t, SubBalance(L, Issuer[t], v, keep),
               Reserve, Basename[Issuer[t]], v) :
           keep \in {k \in StackFlag : CanSubBalance(t, L, Issuer[t], v)}}
(* What claim does with the derivative once gxc.reserve holds it: it goes   *)
(* on to the account of its issuer and is burned there.                     *)
Burnt(t, L, v) ==
  LET issuer == Basename[Issuer[t]]
  IN  {SubBalance(M, Issuer[t], v, keep) :
         keep \in StackFlag,
         M \in {N \in Moved({Reserve}, t, L, Reserve, issuer, v) :
                  CanSubBalance(t, N, Issuer[t], v)}}

BurnClaimed(t, v) ==
  stat' = [stat EXCEPT ![t].supply = @ - v, ![t].max = @ - v]

(* Four inline actions: the derivative comes from the owner, moves on and   *)
(* is burned; the share goes to the owner.                                  *)
Claim(t, owner, v, c) ==
  /\ Reserved(t) /\ stat[t].exists
  /\ c > 0
  /\ \E L1 \in Collected(Reserve, t, owner, v) : \E L2 \in Burnt(t, L1, v) :
     \E C \in Moved({Reserve}, Core, row[Core], Reserve, owner, c) :
       row' = [row EXCEPT ![t] = L2, ![Core] = C]
  /\ allowance' = Spend(owner, Reserve, t, v)
  /\ BurnClaimed(t, v)
  /\ LessReserved(t, v, c)
  /\ auth' = {owner}
  /\ UNCHANGED <<req, deferred, now, games>>

-----------------------------------------------------------------------------
(* What the rest of the chain does to the tokens meanwhile.  gxc.reserve    *)
(* signs nothing but its inline transfers.                                  *)
DerivativeStep(s) ==
  \E t \in Derivatives, v \in Amounts :
    \/ Burn(s, t, v)
    \/ \E a \in Holders[t] :
         \/ Issue(s, t, a, v)
         \/ \E b \in Holders[t] : Transfer(s, t, a, b, v) \/ RecallDeposit(s, t, a, b, v)
         \/ \E chg \in Changes({"frozen"}) : SetAccountOpts(s, t, {a}, chg)

(* System tokens move elsewhere without being seen here, but for those that *)
(* come to gxc.reserve.                                                     *)
TokenStep(s) ==
  \/ DerivativeStep(s)
  \/ \E a \in Accounts, v \in Amounts : Transfer(s, Core, a, Reserve, v)
  \/ \E v \in Limits :
       \/ \E a \in Games : Approve(s, Core, a, Reserve, v)
       \/ \E t \in Derivatives : \E a \in Holders[t] : Approve(s, t, a, Reserve, v)

(* The system token has been issued, whole, and a game account holds it.    *)
CoreStat == [Minted(MaxAmount, [opts |-> {}, delay |-> 0, min |-> 0])
               EXCEPT !.supply = MaxAmount]
CoreRow == [NoRow EXCEPT !.open = TRUE, !.bal = MaxAmount]

ReserveInit ==
  /\ stat = [t \in Tokens |-> IF t = Core THEN CoreStat ELSE NoStat]
  /\ \E holder \in Games :
       row = [t \in Tokens |-> [a \in Accounts |->
                IF t = Core /\ a = holder THEN CoreRow ELSE NoRow]]
  /\ req = [o \in Accounts |-> [t \in Tokens |-> NoReq]]
  /\ allowance = [o \in Accounts |-> [s \in Accounts |-> [t \in Tokens |-> 0]]]
  /\ deferred = [o \in Accounts |-> None]
  /\ now = 0
  /\ auth = {}
  /\ reserves = [t \in Derivatives |-> NoReserve]
  /\ games = {}

ReserveNext ==
  \/ \E a \in Games : SetGame(a)
  \/ \E s \in Signers :
       \/ auth' = s /\ TokenStep(s) /\ UNCHANGED <<reserves, games>>
       \/ \E t \in Derivatives, w \in Delays : \E offer \in Offers[t] : Mint(s, t, offer, w)
       \/ \E owner \in s, t \in Derivatives, v \in Amounts :
            \E c \in Share(v, reserves[t].rate) : Claim(t, owner, v, c)

ReserveSpec == ReserveInit /\ [][ReserveNext]_reserveVars

-----------------------------------------------------------------------------
(* Properties.                                                              *)

Underlying == SumFunctionOnSet([t \in Derivatives |-> reserves[t].underlying], Derivatives)

(* The system tokens gxc.reserve holds cover what its table says it owes    *)
(* for every derivative together, all of which lie in one balance.          *)
ReserveBacked == row[Core][Reserve].bal >= Underlying

(* What is left of a reserve is what the rate of its minting makes the      *)
(* derivative worth that is left: it is short by no more than one part in   *)
(* Precision of what was claimed.                                           *)
Covers(r) ==
  (r.derivative * r.rate[1] - r.underlying * r.rate[2]) * Precision
    <= (r.rate[2] - r.derivative) * r.rate[1]

(* All of a derivative that exists or may still be issued can be claimed,   *)
(* and its reserve covers it at the rate of its minting but for the error   *)
(* of a double, whatever was claimed, rounded, burned or recalled before.   *)
FullyReserved ==
  \A t \in Derivatives : Reserved(t) =>
    stat[t].max <= reserves[t].derivative /\ Covers(reserves[t])

Got(t, a) == row'[t][a].bal - row[t][a].bal

(* A claim is paid for by the one who signs it and by nobody else: it takes *)
(* the same amount from the owner, the supply and the maximum, and hands    *)
(* the owner what leaves the reserve; the issuer, through whose account the *)
(* tokens pass, ends with what it had.                                      *)
ClaimIsPaid ==
  [][\A t \in Derivatives :
       LET v == reserves[t].derivative - reserves'[t].derivative
           c == reserves[t].underlying - reserves'[t].underlying
       IN  Reserved(t) /\ v # 0 =>
             \E owner \in auth' :
               /\ Got(t, owner) = - v /\ Got(Core, owner) = c
               /\ stat[t].supply - stat'[t].supply = v
               /\ stat[t].max - stat'[t].max = v
               /\ \A a \in Accounts \ {owner, Reserve} :
                    Got(t, a) = 0 /\ Got(Core, a) = 0]_reserveVars

Usable(t, a) == ~ row[t][a].open \/ Valid(t, row[t][a], a, FALSE)

(* Whoever holds derivative tokens and approved gxc.reserve can claim, as   *)
(* long as the issuer has not frozen an account the tokens pass through:    *)
(* no earlier claim, burning or minting can be in the way, where no reserve *)
(* has more units than a double can tell apart.  A claim is signed by its   *)
(* owner, which is no virtual account.                                      *)
ClaimIsHonoured ==
  \A t \in Derivatives, o \in Accounts \ {Self, Reserve}, v \in Amounts :
    /\ Reserved(t) /\ IsAccount(o)
    /\ row[t][o].bal >= v /\ allowance[o][Reserve][t] >= v
    /\ Usable(t, o) /\ Usable(t, Reserve) /\ Usable(t, Issuer[t])
    => \A c \in Share(v, reserves[t].rate) : c > 0 => ENABLED Claim(t, o, v, c)

=============================================================================
