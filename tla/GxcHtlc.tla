------------------------------ MODULE GxcHtlc ------------------------------
(* The contract gxc.htlc, hashed timelock contracts, composed with the      *)
(* token contract that holds what they lock.  The inline transfer of a      *)
(* handler is the transfer of GxcToken, signed by gxc.htlc: when it fails,  *)
(* the handler does.                                                        *)
(*                                                                          *)
(* A definition right above another with the same parameters is a faulty    *)
(* variant of it: PROJECT.json names the property that rules it out.        *)
EXTENDS GxcToken

CONSTANTS
  Htlc,       \* the account gxc.htlc
  Vault,      \* the account gxc.vault
  Token,      \* the token the contracts of a run lock
  Contracts,  \* the (owner, contract name) pairs
  Owner,      \* [Contracts -> Accounts]
  Recipients, \* account names, or AnyHash for an address on another chain
  Secrets,    \* preimages; a hashlock stands for the only one it has
  Minima,     \* the configurations setconfig is called with
  Second,     \* microseconds in a second
  UintWidth   \* range of uint32_t

AnyHash == "an address on another chain"
NoLock == [value |-> 0]
NoMinimum == [amount |-> 0, duration |-> 0]

ASSUME HtlcAssumption ==
  /\ Htlc \in Accounts \ {Self} /\ Vault \in Accounts \ {Self, Htlc}
  /\ Basename[Htlc] = Htlc
  /\ Token \in Tokens /\ Issuer[Token] # Htlc
  /\ IsFiniteSet(Contracts)
  /\ Owner \in [Contracts -> Accounts \ {Self, Htlc}]
  /\ \A id \in Contracts : IsAccount(Owner[id])
  /\ Recipients \subseteq Accounts \cup {AnyHash}
  /\ Minima \subseteq [amount : Nat, duration : Nat]
  /\ Second \in Nat \ {0} /\ UintWidth \in Nat \ {0}

VARIABLES
  htlcs,   \* table htlc: recipient, value, hashlock and timelock, or NoLock
  minimum  \* table config, of the token

htlcVars == <<htlcs, minimum, vars>>

Locked(id) == htlcs[id] # NoLock

-----------------------------------------------------------------------------
(* The issuer of the token sets the least amount and duration.              *)
SetConfig(m) ==
  /\ auth' = {Issuer[Token]}
  /\ minimum' = m
  /\ UNCHANGED <<htlcs, stat, row, req, allowance, deferred, now>>

(* The duration is in milliseconds, multiplied in 32 bits.  gxc.vault need  *)
(* not keep to it.  A timelock is compared with a time cut to seconds.      *)
Microseconds(duration) == (duration * 1000) % UintWidth

MayLock(owner, v, timelock) ==
  LET min == IF owner = Vault THEN NoMinimum ELSE minimum
  IN  /\ v >= min.amount
      /\ timelock >= (now * Second + Microseconds(min.duration)) \div Second

(* The owner signs newcontract; the transfer is signed by gxc.htlc, its     *)
(* receiver, and takes the allowance of the owner.                          *)
NewContract(id, recipient, v, secret, timelock) ==
  /\ auth' = {Owner[id]}
  /\ ~ Locked(id)
  /\ MayLock(Owner[id], v, timelock)
  /\ Transfer({Htlc}, Token, Owner[id], Htlc, v)
  /\ htlcs' = [htlcs EXCEPT ![id] =
                 [recipient |-> recipient, value |-> v, hashlock |-> secret,
                  timelock |-> timelock]]
  /\ UNCHANGED minimum

PayAndKeep(id, a) ==
  /\ Transfer({Htlc}, Token, Htlc, a, htlcs[id].value)
  /\ UNCHANGED <<htlcs, minimum>>
PayAboveMinimum(id, a) ==
  /\ htlcs[id].value >= minimum.amount
  /\ Transfer({Htlc}, Token, Htlc, a, htlcs[id].value)
  /\ htlcs' = [htlcs EXCEPT ![id] = NoLock]
  /\ UNCHANGED minimum
(* What is locked leaves to a, and the row is erased.                       *)
Pay(id, a) ==
  /\ Transfer({Htlc}, Token, Htlc, a, htlcs[id].value)
  /\ htlcs' = [htlcs EXCEPT ![id] = NoLock]
  /\ UNCHANGED minimum

Payee(id) ==
  IF htlcs[id].recipient = AnyHash THEN Vault ELSE htlcs[id].recipient

(* Anyone who knows the preimage may send it.                               *)
Withdraw(id, preimage) ==
  /\ auth' = {}
  /\ Locked(id)
  /\ htlcs[id].timelock >= now
  /\ htlcs[id].hashlock = preimage
  /\ Pay(id, Payee(id))

ExpiredEarly(id) == htlcs[id].timelock <= now
Expired(id) == htlcs[id].timelock < now

Refund(id) ==
  /\ auth' = {Owner[id]}
  /\ Locked(id)
  /\ Expired(id)
  /\ Pay(id, Owner[id])

-----------------------------------------------------------------------------
(* Meanwhile the chain does to the token whatever GxcToken describes;       *)
(* gxc.htlc signs nothing but its inline transfers.                         *)
HtlcInit ==
  /\ Init
  /\ htlcs = [id \in Contracts |-> NoLock]
  /\ minimum = NoMinimum

HtlcNext ==
  \/ Next /\ UNCHANGED <<htlcs, minimum>>
  \/ \E m \in Minima : SetConfig(m)
  \/ \E id \in Contracts :
       \/ \E r \in Recipients, v \in Amounts, s \in Secrets, tl \in 0 .. MaxTime :
            NewContract(id, r, v, s, tl)
       \/ \E s \in Secrets : Withdraw(id, s)
       \/ Refund(id)

HtlcSpec == HtlcInit /\ [][HtlcNext]_htlcVars

-----------------------------------------------------------------------------
(* Properties.                                                              *)

Locks(id) == IF Locked(id) THEN htlcs[id].value ELSE 0
LockedInAll == SumFunctionOnSet([id \in Contracts |-> Locks(id)], Contracts)

(* The balance of gxc.htlc covers every contract that is locked, whatever   *)
(* the issuer, the owners and strangers do to the token.                    *)
EscrowBacked == row[Token][Htlc].bal >= LockedInAll

Gained(a) == row'[Token][a].bal - row[Token][a].bal

(* A contract ends once: up to its timelock it pays its recipient, after it *)
(* its owner, each time the locked amount, out of what gxc.htlc holds.      *)
SettledOnce ==
  [][\A id \in Contracts :
       Locked(id) /\ htlcs'[id] # htlcs[id] =>
         /\ htlcs'[id] = NoLock
         /\ Gained(Htlc) = - htlcs[id].value
         /\ IF now <= htlcs[id].timelock
            THEN Gained(Payee(id)) = htlcs[id].value
            ELSE Gained(Owner[id]) = htlcs[id].value]_htlcVars

(* An inline transfer may pay a, or take from a what it holds.              *)
Usable(a) == CanAdd({Htlc}, Token, row[Token], a, FALSE)

(* An expired contract can be refunded, unless the issuer blocks one of the *)
(* two accounts or has paused the token: nobody else can be in the way.     *)
ExpiredIsRefundable ==
  \A id \in Contracts :
    Locked(id) /\ Expired(id) /\ Usable(Htlc) /\ Usable(Owner[id])
      /\ ~ Opt(Token, "paused") => ENABLED Refund(id)

=============================================================================
