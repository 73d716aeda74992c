------------------------------ MODULE GxcSystem ------------------------------
(* The contract gxc.system: account creation and resource limits, with the  *)
(* nicknames of gxc.account, which it calls, beside the RAM of GxcRam.  An  *)
(* inline action runs in the transaction that sends it and is part of the   *)
(* handler that sends it.                                                   *)
(*                                                                          *)
(* A definition right above another with the same parameters is a faulty    *)
(* variant of it: PROJECT.json names the property that rules it out.        *)
EXTENDS GxcRam

CONSTANTS
  Names,      \* account names
  System,     \* the account gxc
  Registry,   \* the account that runs gxc.account
  UserNames,  \* the names of six characters or more without a dot
  Nicknames,  \* nicknames of a valid length and alphabet
  Gifts,      \* the RAM a new user may be given
  Limits,     \* the limits setalimits is called with
  Signers     \* sets of accounts that sign one transaction together

NoNick == "no nickname"
NoPayer == "no row"
Unlimited == -1

ASSUME AccountsAssumption ==
  /\ System \in Names /\ Registry \in Names \ {System}
  /\ UserNames \subseteq Names \ {System, Registry}
  /\ NoNick \notin Nicknames /\ NoPayer \notin Names
  /\ Gifts \subseteq Nat /\ Gifts # {} /\ Limits \subseteq Nat
  /\ Signers \subseteq SUBSET Names

VARIABLES
  accounts,  \* the accounts of the chain
  nick,      \* table nick: the nickname of a name, or NoNick
  payer,     \* who pays for that row, or NoPayer
  userres,   \* table userres: the users that have a row
  limits,    \* the RAM limit the chain keeps for an account, or Unlimited
  gift       \* ram_gift_kbytes

accountVars == <<accounts, nick, payer, userres, limits, gift>>

systemVars == <<accountVars, vars>>

(* A transaction is signed by existing accounts.                            *)
Signed(s, a) == s \subseteq accounts /\ a \in s

-----------------------------------------------------------------------------
(* gxc.account                                                              *)

Occupied(n) == \E b \in Names : nick[b] = n

(* The row of a name that does not sign is paid for by the contract.        *)
SetNickAgain(s, a, n) ==
  /\ System \in s \/ a \in s
  /\ ~ Occupied(n)
  /\ nick' = [nick EXCEPT ![a] = n]
  /\ payer' = [payer EXCEPT ![a] = IF a \in s THEN a ELSE Registry]
SetNick(s, a, n) ==
  /\ System \in s \/ a \in s
  /\ ~ Occupied(n)
  /\ nick[a] = NoNick
  /\ nick' = [nick EXCEPT ![a] = n]
  /\ payer' = [payer EXCEPT ![a] = IF a \in s THEN a ELSE Registry]

PayRam(a) ==
  /\ nick[a] # NoNick
  /\ payer' = [payer EXCEPT ![a] = a]

-----------------------------------------------------------------------------
(* gxc.system                                                               *)

(* The accounts the system creates have no row, and no limits.              *)
Reserve(a) ==
  /\ a \notin accounts
  /\ accounts' = accounts \cup {a}
  /\ UNCHANGED <<userres, limits>>

(* Anybody else's are users, with a row of their own and the gift of RAM.   *)
Enlist(a) ==
  /\ a \in UserNames \ (accounts \cup userres)
  /\ accounts' = accounts \cup {a}
  /\ userres' = userres \cup {a}
  /\ limits' = [limits EXCEPT ![a] = gift]

(* newaccount, of the chain: the creator and the system sign.  The user     *)
(* takes over the row of its nickname by the inline payram4nick.            *)
NewAccount(s, creator, a) ==
  /\ Signed(s, creator) /\ Signed(s, System)
  /\ \/ creator = System /\ Reserve(a) /\ UNCHANGED payer
     \/ creator # System /\ Enlist(a) /\ PayRam(a)
  /\ UNCHANGED <<nick, gift>>

GenWithoutNick(s, creator, a, n) ==
  /\ Signed(s, creator)
  /\ ~ Occupied(n)
  /\ \/ creator = System /\ Reserve(a) /\ UNCHANGED <<nick, payer>>
     \/ creator # System /\ Enlist(a) /\ UNCHANGED <<nick, payer>>
  /\ UNCHANGED gift
(* genaccount sends setnick with the authority of the system, which pays    *)
(* for the row, and then newaccount.                                        *)
GenAccount(s, creator, a, n) ==
  /\ Signed(s, creator)
  /\ ~ Occupied(n) /\ nick[a] = NoNick
  /\ nick' = [nick EXCEPT ![a] = n]
  /\ \/ /\ creator = System /\ Reserve(a)
        /\ payer' = [payer EXCEPT ![a] = Registry]
     \/ /\ creator # System /\ Enlist(a)
        /\ payer' = [payer EXCEPT ![a] = a]
  /\ UNCHANGED gift

SetLimitsOfAny(s, a, ram) ==
  /\ Signed(s, System)
  /\ a \in accounts
  /\ limits' = [limits EXCEPT ![a] = ram]
  /\ UNCHANGED <<accounts, nick, payer, userres, gift>>
SetLimits(s, a, ram) ==
  /\ Signed(s, System)
  /\ a \in accounts \ userres
  /\ limits' = [limits EXCEPT ![a] = ram]
  /\ UNCHANGED <<accounts, nick, payer, userres, gift>>

SetRamGift(s, ram) ==
  /\ Signed(s, System)
  /\ gift' = ram
  /\ UNCHANGED <<accounts, nick, payer, userres, limits>>

-----------------------------------------------------------------------------
SystemInit ==
  /\ Init
  /\ accounts = {System, Registry}
  /\ nick = [a \in Names |-> NoNick]
  /\ payer = [a \in Names |-> NoPayer]
  /\ userres = {}
  /\ limits = [a \in Names |-> Unlimited]
  /\ gift \in Gifts

NickStep(s, a) ==
  /\ s \subseteq accounts
  /\ \/ \E n \in Nicknames : SetNick(s, a, n)
     \/ a \in s /\ PayRam(a) /\ UNCHANGED nick
  /\ UNCHANGED <<accounts, userres, limits, gift>>

AccountStep ==
  \E s \in Signers :
    \/ \E a \in Names : NickStep(s, a)
    \/ \E creator, a \in Names : NewAccount(s, creator, a)
    \/ \E creator, a \in Names, n \in Nicknames : GenAccount(s, creator, a, n)
    \/ \E a \in Names, ram \in Limits : SetLimits(s, a, ram)
    \/ \E ram \in Gifts : SetRamGift(s, ram)

SystemNext ==
  \/ AccountStep /\ UNCHANGED vars
  \/ Next /\ UNCHANGED accountVars

SystemSpec == SystemInit /\ [][SystemNext]_systemVars

-----------------------------------------------------------------------------
(* Properties.                                                              *)

(* Every user has a nickname, a different one from everybody else's, and    *)
(* pays for it: whichever transaction named it and whichever created it.    *)
UserIsNamed ==
  \A a \in userres :
    /\ a \in accounts
    /\ nick[a] # NoNick /\ payer[a] = a
    /\ \A b \in Names \ {a} : nick[b] # nick[a]

(* A nickname stays with its account for good, and so does who pays for it  *)
(* once it is the account itself.                                           *)
NickIsForGood ==
  [][\A a \in Names :
       /\ nick[a] # NoNick => nick'[a] = nick[a]
       /\ payer[a] = a => payer'[a] = a]_systemVars

(* The limits of a user are those it was created with: setalimits serves    *)
(* the accounts of the system alone, and a later gift is for later users.   *)
UserKeepsGift ==
  [][\A a \in userres : limits'[a] = limits[a] /\ a \in userres']_systemVars

=============================================================================
