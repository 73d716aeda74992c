-------------------------- MODULE EosioMsigProofs --------------------------
(* The tables of eosio.msig keep their types and sizes, a proposal has its  *)
(* approvals in exactly one of the two, and the contract implements         *)
(* MsigConsent: for any accounts, levels, lists and transactions, and       *)
(* whatever an earlier version of the contract left.                        *)
EXTENDS EosioMsig, TLAPS

IInv == TypeOK /\ OneRow

(* The operations on one row keep its type and whether it exists.           *)
LEMMA NoRowType == NoRow \in Row /\ ~ NoRow.exists
BY DEF NoRow, Row, Nothing

LEMMA ProvideRow ==
  ASSUME NEW r \in Row, NEW l \in Levels, NEW time \in Nat, r.requested[l] > 0
  PROVE  Provide(r, l, time) \in Row /\ Provide(r, l, time).exists = r.exists
<1> DEFINE req == [r.requested EXCEPT ![l] = @ - 1]
           prov == [r.provided EXCEPT ![l] = Append(@, time)]
<1>1. r.requested \in [Levels -> Nat] /\ r.provided \in [Levels -> Seq(Nat)]
  BY DEF Row
<1>2. req \in [Levels -> Nat]
  BY <1>1
<1>3. Append(r.provided[l], time) \in Seq(Nat)
  BY <1>1
<1>4. prov \in [Levels -> Seq(Nat)]
  BY <1>1, <1>3
<1>5. Provide(r, l, time) = [r EXCEPT !.requested = req, !.provided = prov]
  BY DEF Provide, Row
<1> HIDE DEF req, prov
<1> QED BY <1>2, <1>4, <1>5 DEF Row

LEMMA RevokeRow ==
  ASSUME NEW r \in Row, NEW l \in Levels, r.provided[l] # <<>>
  PROVE  Revoke(r, l) \in Row /\ Revoke(r, l).exists = r.exists
<1> DEFINE req == [r.requested EXCEPT ![l] = @ + 1]
           prov == [r.provided EXCEPT ![l] = Tail(@)]
<1>1. r.requested \in [Levels -> Nat] /\ r.provided \in [Levels -> Seq(Nat)]
  BY DEF Row
<1>2. req \in [Levels -> Nat]
  BY <1>1
<1>3. Tail(r.provided[l]) \in Seq(Nat)
  BY <1>1
<1>4. prov \in [Levels -> Seq(Nat)]
  BY <1>1, <1>3
<1>5. Revoke(r, l) = [r EXCEPT !.requested = req, !.provided = prov]
  BY DEF Revoke, Row
<1> HIDE DEF req, prov
<1> QED BY <1>2, <1>4, <1>5 DEF Row

(* What the handlers do to the two tables: the rows keep their types, and   *)
(* only the row of p changes.                                               *)
TablesTyped == approvals \in [Proposals -> Row] /\ old_approvals \in [Proposals -> Row]

Present(p) == approvals[p].exists \/ old_approvals[p].exists

LEMMA DropOK ==
  ASSUME IInv, NEW p \in Proposals, proposals[p] # NoTrx, DropApprovals(p),
         proposals' = [proposals EXCEPT ![p] = NoTrx]
  PROVE  TablesTyped' /\ OneRow'
<1>1. TablesTyped'
  BY NoRowType DEF IInv, TypeOK, TablesTyped, DropApprovals
<1>2. ASSUME NEW q \in Proposals
      PROVE  /\ ~ (approvals'[q].exists /\ old_approvals'[q].exists)
             /\ proposals'[q] # NoTrx <=> approvals'[q].exists \/ old_approvals'[q].exists
  <2>1. CASE q = p
    BY <2>1, NoRowType DEF IInv, TypeOK, OneRow, DropApprovals
  <2>2. CASE q # p
    BY <2>2 DEF IInv, TypeOK, OneRow, DropApprovals
  <2> QED BY <2>1, <2>2
<1> QED BY <1>1, <1>2 DEF OneRow

LEMMA ProposeOK ==
  ASSUME IInv, NEW p \in Proposals, NEW list \in Lists, NEW x \in Trxs,
         Propose(p, list, x)
  PROVE  IInv'
<1> DEFINE r == [exists |-> TRUE, requested |-> list, provided |-> Nothing]
<1>1. list \in [Levels -> Nat] /\ x # NoTrx /\ Proposer[p] \in Accounts
  BY MsigAssumption
<1>2. r \in Row /\ r.exists
  BY <1>1 DEF Row, Nothing
<1>3. approvals' = [approvals EXCEPT ![p] = r]
  BY DEF Propose
<1> HIDE DEF r
<1>4. TypeOK'
  BY <1>1, <1>2, <1>3 DEF IInv, TypeOK, Propose
<1>5. OneRow'
  BY <1>1, <1>2, <1>3 DEF IInv, TypeOK, OneRow, Propose
<1> QED BY <1>4, <1>5 DEF IInv

(* approve and unapprove replace one row by one that exists.                *)
LEMMA ReplaceOK ==
  ASSUME IInv, NEW p \in Proposals, NEW r \in Row, r.exists,
         UNCHANGED <<proposals, invals, deferred, now>>, auth' \in Accounts,
         \/ /\ approvals[p].exists
            /\ approvals' = [approvals EXCEPT ![p] = r]
            /\ UNCHANGED old_approvals
         \/ /\ old_approvals[p].exists
            /\ old_approvals' = [old_approvals EXCEPT ![p] = r]
            /\ UNCHANGED approvals
  PROVE  IInv'
<1>1. TypeOK'
  BY DEF IInv, TypeOK
<1>2. OneRow'
  BY DEF IInv, TypeOK, OneRow
<1> QED BY <1>1, <1>2 DEF IInv

LEMMA ApproveOK ==
  ASSUME IInv, NEW p \in Proposals, NEW l \in Levels,
         NEW hash \in Trxs \cup {NoTrx}, Approve(p, l, hash)
  PROVE  IInv'
<1>1. Actor[l] \in Accounts /\ now \in Nat /\ approvals[p] \in Row
        /\ old_approvals[p] \in Row
  BY MsigAssumption DEF IInv, TypeOK
<1>2. CASE Listed(approvals[p], l) /\ UNCHANGED old_approvals
           /\ approvals' = [approvals EXCEPT ![p] = Provide(@, l, now)]
  <2>1. /\ Provide(approvals[p], l, now) \in Row
        /\ Provide(approvals[p], l, now).exists /\ approvals[p].exists
    BY <1>1, <1>2, ProvideRow DEF Listed
  <2> QED BY <1>1, <1>2, <2>1, ReplaceOK DEF Approve
<1>3. CASE Listed(old_approvals[p], l) /\ UNCHANGED approvals
           /\ old_approvals' = [old_approvals EXCEPT ![p] = Provide(@, l, 0)]
  <2>1. /\ Provide(old_approvals[p], l, 0) \in Row
        /\ Provide(old_approvals[p], l, 0).exists /\ old_approvals[p].exists
    BY <1>1, <1>3, ProvideRow DEF Listed
  <2> QED BY <1>1, <1>3, <2>1, ReplaceOK DEF Approve
<1> QED BY <1>2, <1>3 DEF Approve

LEMMA UnapproveOK ==
  ASSUME IInv, NEW p \in Proposals, NEW l \in Levels, Unapprove(p, l)
  PROVE  IInv'
<1>1. Actor[l] \in Accounts /\ approvals[p] \in Row /\ old_approvals[p] \in Row
  BY MsigAssumption DEF IInv, TypeOK
<1>2. CASE Given(approvals[p], l) /\ UNCHANGED old_approvals
           /\ approvals' = [approvals EXCEPT ![p] = Revoke(@, l)]
  <2>1. /\ Revoke(approvals[p], l) \in Row
        /\ Revoke(approvals[p], l).exists /\ approvals[p].exists
    BY <1>1, <1>2, RevokeRow DEF Given
  <2> QED BY <1>1, <1>2, <2>1, ReplaceOK DEF Unapprove
<1>3. CASE Given(old_approvals[p], l) /\ UNCHANGED approvals
           /\ old_approvals' = [old_approvals EXCEPT ![p] = Revoke(@, l)]
  <2>1. /\ Revoke(old_approvals[p], l) \in Row
        /\ Revoke(old_approvals[p], l).exists /\ old_approvals[p].exists
    BY <1>1, <1>3, RevokeRow DEF Given
  <2> QED BY <1>1, <1>3, <2>1, ReplaceOK DEF Unapprove
<1> QED BY <1>2, <1>3 DEF Unapprove

LEMMA CloseOK ==
  ASSUME IInv, NEW p \in Proposals, NEW a \in Accounts, Cancel(p, a) \/ Exec(p, a)
  PROVE  IInv'
<1>1. TablesTyped' /\ OneRow'
  BY DropOK DEF Cancel, Exec
<1>2. TypeOK'
  BY <1>1 DEF IInv, TypeOK, TablesTyped, Cancel, Exec
<1> QED BY <1>1, <1>2 DEF IInv

LEMMA InvalidateOK ==
  ASSUME IInv, NEW a \in Accounts, Invalidate(a)
  PROVE  IInv'
BY MsigAssumption DEF IInv, TypeOK, OneRow, Invalidate

LEMMA ChainOK ==
  ASSUME IInv, Tick \/ \E p \in Proposals : Deliver(p)
  PROVE  IInv'
BY MsigAssumption DEF IInv, TypeOK, OneRow, Tick, Deliver

LEMMA StepOK == IInv /\ [Next]_vars => IInv'
<1> SUFFICES ASSUME IInv, [Next]_vars PROVE IInv'
  OBVIOUS
<1>1. CASE UNCHANGED vars
  BY <1>1 DEF IInv, TypeOK, OneRow, vars
<1>2. CASE Next
  BY <1>2, ProposeOK, ApproveOK, UnapproveOK, CloseOK, InvalidateOK, ChainOK DEF Next
<1> QED BY <1>1, <1>2

(* What the earlier version can have left.                                  *)
LEMMA LegacyRow ==
  ASSUME NEW e \in Legacy, \A l \in Levels : e[2].requested[l] >= 0
  PROVE  /\ e[1] \in Trxs \cup {NoTrx} /\ e[2] \in Row
         /\ e[1] # NoTrx <=> e[2].exists
<1>1. CASE e = <<NoTrx, NoRow>>
  BY <1>1, NoRowType
<1>2. ASSUME NEW x \in Trxs, NEW list \in Lists, NEW given \in SUBSET Levels,
             e = <<x, Left(x, list, given)>>
      PROVE  /\ e[1] \in Trxs \cup {NoTrx} /\ e[2] \in Row
             /\ e[1] # NoTrx <=> e[2].exists
  <2> DEFINE asked == [l \in Levels |-> IF l \in given THEN list[l] - 1 ELSE list[l]]
             times == [l \in Levels |-> IF l \in given THEN <<0>> ELSE <<>>]
  <2>1. Left(x, list, given) =
          [exists |-> TRUE, requested |-> asked, provided |-> times]
    BY DEF Left
  <2>2. e[1] = x /\ e[2] = Left(x, list, given) /\ x # NoTrx
    BY <1>2, MsigAssumption
  <2>3. list \in [Levels -> Nat]
    BY MsigAssumption
  <2>4. \A l \in Levels : asked[l] \in Int /\ asked[l] >= 0
    BY <2>1, <2>2, <2>3
  <2>5. asked \in [Levels -> Nat]
    BY <2>4
  <2>6. times \in [Levels -> Seq(Nat)]
    OBVIOUS
  <2> HIDE DEF asked, times
  <2> QED BY <2>1, <2>2, <2>5, <2>6 DEF Row
<1> QED BY <1>1, <1>2 DEF Legacy

LEMMA InitOK == Init => IInv
<1> SUFFICES ASSUME Init PROVE IInv
  OBVIOUS
<1>1. PICK old \in [Proposals -> Legacy] :
        /\ \A p \in Proposals, l \in Levels : old[p][2].requested[l] >= 0
        /\ proposals = [p \in Proposals |-> old[p][1]]
        /\ old_approvals = [p \in Proposals |-> old[p][2]]
  BY DEF Init
<1>2. \A p \in Proposals : /\ old[p][1] \in Trxs \cup {NoTrx} /\ old[p][2] \in Row
                           /\ old[p][1] # NoTrx <=> old[p][2].exists
  BY <1>1, LegacyRow
<1>3. TypeOK
  BY <1>1, <1>2, NoRowType, MsigAssumption DEF Init, TypeOK
<1>4. OneRow
  BY <1>1, <1>2, NoRowType DEF Init, OneRow
<1> QED BY <1>3, <1>4 DEF IInv

(* Lists never ask a level less than no times and every table keeps its     *)
(* type, through approvals, revocations, invalidations and the chain.       *)
THEOREM MsigTypeCorrect == Spec => []TypeOK
<1>1. IInv => TypeOK
  BY DEF IInv
<1> QED BY InitOK, StepOK, <1>1, PTL DEF Spec

(* cancel and exec leave no approvals behind for the next proposal of the   *)
(* name, in the table with times or in the earlier one.                     *)
THEOREM OneRowHolds == Spec => []OneRow
<1>1. IInv => OneRow
  BY DEF IInv
<1> QED BY InitOK, StepOK, <1>1, PTL DEF Spec

-----------------------------------------------------------------------------
(* The size of a row.                                                       *)

LEMMA ProvideSlots ==
  ASSUME NEW r \in Row, NEW l \in Levels, NEW time \in Nat, NEW k \in Levels
  PROVE  Slots(Provide(r, l, time), k) = Slots(r, k)
<1>1. /\ r.requested \in [Levels -> Nat] /\ r.provided \in [Levels -> Seq(Nat)]
  BY DEF Row
<1>2. /\ Provide(r, l, time).requested = [r.requested EXCEPT ![l] = @ - 1]
      /\ Provide(r, l, time).provided = [r.provided EXCEPT ![l] = Append(@, time)]
  BY DEF Provide, Row
<1>3. Len(Append(r.provided[l], time)) = Len(r.provided[l]) + 1
  BY <1>1
<1>4. r.requested[k] \in Int /\ Len(r.provided[k]) \in Int
  BY <1>1
<1>5. CASE k = l
  <2>1. /\ Provide(r, l, time).requested[k] = r.requested[k] - 1
        /\ Len(Provide(r, l, time).provided[k]) = Len(r.provided[k]) + 1
    BY <1>1, <1>2, <1>3, <1>5
  <2>2. \A m, n \in Int : (m - 1) + (n + 1) = m + n
    OBVIOUS
  <2> QED BY <1>4, <2>1, <2>2, Zenon DEF Slots
<1>6. CASE k # l
  BY <1>1, <1>2, <1>6 DEF Slots
<1> QED BY <1>5, <1>6

LEMMA RevokeSlots ==
  ASSUME NEW r \in Row, NEW l \in Levels, r.provided[l] # <<>>, NEW k \in Levels
  PROVE  Slots(Revoke(r, l), k) = Slots(r, k)
<1>1. /\ r.requested \in [Levels -> Nat] /\ r.provided \in [Levels -> Seq(Nat)]
  BY DEF Row
<1>2. /\ Revoke(r, l).requested = [r.requested EXCEPT ![l] = @ + 1]
      /\ Revoke(r, l).provided = [r.provided EXCEPT ![l] = Tail(@)]
  BY DEF Revoke, Row
<1>3. Len(Tail(r.provided[l])) = Len(r.provided[l]) - 1
  BY <1>1
<1>4. r.requested[k] \in Int /\ Len(r.provided[k]) \in Int
  BY <1>1
<1>5. CASE k = l
  <2>1. /\ Revoke(r, l).requested[k] = r.requested[k] + 1
        /\ Len(Revoke(r, l).provided[k]) = Len(r.provided[k]) - 1
    BY <1>1, <1>2, <1>3, <1>5
  <2> QED BY <1>4, <2>1 DEF Slots
<1>6. CASE k # l
  BY <1>1, <1>2, <1>6 DEF Slots
<1> QED BY <1>5, <1>6

(* A row of a table, before and after a step: it appears, it goes, or its   *)
(* slots stay.                                                              *)
Resized(r, s) == r.exists /\ s.exists => \A k \in Levels : Slots(s, k) = Slots(r, k)

LEMMA UpdateResizes ==
  ASSUME NEW T \in [Proposals -> Row], NEW p \in Proposals, NEW s, Resized(T[p], s)
  PROVE  \A q \in Proposals : Resized(T[q], [T EXCEPT ![p] = s][q])
BY DEF Resized

LEMMA StepResizes ==
  ASSUME TypeOK, [Next]_vars
  PROVE  \A q \in Proposals : /\ Resized(approvals[q], approvals'[q])
                              /\ Resized(old_approvals[q], old_approvals'[q])
<1>1. /\ approvals \in [Proposals -> Row] /\ old_approvals \in [Proposals -> Row]
      /\ now \in Nat
  BY MsigAssumption DEF TypeOK
<1>2. /\ approvals' = approvals => \A q \in Proposals : Resized(approvals[q], approvals'[q])
      /\ old_approvals' = old_approvals
           => \A q \in Proposals : Resized(old_approvals[q], old_approvals'[q])
  BY DEF Resized
<1> DEFINE Goal == \A q \in Proposals : /\ Resized(approvals[q], approvals'[q])
                                        /\ Resized(old_approvals[q], old_approvals'[q])
<1>3. ASSUME NEW p \in Proposals, DropApprovals(p) PROVE Goal
  <2>1. Resized(approvals[p], NoRow) /\ Resized(old_approvals[p], NoRow)
    BY NoRowType DEF Resized
  <2> QED BY <1>1, <1>2, <1>3, <2>1, UpdateResizes DEF DropApprovals
<1>4. ASSUME NEW p \in Proposals, NEW list \in Lists, NEW x \in Trxs, Propose(p, list, x)
      PROVE  Goal
  <2>1. ~ approvals[p].exists /\ old_approvals' = old_approvals
        /\ \E s : approvals' = [approvals EXCEPT ![p] = s]
    BY <1>4 DEF Propose
  <2>2. \A s : Resized(approvals[p], s)
    BY <2>1 DEF Resized
  <2> QED BY <1>1, <1>2, <2>1, <2>2, UpdateResizes
<1>5. ASSUME NEW p \in Proposals, NEW l \in Levels, NEW hash \in Trxs \cup {NoTrx},
             Approve(p, l, hash)
      PROVE  Goal
  <2>1. /\ Resized(approvals[p], Provide(approvals[p], l, now))
        /\ Resized(old_approvals[p], Provide(old_approvals[p], l, 0))
    BY <1>1, ProvideSlots DEF Resized
  <2> QED BY <1>1, <1>2, <1>5, <2>1, UpdateResizes DEF Approve
<1>6. ASSUME NEW p \in Proposals, NEW l \in Levels, Unapprove(p, l)
      PROVE  Goal
  <2>1. /\ Given(approvals[p], l) => Resized(approvals[p], Revoke(approvals[p], l))
        /\ Given(old_approvals[p], l)
             => Resized(old_approvals[p], Revoke(old_approvals[p], l))
    BY <1>1, RevokeSlots DEF Resized, Given
  <2> QED BY <1>1, <1>2, <1>6, <2>1, UpdateResizes DEF Unapprove
<1>7. ASSUME NEW p \in Proposals, NEW a \in Accounts, Cancel(p, a) \/ Exec(p, a)
      PROVE  Goal
  BY <1>3, <1>7 DEF Cancel, Exec
<1>8. ASSUME \/ \E p \in Proposals : Deliver(p)
             \/ \E a \in Accounts : Invalidate(a)
             \/ Tick \/ UNCHANGED vars
      PROVE  Goal
  BY <1>2, <1>8 DEF Deliver, Invalidate, Tick, vars
<1> QED BY <1>4, <1>5, <1>6, <1>7, <1>8, Zenon DEF Next

(* No sequence of approvals and revocations changes how many levels a row   *)
(* lists, nor how often: its proposer pays for the same row throughout.     *)
THEOREM SizesKept == Spec => SameSize
<1>1. IInv => TypeOK
  BY DEF IInv
<1>2. IInv /\ [Next]_vars
        => [\A p \in Proposals, l \in Levels :
              /\ approvals[p].exists /\ approvals'[p].exists =>
                   Slots(approvals'[p], l) = Slots(approvals[p], l)
              /\ old_approvals[p].exists /\ old_approvals'[p].exists =>
                   Slots(old_approvals'[p], l) = Slots(old_approvals[p], l)]_vars
  BY <1>1, StepResizes DEF Resized
<1> QED BY InitOK, StepOK, <1>2, PTL DEF Spec, SameSize

-----------------------------------------------------------------------------
(* The levels that exec would count, from the two rows of a proposal and    *)
(* the times of invalidations.                                              *)

CountedIn(r, o, iv) ==
  IF r.exists
  THEN {l \in Levels : \E i \in DOMAIN r.provided[l] : iv[Actor[l]] < r.provided[l][i]}
  ELSE {l \in Levels : o.provided[l] # <<>> /\ iv[Actor[l]] = Never}

LEMMA CountedIs ==
  ASSUME NEW p \in Proposals
  PROVE  /\ Counted(p) = CountedIn(approvals[p], old_approvals[p], invals)
         /\ Counted(p)' = CountedIn(approvals'[p], old_approvals'[p], invals')
BY Zenon DEF Counted, CountedIn, After

LEMMA NobodyCounts ==
  ASSUME NEW list, NEW iv
  PROVE  /\ CountedIn(NoRow, NoRow, iv) = {}
         /\ \A o : CountedIn([exists |-> TRUE, requested |-> list,
                              provided |-> Nothing], o, iv) = {}
BY DEF CountedIn, NoRow, Nothing

(* An approval makes its level count from now on, unless its account has    *)
(* invalidated at this very moment.                                         *)
LEMMA ProvideCounts ==
  ASSUME NEW r \in Row, r.exists, NEW o, NEW l \in Levels, NEW time \in Nat, NEW iv
  PROVE  CountedIn(Provide(r, l, time), o, iv) =
           IF iv[Actor[l]] < time THEN CountedIn(r, o, iv) \cup {l}
           ELSE CountedIn(r, o, iv)
<1> DEFINE s == Provide(r, l, time)
           Counts(x, k) == \E i \in DOMAIN x.provided[k] : iv[Actor[k]] < x.provided[k][i]
<1>1. r.provided \in [Levels -> Seq(Nat)]
  BY DEF Row
<1>2. s.exists /\ s.provided = [r.provided EXCEPT ![l] = Append(r.provided[l], time)]
  BY DEF Provide, Row
<1>3. \A k \in Levels \ {l} : Counts(s, k) <=> Counts(r, k)
  BY <1>1, <1>2
<1>4. Counts(s, l) <=> Counts(r, l) \/ iv[Actor[l]] < time
  <2> DEFINE old == r.provided[l]
             new == Append(old, time)
  <2>1. old \in Seq(Nat) /\ s.provided[l] = new
    BY <1>1, <1>2
  <2>2. /\ DOMAIN old = 1 .. Len(old) /\ DOMAIN new = 1 .. (Len(old) + 1)
        /\ Len(old) \in Nat
        /\ \A i \in 1 .. Len(old) : new[i] = old[i]
        /\ new[Len(old) + 1] = time
    BY <2>1
  <2> HIDE DEF new, old
  <2>3. \A i \in DOMAIN new : i \in DOMAIN old \/ i = Len(old) + 1
    BY <2>2
  <2>4. Len(old) + 1 \in DOMAIN new /\ DOMAIN old \subseteq DOMAIN new
    BY <2>2
  <2>5. (\E i \in DOMAIN new : iv[Actor[l]] < new[i])
          <=> (\E i \in DOMAIN old : iv[Actor[l]] < old[i]) \/ iv[Actor[l]] < time
    BY <2>2, <2>3, <2>4, Zenon
  <2> QED BY <2>1, <2>5 DEF old
<1>5. /\ CountedIn(r, o, iv) = {k \in Levels : Counts(r, k)}
      /\ CountedIn(s, o, iv) = {k \in Levels : Counts(s, k)}
  BY <1>2, Zenon DEF CountedIn
<1> HIDE DEF Counts, s
<1>6. CountedIn(s, o, iv) =
        IF iv[Actor[l]] < time THEN CountedIn(r, o, iv) \cup {l} ELSE CountedIn(r, o, iv)
  BY <1>3, <1>4, <1>5
<1> QED BY <1>6 DEF s

LEMMA ProvideOldCounts ==
  ASSUME NEW o \in Row, NEW r, ~ r.exists, NEW l \in Levels, NEW iv
  PROVE  CountedIn(r, Provide(o, l, 0), iv) =
           IF iv[Actor[l]] = Never THEN CountedIn(r, o, iv) \cup {l}
           ELSE CountedIn(r, o, iv)
<1>1. o.provided \in [Levels -> Seq(Nat)]
  BY DEF Row
<1>2. Provide(o, l, 0).provided = [o.provided EXCEPT ![l] = Append(o.provided[l], 0)]
  BY DEF Provide, Row
<1>3. Append(o.provided[l], 0) # <<>>
  <2>1. Len(Append(o.provided[l], 0)) = Len(o.provided[l]) + 1
    BY <1>1
  <2>2. Len(o.provided[l]) \in Nat /\ Len(<<>>) = 0
    BY <1>1
  <2> QED BY <2>1, <2>2
<1>4. \A k \in Levels : Provide(o, l, 0).provided[k] # <<>>
                          <=> k = l \/ o.provided[k] # <<>>
  BY <1>1, <1>2, <1>3
<1>5. \A q : CountedIn(r, q, iv) =
               {k \in Levels : q.provided[k] # <<>> /\ iv[Actor[k]] = Never}
  BY Zenon DEF CountedIn
<1> HIDE DEF Provide
<1>6. CASE iv[Actor[l]] = Never
  <2>1. \A k : k \in CountedIn(r, Provide(o, l, 0), iv)
                 <=> k = l \/ k \in CountedIn(r, o, iv)
    BY <1>4, <1>5, <1>6
  <2> QED BY <1>6, <2>1
<1>7. CASE iv[Actor[l]] # Never
  <2>1. \A k : k \in CountedIn(r, Provide(o, l, 0), iv) <=> k \in CountedIn(r, o, iv)
    BY <1>4, <1>5, <1>7
  <2>2. /\ CountedIn(r, Provide(o, l, 0), iv) \subseteq CountedIn(r, o, iv)
        /\ CountedIn(r, o, iv) \subseteq CountedIn(r, Provide(o, l, 0), iv)
    BY <2>1
  <2> QED BY <1>7, <2>2
<1> QED BY <1>6, <1>7

(* A revocation takes the oldest approval of its level, and leaves the      *)
(* level standing if another one counts.                                    *)
LEMMA RevokeCounts ==
  ASSUME NEW r \in Row, r.exists, NEW o, NEW l \in Levels, r.provided[l] # <<>>, NEW iv
  PROVE  \/ CountedIn(Revoke(r, l), o, iv) = CountedIn(r, o, iv)
         \/ CountedIn(Revoke(r, l), o, iv) = CountedIn(r, o, iv) \ {l}
<1> DEFINE s == Revoke(r, l)
           Counts(x, k) == \E i \in DOMAIN x.provided[k] : iv[Actor[k]] < x.provided[k][i]
<1>1. r.provided \in [Levels -> Seq(Nat)]
  BY DEF Row
<1>2. s.exists /\ s.provided = [r.provided EXCEPT ![l] = Tail(r.provided[l])]
  BY DEF Revoke, Row
<1>3. \A k \in Levels \ {l} : Counts(s, k) <=> Counts(r, k)
  BY <1>1, <1>2
<1>4. Counts(s, l) => Counts(r, l)
  <2> DEFINE old == r.provided[l]
             new == Tail(old)
  <2>1. old \in Seq(Nat) /\ s.provided[l] = new /\ old # <<>>
    BY <1>1, <1>2
  <2>2. \A i \in DOMAIN new : i + 1 \in DOMAIN old /\ new[i] = old[i + 1]
    BY <2>1
  <2> HIDE DEF new
  <2> QED BY <2>1, <2>2
<1>5. /\ CountedIn(r, o, iv) = {k \in Levels : Counts(r, k)}
      /\ CountedIn(s, o, iv) = {k \in Levels : Counts(s, k)}
  BY <1>2, Zenon DEF CountedIn
<1> HIDE DEF Counts, s
<1>6. \/ CountedIn(s, o, iv) = CountedIn(r, o, iv)
      \/ CountedIn(s, o, iv) = CountedIn(r, o, iv) \ {l}
  <2>1. CASE Counts(s, l)
    <3>1. \A k \in Levels : Counts(s, k) <=> Counts(r, k)
      BY <1>3, <1>4, <2>1
    <3> QED BY <1>5, <3>1
  <2>2. CASE ~ Counts(s, l)
    <3>1. \A k \in Levels : Counts(s, k) <=> Counts(r, k) /\ k # l
      BY <1>3, <2>2
    <3> QED BY <1>5, <3>1
  <2> QED BY <2>1, <2>2
<1> QED BY <1>6 DEF s

LEMMA RevokeOldCounts ==
  ASSUME NEW o \in Row, NEW r, ~ r.exists, NEW l \in Levels, NEW iv
  PROVE  \/ CountedIn(r, Revoke(o, l), iv) = CountedIn(r, o, iv)
         \/ CountedIn(r, Revoke(o, l), iv) = CountedIn(r, o, iv) \ {l}
<1>1. o.provided \in [Levels -> Seq(Nat)]
  BY DEF Row
<1>2. Revoke(o, l).provided = [o.provided EXCEPT ![l] = Tail(o.provided[l])]
  BY DEF Revoke, Row
<1>3. \A k \in Levels \ {l} : Revoke(o, l).provided[k] = o.provided[k]
  BY <1>1, <1>2
<1>4. \A q : CountedIn(r, q, iv) =
               {k \in Levels : q.provided[k] # <<>> /\ iv[Actor[k]] = Never}
  BY Zenon DEF CountedIn
<1>5. Revoke(o, l).provided[l] # <<>> => o.provided[l] # <<>>
  BY <1>1, <1>2
<1> HIDE DEF Revoke
<1>6. CASE Revoke(o, l).provided[l] # <<>>
  <2>1. \A k \in Levels : Revoke(o, l).provided[k] # <<>> <=> o.provided[k] # <<>>
    BY <1>3, <1>5, <1>6
  <2> QED BY <1>4, <2>1
<1>7. CASE Revoke(o, l).provided[l] = <<>>
  <2>1. \A k \in Levels : Revoke(o, l).provided[k] # <<>>
                            <=> o.provided[k] # <<>> /\ k # l
    BY <1>3, <1>7
  <2> QED BY <1>4, <2>1
<1> QED BY <1>6, <1>7

(* No approval is of a later time than now.                                 *)
Past(r, time) == \A l \in Levels : \A i \in DOMAIN r.provided[l] : r.provided[l][i] <= time

(* The levels of S that are not a's.                                        *)
Spared(S, a) == {l \in S : Actor[l] # a}

(* So an invalidation voids them all, those of the present moment included. *)
LEMMA VoidCounts ==
  ASSUME NEW r \in Row, NEW o, NEW time \in Nat, Past(r, time), NEW a \in Accounts,
         NEW iv, NEW iw, iw[a] = time, \A b \in Accounts \ {a} : iw[b] = iv[b]
  PROVE  CountedIn(r, o, iw) = Spared(CountedIn(r, o, iv), a)
<1>1. \A l \in Levels : /\ Actor[l] \in Accounts
                        /\ Actor[l] = a => iw[Actor[l]] = time
                        /\ Actor[l] # a => iw[Actor[l]] = iv[Actor[l]]
  BY MsigAssumption
<1>2. time # Never
  BY DEF Never
<1>3. \A l \in Levels : \A i \in DOMAIN r.provided[l] : ~ (time < r.provided[l][i])
  <2> SUFFICES ASSUME NEW l \in Levels, NEW i \in DOMAIN r.provided[l]
               PROVE  ~ (time < r.provided[l][i])
    OBVIOUS
  <2>1. r.provided[l] \in Seq(Nat)
    BY DEF Row
  <2>2. r.provided[l][i] \in Nat /\ r.provided[l][i] <= time
    BY <2>1 DEF Past
  <2> QED BY <2>2
<1>4. CASE r.exists
  <2>1. \A l \in Levels :
          (\E i \in DOMAIN r.provided[l] : iw[Actor[l]] < r.provided[l][i])
            <=> /\ \E i \in DOMAIN r.provided[l] : iv[Actor[l]] < r.provided[l][i]
                /\ Actor[l] # a
    BY <1>1, <1>3, Zenon
  <2>2. /\ CountedIn(r, o, iw) =
             {l \in Levels : \E i \in DOMAIN r.provided[l] : iw[Actor[l]] < r.provided[l][i]}
        /\ CountedIn(r, o, iv) =
             {l \in Levels : \E i \in DOMAIN r.provided[l] : iv[Actor[l]] < r.provided[l][i]}
    BY <1>4, Zenon DEF CountedIn
  <2> QED BY <2>1, <2>2 DEF Spared
<1>5. CASE ~ r.exists
  <2>1. /\ CountedIn(r, o, iw) =
             {l \in Levels : o.provided[l] # <<>> /\ iw[Actor[l]] = Never}
        /\ CountedIn(r, o, iv) =
             {l \in Levels : o.provided[l] # <<>> /\ iv[Actor[l]] = Never}
    BY <1>5, Zenon DEF CountedIn
  <2> QED BY <1>1, <1>2, <2>1 DEF Spared
<1> QED BY <1>4, <1>5

-----------------------------------------------------------------------------
(* The contract implements MsigConsent.                                     *)

(* An absent row is blank, so it counts for nobody.                         *)
Blank(r) == ~ r.exists => r = NoRow

Timely ==
  \A p \in Proposals :
    Past(approvals[p], now) /\ Blank(approvals[p]) /\ Blank(old_approvals[p])

CInv == IInv /\ Timely

LEMMA PastNoRow == \A time : Past(NoRow, time)
BY DEF Past, NoRow, Nothing

LEMMA PastProvide ==
  ASSUME NEW r \in Row, NEW l \in Levels, NEW time \in Nat, Past(r, time)
  PROVE  Past(Provide(r, l, time), time)
<1>1. r.provided \in [Levels -> Seq(Nat)]
  BY DEF Row
<1>2. Provide(r, l, time).provided = [r.provided EXCEPT ![l] = Append(r.provided[l], time)]
  BY DEF Provide, Row
<1>3. ASSUME NEW i \in DOMAIN Append(r.provided[l], time)
      PROVE  Append(r.provided[l], time)[i] <= time
  <2>1. r.provided[l] \in Seq(Nat) /\ Len(r.provided[l]) \in Nat
    BY <1>1
  <2>2. CASE i = Len(r.provided[l]) + 1
    BY <2>1, <2>2
  <2>3. CASE i # Len(r.provided[l]) + 1
    <3>1. i \in DOMAIN r.provided[l] /\ Append(r.provided[l], time)[i] = r.provided[l][i]
      BY <1>3, <2>1, <2>3
    <3> QED BY <3>1 DEF Past
  <2> QED BY <2>2, <2>3
<1> QED BY <1>1, <1>2, <1>3 DEF Past

LEMMA PastRevoke ==
  ASSUME NEW r \in Row, NEW l \in Levels, r.provided[l] # <<>>, NEW time, Past(r, time)
  PROVE  Past(Revoke(r, l), time)
<1>1. r.provided \in [Levels -> Seq(Nat)]
  BY DEF Row
<1>2. Revoke(r, l).provided = [r.provided EXCEPT ![l] = Tail(r.provided[l])]
  BY DEF Revoke, Row
<1>3. \A i \in DOMAIN Tail(r.provided[l]) :
        i + 1 \in DOMAIN r.provided[l] /\ Tail(r.provided[l])[i] = r.provided[l][i + 1]
  BY <1>1
<1> QED BY <1>1, <1>2, <1>3 DEF Past

LEMMA PastLater ==
  ASSUME NEW r \in Row, NEW time \in Nat, Past(r, time)
  PROVE  Past(r, time + 1)
<1> SUFFICES ASSUME NEW l \in Levels, NEW i \in DOMAIN r.provided[l]
             PROVE  r.provided[l][i] <= time + 1
  BY DEF Past
<1>1. r.provided[l] \in Seq(Nat)
  BY DEF Row
<1>2. r.provided[l][i] \in Nat /\ r.provided[l][i] <= time
  BY <1>1 DEF Past
<1> QED BY <1>2

Standing == [p \in Proposals |-> Counted(p)]

(* The levels that stand by the other proposals do not change when one row  *)
(* of the two does.                                                         *)
LEMMA StandingUpdate ==
  ASSUME NEW p \in Proposals, invals' = invals,
         \A q \in Proposals \ {p} : /\ approvals'[q] = approvals[q]
                                    /\ old_approvals'[q] = old_approvals[q]
  PROVE  Standing' = [Standing EXCEPT ![p] =
                        CountedIn(approvals'[p], old_approvals'[p], invals)]
<1>1. Standing' = [q \in Proposals |-> CountedIn(approvals'[q], old_approvals'[q], invals')]
  BY CountedIs DEF Standing
<1>2. Standing = [q \in Proposals |-> CountedIn(approvals[q], old_approvals[q], invals)]
  BY CountedIs DEF Standing
<1> QED BY <1>1, <1>2

LEMMA SameStanding ==
  ASSUME UNCHANGED <<approvals, old_approvals, invals>>
  PROVE  Standing' = Standing
<1>1. Standing' = [q \in Proposals |-> CountedIn(approvals'[q], old_approvals'[q], invals')]
  BY CountedIs DEF Standing
<1>2. Standing = [q \in Proposals |-> CountedIn(approvals[q], old_approvals[q], invals)]
  BY CountedIs DEF Standing
<1> QED BY <1>1, <1>2

LEMMA StandingOf ==
  ASSUME NEW p \in Proposals
  PROVE  Standing[p] = CountedIn(approvals[p], old_approvals[p], invals)
BY CountedIs DEF Standing

LEMMA StandingDomain == Standing = [p \in Proposals |-> Standing[p]]
BY DEF Standing

(* What a step is in the abstract specification.                            *)
Step == Consent!Next \/ UNCHANGED Consent!vars

LEMMA ProposeStep ==
  ASSUME CInv, NEW p \in Proposals, NEW list \in Lists, NEW x \in Trxs,
         Propose(p, list, x)
  PROVE  Timely' /\ Step
<1> DEFINE r == [exists |-> TRUE, requested |-> list, provided |-> Nothing]
<1>1. /\ approvals \in [Proposals -> Row] /\ old_approvals \in [Proposals -> Row]
      /\ ~ approvals[p].exists /\ ~ old_approvals[p].exists
  BY DEF CInv, IInv, TypeOK, OneRow, Propose
<1>2. approvals[p] = NoRow /\ old_approvals[p] = NoRow
  BY <1>1 DEF CInv, Timely, Blank
<1>3. approvals' = [approvals EXCEPT ![p] = r] /\ UNCHANGED <<old_approvals, invals, now>>
  BY DEF Propose
<1>4. r.exists /\ Past(r, now)
  BY DEF Past, Nothing
<1>5. Standing' = Standing
  <2>1. Standing[p] = {} /\ CountedIn(r, old_approvals[p], invals) = {}
    BY <1>2, StandingOf, NobodyCounts
  <2>2. Standing' = [Standing EXCEPT ![p] = CountedIn(r, old_approvals[p], invals)]
    <3> HIDE DEF r
    <3> QED BY <1>1, <1>3, StandingUpdate
  <2> QED BY <2>1, <2>2, StandingDomain
<1> HIDE DEF r
<1>6. Timely'
  BY <1>1, <1>3, <1>4 DEF CInv, Timely, Blank
<1>7. Consent!Propose(p, x)
  BY <1>5 DEF Propose, Consent!Propose, Standing, Seconds
<1> QED BY <1>6, <1>7 DEF Step, Consent!Next

(* An approval or a revocation replaces one of the two rows of p.           *)
LEMMA RowStep ==
  ASSUME CInv, NEW p \in Proposals, NEW l \in Levels, auth' = Actor[l],
         UNCHANGED <<proposals, invals, deferred, now>>,
         NEW r, NEW o, Blank(r), Blank(o), Past(r, now),
         approvals' = [approvals EXCEPT ![p] = r],
         old_approvals' = [old_approvals EXCEPT ![p] = o],
         LET C == CountedIn(approvals[p], old_approvals[p], invals)
             D == CountedIn(r, o, invals)
         IN  D = C \/ D = C \ {l} \/ (D = C \cup {l} /\ proposals[p] # NoTrx)
  PROVE  Timely' /\ Step
<1> DEFINE C == CountedIn(approvals[p], old_approvals[p], invals)
           D == CountedIn(r, o, invals)
<1>1. approvals \in [Proposals -> Row] /\ old_approvals \in [Proposals -> Row]
  BY DEF CInv, IInv, TypeOK
<1>2. /\ approvals'[p] = r /\ old_approvals'[p] = o
      /\ \A q \in Proposals \ {p} : /\ approvals'[q] = approvals[q]
                                    /\ old_approvals'[q] = old_approvals[q]
  BY <1>1
<1>3. Timely'
  BY <1>2 DEF CInv, Timely
<1>4. Standing' = [Standing EXCEPT ![p] = D] /\ Standing[p] = C
  BY <1>2, StandingUpdate, StandingOf
<1>5. D = C \/ D = C \ {l} \/ (D = C \cup {l} /\ proposals[p] # NoTrx)
  OBVIOUS
<1> HIDE DEF C, D
<1>6. Seconds' = Seconds /\ Actor[l] \in Accounts
  BY MsigAssumption DEF Seconds
<1>7. CASE D = C
  <2>1. Standing' = Standing
    BY <1>4, <1>7, StandingDomain
  <2>2. Consent!Internal
    BY <1>6, <2>1 DEF Consent!Internal, Standing
  <2> QED BY <1>3, <2>2 DEF Step, Consent!Next
<1>8. CASE D = C \ {l}
  <2>1. Standing' = [Standing EXCEPT ![p] = @ \ {l}]
    BY <1>4, <1>8
  <2>2. Consent!Withdraw(p, l)
    BY <1>6, <2>1 DEF Consent!Withdraw, Standing
  <2> QED BY <1>3, <2>2 DEF Step, Consent!Next
<1>9. CASE D = C \cup {l} /\ proposals[p] # NoTrx
  <2>1. Standing' = [Standing EXCEPT ![p] = @ \cup {l}]
    BY <1>4, <1>9
  <2>2. Consent!Stand(p, l)
    BY <1>6, <1>9, <2>1 DEF Consent!Stand, Standing
  <2> QED BY <1>3, <2>2 DEF Step, Consent!Next
<1> QED BY <1>5, <1>7, <1>8, <1>9

LEMMA ApproveStep ==
  ASSUME CInv, NEW p \in Proposals, NEW l \in Levels,
         NEW hash \in Trxs \cup {NoTrx}, Approve(p, l, hash)
  PROVE  Timely' /\ Step
<1>1. /\ approvals \in [Proposals -> Row] /\ old_approvals \in [Proposals -> Row]
      /\ approvals[p] \in Row /\ old_approvals[p] \in Row /\ now \in Nat
      /\ Past(approvals[p], now) /\ Blank(approvals[p]) /\ Blank(old_approvals[p])
  BY MsigAssumption DEF CInv, IInv, TypeOK, Timely
<1>2. auth' = Actor[l] /\ UNCHANGED <<proposals, invals, deferred, now>>
  BY DEF Approve
<1>3. CASE /\ Listed(approvals[p], l) /\ UNCHANGED old_approvals
           /\ approvals' = [approvals EXCEPT ![p] = Provide(@, l, now)]
  <2> DEFINE r == Provide(approvals[p], l, now)
             o == old_approvals[p]
  <2>1. /\ approvals[p].exists /\ proposals[p] # NoTrx
        /\ r.exists /\ Past(r, now) /\ Blank(r) /\ Blank(o)
    BY <1>1, <1>3, ProvideRow, PastProvide DEF Listed, Blank, CInv, IInv, OneRow
  <2>2. CountedIn(r, o, invals) =
          IF invals[Actor[l]] < now THEN CountedIn(approvals[p], o, invals) \cup {l}
          ELSE CountedIn(approvals[p], o, invals)
    BY <1>1, <2>1, ProvideCounts
  <2>3. /\ approvals' = [approvals EXCEPT ![p] = r]
        /\ old_approvals' = [old_approvals EXCEPT ![p] = o]
    BY <1>1, <1>3
  <2> HIDE DEF r
  <2> QED BY <1>2, <2>1, <2>2, <2>3, RowStep
<1>4. CASE /\ ~ approvals[p].exists /\ Listed(old_approvals[p], l) /\ UNCHANGED approvals
           /\ old_approvals' = [old_approvals EXCEPT ![p] = Provide(@, l, 0)]
  <2> DEFINE r == approvals[p]
             o == Provide(old_approvals[p], l, 0)
  <2>1. /\ old_approvals[p].exists /\ proposals[p] # NoTrx
        /\ o.exists /\ Blank(o) /\ Blank(r) /\ Past(r, now)
    BY <1>1, <1>4, ProvideRow DEF Listed, Blank, CInv, IInv, OneRow
  <2>2. CountedIn(r, o, invals) =
          IF invals[Actor[l]] = Never THEN CountedIn(r, old_approvals[p], invals) \cup {l}
          ELSE CountedIn(r, old_approvals[p], invals)
    BY <1>1, <1>4, ProvideOldCounts
  <2>3. /\ approvals' = [approvals EXCEPT ![p] = r]
        /\ old_approvals' = [old_approvals EXCEPT ![p] = o]
    BY <1>1, <1>4
  <2> HIDE DEF o
  <2> QED BY <1>2, <2>1, <2>2, <2>3, RowStep
<1> QED BY <1>3, <1>4 DEF Approve

LEMMA UnapproveStep ==
  ASSUME CInv, NEW p \in Proposals, NEW l \in Levels, Unapprove(p, l)
  PROVE  Timely' /\ Step
<1>1. /\ approvals \in [Proposals -> Row] /\ old_approvals \in [Proposals -> Row]
      /\ approvals[p] \in Row /\ old_approvals[p] \in Row
      /\ Past(approvals[p], now) /\ Blank(approvals[p]) /\ Blank(old_approvals[p])
  BY DEF CInv, IInv, TypeOK, Timely
<1>2. auth' = Actor[l] /\ UNCHANGED <<proposals, invals, deferred, now>>
  BY DEF Unapprove
<1>3. CASE /\ Given(approvals[p], l) /\ UNCHANGED old_approvals
           /\ approvals' = [approvals EXCEPT ![p] = Revoke(@, l)]
  <2> DEFINE r == Revoke(approvals[p], l)
             o == old_approvals[p]
  <2>1. approvals[p].exists /\ r.exists /\ Past(r, now) /\ Blank(r) /\ Blank(o)
    BY <1>1, <1>3, RevokeRow, PastRevoke DEF Given, Blank
  <2>2. \/ CountedIn(r, o, invals) = CountedIn(approvals[p], o, invals)
        \/ CountedIn(r, o, invals) = CountedIn(approvals[p], o, invals) \ {l}
    BY <1>1, <1>3, <2>1, RevokeCounts DEF Given
  <2>3. /\ approvals' = [approvals EXCEPT ![p] = r]
        /\ old_approvals' = [old_approvals EXCEPT ![p] = o]
    BY <1>1, <1>3
  <2> HIDE DEF r
  <2> QED BY <1>2, <2>1, <2>2, <2>3, RowStep
<1>4. CASE /\ ~ approvals[p].exists /\ Given(old_approvals[p], l) /\ UNCHANGED approvals
           /\ old_approvals' = [old_approvals EXCEPT ![p] = Revoke(@, l)]
  <2> DEFINE r == approvals[p]
             o == Revoke(old_approvals[p], l)
  <2>1. o.exists /\ Blank(o) /\ Blank(r) /\ Past(r, now)
    BY <1>1, <1>4, RevokeRow DEF Given, Blank
  <2>2. \/ CountedIn(r, o, invals) = CountedIn(r, old_approvals[p], invals)
        \/ CountedIn(r, o, invals) = CountedIn(r, old_approvals[p], invals) \ {l}
    BY <1>1, <1>4, RevokeOldCounts
  <2>3. /\ approvals' = [approvals EXCEPT ![p] = r]
        /\ old_approvals' = [old_approvals EXCEPT ![p] = o]
    BY <1>1, <1>4
  <2> HIDE DEF o
  <2> QED BY <1>2, <2>1, <2>2, <2>3, RowStep
<1> QED BY <1>3, <1>4 DEF Unapprove

(* cancel and exec leave both rows of the proposal absent.                  *)
LEMMA DropStanding ==
  ASSUME CInv, NEW p \in Proposals, proposals[p] # NoTrx, DropApprovals(p),
         UNCHANGED <<invals, now>>
  PROVE  /\ Timely'
         /\ Standing' = [Standing EXCEPT ![p] = {}]
<1>1. /\ approvals \in [Proposals -> Row] /\ old_approvals \in [Proposals -> Row]
      /\ ~ (approvals[p].exists /\ old_approvals[p].exists)
      /\ Blank(approvals[p]) /\ Blank(old_approvals[p])
  BY DEF CInv, IInv, TypeOK, OneRow, Timely
<1>2. /\ approvals'[p] = NoRow /\ old_approvals'[p] = NoRow
      /\ \A q \in Proposals \ {p} : /\ approvals'[q] = approvals[q]
                                    /\ old_approvals'[q] = old_approvals[q]
  BY <1>1 DEF DropApprovals, Blank
<1>3. Timely'
  BY <1>2, PastNoRow, NoRowType DEF CInv, Timely, Blank
<1>4. Standing' = [Standing EXCEPT ![p] = CountedIn(NoRow, NoRow, invals)]
  BY <1>2, StandingUpdate
<1>5. CountedIn(NoRow, NoRow, invals) = {}
  BY NobodyCounts
<1> QED BY <1>3, <1>4, <1>5

LEMMA CancelStep ==
  ASSUME CInv, NEW p \in Proposals, NEW a \in Accounts, Cancel(p, a)
  PROVE  Timely' /\ Step
<1>1. Timely' /\ Standing' = [Standing EXCEPT ![p] = {}]
  BY DropStanding DEF Cancel
<1>2. Consent!Close(p)
  BY <1>1 DEF Cancel, Consent!Close, Standing, Seconds
<1>3. Consent!Cancel(p)
  BY <1>2 DEF Cancel, Consent!Cancel
<1> QED BY <1>1, <1>3 DEF Step, Consent!Next

(* What exec finds authorised are the levels that stand.                    *)
LEMMA ExecStep ==
  ASSUME CInv, NEW p \in Proposals, NEW a \in Accounts, Exec(p, a)
  PROVE  Timely' /\ Step
<1>1. Timely' /\ Standing' = [Standing EXCEPT ![p] = {}]
  BY DropStanding DEF Exec
<1>2. Consent!Close(p)
  BY <1>1 DEF Exec, Consent!Close, Standing, Seconds
<1>3. \E q \in Quorums[proposals[p]] : q \subseteq Standing[p]
  BY DEF Exec, Authorised, Standing
<1>4. Consent!Send(p)
  BY <1>2, <1>3 DEF Exec, Consent!Send, Standing
<1> QED BY <1>1, <1>4 DEF Step, Consent!Next

LEMMA InvalidateStep ==
  ASSUME CInv, NEW a \in Accounts, Invalidate(a)
  PROVE  Timely' /\ Step
<1>1. /\ \A p \in Proposals : approvals[p] \in Row /\ Past(approvals[p], now)
      /\ now \in Nat /\ DOMAIN invals = Accounts
      /\ invals' = [invals EXCEPT ![a] = now]
      /\ UNCHANGED <<proposals, approvals, old_approvals, deferred, now>>
  BY MsigAssumption DEF CInv, IInv, TypeOK, Timely, Invalidate
<1>2. Timely'
  BY <1>1 DEF CInv, Timely
<1>3. ASSUME NEW p \in Proposals
      PROVE  CountedIn(approvals[p], old_approvals[p], invals')
               = {l \in Standing[p] : Actor[l] # a}
  <2>1. approvals[p] \in Row /\ Past(approvals[p], now) /\ now \in Nat
    BY <1>1
  <2>2. invals'[a] = now /\ \A b \in Accounts \ {a} : invals'[b] = invals[b]
    BY <1>1
  <2>3. CountedIn(approvals[p], old_approvals[p], invals')
          = Spared(CountedIn(approvals[p], old_approvals[p], invals), a)
    BY <2>1, <2>2, VoidCounts
  <2> QED BY <2>3, StandingOf DEF Spared
<1>4. Standing' = [p \in Proposals |-> {l \in Standing[p] : Actor[l] # a}]
  <2>1. Standing' = [p \in Proposals |-> CountedIn(approvals'[p], old_approvals'[p], invals')]
    BY CountedIs DEF Standing
  <2>2. UNCHANGED <<approvals, old_approvals>>
    BY <1>1
  <2> QED BY <1>3, <2>1, <2>2
<1>5. Consent!Void(a)
  BY <1>1, <1>4 DEF Invalidate, Consent!Void, Standing, Seconds
<1> QED BY <1>2, <1>5 DEF Step, Consent!Next

(* Half a second more is a second more, or none.                            *)
LEMMA TickStep ==
  ASSUME CInv, Tick
  PROVE  Timely' /\ Step
<1>1. /\ now \in Nat /\ now' = now + 1
      /\ \A p \in Proposals : approvals[p] \in Row
      /\ UNCHANGED <<proposals, approvals, old_approvals, invals, deferred, auth>>
  BY MsigAssumption DEF CInv, IInv, TypeOK, Tick
<1>2. Timely'
  BY <1>1, PastLater DEF CInv, Timely
<1>3. (now + 1) \div 2 = now \div 2 \/ (now + 1) \div 2 = (now \div 2) + 1
  BY <1>1
<1>4. Standing' = Standing
  BY <1>1, SameStanding
<1>5. CASE Seconds' = Seconds
  BY <1>1, <1>2, <1>4, <1>5 DEF Step, Consent!vars, Standing
<1>6. CASE Seconds' = Seconds + 1
  <2>1. Consent!Tick
    BY <1>1, <1>4, <1>6 DEF Consent!Tick, Standing
  <2> QED BY <1>2, <2>1 DEF Step, Consent!Next
<1> QED BY <1>1, <1>3, <1>5, <1>6 DEF Seconds

LEMMA DeliverStep ==
  ASSUME CInv, NEW p \in Proposals, Deliver(p)
  PROVE  Timely' /\ Step
<1>1. Timely'
  BY DEF CInv, Timely, Deliver
<1>2. Standing' = Standing
  BY SameStanding DEF Deliver
<1>3. Consent!Deliver(p)
  BY <1>2 DEF Deliver, Consent!Deliver, Standing, Seconds
<1> QED BY <1>1, <1>3 DEF Step, Consent!Next

LEMMA StepConsents ==
  ASSUME CInv, [Next]_vars
  PROVE  Timely' /\ Step
<1>1. CASE UNCHANGED vars
  <2>1. Timely' /\ Standing' = Standing
    BY <1>1, SameStanding DEF CInv, Timely, vars
  <2> QED BY <1>1, <2>1 DEF Step, Consent!vars, Standing, Seconds, vars
<1>2. CASE Next
  BY <1>2, ProposeStep, ApproveStep, UnapproveStep, CancelStep, ExecStep,
     InvalidateStep, TickStep, DeliverStep DEF Next
<1> QED BY <1>1, <1>2

LEMMA LegacyBlank ==
  ASSUME NEW e \in Legacy
  PROVE  Blank(e[2])
BY DEF Legacy, Left, Blank

LEMMA InitConsents == Init => CInv /\ Consent!Init
<1> SUFFICES ASSUME Init PROVE CInv /\ Consent!Init
  OBVIOUS
<1>1. IInv
  BY InitOK
<1>2. PICK old \in [Proposals -> Legacy] :
        old_approvals = [p \in Proposals |-> old[p][2]]
  BY DEF Init
<1>3. \A p \in Proposals : old[p] \in Legacy
  OBVIOUS
<1>4. Timely
  BY <1>2, <1>3, LegacyBlank, PastNoRow DEF Init, Timely, Blank
<1>5. Standing \in [Proposals -> SUBSET Levels]
  <2>1. \A p \in Proposals : Counted(p) \in SUBSET Levels
    BY DEF Counted
  <2> QED BY <2>1 DEF Standing
<1>6. 0 \div 2 = 0
  OBVIOUS
<1>7. Consent!Init
  BY <1>1, <1>5, <1>6 DEF Init, Consent!Init, IInv, TypeOK, Standing, Seconds
<1> QED BY <1>1, <1>4, <1>7 DEF CInv

(* A transaction is sent on standing approvals alone: whatever approvals    *)
(* were given, taken back and given again, invalidated in the same block,   *)
(* carried over from the earlier table or left by a cancelled proposal of   *)
(* the name, eosio.msig is a MsigConsent.                                   *)
THEOREM Refinement == Spec => ImplementsConsent
<1>1. Init => CInv /\ Consent!Init
  BY InitConsents
<1>2. CInv /\ [Next]_vars => CInv'
  BY StepOK, StepConsents DEF CInv
<1>3. CInv /\ [Next]_vars => [Consent!Next]_(Consent!vars)
  BY StepConsents DEF Step
<1> QED BY <1>1, <1>2, <1>3, PTL DEF Spec, ImplementsConsent, Consent!Spec

=============================================================================
