-------------------------- MODULE BackOfficeProofs --------------------------
(***************************************************************************)
(* The back office holds together for any number of admins, operations,    *)
(* managers, offerings, wallets, keys and requests at once.                *)
(*                                                                         *)
(* The approval queue: an operation is sent at most once, and only with    *)
(* the approvals its threshold asked for.                                  *)
(*                                                                         *)
(* The staff: two requests that are open for one thing are remembered, a   *)
(* login that was made for a profile waits for that profile alone, and     *)
(* who takes an admin away leaves another.                                 *)
(*                                                                         *)
(* The recovery: a wallet that was frozen covers the transfer that waits   *)
(* for it, and a link is not replaced.                                     *)
(*                                                                         *)
(* The keys: a nonce that was handed out is on its way or at the node, so  *)
(* that no answer and no cache lies beyond a gap.                          *)
(***************************************************************************)
EXTENDS BackOffice, Sequences, FiniteSetTheorems, TLAPS

-----------------------------------------------------------------------------
(* The approval queue. *)

\* A call that is under way serves an admin and an operation somebody submitted.
Known ==
  /\ \A p \in Procs :
       pc[p] # "idle" => /\ req[p] \in Requests /\ actor[p] \in Admins
                         /\ by[req[p]] # NoAdmin
  /\ \A r \in Requests :
       by[r] = NoAdmin => status[r] = "none" /\ approvals[r] = {} /\ Sent(r) = {}

\* Approvers hold the role and are not the maker.
May(r) == Entitled[r] \ {by[r]}
Approvers ==
  /\ \A r \in Requests : by[r] # NoAdmin => approvals[r] \subseteq May(r)
  /\ \A p \in Procs : pc[p] = "addApproval" => actor[p] \in May(req[p])

\* A row exists exactly when its threshold is not zero, and only a row is
\* approved, claimed or rejected.
RowPcs == {"addApproval", "count", "claim", "writeRejected"}
HasRow ==
  /\ \A r \in Requests : status[r] # "none" => need[r] > 0
  /\ \A p \in Procs : pc[p] \in RowPcs => need[req[p]] > 0

\* Whoever claims or executes has counted enough approvals, and what is being
\* executed or was sent is claimed for good.
Enough(r) == Cardinality(approvals[r]) >= need[r]
Claimed(r) == status[r] \notin {"none", "pending"} \/ (need[r] = 0 /\ by[r] # NoAdmin)
Counted ==
  /\ \A p \in Procs : pc[p] = "claim" => Enough(req[p])
  /\ \A p \in Procs : pc[p] \in ExecPcs => Enough(req[p]) /\ Claimed(req[p])
  /\ \A r \in Requests : Sent(r) # {} => Enough(r) /\ Claimed(r)

\* One call executes an operation, and sends it when nothing was sent before.
Alone ==
  /\ \A p, q \in Procs : pc[p] \in ExecPcs /\ pc[q] \in ExecPcs /\ req[p] = req[q] => p = q
  /\ \A p \in Procs : pc[p] = "send" => Sent(req[p]) = {}

\* What is recorded as executed is mined.
Mined ==
  /\ \A p \in Procs : pc[p] = "wait" => num[p] \in Writes
  /\ \A p \in Procs : pc[p] = "writeExecuted" => \E n \in Writes : chain[req[p]][n] = "mined"

Inv == /\ TypeOK /\ Known /\ Approvers /\ HasRow /\ Counted /\ Alone
       /\ Mined /\ ExecutedOnce /\ ExecutedIsMined

USE DEF Writes

-----------------------------------------------------------------------------
\* An approval more never leaves fewer.
LEMMA AddedEnough ==
  ASSUME TypeOK, NEW r \in Requests, NEW a \in Admins
  PROVE  /\ IsFiniteSet(approvals[r]) /\ Cardinality(approvals[r]) \in Nat
         /\ Cardinality(approvals[r] \cup {a}) \in Nat
         /\ Cardinality(approvals[r] \cup {a}) >= Cardinality(approvals[r])
<1>1. approvals[r] \subseteq Admins
  BY DEF TypeOK
<1>2. IsFiniteSet(approvals[r])
  BY <1>1, AdminsAssumption, FS_Subset
<1>3. Cardinality(approvals[r]) \in Nat
  BY <1>2, FS_CardinalityType
<1>4. Cardinality(approvals[r] \cup {a}) =
        IF a \in approvals[r] THEN Cardinality(approvals[r]) ELSE Cardinality(approvals[r]) + 1
  BY <1>2, FS_AddElement
<1> QED BY <1>2, <1>3, <1>4

\* With no approvals yet, the threshold 0 is met.
LEMMA NoneEnough == Cardinality({}) = 0
BY FS_EmptySet

\* Most steps move one call on and leave rows and chain alone.  Such a step is
\* safe when the call does not enter a claim, an execution or a wait.
LEMMA MoveStep ==
  ASSUME Inv, NEW p \in Procs, NEW next \in {"idle", "count", "writeFailed", "writeRejected"},
         pc' = [pc EXCEPT ![p] = next],
         next = "writeFailed" => pc[p] \in ExecPcs,
         next = "count" => pc[p] = "addApproval",
         next = "writeRejected" => req'[p] \in Requests /\ actor'[p] \in Admins
                                   /\ by[req'[p]] # NoAdmin /\ need[req'[p]] > 0,
         next \in {"count", "writeFailed"} => actor'[p] = actor[p] /\ req'[p] = req[p],
         actor' \in [Procs -> Admins \cup {NoAdmin}],
         req' \in [Procs -> Requests \cup {NoRequest}],
         num' \in [Procs -> 0..MaxWrites],
         \A q \in Procs \ {p} : actor'[q] = actor[q] /\ req'[q] = req[q] /\ num'[q] = num[q],
         UNCHANGED <<rowVars, chain>>
  PROVE  Inv'
<1> USE DEF Inv, rowVars, ExecPcs
<1>1. TypeOK'
  BY DEF TypeOK, Pcs
<1>2. \A r \in Requests : Sent(r)' = Sent(r) /\ (Enough(r)' <=> Enough(r))
                          /\ (Claimed(r)' <=> Claimed(r)) /\ May(r)' = May(r)
  BY DEF Sent, Enough, Claimed, May
<1>3. \A q \in Procs : pc'[q] = IF q = p THEN next ELSE pc[q]
  BY DEF TypeOK
<1>4. Known'
  BY <1>2, <1>3 DEF Known
<1>5. Approvers'
  BY <1>2, <1>3 DEF Approvers, Known, May
<1>6. HasRow'
  BY <1>3 DEF HasRow, RowPcs
<1>7. Counted'
  BY <1>2, <1>3 DEF Counted, Known
<1>8. Alone'
  BY <1>2, <1>3 DEF Alone, Known
<1>9. Mined'
  BY <1>3 DEF Mined
<1>10. ExecutedOnce' /\ ExecutedIsMined'
  BY <1>2 DEF ExecutedOnce, ExecutedIsMined
<1> QED BY <1>1, <1>4, <1>5, <1>6, <1>7, <1>8, <1>9, <1>10

LEMMA FinishStep ==
  ASSUME Inv, NEW p \in Procs, Finish(p), UNCHANGED <<rowVars, chain>>
  PROVE  Inv'
<1>1. /\ actor' \in [Procs -> Admins \cup {NoAdmin}]
      /\ req' \in [Procs -> Requests \cup {NoRequest}]
      /\ num' \in [Procs -> 0..MaxWrites]
      /\ \A q \in Procs \ {p} : actor'[q] = actor[q] /\ req'[q] = req[q] /\ num'[q] = num[q]
  BY MaxWritesAssumption DEF Finish, Inv, TypeOK
<1>2. pc' = [pc EXCEPT ![p] = "idle"]
  BY DEF Finish, Goto
<1> QED BY <1>1, <1>2, MoveStep

\* A step of p that writes the status of the row it holds and ends the call.
LEMMA OutcomeStep ==
  ASSUME Inv, NEW p \in Procs, NEW s \in {"executed", "failed", "rejected"},
         pc[p] \in ExecPcs \cup RowPcs, need[req[p]] > 0, Put(req[p], s), Finish(p),
         s = "executed" => \E n \in Writes : chain[req[p]][n] = "mined",
         UNCHANGED chain
  PROVE  Inv'
<1> USE DEF Inv
<1>a. req[p] \in Requests /\ by[req[p]] # NoAdmin
  BY DEF Known, ExecPcs, RowPcs
<1>b. /\ actor' \in [Procs -> Admins \cup {NoAdmin}]
      /\ req' \in [Procs -> Requests \cup {NoRequest}]
      /\ num' \in [Procs -> 0..MaxWrites]
      /\ pc' = [pc EXCEPT ![p] = "idle"]
      /\ \A q \in Procs : pc'[q] = IF q = p THEN "idle" ELSE pc[q]
      /\ \A q \in Procs \ {p} : actor'[q] = actor[q] /\ req'[q] = req[q] /\ num'[q] = num[q]
  BY MaxWritesAssumption DEF Finish, Goto, TypeOK
<1>c. /\ status' = [status EXCEPT ![req[p]] = s] /\ UNCHANGED <<by, need, approvals, chain>>
      /\ \A r \in Requests : status'[r] = IF r = req[p] THEN s ELSE status[r]
  BY <1>a DEF Put, TypeOK
<1>d. \A r \in Requests : Sent(r)' = Sent(r) /\ (Enough(r)' <=> Enough(r)) /\ May(r)' = May(r)
  BY <1>c DEF Sent, Enough, May
<1>e. \A r \in Requests : Claimed(r) => Claimed(r)'
  BY <1>c DEF Claimed
<1>1. TypeOK'
  BY <1>a, <1>b, <1>c DEF TypeOK, Pcs, Statuses
<1>2. Known'
  BY <1>a, <1>b, <1>c, <1>d DEF Known
<1>3. Approvers'
  BY <1>b, <1>c, <1>d DEF Approvers, Known
<1>4. HasRow'
  BY <1>a, <1>b, <1>c DEF HasRow, RowPcs
<1>5. Counted'
  BY <1>b, <1>d, <1>e DEF Counted, Known, ExecPcs
<1>6. Alone'
  BY <1>b, <1>d DEF Alone, Known, ExecPcs
<1>7. Mined'
  BY <1>b, <1>c DEF Mined
<1>8. ExecutedOnce' /\ ExecutedIsMined'
  BY <1>c, <1>d DEF ExecutedOnce, ExecutedIsMined
<1> QED BY <1>1, <1>2, <1>3, <1>4, <1>5, <1>6, <1>7, <1>8

\* A step of p that leaves rows and chain alone and takes p to a call that only
\* a row has, with what that call presumes.
LEMMA EnterStep ==
  ASSUME Inv, NEW p \in Procs, NEW next \in RowPcs, pc' = [pc EXCEPT ![p] = next],
         req'[p] \in Requests, actor'[p] \in Admins,
         by[req'[p]] # NoAdmin, need[req'[p]] > 0,
         next = "addApproval" => actor'[p] \in May(req'[p]),
         next = "claim" => Enough(req'[p]),
         actor' \in [Procs -> Admins \cup {NoAdmin}],
         req' \in [Procs -> Requests \cup {NoRequest}],
         \A q \in Procs \ {p} : actor'[q] = actor[q] /\ req'[q] = req[q],
         UNCHANGED <<rowVars, chain, num>>
  PROVE  Inv'
<1> USE DEF Inv, rowVars
<1>1. \A r \in Requests : Sent(r)' = Sent(r) /\ (Enough(r)' <=> Enough(r))
                          /\ (Claimed(r)' <=> Claimed(r)) /\ May(r)' = May(r)
  BY DEF Sent, Enough, Claimed, May
<1>2. \A q \in Procs : pc'[q] = IF q = p THEN next ELSE pc[q]
  BY DEF TypeOK
<1>3. next \notin ExecPcs
  BY DEF RowPcs, ExecPcs
<1>4. TypeOK'
  BY DEF TypeOK, Pcs, RowPcs
<1>5. Known'
  BY <1>1, <1>2 DEF Known
<1>6. Approvers'
  BY <1>1, <1>2 DEF Approvers, Known, May
<1>7. HasRow'
  BY <1>2 DEF HasRow
<1>8. Counted'
  BY <1>1, <1>2, <1>3 DEF Counted, Known, ExecPcs
<1>9. Alone'
  BY <1>1, <1>2, <1>3 DEF Alone, Known, ExecPcs
<1>10. Mined'
  BY <1>2, <1>3 DEF Mined, ExecPcs
<1>11. ExecutedOnce' /\ ExecutedIsMined'
  BY <1>1 DEF ExecutedOnce, ExecutedIsMined
<1> QED BY <1>4, <1>5, <1>6, <1>7, <1>8, <1>9, <1>10, <1>11

LEMMA BeginStep ==
  ASSUME Inv, NEW p \in Procs, NEW a \in Admins, NEW r \in Requests,
         NEW next \in {"addApproval", "writeRejected"},
         status[r] = "pending", next = "addApproval" => a \in May(r),
         Begin(p, a, r, next), UNCHANGED <<rowVars, chain>>
  PROVE  Inv'
<1>1. by[r] # NoAdmin /\ need[r] > 0
  BY DEF Inv, Known, HasRow
<1>2. /\ pc' = [pc EXCEPT ![p] = next] /\ UNCHANGED num
      /\ actor' \in [Procs -> Admins \cup {NoAdmin}] /\ actor'[p] = a
      /\ req' \in [Procs -> Requests \cup {NoRequest}] /\ req'[p] = r
      /\ \A q \in Procs \ {p} : actor'[q] = actor[q] /\ req'[q] = req[q]
  BY DEF Begin, Goto, Inv, TypeOK
<1> QED BY <1>1, <1>2, EnterStep DEF RowPcs

-----------------------------------------------------------------------------
LEMMA SubmitStep ==
  ASSUME Inv, NEW p \in Procs, NEW a \in Admins, NEW r \in Requests,
         NEW n \in Thresholds, Submit(p, a, r, n)
  PROVE  Inv'
<1> USE DEF Inv
<1>a. /\ by[r] = NoAdmin /\ status[r] = "none" /\ approvals[r] = {} /\ Sent(r) = {}
      /\ n \in Nat /\ a # NoAdmin
  BY ThresholdsAssumption, AdminsAssumption DEF Submit, Known
<1>b. /\ by' = [by EXCEPT ![r] = a] /\ need' = [need EXCEPT ![r] = n]
      /\ UNCHANGED <<approvals, chain, num>>
      /\ status' = IF n = 0 THEN status ELSE [status EXCEPT ![r] = "pending"]
  BY <1>a DEF Submit, Begin, procVars
<1>c. \A x \in Requests : /\ by'[x] = IF x = r THEN a ELSE by[x]
                          /\ need'[x] = IF x = r THEN n ELSE need[x]
                          /\ status'[x] = IF x = r /\ n > 0 THEN "pending" ELSE status[x]
  BY <1>a, <1>b DEF TypeOK
<1>d. \A q \in Procs : /\ pc'[q] = pc[q] /\ req'[q] = req[q] /\ actor'[q] = actor[q]
                       \/ /\ q = p /\ n = 0 /\ pc[q] = "idle" /\ pc'[q] = "send"
                          /\ req'[q] = r /\ actor'[q] = a
  BY <1>a DEF Submit, Begin, At, Goto, procVars, TypeOK
<1>e. \A q \in Procs : pc[q] # "idle" => req[q] # r
  BY <1>a DEF Known
<1>f. \A x \in Requests \ {r} : /\ Sent(x)' = Sent(x) /\ (Enough(x)' <=> Enough(x))
                                /\ (Claimed(x)' <=> Claimed(x)) /\ May(x)' = May(x)
  BY <1>b, <1>c DEF Sent, Enough, Claimed, May
<1>g. n = 0 => Enough(r)' /\ Claimed(r)'
  BY <1>a, <1>b, <1>c, NoneEnough DEF Enough, Claimed
<1>h. Sent(r)' = {}
  BY <1>a, <1>b DEF Sent
<1>i. /\ pc' \in [Procs -> Pcs] /\ actor' \in [Procs -> Admins \cup {NoAdmin}]
      /\ req' \in [Procs -> Requests \cup {NoRequest}]
  <2>1. CASE Begin(p, a, r, "send")
    BY <2>1 DEF TypeOK, Begin, Goto, Pcs, ExecPcs
  <2>2. CASE UNCHANGED <<pc, procVars>>
    BY <2>2 DEF TypeOK, procVars
  <2> QED BY <2>1, <2>2 DEF Submit
<1>j. status' \in [Requests -> Statuses]
  BY <1>b DEF TypeOK, Statuses
<1>1. TypeOK'
  BY <1>a, <1>b, <1>i, <1>j DEF TypeOK
<1>2. Known'
  BY <1>a, <1>b, <1>c, <1>d, <1>e, <1>f DEF Known
<1>3. Approvers'
  BY <1>a, <1>b, <1>c, <1>d, <1>e, <1>f DEF Approvers, Known
<1>4. HasRow'
  BY <1>a, <1>c, <1>d, <1>e DEF HasRow, RowPcs, Known
<1>5. Counted'
  BY <1>d, <1>e, <1>f, <1>g, <1>h DEF Counted, Known, ExecPcs
<1>6. Alone'
  BY <1>d, <1>e, <1>f, <1>h DEF Alone, Known, ExecPcs
<1>7. Mined'
  BY <1>b, <1>d, <1>e DEF Mined
<1>8. ExecutedOnce'
  BY <1>f, <1>h DEF ExecutedOnce
<1>9. ExecutedIsMined'
  BY <1>a, <1>b, <1>c DEF ExecutedIsMined
<1> QED BY <1>1, <1>2, <1>3, <1>4, <1>5, <1>6, <1>7, <1>8, <1>9

LEMMA AddApprovalStep ==
  ASSUME Inv, NEW p \in Procs, AddApproval(p)
  PROVE  Inv'
<1> USE DEF Inv
<1>a. CASE actor[p] \in approvals[req[p]]
  BY <1>a, FinishStep DEF AddApproval, rowVars
<1>b. CASE actor[p] \notin approvals[req[p]]
  <2>0. PICK r, a : r = req[p] /\ a = actor[p]
    OBVIOUS
  <2>a. /\ pc[p] = "addApproval" /\ r \in Requests /\ a \in Admins /\ a \in May(r)
        /\ by[r] # NoAdmin /\ need[r] > 0
    BY <2>0 DEF AddApproval, At, Known, Approvers, HasRow, RowPcs
  <2>b. /\ approvals' = [approvals EXCEPT ![r] = @ \cup {a}]
        /\ pc' = [pc EXCEPT ![p] = "count"]
        /\ UNCHANGED <<actor, req, num, status, by, need, chain>>
    BY <1>b, <2>0 DEF AddApproval, Goto, procVars
  <2>c. /\ \A x \in Requests : approvals'[x] = IF x = r THEN approvals[r] \cup {a} ELSE approvals[x]
        /\ \A q \in Procs : pc'[q] = IF q = p THEN "count" ELSE pc[q]
    BY <2>0, <2>a, <2>b DEF TypeOK
  <2>d. \A x \in Requests : /\ Sent(x)' = Sent(x) /\ May(x)' = May(x)
                            /\ (Claimed(x)' <=> Claimed(x))
    BY <2>0, <2>b DEF Sent, May, Claimed
  <2>e. \A x \in Requests : Enough(x) => Enough(x)'
    <3>1. /\ Cardinality(approvals[r]) \in Nat /\ Cardinality(approvals[r] \cup {a}) \in Nat
          /\ Cardinality(approvals[r] \cup {a}) >= Cardinality(approvals[r])
      BY <2>0, <2>a, AddedEnough
    <3>2. need[r] \in Nat
      BY <2>0, <2>a DEF TypeOK
    <3>3. Enough(r) => Enough(r)'
      BY <2>0, <2>a, <2>b, <2>c, <3>1, <3>2 DEF Enough
    <3>4. \A x \in Requests \ {r} : Enough(x) => Enough(x)'
      BY <2>0, <2>b, <2>c DEF Enough
    <3> QED BY <3>3, <3>4
  <2>1. TypeOK'
    BY <2>0, <2>a, <2>b DEF TypeOK, Pcs
  <2>2. Known'
    BY <2>0, <2>a, <2>b, <2>c, <2>d DEF Known
  <2>3. Approvers'
    BY <2>0, <2>a, <2>b, <2>c, <2>d DEF Approvers, Known
  <2>4. HasRow'
    BY <2>0, <2>a, <2>b, <2>c DEF HasRow, RowPcs
  <2>5. Counted'
    BY <2>0, <2>b, <2>c, <2>d, <2>e DEF Counted, Known, ExecPcs
  <2>6. Alone'
    BY <2>0, <2>b, <2>c, <2>d DEF Alone, Known, ExecPcs
  <2>7. Mined'
    BY <2>0, <2>b, <2>c DEF Mined
  <2>8. ExecutedOnce' /\ ExecutedIsMined'
    BY <2>0, <2>b, <2>d DEF ExecutedOnce, ExecutedIsMined
  <2> QED BY <2>0, <2>1, <2>2, <2>3, <2>4, <2>5, <2>6, <2>7, <2>8
<1> QED BY <1>a, <1>b

LEMMA CountStep ==
  ASSUME Inv, NEW p \in Procs, Count(p)
  PROVE  Inv'
<1>a. /\ pc[p] = "count" /\ req[p] \in Requests /\ actor[p] \in Admins
      /\ by[req[p]] # NoAdmin /\ need[req[p]] > 0
  BY DEF Count, At, Inv, Known, HasRow, RowPcs
<1>1. CASE Finish(p)
  BY <1>1, FinishStep DEF Count
<1>2. CASE /\ Cardinality(approvals[req[p]]) >= need[req[p]]
           /\ Goto(p, "claim") /\ UNCHANGED procVars
  <2>1. Enough(req'[p])
    BY <1>2 DEF Enough, procVars
  <2> QED BY <1>a, <1>2, <2>1, EnterStep DEF Count, Goto, procVars, RowPcs, Inv, TypeOK
<1> QED BY <1>1, <1>2 DEF Count

LEMMA ClaimStep ==
  ASSUME Inv, NEW p \in Procs, Claim(p)
  PROVE  Inv'
<1> USE DEF Inv
<1>1. CASE status[req[p]] # "pending" /\ Finish(p) /\ UNCHANGED rowVars
  BY <1>1, FinishStep DEF Claim
<1>2. CASE /\ status[req[p]] = "pending" /\ Put(req[p], "executing")
           /\ Goto(p, "send") /\ UNCHANGED procVars
  <2>0. PICK r : r = req[p]
    OBVIOUS
  <2>a. /\ pc[p] = "claim" /\ r \in Requests /\ actor[p] \in Admins /\ by[r] # NoAdmin
        /\ need[r] > 0 /\ Enough(r) /\ ~Claimed(r)
    BY <1>2, <2>0 DEF Claim, At, Known, HasRow, RowPcs, Counted, Claimed
  <2>b. /\ status' = [status EXCEPT ![r] = "executing"] /\ pc' = [pc EXCEPT ![p] = "send"]
        /\ UNCHANGED <<by, need, approvals, chain, actor, req, num>>
    BY <1>2, <2>0 DEF Claim, Put, Goto, procVars
  <2>c. /\ \A x \in Requests : status'[x] = IF x = r THEN "executing" ELSE status[x]
        /\ \A q \in Procs : pc'[q] = IF q = p THEN "send" ELSE pc[q]
    BY <2>0, <2>a, <2>b DEF TypeOK
  <2>d. Sent(r) = {} /\ \A q \in Procs : pc[q] \in ExecPcs => req[q] # r
    BY <2>0, <2>a DEF Counted
  <2>e. \A x \in Requests : Sent(x)' = Sent(x) /\ (Enough(x)' <=> Enough(x)) /\ May(x)' = May(x)
    BY <2>0, <2>b DEF Sent, Enough, May
  <2>f. Claimed(r)' /\ \A x \in Requests : Claimed(x) => Claimed(x)'
    BY <2>0, <2>a, <2>b, <2>c DEF Claimed
  <2>1. TypeOK'
    BY <2>0, <2>a, <2>b DEF TypeOK, Pcs, ExecPcs, Statuses
  <2>2. Known'
    BY <2>0, <2>a, <2>b, <2>c, <2>e DEF Known
  <2>3. Approvers'
    BY <2>0, <2>b, <2>c, <2>e DEF Approvers, Known
  <2>4. HasRow'
    BY <2>0, <2>a, <2>b, <2>c DEF HasRow, RowPcs
  <2>5. Counted'
    BY <2>0, <2>a, <2>b, <2>c, <2>e, <2>f DEF Counted, Known, ExecPcs
  <2>6. Alone'
    BY <2>0, <2>a, <2>b, <2>c, <2>d, <2>e DEF Alone, ExecPcs, Known
  <2>7. Mined'
    BY <2>0, <2>b, <2>c DEF Mined
  <2>8. ExecutedOnce' /\ ExecutedIsMined'
    BY <2>0, <2>b, <2>c, <2>e DEF ExecutedOnce, ExecutedIsMined
  <2> QED BY <2>0, <2>1, <2>2, <2>3, <2>4, <2>5, <2>6, <2>7, <2>8
<1> QED BY <1>1, <1>2 DEF Claim

\* Leaving an execution for writeFailed, with nothing else changed.
LEMMA GiveUpStep ==
  ASSUME Inv, NEW p \in Procs, pc[p] \in ExecPcs, Goto(p, "writeFailed"),
         UNCHANGED <<rowVars, chain, procVars>>
  PROVE  Inv'
BY MoveStep DEF Goto, procVars, Inv, TypeOK

\* The broadcast: the call leaves "send", so nothing was sent for it before.
LEMMA BroadcastStep ==
  ASSUME Inv, NEW p \in Procs, At(p, "send"), NEW n \in Writes,
         chain' = [chain EXCEPT ![req[p]][n] = "mempool"],
         num' = [num EXCEPT ![p] = n],
         NEW next \in {"wait", "writeFailed"}, Goto(p, next),
         UNCHANGED <<rowVars, actor, req>>
  PROVE  Inv'
<1> USE DEF Inv, rowVars
<1>0. PICK r : r = req[p]
  OBVIOUS
<1>a. /\ pc[p] = "send" /\ r \in Requests /\ actor[p] \in Admins /\ by[r] # NoAdmin
      /\ Enough(r) /\ Claimed(r) /\ Sent(r) = {}
  BY <1>0 DEF At, Known, Counted, ExecPcs, Alone
<1>b. /\ pc' = [pc EXCEPT ![p] = next]
      /\ \A q \in Procs : pc'[q] = IF q = p THEN next ELSE pc[q]
      /\ \A q \in Procs : num'[q] = IF q = p THEN n ELSE num[q]
  BY <1>0 DEF Goto, TypeOK
<1>c. /\ \A x \in Requests \ {r} : chain'[x] = chain[x]
      /\ \A m \in Writes : chain'[r][m] = IF m = n THEN "mempool" ELSE chain[r][m]
  BY <1>0, <1>a DEF TypeOK
<1>d. /\ \A x \in Requests \ {r} : Sent(x)' = Sent(x)
      /\ Sent(r)' = {n}
  BY <1>0, <1>a, <1>c DEF Sent
<1>e. \A x \in Requests : /\ (Enough(x)' <=> Enough(x)) /\ (Claimed(x)' <=> Claimed(x))
                          /\ May(x)' = May(x)
  BY <1>0 DEF Enough, Claimed, May
<1>f. \A q \in Procs : pc[q] = "send" /\ req[q] = r => q = p
  BY <1>0, <1>a DEF Alone, ExecPcs
<1>g. \A x \in Requests, m \in Writes : chain[x][m] = "mined" => chain'[x][m] = "mined"
  BY <1>0, <1>a, <1>c DEF Sent
<1>1. TypeOK'
  <2>1. chain' \in [Requests -> [Writes -> TxStates]]
    BY <1>0, <1>a DEF TypeOK, TxStates
  <2>2. num' \in [Procs -> 0..MaxWrites]
    BY MaxWritesAssumption DEF TypeOK
  <2> QED BY <1>0, <1>b, <2>1, <2>2 DEF TypeOK, Pcs, ExecPcs
<1>2. Known'
  BY <1>0, <1>a, <1>b, <1>d DEF Known
<1>3. Approvers'
  BY <1>0, <1>b, <1>e DEF Approvers, Known
<1>4. HasRow'
  BY <1>0, <1>b DEF HasRow, RowPcs
<1>5. Counted'
  BY <1>0, <1>a, <1>b, <1>d, <1>e DEF Counted, ExecPcs, Known
<1>6. Alone'
  BY <1>0, <1>a, <1>b, <1>d, <1>f DEF Alone, ExecPcs, Known
<1>7. Mined'
  BY <1>0, <1>b, <1>g DEF Mined, Known
<1>8. ExecutedOnce'
  BY <1>0, <1>d DEF ExecutedOnce
<1>9. ExecutedIsMined'
  BY <1>0, <1>g DEF ExecutedIsMined
<1> QED BY <1>0, <1>1, <1>2, <1>3, <1>4, <1>5, <1>6, <1>7, <1>8, <1>9

LEMMA SendStep ==
  ASSUME Inv, NEW p \in Procs, Send(p)
  PROVE  Inv'
<1>1. CASE "send" \in Faults /\ Goto(p, "writeFailed") /\ UNCHANGED <<chain, num>>
  BY <1>1, GiveUpStep DEF Send, At, ExecPcs, procVars
<1>2. CASE \E n \in Writes :
             /\ chain' = [chain EXCEPT ![req[p]][n] = "mempool"]
             /\ num' = [num EXCEPT ![p] = n]
             /\ Goto(p, "wait") \/ Goto(p, "writeFailed")
  BY <1>2, BroadcastStep DEF Send
<1> QED BY <1>1, <1>2 DEF Send

LEMMA WaitStep ==
  ASSUME Inv, NEW p \in Procs, Wait(p)
  PROVE  Inv'
<1> USE DEF Inv, rowVars, procVars
<1>1. CASE Goto(p, "writeFailed")
  BY <1>1, GiveUpStep DEF Wait, At, ExecPcs
<1>2. CASE chain[req[p]][num[p]] = "mined" /\ Goto(p, "writeExecuted")
  <2>a. /\ pc[p] = "wait" /\ num[p] \in Writes
        /\ \E n \in Writes : chain[req[p]][n] = "mined"
    BY <1>2 DEF Wait, At, Mined
  <2>b. /\ UNCHANGED <<status, by, need, approvals, chain, actor, req, num>>
        /\ pc' = [pc EXCEPT ![p] = "writeExecuted"]
        /\ \A q \in Procs : pc'[q] = IF q = p THEN "writeExecuted" ELSE pc[q]
    BY <1>2 DEF Wait, Goto, TypeOK
  <2>c. \A x \in Requests : /\ Sent(x)' = Sent(x) /\ (Enough(x)' <=> Enough(x))
                            /\ (Claimed(x)' <=> Claimed(x)) /\ May(x)' = May(x)
    BY <2>b DEF Sent, Enough, Claimed, May
  <2>1. TypeOK'
    BY <2>b DEF TypeOK, Pcs, ExecPcs
  <2>2. Known'
    BY <2>a, <2>b, <2>c DEF Known
  <2>3. Approvers'
    BY <2>b, <2>c DEF Approvers, Known
  <2>4. HasRow'
    BY <2>b DEF HasRow, RowPcs
  <2>5. Counted'
    BY <2>a, <2>b, <2>c DEF Counted, ExecPcs, Known
  <2>6. Alone'
    BY <2>a, <2>b, <2>c DEF Alone, ExecPcs, Known
  <2>7. Mined'
    BY <2>a, <2>b DEF Mined
  <2>8. ExecutedOnce' /\ ExecutedIsMined'
    BY <2>b, <2>c DEF ExecutedOnce, ExecutedIsMined
  <2> QED BY <2>1, <2>2, <2>3, <2>4, <2>5, <2>6, <2>7, <2>8
<1> QED BY <1>1, <1>2 DEF Wait

LEMMA WriteExecutedStep ==
  ASSUME Inv, NEW p \in Procs, WriteExecuted(p)
  PROVE  Inv'
<1>a. pc[p] \in ExecPcs /\ \E n \in Writes : chain[req[p]][n] = "mined"
  BY DEF WriteExecuted, At, ExecPcs, Inv, Mined
<1>1. CASE need[req[p]] > 0 /\ Put(req[p], "executed") /\ Finish(p)
  BY <1>a, <1>1, OutcomeStep DEF WriteExecuted
<1>2. CASE Finish(p) /\ UNCHANGED rowVars
  BY <1>2, FinishStep DEF WriteExecuted
<1>3. CASE Goto(p, "writeFailed") /\ UNCHANGED <<rowVars, procVars>>
  BY <1>a, <1>3, GiveUpStep DEF WriteExecuted
<1> QED BY <1>1, <1>2, <1>3 DEF WriteExecuted

LEMMA WriteFailedStep ==
  ASSUME Inv, NEW p \in Procs, WriteFailed(p)
  PROVE  Inv'
<1>1. CASE need[req[p]] > 0 /\ Put(req[p], "failed")
  BY <1>1, OutcomeStep DEF WriteFailed, At, ExecPcs
<1>2. CASE UNCHANGED rowVars
  BY <1>2, FinishStep DEF WriteFailed
<1> QED BY <1>1, <1>2 DEF WriteFailed

LEMMA WriteRejectedStep ==
  ASSUME Inv, NEW p \in Procs, WriteRejected(p)
  PROVE  Inv'
<1>1. pc[p] \in RowPcs /\ need[req[p]] > 0
  BY DEF WriteRejected, At, RowPcs, Inv, HasRow
<1> QED BY <1>1, OutcomeStep DEF WriteRejected

LEMMA IncludeStep ==
  ASSUME Inv, NEW r \in Requests, NEW n \in Writes, Include(r, n)
  PROVE  Inv'
<1> USE DEF Inv, rowVars, procVars
<1>1. PICK s \in {"mined", "reverted"} : chain' = [chain EXCEPT ![r][n] = s]
  BY DEF Include
<1>a. chain[r][n] = "mempool" /\ UNCHANGED <<status, by, need, approvals, pc, actor, req, num>>
  BY DEF Include
<1>b. /\ \A x \in Requests : Sent(x)' = Sent(x)
      /\ \A x \in Requests, m \in Writes : chain[x][m] = "mined" => chain'[x][m] = "mined"
  BY <1>1, <1>a DEF Sent, TypeOK
<1>c. \A x \in Requests : /\ (Enough(x)' <=> Enough(x)) /\ (Claimed(x)' <=> Claimed(x))
                          /\ May(x)' = May(x)
  BY <1>a DEF Enough, Claimed, May
<1>2. TypeOK'
  BY <1>1, <1>a DEF TypeOK, TxStates
<1>3. Known' /\ Approvers' /\ HasRow'
  BY <1>a, <1>b, <1>c DEF Known, Approvers, HasRow, RowPcs
<1>4. Counted' /\ Alone'
  BY <1>a, <1>b, <1>c DEF Counted, Alone, Known, ExecPcs
<1>5. Mined' /\ ExecutedIsMined'
  BY <1>a, <1>b DEF Mined, ExecutedIsMined, Known
<1>6. ExecutedOnce'
  BY <1>b DEF ExecutedOnce
<1> QED BY <1>2, <1>3, <1>4, <1>5, <1>6

-----------------------------------------------------------------------------
LEMMA InitInv == Init => Inv
<1> SUFFICES ASSUME Init PROVE Inv
  OBVIOUS
<1> USE DEF Init
<1>1. TypeOK
  BY MaxWritesAssumption DEF TypeOK, Statuses, TxStates, Pcs
<1>2. \A r \in Requests : Sent(r) = {}
  BY DEF Sent
<1>3. Known /\ Approvers /\ HasRow
  BY <1>2 DEF Known, Approvers, HasRow, RowPcs
<1>4. Counted /\ Alone
  BY <1>2 DEF Counted, Alone, ExecPcs
<1>5. Mined /\ ExecutedOnce /\ ExecutedIsMined
  BY <1>2 DEF Mined, ExecutedOnce, ExecutedIsMined
<1> QED BY <1>1, <1>3, <1>4, <1>5 DEF Inv

LEMMA CallStep ==
  ASSUME Inv, NEW p \in Procs, Call(p)
  PROVE  Inv'
<1> PICK a \in Admins, r \in Requests :
       \/ \E n \in Thresholds : Submit(p, a, r, n)
       \/ Approve(p, a, r)
       \/ Reject(p, a, r)
  BY DEF Call
<1>1. CASE \E n \in Thresholds : Submit(p, a, r, n)
  BY <1>1, SubmitStep
<1>2. CASE Approve(p, a, r)
  BY <1>2, BeginStep DEF Approve, May
<1>3. CASE Reject(p, a, r)
  BY <1>3, BeginStep DEF Reject
<1> QED BY <1>1, <1>2, <1>3

LEMMA NextInv == Inv /\ [Next]_vars => Inv'
<1> SUFFICES ASSUME Inv, [Next]_vars PROVE Inv'
  OBVIOUS
<1>1. ASSUME NEW p \in Procs, Advance(p) PROVE Inv'
  BY <1>1, AddApprovalStep, CountStep, ClaimStep, SendStep, WaitStep, WriteExecutedStep,
     WriteFailedStep, WriteRejectedStep DEF Advance
<1>2. ASSUME NEW p \in Procs, Crash(p) PROVE Inv'
  BY <1>2, FinishStep DEF Crash
<1>3. CASE UNCHANGED vars
  BY <1>3 DEF vars, rowVars, procVars, Inv, TypeOK, Known, Approvers, HasRow, Counted, Alone,
              Mined, ExecutedOnce, ExecutedIsMined, Sent, Enough, Claimed, May
<1> QED BY <1>1, <1>2, <1>3, CallStep, IncludeStep DEF Next

LEMMA Inductive == Spec => []Inv
BY InitInv, NextInv, PTL DEF Spec

\* Every variable keeps its type.
LEMMA AlwaysTyped == Spec => []TypeOK
<1>1. Inv => TypeOK
  BY DEF Inv
<1> QED BY <1>1, Inductive, PTL

\* An operation is sent to the chain at most once, however calls interleave,
\* fail and die.
THEOREM SentOnce == Spec => []ExecutedOnce
<1>1. Inv => ExecutedOnce
  BY DEF Inv
<1> QED BY <1>1, Inductive, PTL

\* What is recorded as executed is mined.
THEOREM OutcomeIsMined == Spec => []ExecutedIsMined
<1>1. Inv => ExecutedIsMined
  BY DEF Inv
<1> QED BY <1>1, Inductive, PTL

\* Nothing is sent without the approvals of enough admins other than its maker.
THEOREM NoUnapprovedWrite == Spec => []FourEyes
<1>1. Inv => FourEyes
  <2> SUFFICES ASSUME Inv, NEW r \in Requests, Sent(r) # {}
               PROVE  Cardinality({a \in approvals[r] : a # by[r] /\ a \in Entitled[r]}) >= need[r]
    BY DEF FourEyes
  <2>1. approvals[r] \subseteq May(r) /\ Enough(r)
    BY DEF Inv, Known, Approvers, Counted
  <2>2. {a \in approvals[r] : a # by[r] /\ a \in Entitled[r]} = approvals[r]
    BY <2>1 DEF May
  <2> QED BY <2>1, <2>2 DEF Enough
<1> QED BY <1>1, Inductive, PTL

\* Together: what the queue executes was approved by others, is sent once, and
\* is in a block where the request says so.
THEOREM ExecutionSound == Spec => []ExecutionIsSound
<1>1. ExecutedOnce /\ FourEyes /\ ExecutedIsMined => ExecutionIsSound
  BY DEF ExecutionIsSound
<1> QED BY <1>1, SentOnce, NoUnapprovedWrite, OutcomeIsMined, PTL

-----------------------------------------------------------------------------
(* The staff of an issuer. *)

\* What a request is for, by where it is.
Purpose(p) ==
  LET r == request[p] IN
  /\ staffPc[p] = "idle" => r = Team!Idle
  /\ staffPc[p] \in {"count", "change"} =>
       r.op = "team" /\ r.email \in Team!Emails /\ r.to \in Team!Changes /\ admins[r.email].role # "none"
  /\ staffPc[p] = "insert" => r.op = "hire" /\ r.email \in Team!Emails /\ r.to \in Team!AssignableRoles
  /\ staffPc[p] \in {"login", "profile", "adopt"} => r.op = "manager" /\ r.manager \in Managers
  /\ staffPc[p] = "login" => r.email \in Team!Emails
  /\ staffPc[p] \in {"update", "disable"} =>
       r.op = "profile" /\ r.manager \in Managers /\ r.to \in {"active", "suspended"}
       /\ saw[p] = managers[r.manager].login
  /\ staffPc[p] = "disable" => saw[p] \in Team!Emails
  /\ staffPc[p] = "attach" => r.op \in {"adopt", "release"} /\ r.manager \in Managers
  /\ staffPc[p] \in {"read", "operates", "write"} => r.op = "post" /\ r.manager \in Managers
  /\ staffPc[p] \in {"adopt", "update", "disable", "attach", "read", "operates", "write"} =>
       managers[r.manager].status # "none"

\* A manager who is being created has no row, and is nobody else's business.
Creating(p) ==
  staffPc[p] \in {"login", "profile"} =>
    /\ managers[request[p].manager].status = "none"
    /\ \A q \in TeamProcs \ {p} : request[q].manager # request[p].manager

\* A login that was made for a profile waits for that profile alone.
Awaited(p) ==
  (staffPc[p] = "profile" /\ request[p].email \in Team!Emails) =>
    /\ admins[request[p].email].role # "none"
    /\ request[p].email \notin crossed => admins[request[p].email] = [role |-> "manager", disabled |-> FALSE]
    /\ \A m \in Managers : managers[m].login # request[p].email
    /\ \A q \in TeamProcs \ {p} : staffPc[q] = "profile" => request[q].email # request[p].email

\* The team does not change the login of a manager.
TeamApart(p) ==
  (staffPc[p] \in {"count", "change"} /\ request[p].email \notin crossed) =>
    /\ \A m \in Managers : managers[m].login # request[p].email
    /\ \A q \in TeamProcs : request[q].op = "manager" => request[q].email # request[p].email

\* Two requests for one thing are remembered; a post asks nobody.
Remembered(p, q) ==
  p # q =>
    /\ (request[p].op = "team" /\ request[q].op = "team") => "team" \in crossed
    /\ (/\ request[p].manager \in Managers /\ request[q].manager = request[p].manager
        /\ request[p].op # "post" /\ request[q].op # "post") => request[p].manager \in crossed

EmailRow(e) ==
  /\ admins[e].role = "none" => admins[e] = Team!Nothing /\ made[e] = 0
  /\ made[e] =< 1

ManagerRow(m) ==
  /\ managers[m].status = "none" => managers[m] = Team!NoProfile
  /\ \A e \in Team!Emails : managers[m].login = e =>
       /\ admins[e].role # "none" /\ (e \notin crossed => admins[e].role = "manager")
       /\ \A n \in Managers \ {m} : managers[n].login # e

\* The login follows the profile, at the latest when the request ends.
Follows(m) ==
  \A e \in Team!Emails : (managers[m].login = e /\ m \notin crossed \cup torn /\ e \notin crossed) =>
    \/ \E p \in TeamProcs : staffPc[p] = "disable" /\ request[p].manager = m
    \/ admins[e].disabled <=> managers[m].status = "suspended"

\* Who takes an issuer_admin away leaves another.
Replaceable(p) ==
  (staffPc[p] = "change" /\ request[p].to \in {"demote", "disable"}) =>
    ~Team!ActiveAdmin(request[p].email) \/ \E f \in Team!Emails \ {request[p].email} : Team!ActiveAdmin(f)

Posting(p) ==
  /\ (request[p].op = "post" /\ managers[request[p].manager].status = "active") => active[p]
  /\ staffPc[p] = "write" => active[p]

\* What one request of a manager has written stays until it ends; and a manager
\* is taken on from nobody, or is already there.
Adopting(p) ==
  request[p].manager \notin crossed =>
    /\ staffPc[p] = "disable" => managers[request[p].manager].status = request[p].to
    /\ staffPc[p] = "adopt" => managers[request[p].manager].spv = NoSpv
    /\ (staffPc[p] = "attach" /\ request[p].op = "adopt") =>
         managers[request[p].manager].spv \in {NoSpv, request[p].spv}

StaffInv ==
  /\ Team!TypeOK
  /\ \A p \in TeamProcs : Purpose(p) /\ Creating(p) /\ Awaited(p) /\ TeamApart(p) /\ Posting(p) /\ Adopting(p)
  /\ \A p, q \in TeamProcs : Remembered(p, q)
  /\ (\A e \in Team!Emails : EmailRow(e)) /\ (\A m \in Managers : ManagerRow(m) /\ Follows(m))
  /\ "team" \notin crossed =>
       (\E e \in Team!Emails : Team!ActiveAdmin(e)) /\ \A p \in TeamProcs : Replaceable(p)


TeamPcs == {"idle", "count", "change", "insert", "login", "profile", "adopt",
            "update", "disable", "attach", "read", "operates", "write"}
Logins == [role : Team!AssignableRoles \cup {"manager", "none"}, disabled : BOOLEAN]
Profiles == [status : {"none", "active", "suspended"},
             login : Team!Emails \cup {NoEmail}, spv : SpvManagers \cup {NoSpv}]
TeamRequests ==
  [op : Team!Ops \cup {"none"}, email : Team!Emails \cup {NoEmail},
   manager : Managers \cup {NoManager}, spv : SpvManagers \cup {NoSpv},
   to : Team!Changes \cup Team!AssignableRoles \cup {"active", "suspended", "none"}]

TeamLocalTyped ==
  /\ staffPc \in [TeamProcs -> TeamPcs] /\ request \in [TeamProcs -> TeamRequests]
  /\ saw \in [TeamProcs -> Team!Emails \cup Managers \cup {NoEmail, NoManager}] /\ calls \in 0..MaxStaffCalls

TeamHistoryTyped ==
  /\ crossed \in SUBSET (Team!Emails \cup Managers \cup {"team"})
  /\ made \in [Team!Emails -> Nat] /\ active \in [TeamProcs -> BOOLEAN] /\ torn \in SUBSET Managers

TeamTablesTyped ==
  /\ admins \in [Team!Emails -> Logins] /\ managers \in [Managers -> Profiles]
  /\ spvStatus \in [SpvManagers -> {"active", "suspended"}] /\ operator \in Managers \cup {NoManager}

LEMMA TeamTyped == Team!TypeOK <=> TeamTablesTyped /\ TeamLocalTyped /\ TeamHistoryTyped
BY DEF Team!TypeOK, TeamTablesTyped, TeamLocalTyped, TeamHistoryTyped, TeamPcs, Logins, Profiles, TeamRequests

LEMMA StaffInit == ASSUME StaffAssumed, Team!Init PROVE StaffInv
<1>1. Team!TypeOK
  <2>1. TeamTablesTyped
    BY DEF Team!Init, TeamTablesTyped, Logins, Profiles, Team!NoProfile, Team!Nothing, Team!AssignableRoles, Team!Emails
  <2>2. TeamLocalTyped
    BY DEF Team!Init, TeamLocalTyped, TeamPcs, TeamRequests, Team!Idle, StaffAssumed
  <2>3. TeamHistoryTyped
    BY DEF Team!Init, TeamHistoryTyped
  <2> QED BY <2>1, <2>2, <2>3, TeamTyped
<1>2. \A p \in TeamProcs : Purpose(p) /\ Creating(p) /\ Awaited(p) /\ TeamApart(p) /\ Posting(p) /\ Adopting(p) /\ Replaceable(p)
  BY DEF Team!Init, Purpose, Creating, Awaited, TeamApart, Posting, Adopting, Replaceable, Team!Idle
<1>3. \A p, q \in TeamProcs : Remembered(p, q)
  BY DEF Team!Init, Remembered, Team!Idle, StaffAssumed
<1>4. \A e \in Team!Emails : EmailRow(e)
  BY DEF Team!Init, EmailRow, Team!Nothing
<1>5. \A m \in Managers : ManagerRow(m) /\ Follows(m)
  BY DEF Team!Init, ManagerRow, Follows, Team!NoProfile, StaffAssumed
<1>6. \E e \in Team!Emails : Team!ActiveAdmin(e)
  BY DEF Team!Init, Team!ActiveAdmin, Team!Emails, StaffAssumed
<1> QED BY <1>1, <1>2, <1>3, <1>4, <1>5, <1>6 DEF StaffInv

\* What p does leaves the other requests as they are.
OthersTeam(p) ==
  \A q \in TeamProcs \ {p} :
    staffPc'[q] = staffPc[q] /\ request'[q] = request[q] /\ saw'[q] = saw[q] /\ active'[q] = active[q]

\* The facts of one request that say something of the tables.
Local(p) == Purpose(p) /\ Creating(p) /\ Awaited(p) /\ TeamApart(p) /\ Posting(p) /\ Adopting(p)

LEMMA TeamFinish ==
  ASSUME StaffAssumed, Team!TypeOK, NEW p \in TeamProcs, Team!Finish(p)
  PROVE  /\ TeamLocalTyped' /\ staffPc'[p] = "idle" /\ request'[p] = Team!Idle
         /\ \A q \in TeamProcs \ {p} : staffPc'[q] = staffPc[q] /\ request'[q] = request[q] /\ saw'[q] = saw[q]
<1>1. Team!Idle \in TeamRequests
  BY DEF TeamRequests, Team!Idle
<1>2. TeamLocalTyped
  BY TeamTyped
<1>3. /\ staffPc' = [staffPc EXCEPT ![p] = "idle"] /\ request' = [request EXCEPT ![p] = Team!Idle]
      /\ saw' = [saw EXCEPT ![p] = NoEmail] /\ calls' = calls
  BY DEF Team!Finish, Team!Goto
<1> QED BY <1>1, <1>2, <1>3 DEF TeamLocalTyped, TeamPcs

LEMMA TeamContinue ==
  ASSUME Team!TypeOK, NEW p \in TeamProcs, NEW next \in TeamPcs, Team!Continue(p, next)
  PROVE  /\ TeamLocalTyped' /\ staffPc'[p] = next /\ request' = request /\ saw' = saw
         /\ \A q \in TeamProcs \ {p} : staffPc'[q] = staffPc[q]
BY TeamTyped DEF TeamLocalTyped, Team!Continue, Team!Goto

\* An idle request knows nothing.
LEMMA IdleKnows ==
  ASSUME StaffAssumed, NEW p \in TeamProcs, staffPc'[p] = "idle", request'[p] = Team!Idle
  PROVE  Local(p)' /\ Replaceable(p)' /\ \A q \in TeamProcs : Remembered(p, q)' /\ Remembered(q, p)'
<1>1. Local(p)' /\ Replaceable(p)'
  BY DEF Local, Purpose, Creating, Awaited, TeamApart, Posting, Adopting, Replaceable, Team!Idle
<1>2. \A q \in TeamProcs : Remembered(p, q)' /\ Remembered(q, p)'
  BY DEF Remembered, Team!Idle, StaffAssumed
<1> QED BY <1>1, <1>2

LEMMA RememberedStays ==
  ASSUME StaffAssumed, StaffInv, NEW p \in TeamProcs, OthersTeam(p), crossed \subseteq crossed',
         request'[p] = request[p] \/ request'[p] = Team!Idle
  PROVE  \A q, r \in TeamProcs : Remembered(q, r)'
<1> SUFFICES ASSUME NEW q \in TeamProcs, NEW r \in TeamProcs PROVE Remembered(q, r)'
  OBVIOUS
<1>1. Remembered(q, r)
  BY DEF StaffInv
<1> QED BY <1>1 DEF Remembered, OthersTeam, Team!Idle, StaffAssumed

\* A request that stops, or goes on without a word.
LEMMA Silent ==
  ASSUME StaffAssumed, StaffInv, TeamLocalTyped', TeamHistoryTyped', NEW p \in TeamProcs, OthersTeam(p),
         UNCHANGED <<admins, managers, spvStatus, operator, made, active, crossed>>, torn \subseteq torn',
         \/ staffPc'[p] = "idle" /\ request'[p] = Team!Idle
         \/ /\ request'[p] = request[p] /\ Purpose(p)' /\ Replaceable(p)' /\ Posting(p)'
            /\ <<staffPc[p], staffPc'[p]>> \in {<<"count", "change">>, <<"read", "operates">>, <<"operates", "write">>},
         staffPc[p] = "disable" => request[p].manager \in torn'
  PROVE  StaffInv'
<1>1. Team!TypeOK'
  <2>1. TeamTablesTyped
    BY TeamTyped DEF StaffInv
  <2>2. TeamTablesTyped'
    BY <2>1 DEF TeamTablesTyped
  <2> QED BY <2>2, TeamTyped DEF TeamTyped, Team!TypeOK, TeamTablesTyped, TeamLocalTyped, TeamHistoryTyped,
                            TeamPcs, Logins, Profiles, TeamRequests
<1>2. ASSUME NEW q \in TeamProcs PROVE Local(q)'
  <2>0. Local(q) /\ Local(p)
    BY DEF StaffInv, Local
  <2>1. CASE q # p
    <3>1. Purpose(q)' /\ Posting(q)' /\ Adopting(q)'
      BY <2>0, <2>1 DEF Local, OthersTeam, Purpose, Posting, Adopting, Team!ActiveAdmin
    <3>2. Creating(q)'
      BY <2>0, <2>1 DEF Local, OthersTeam, Creating, Purpose, Team!Idle, StaffAssumed
    <3>3. Awaited(q)' /\ TeamApart(q)'
      BY <2>0, <2>1 DEF Local, OthersTeam, Awaited, TeamApart, Team!Idle
    <3> QED BY <3>1, <3>2, <3>3 DEF Local
  <2>2. CASE q = p /\ staffPc'[p] = "idle" /\ request'[p] = Team!Idle
    BY <2>2, IdleKnows
  <2>3. CASE q = p /\ request'[p] = request[p] /\ Purpose(p)' /\ Posting(p)'
                   /\ <<staffPc[p], staffPc'[p]>> \in {<<"count", "change">>, <<"read", "operates">>, <<"operates", "write">>}
    <3>1. Creating(p)' /\ Awaited(p)' /\ Adopting(p)'
      BY <2>3 DEF Creating, Awaited, Adopting
    <3>2. TeamApart(p)'
      BY <2>0, <2>3 DEF Local, TeamApart, OthersTeam
    <3> QED BY <2>3, <3>1, <3>2 DEF Local
  <2> QED BY <2>1, <2>2, <2>3
<1>3. \A q, r \in TeamProcs : Remembered(q, r)'
  BY RememberedStays
<1>4. \A e \in Team!Emails : EmailRow(e)'
  BY DEF StaffInv, EmailRow
<1>5. \A m \in Managers : ManagerRow(m)'
  BY DEF StaffInv, ManagerRow
<1>6. ASSUME NEW m \in Managers PROVE Follows(m)'
  <2>1. Follows(m)
    BY DEF StaffInv
  <2> QED BY <2>1 DEF Follows, OthersTeam
<1>7. "team" \notin crossed' =>
        (\E e \in Team!Emails : Team!ActiveAdmin(e)') /\ \A q \in TeamProcs : Replaceable(q)'
  <2> SUFFICES ASSUME "team" \notin crossed'
               PROVE  (\E e \in Team!Emails : Team!ActiveAdmin(e)') /\ \A q \in TeamProcs : Replaceable(q)'
    OBVIOUS
  <2>1. (\E e \in Team!Emails : Team!ActiveAdmin(e)) /\ \A q \in TeamProcs : Replaceable(q)
    BY DEF StaffInv
  <2>2. \A q \in TeamProcs \ {p} : Replaceable(q)'
    BY <2>1 DEF Replaceable, Team!ActiveAdmin, OthersTeam
  <2>3. Replaceable(p)'
    BY IdleKnows
  <2> QED BY <2>1, <2>2, <2>3 DEF Team!ActiveAdmin
<1> QED BY <1>1, <1>2, <1>3, <1>4, <1>5, <1>6, <1>7 DEF StaffInv, Local

LEMMA HistoryStays ==
  ASSUME Team!TypeOK, UNCHANGED <<crossed, made, active>>, torn' \in SUBSET Managers PROVE TeamHistoryTyped'
BY TeamTyped DEF TeamHistoryTyped

LEMMA CountTeamStep ==
  ASSUME StaffAssumed, StaffInv, NEW p \in TeamProcs, Team!CountOtherActiveIssuerAdmins(p) PROVE StaffInv'
<1>0. Team!TypeOK /\ Local(p) /\ staffPc[p] = "count"
  BY DEF StaffInv, Local, Team!CountOtherActiveIssuerAdmins, Team!At
<1>1. UNCHANGED <<admins, managers, spvStatus, operator, crossed, made, active, torn>>
  BY DEF Team!CountOtherActiveIssuerAdmins, Team!tables, Team!history
<1>2. TeamHistoryTyped'
  BY <1>0, <1>1, HistoryStays, TeamTyped DEF TeamHistoryTyped
<1>3. CASE Team!Finish(p)
  <2>1. TeamLocalTyped' /\ OthersTeam(p) /\ staffPc'[p] = "idle" /\ request'[p] = Team!Idle
    BY <1>0, <1>1, <1>3, TeamFinish DEF OthersTeam
  <2> QED BY <1>0, <1>1, <1>2, <2>1, Silent
<1>4. CASE Team!Continue(p, "change") /\ Team!CountOthers(request[p].email) # 0
  <2>1. TeamLocalTyped' /\ OthersTeam(p) /\ staffPc'[p] = "change" /\ request' = request
    BY <1>0, <1>1, <1>4, TeamContinue DEF OthersTeam, TeamPcs
  <2>2. Purpose(p)' /\ Posting(p)'
    BY <1>0, <1>1, <2>1 DEF Local, Purpose, Posting
  <2>3. Replaceable(p)'
    <3>1. PICK f \in Team!Emails \ {request[p].email} : Team!ActiveAdmin(f)
      <4>1. {f \in Team!Emails \ {request[p].email} : Team!ActiveAdmin(f)} # {}
        <5> SUFFICES ASSUME {f \in Team!Emails \ {request[p].email} : Team!ActiveAdmin(f)} = {} PROVE FALSE
          OBVIOUS
        <5>1. Team!CountOthers(request[p].email) = Cardinality({})
          BY DEF Team!CountOthers, Team!Cardinality, Cardinality
        <5> QED BY <5>1, <1>4, FS_EmptySet
      <4> QED BY <4>1
    <3> QED BY <3>1, <2>1, <1>1 DEF Replaceable, Team!ActiveAdmin
  <2> QED BY <1>0, <1>1, <1>2, <2>1, <2>2, <2>3, Silent
<1> QED BY <1>3, <1>4 DEF Team!CountOtherActiveIssuerAdmins

LEMMA PostSteps ==
  ASSUME StaffAssumed, StaffInv, NEW p \in TeamProcs,
         Team!ReadOffering(p) \/ Team!AssertOperates(p) \/ Team!WritePost(p)
  PROVE  StaffInv'
<1>0. Team!TypeOK /\ Local(p) /\ staffPc[p] \in {"read", "operates", "write"}
  BY DEF StaffInv, Local, Team!ReadOffering, Team!AssertOperates, Team!WritePost, Team!At
<1>1. UNCHANGED <<admins, managers, spvStatus, operator, crossed, made, active, torn>>
  BY DEF Team!ReadOffering, Team!AssertOperates, Team!WritePost, Team!tables, Team!history
<1>2. TeamHistoryTyped'
  BY <1>0, <1>1, HistoryStays, TeamTyped DEF TeamHistoryTyped
<1>3. CASE Team!Finish(p)
  <2>1. TeamLocalTyped' /\ OthersTeam(p) /\ staffPc'[p] = "idle" /\ request'[p] = Team!Idle
    BY <1>0, <1>1, <1>3, TeamFinish DEF OthersTeam
  <2> QED BY <1>0, <1>1, <1>2, <2>1, Silent
<1>4. CASE Team!ReadOffering(p)
  <2>1. /\ staffPc[p] = "read" /\ staffPc' = [staffPc EXCEPT ![p] = "operates"] /\ UNCHANGED <<request, calls>>
        /\ saw' = [saw EXCEPT ![p] = operator]
    BY <1>4 DEF Team!ReadOffering, Team!At, Team!Goto
  <2>2. TeamLocalTyped' /\ OthersTeam(p) /\ staffPc'[p] = "operates"
    BY <1>0, <1>1, <2>1, TeamTyped DEF TeamLocalTyped, TeamTablesTyped, TeamPcs, OthersTeam
  <2>3. Purpose(p)' /\ Replaceable(p)' /\ Posting(p)'
    BY <1>0, <1>1, <2>1, <2>2 DEF Local, Purpose, Replaceable, Posting
  <2> QED BY <1>0, <1>1, <1>2, <2>1, <2>2, <2>3, Silent
<1>5. CASE Team!AssertOperates(p) /\ ~Team!Finish(p)
  <2>1. staffPc[p] = "operates" /\ Team!StillActive(request[p].manager) /\ Team!Continue(p, "write")
    BY <1>5 DEF Team!AssertOperates, Team!At
  <2>2. TeamLocalTyped' /\ OthersTeam(p) /\ staffPc'[p] = "write" /\ request' = request
    BY <1>0, <1>1, <2>1, TeamContinue DEF OthersTeam, TeamPcs
  <2>3. Purpose(p)' /\ Replaceable(p)'
    BY <1>0, <1>1, <2>1, <2>2 DEF Local, Purpose, Replaceable
  <2>4. Posting(p)'
    BY <1>0, <1>1, <2>1, <2>2 DEF Local, Purpose, Posting, Team!StillActive
  <2> QED BY <1>0, <1>1, <1>2, <2>1, <2>2, <2>3, <2>4, Silent
<1> QED BY <1>3, <1>4, <1>5 DEF Team!WritePost

LEMMA DiesStep == ASSUME StaffAssumed, StaffInv, NEW p \in TeamProcs, Team!Crash(p) PROVE StaffInv'
<1>0. Team!TypeOK /\ Local(p) /\ staffPc[p] \in {"profile", "disable", "adopt"}
  BY DEF StaffInv, Local, Team!Crash, Team!At
<1>1. /\ UNCHANGED <<admins, managers, spvStatus, operator, crossed, made, active>>
      /\ torn' = torn \cup {request[p].manager} /\ Team!Finish(p)
  BY DEF Team!Crash, Team!tables
<1>2. request[p].manager \in Managers
  BY <1>0 DEF Local, Purpose
<1>3. TeamHistoryTyped'
  BY <1>0, <1>1, <1>2, TeamTyped DEF TeamHistoryTyped
<1>4. TeamLocalTyped' /\ OthersTeam(p) /\ staffPc'[p] = "idle" /\ request'[p] = Team!Idle
  BY <1>0, <1>1, TeamFinish DEF OthersTeam
<1> QED BY <1>0, <1>1, <1>3, <1>4, Silent

LEMMA TakenStep ==
  ASSUME StaffAssumed, StaffInv, NEW p \in TeamProcs, ~Team!Free(request[p].email),
         Team!InsertMember(p) \/ Team!CreateLogin(p)
  PROVE  StaffInv'
<1>0. Team!TypeOK /\ staffPc[p] \in {"insert", "login"}
  BY DEF StaffInv, Team!InsertMember, Team!CreateLogin, Team!At
<1>1. UNCHANGED <<admins, managers, spvStatus, operator, crossed, made, active, torn>> /\ Team!Finish(p)
  BY DEF Team!InsertMember, Team!CreateLogin, Team!Insert
<1>2. TeamHistoryTyped'
  BY <1>0, <1>1, HistoryStays, TeamTyped DEF TeamHistoryTyped
<1>3. TeamLocalTyped' /\ OthersTeam(p) /\ staffPc'[p] = "idle" /\ request'[p] = Team!Idle
  BY <1>0, <1>1, TeamFinish DEF OthersTeam
<1> QED BY <1>0, <1>1, <1>2, <1>3, Silent

LEMMA StaffOutside ==
  ASSUME StaffAssumed, StaffInv, TeamTablesTyped', calls' \in 0..MaxStaffCalls, UNCHANGED <<admins, managers>>,
         UNCHANGED <<staffPc, request, saw, crossed, made, active, torn>>
  PROVE  StaffInv'
<1>1. Team!TypeOK'
  BY TeamTyped DEF StaffInv, Team!TypeOK, TeamTablesTyped
<1>2. ASSUME NEW q \in TeamProcs PROVE Local(q)' /\ \A r \in TeamProcs : Remembered(q, r)'
  <2>1. Local(q) /\ \A r \in TeamProcs : Remembered(q, r)
    BY DEF StaffInv, Local
  <2>2. Purpose(q)' /\ Creating(q)' /\ Awaited(q)' /\ TeamApart(q)' /\ Posting(q)' /\ Adopting(q)'
    BY <2>1 DEF Local, Purpose, Creating, Awaited, TeamApart, Posting, Adopting
  <2> QED BY <2>1, <2>2 DEF Remembered, Local
<1>3. (\A e \in Team!Emails : EmailRow(e)') /\ \A m \in Managers : ManagerRow(m)' /\ Follows(m)'
  BY DEF StaffInv, EmailRow, ManagerRow, Follows
<1>4. "team" \notin crossed' =>
        (\E e \in Team!Emails : Team!ActiveAdmin(e)') /\ \A q \in TeamProcs : Replaceable(q)'
  BY DEF StaffInv, Replaceable, Team!ActiveAdmin
<1> QED BY <1>1, <1>2, <1>3, <1>4 DEF StaffInv, Local

\* A profile, field by field.
LEMMA ProfileFields ==
  ASSUME managers \in [Managers -> Profiles], NEW m \in Managers
  PROVE  /\ \A s : [managers EXCEPT ![m].spv = s] = [managers EXCEPT ![m] =
                      [status |-> managers[m].status, login |-> managers[m].login, spv |-> s]]
         /\ \A s : [managers EXCEPT ![m].status = s] = [managers EXCEPT ![m] =
                      [status |-> s, login |-> managers[m].login, spv |-> managers[m].spv]]
<1>1. PICK x, y, z : managers[m] = [status |-> x, login |-> y, spv |-> z]
  <2>1. managers[m] = [status |-> managers[m].status, login |-> managers[m].login, spv |-> managers[m].spv]
    BY DEF Profiles
  <2> QED BY <2>1
<1>2. \A s : /\ [managers[m] EXCEPT !.spv = s] = [status |-> x, login |-> y, spv |-> s]
             /\ [managers[m] EXCEPT !.status = s] = [status |-> s, login |-> y, spv |-> z]
  BY <1>1
<1>3. \A s : /\ [managers EXCEPT ![m].spv = s] = [managers EXCEPT ![m] = [managers[m] EXCEPT !.spv = s]]
             /\ [managers EXCEPT ![m].status = s] = [managers EXCEPT ![m] = [managers[m] EXCEPT !.status = s]]
  OBVIOUS
<1> QED BY <1>1, <1>2, <1>3

LEMMA RequestManager ==
  ASSUME Team!TypeOK, NEW q \in TeamProcs, Purpose(q)
  PROVE  /\ request[q].op = "post" => request[q].manager \in Managers
         /\ staffPc[q] \notin {"idle", "count", "change", "insert"} => request[q].manager \in Managers
BY TeamTyped DEF Purpose, TeamLocalTyped, TeamPcs, Team!Idle

LEMMA AfterLogin ==
  ASSUME NEW login \in Logins, login.role # "none", NEW change \in Team!Changes
  PROVE  /\ Team!After(login, change) \in Logins /\ Team!After(login, change).role # "none"
         /\ (login = [role |-> "issuer_admin", disabled |-> FALSE] /\ change \notin {"demote", "disable"}) =>
              Team!After(login, change) = login
<1>1. login = [role |-> login.role, disabled |-> login.disabled] /\ login.disabled \in BOOLEAN
      /\ login.role \in Team!AssignableRoles \cup {"manager", "none"}
  BY DEF Logins
<1>2. CASE change = "demote"
  BY <1>1, <1>2 DEF Team!After, Logins, Team!AssignableRoles
<1>3. CASE change = "promote"
  BY <1>1, <1>3 DEF Team!After, Logins, Team!AssignableRoles
<1>4. CASE change = "disable"
  BY <1>1, <1>4 DEF Team!After, Logins, Team!AssignableRoles
<1>5. CASE change = "enable"
  <2>1. Team!After(login, change) = [login EXCEPT !.disabled = FALSE]
    BY <1>5 DEF Team!After
  <2>2. [login EXCEPT !.disabled = FALSE] \in Logins /\ [login EXCEPT !.disabled = FALSE].role # "none"
    BY <1>1 DEF Logins
  <2>3. \A v : login.disabled = v => [login EXCEPT !.disabled = v] = login
    BY DEF Logins
  <2>4. login = [role |-> "issuer_admin", disabled |-> FALSE] => login.disabled = FALSE
    OBVIOUS
  <2> QED BY <2>1, <2>2, <2>3, <2>4
<1> QED BY <1>2, <1>3, <1>4, <1>5 DEF Team!Changes

LEMMA ChangeStep == ASSUME StaffAssumed, StaffInv, NEW p \in TeamProcs, Team!WriteChange(p) PROVE StaffInv'
<1>0. /\ Team!TypeOK /\ Local(p) /\ staffPc[p] = "change" /\ request[p].op = "team"
      /\ request[p].email \in Team!Emails /\ request[p].to \in Team!Changes
      /\ admins[request[p].email].role # "none"
  BY DEF StaffInv, Local, Purpose, Team!WriteChange, Team!At
<1>1. PICK e \in Team!Emails : e = request[p].email
  BY <1>0
<1>2. /\ admins' = [admins EXCEPT ![e] = Team!After(@, request[p].to)] /\ Team!Finish(p)
      /\ UNCHANGED <<managers, spvStatus, operator, crossed, made, active, torn>>
  BY <1>1 DEF Team!WriteChange, Team!history
<1>3. /\ TeamLocalTyped' /\ OthersTeam(p) /\ staffPc'[p] = "idle" /\ request'[p] = Team!Idle
  BY <1>0, <1>2, TeamFinish DEF OthersTeam
<1>4. admins[e] \in Logins /\ admins \in [Team!Emails -> Logins]
  BY <1>0, TeamTyped DEF TeamTablesTyped
<1>5. /\ Team!After(admins[e], request[p].to) \in Logins /\ Team!After(admins[e], request[p].to).role # "none"
      /\ (Team!ActiveAdmin(e) /\ request[p].to \notin {"demote", "disable"}) =>
            Team!After(admins[e], request[p].to) = admins[e]
  BY <1>0, <1>1, <1>4, AfterLogin DEF Team!ActiveAdmin
<1>6. /\ admins'[e] = Team!After(admins[e], request[p].to) /\ admins' \in [Team!Emails -> Logins]
      /\ \A f \in Team!Emails \ {e} : admins'[f] = admins[f]
  BY <1>2, <1>4, <1>5
<1>7. Team!TypeOK'
  <2>1. TeamTablesTyped' /\ TeamHistoryTyped'
    BY <1>0, <1>2, <1>6, TeamTyped DEF TeamTablesTyped, TeamHistoryTyped
  <2> QED BY <2>1, <1>3, TeamTyped DEF Team!TypeOK, TeamTablesTyped, TeamLocalTyped, TeamHistoryTyped,
                                     TeamPcs, Logins, Profiles, TeamRequests
<1>8. e \notin crossed => /\ \A m \in Managers : managers[m].login # e
                          /\ \A q \in TeamProcs : request[q].op = "manager" => request[q].email # e
  BY <1>0, <1>1 DEF Local, TeamApart
<1>9. \A f \in Team!Emails : admins[f].role # "none" => admins'[f].role # "none"
  BY <1>5, <1>6
<1>10. ASSUME NEW q \in TeamProcs PROVE Local(q)'
  <2>0. Local(q)
    BY DEF StaffInv, Local
  <2>1. CASE q # p
    <3>1. Purpose(q)' /\ Posting(q)' /\ Adopting(q)'
      BY <2>0, <2>1, <1>2, <1>3, <1>9 DEF Local, OthersTeam, Purpose, Posting, Adopting
    <3>2. Creating(q)'
      BY <2>0, <2>1, <1>2, <1>3 DEF Local, OthersTeam, Creating, Purpose, Team!Idle, StaffAssumed
    <3>3. TeamApart(q)'
      BY <2>0, <2>1, <1>2, <1>3 DEF Local, OthersTeam, TeamApart, Team!Idle
    <3>4. Awaited(q)'
      <4>1. staffPc[q] = "profile" => request[q].op = "manager"
        BY <2>0 DEF Local, Purpose
      <4> QED BY <4>1, <2>0, <2>1, <1>2, <1>3, <1>6, <1>8, <1>9 DEF Local, OthersTeam, Awaited
    <3> QED BY <3>1, <3>2, <3>3, <3>4 DEF Local
  <2>2. CASE q = p
    BY <2>2, <1>3, IdleKnows
  <2> QED BY <2>1, <2>2
<1>14. \A q, r \in TeamProcs : Remembered(q, r)'
  BY <1>2, <1>3, RememberedStays
<1>11. \A f \in Team!Emails : EmailRow(f)'
  BY <1>0, <1>1, <1>2, <1>5, <1>6 DEF StaffInv, EmailRow
<1>12. \A m \in Managers : ManagerRow(m)' /\ Follows(m)'
  <2> SUFFICES ASSUME NEW m \in Managers PROVE ManagerRow(m)' /\ Follows(m)'
    OBVIOUS
  <2>0. ManagerRow(m) /\ Follows(m)
    BY DEF StaffInv
  <2>1. ManagerRow(m)'
    BY <2>0, <1>2, <1>6, <1>8, <1>9 DEF ManagerRow
  <2>2. Follows(m)'
    BY <2>0, <1>0, <1>2, <1>3, <1>6, <1>8 DEF Follows, OthersTeam
  <2> QED BY <2>1, <2>2
<1>13. "team" \notin crossed' =>
        (\E f \in Team!Emails : Team!ActiveAdmin(f)') /\ \A q \in TeamProcs : Replaceable(q)'
  <2> SUFFICES ASSUME "team" \notin crossed
               PROVE  (\E f \in Team!Emails : Team!ActiveAdmin(f)') /\ \A q \in TeamProcs : Replaceable(q)'
    BY <1>2
  <2>1. (\E f \in Team!Emails : Team!ActiveAdmin(f)) /\ Replaceable(p)
    BY DEF StaffInv
  <2>2. \E f \in Team!Emails : Team!ActiveAdmin(f)'
    <3>1. CASE request[p].to \in {"demote", "disable"}
      BY <3>1, <2>1, <1>0, <1>1, <1>6 DEF Replaceable, Team!ActiveAdmin
    <3>2. CASE request[p].to \notin {"demote", "disable"}
      BY <3>2, <2>1, <1>5, <1>6 DEF Team!ActiveAdmin
    <3> QED BY <3>1, <3>2
  <2>3. ASSUME NEW q \in TeamProcs PROVE Replaceable(q)'
    <3>1. CASE q = p
      BY <3>1, <1>3, IdleKnows
    <3>2. CASE q # p
      <4>1. Remembered(p, q) /\ Purpose(q)
        BY DEF StaffInv
      <4>2. staffPc[q] # "change"
        BY <4>1, <3>2, <1>0 DEF Remembered, Purpose
      <4> QED BY <4>2, <3>2, <1>3 DEF Replaceable, OthersTeam
    <3> QED BY <3>1, <3>2
  <2> QED BY <2>2, <2>3
<1> QED BY <1>7, <1>10, <1>14, <1>11, <1>12, <1>13 DEF StaffInv, Local

LEMMA FreeStep ==
  ASSUME StaffAssumed, StaffInv, NEW p \in TeamProcs, Team!Free(request[p].email),
         Team!InsertMember(p) \/ Team!CreateLogin(p)
  PROVE  StaffInv'
<1>0. /\ Team!TypeOK /\ Local(p) /\ staffPc[p] \in {"insert", "login"} /\ request[p].email \in Team!Emails
      /\ staffPc[p] = "insert" => request[p].to \in Team!AssignableRoles
  BY DEF StaffInv, Local, Purpose, Team!InsertMember, Team!CreateLogin, Team!At
<1>1. PICK e \in Team!Emails : e = request[p].email /\ admins[e] = Team!Nothing
  BY <1>0 DEF Team!Free
<1>2. /\ UNCHANGED <<managers, spvStatus, operator, crossed, active, torn>>
      /\ made' = [made EXCEPT ![e] = @ + 1]
      /\ \/ /\ staffPc[p] = "insert" /\ Team!Finish(p)
            /\ admins' = [admins EXCEPT ![e] = [role |-> request[p].to, disabled |-> FALSE]]
         \/ /\ staffPc[p] = "login" /\ Team!Continue(p, "profile")
            /\ admins' = [admins EXCEPT ![e] = [role |-> "manager", disabled |-> FALSE]]
  BY <1>1 DEF Team!InsertMember, Team!CreateLogin, Team!Insert, Team!At
<1>3. /\ TeamLocalTyped' /\ OthersTeam(p)
      /\ \/ staffPc'[p] = "idle" /\ request'[p] = Team!Idle
         \/ /\ staffPc[p] = "login" /\ staffPc'[p] = "profile" /\ request' = request
            /\ admins'[e] = [role |-> "manager", disabled |-> FALSE]
  <2>1. CASE Team!Finish(p)
    BY <2>1, <1>0, <1>2, TeamFinish DEF OthersTeam
  <2>2. CASE Team!Continue(p, "profile") /\ staffPc[p] = "login"
             /\ admins' = [admins EXCEPT ![e] = [role |-> "manager", disabled |-> FALSE]]
    <3>1. TeamLocalTyped' /\ OthersTeam(p) /\ staffPc'[p] = "profile" /\ request' = request
      BY <2>2, <1>0, <1>2, TeamContinue DEF OthersTeam, TeamPcs
    <3>2. admins'[e] = [role |-> "manager", disabled |-> FALSE]
      BY <2>2, <1>0 DEF Team!TypeOK
    <3> QED BY <3>1, <3>2, <2>2
  <2> QED BY <2>1, <2>2, <1>2
<1>4. /\ admins' \in [Team!Emails -> Logins] /\ admins'[e].role # "none"
      /\ \A f \in Team!Emails \ {e} : admins'[f] = admins[f]
  <2>1. admins \in [Team!Emails -> Logins]
    BY <1>0, TeamTyped DEF TeamTablesTyped
  <2>2. \A x \in Team!AssignableRoles \cup {"manager"} :
          [role |-> x, disabled |-> FALSE] \in Logins /\ x # "none"
    BY DEF Logins, Team!AssignableRoles
  <2>3. PICK x \in Team!AssignableRoles \cup {"manager"} :
          admins' = [admins EXCEPT ![e] = [role |-> x, disabled |-> FALSE]]
    BY <1>0, <1>2
  <2> QED BY <2>1, <2>2, <2>3
<1>5. /\ made' \in [Team!Emails -> Nat] /\ made'[e] = made[e] + 1
      /\ \A f \in Team!Emails \ {e} : made'[f] = made[f]
  BY <1>0, <1>2 DEF Team!TypeOK
<1>6. Team!TypeOK'
  <2>1. TeamTablesTyped' /\ TeamHistoryTyped'
    BY <1>0, <1>2, <1>4, <1>5, TeamTyped DEF TeamTablesTyped, TeamHistoryTyped
  <2> QED BY <2>1, <1>3, TeamTyped DEF Team!TypeOK, TeamTablesTyped, TeamLocalTyped, TeamHistoryTyped,
                                     TeamPcs, Logins, Profiles, TeamRequests
<1>7. admins[e].role = "none" /\ ~Team!ActiveAdmin(e)
  BY <1>1 DEF Team!Nothing, Team!ActiveAdmin
<1>8. \A f \in Team!Emails : admins[f].role # "none" => admins'[f] = admins[f] /\ f # e
  BY <1>4, <1>7
<1>9. \A m \in Managers : managers[m].login # e
  BY <1>7 DEF StaffInv, ManagerRow
<1>10. \A q \in TeamProcs : staffPc[q] = "profile" => request[q].email # e
  BY <1>7 DEF StaffInv, Awaited
<1>11. ASSUME NEW q \in TeamProcs PROVE Local(q)'
  <2>0. Local(q)
    BY DEF StaffInv, Local
  <2>1. CASE q # p
    <3>1. Purpose(q)' /\ Posting(q)' /\ Adopting(q)'
      BY <2>0, <2>1, <1>2, <1>3, <1>8 DEF Local, OthersTeam, Purpose, Posting, Adopting
    <3>2. Creating(q)'
      BY <2>0, <2>1, <1>2, <1>3 DEF Local, OthersTeam, Creating, Purpose, Team!Idle, StaffAssumed
    <3>3. TeamApart(q)'
      BY <2>0, <2>1, <1>2, <1>3 DEF Local, OthersTeam, TeamApart, Team!Idle
    <3>4. Awaited(q)'
      <4>1. staffPc'[p] = "profile" => request'[p].email = e
        BY <1>1, <1>3
      <4> QED BY <4>1, <2>0, <2>1, <1>2, <1>3, <1>8, <1>10 DEF Local, OthersTeam, Awaited
    <3> QED BY <3>1, <3>2, <3>3, <3>4 DEF Local
  <2>2. CASE q = p /\ staffPc'[p] = "idle" /\ request'[p] = Team!Idle
    BY <2>2, IdleKnows
  <2>3. CASE /\ q = p /\ staffPc[p] = "login" /\ staffPc'[p] = "profile" /\ request' = request
             /\ admins'[e] = [role |-> "manager", disabled |-> FALSE]
    <3>1. Purpose(p)' /\ Posting(p)' /\ Adopting(p)' /\ TeamApart(p)'
      BY <2>0, <2>3, <1>2 DEF Local, Purpose, Posting, Adopting, TeamApart
    <3>2. Creating(p)'
      BY <2>0, <2>3, <1>2 DEF Local, Creating
    <3>3. Awaited(p)'
      BY <2>3, <1>1, <1>2, <1>3, <1>4, <1>9, <1>10 DEF Awaited, OthersTeam
    <3> QED BY <2>3, <3>1, <3>2, <3>3 DEF Local
  <2> QED BY <2>1, <2>2, <2>3, <1>3
<1>12. \A q, r \in TeamProcs : Remembered(q, r)'
  BY <1>2, <1>3, RememberedStays
<1>13. \A f \in Team!Emails : EmailRow(f)'
  <2> SUFFICES ASSUME NEW f \in Team!Emails PROVE EmailRow(f)'
    OBVIOUS
  <2>1. EmailRow(f) /\ made[e] \in Nat
    BY <1>0 DEF StaffInv, Team!TypeOK
  <2>2. CASE f = e
    BY <2>1, <2>2, <1>4, <1>5, <1>7 DEF EmailRow
  <2>3. CASE f # e
    BY <2>1, <2>3, <1>4, <1>5 DEF EmailRow
  <2> QED BY <2>2, <2>3
<1>14. \A m \in Managers : ManagerRow(m)' /\ Follows(m)'
  <2> SUFFICES ASSUME NEW m \in Managers PROVE ManagerRow(m)' /\ Follows(m)'
    OBVIOUS
  <2>0. ManagerRow(m) /\ Follows(m)
    BY DEF StaffInv
  <2>1. ManagerRow(m)'
    BY <2>0, <1>2, <1>8, <1>9 DEF ManagerRow
  <2>2. Follows(m)'
    BY <2>0, <1>0, <1>2, <1>3, <1>4, <1>9 DEF Follows, OthersTeam
  <2> QED BY <2>1, <2>2
<1>15. "team" \notin crossed' =>
        (\E f \in Team!Emails : Team!ActiveAdmin(f)') /\ \A q \in TeamProcs : Replaceable(q)'
  <2> SUFFICES ASSUME "team" \notin crossed
               PROVE  (\E f \in Team!Emails : Team!ActiveAdmin(f)') /\ \A q \in TeamProcs : Replaceable(q)'
    BY <1>2
  <2>1. (\E f \in Team!Emails : Team!ActiveAdmin(f)) /\ \A q \in TeamProcs : Replaceable(q)
    BY DEF StaffInv
  <2>2. \A f \in Team!Emails \ {e} : Team!ActiveAdmin(f)' <=> Team!ActiveAdmin(f)
    BY <1>4 DEF Team!ActiveAdmin
  <2>3. \E f \in Team!Emails : Team!ActiveAdmin(f)'
    BY <2>1, <2>2, <1>7
  <2>4. ASSUME NEW q \in TeamProcs PROVE Replaceable(q)'
    <3>1. CASE staffPc'[q] # "change"
      BY <3>1 DEF Replaceable
    <3>2. CASE staffPc'[q] = "change"
      <4>1. q # p /\ staffPc[q] = "change" /\ request'[q] = request[q]
        BY <3>2, <1>0, <1>3 DEF OthersTeam
      <4>2. Purpose(q) /\ Replaceable(q)
        BY <2>1 DEF StaffInv
      <4>3. request[q].email \in Team!Emails /\ request[q].email # e
        BY <4>1, <4>2, <1>7 DEF Purpose
      <4> QED BY <4>1, <4>2, <4>3, <1>4, <1>7 DEF Replaceable, Team!ActiveAdmin
    <3> QED BY <3>1, <3>2
  <2> QED BY <2>3, <2>4
<1> QED BY <1>6, <1>11, <1>12, <1>13, <1>14, <1>15 DEF StaffInv, Local

LEMMA CreateProfileStep == ASSUME StaffAssumed, StaffInv, NEW p \in TeamProcs, Team!CreateProfile(p) PROVE StaffInv'
<1>0. /\ Team!TypeOK /\ Local(p) /\ staffPc[p] = "profile" /\ request[p].op = "manager"
      /\ request[p].manager \in Managers /\ managers[request[p].manager].status = "none"
      /\ request[p].email \in Team!Emails \cup {NoEmail} /\ request[p].spv \in SpvManagers \cup {NoSpv}
  BY TeamTyped DEF StaffInv, Local, Purpose, Creating, Team!CreateProfile, Team!At, TeamLocalTyped, TeamRequests
<1>1. PICK m \in Managers : m = request[p].manager
  BY <1>0
<1>2. PICK e \in Team!Emails \cup {NoEmail} : e = request[p].email
  BY <1>0
<1>3. /\ managers' = [managers EXCEPT ![m] = [status |-> "active", login |-> e, spv |-> NoSpv]]
      /\ Team!Finish(p) \/ Team!Continue(p, "adopt")
      /\ UNCHANGED <<admins, spvStatus, operator, crossed, made, active, torn>>
  BY <1>1, <1>2 DEF Team!CreateProfile, Team!history
<1>4. /\ TeamLocalTyped' /\ OthersTeam(p)
      /\ \/ staffPc'[p] = "idle" /\ request'[p] = Team!Idle
         \/ staffPc'[p] = "adopt" /\ request'[p] = request[p]
  <2>1. CASE Team!Finish(p)
    BY <2>1, <1>0, <1>3, TeamFinish DEF OthersTeam
  <2>2. CASE Team!Continue(p, "adopt")
    BY <2>2, <1>0, <1>3, TeamContinue DEF OthersTeam, TeamPcs
  <2> QED BY <2>1, <2>2, <1>3
<1>5. /\ managers' \in [Managers -> Profiles]
      /\ managers'[m] = [status |-> "active", login |-> e, spv |-> NoSpv]
      /\ \A n \in Managers \ {m} : managers'[n] = managers[n]
  <2>1. managers \in [Managers -> Profiles]
    BY <1>0, TeamTyped DEF TeamTablesTyped
  <2>2. [status |-> "active", login |-> e, spv |-> NoSpv] \in Profiles
    BY DEF Profiles
  <2> QED BY <2>1, <2>2, <1>3
<1>6. Team!TypeOK'
  <2>1. TeamTablesTyped' /\ TeamHistoryTyped'
    BY <1>0, <1>3, <1>5, TeamTyped DEF TeamTablesTyped, TeamHistoryTyped
  <2> QED BY <2>1, <1>4, TeamTyped DEF Team!TypeOK, TeamTablesTyped, TeamLocalTyped, TeamHistoryTyped,
                                     TeamPcs, Logins, Profiles, TeamRequests
<1>7. managers[m].status = "none" /\ \A q \in TeamProcs \ {p} : request[q].manager # m
  BY <1>0, <1>1 DEF Local, Creating
<1>8. e \in Team!Emails =>
        /\ admins[e].role # "none" /\ \A n \in Managers : managers[n].login # e
        /\ e \notin crossed => admins[e] = [role |-> "manager", disabled |-> FALSE]
        /\ \A q \in TeamProcs \ {p} : staffPc[q] = "profile" => request[q].email # e
  BY <1>0, <1>2 DEF Local, Awaited
<1>9. ASSUME NEW q \in TeamProcs PROVE Local(q)'
  <2>0. Local(q)
    BY DEF StaffInv, Local
  <2>1. CASE q # p
    <3>1. Purpose(q)'
      BY <2>0, <2>1, <1>3, <1>4, <1>5, <1>7 DEF Local, OthersTeam, Purpose
    <3>2. Posting(q)'
      <4>1. request[q].op = "post" => request[q].manager \in Managers
        BY <2>0, <1>0, RequestManager DEF Local
      <4> QED BY <4>1, <2>0, <2>1, <1>3, <1>4, <1>5, <1>7 DEF Local, OthersTeam, Posting
    <3>3. Adopting(q)'
      <4>1. staffPc[q] \in {"disable", "adopt", "attach"} => request[q].manager \in Managers
        BY <2>0 DEF Local, Purpose
      <4> QED BY <4>1, <2>0, <2>1, <1>3, <1>4, <1>5, <1>7 DEF Local, OthersTeam, Adopting
    <3>4. Creating(q)'
      <4>1. staffPc[q] \in {"login", "profile"} => request[q].manager \in Managers
        BY <2>0 DEF Local, Purpose
      <4> QED BY <4>1, <2>0, <2>1, <1>4, <1>5, <1>7 DEF Local, OthersTeam, Creating, Team!Idle, StaffAssumed
    <3>5. Awaited(q)'
      BY <2>0, <2>1, <1>3, <1>4, <1>5, <1>8 DEF Local, OthersTeam, Awaited
    <3>6. TeamApart(q)'
      BY <2>0, <2>1, <1>0, <1>2, <1>3, <1>4, <1>5 DEF Local, OthersTeam, TeamApart, Team!Idle
    <3> QED BY <3>1, <3>2, <3>3, <3>4, <3>5, <3>6 DEF Local
  <2>2. CASE q = p /\ staffPc'[p] = "idle" /\ request'[p] = Team!Idle
    BY <2>2, IdleKnows
  <2>3. CASE q = p /\ staffPc'[p] = "adopt" /\ request'[p] = request[p]
    <3>1. Purpose(p)' /\ Adopting(p)' /\ Posting(p)'
      BY <2>3, <1>0, <1>1, <1>5 DEF Purpose, Adopting, Posting
    <3>2. Creating(p)' /\ Awaited(p)' /\ TeamApart(p)'
      BY <2>3 DEF Creating, Awaited, TeamApart
    <3> QED BY <2>3, <3>1, <3>2 DEF Local
  <2> QED BY <2>1, <2>2, <2>3, <1>4
<1>10. \A q, r \in TeamProcs : Remembered(q, r)'
  BY <1>3, <1>4, RememberedStays
<1>11. \A f \in Team!Emails : EmailRow(f)'
  BY <1>3 DEF StaffInv, EmailRow
<1>12. ASSUME NEW n \in Managers PROVE ManagerRow(n)' /\ Follows(n)'
  <2>0. ManagerRow(n) /\ Follows(n)
    BY DEF StaffInv
  <2>1. CASE n = m
    <3>1. ManagerRow(n)'
      BY <2>1, <1>3, <1>5, <1>8 DEF ManagerRow
    <3>2. Follows(n)'
      BY <2>1, <1>3, <1>5, <1>8 DEF Follows
    <3> QED BY <3>1, <3>2
  <2>2. CASE n # m
    <3>1. ManagerRow(n)'
      BY <2>0, <2>2, <1>3, <1>5, <1>8 DEF ManagerRow
    <3>2. Follows(n)'
      BY <2>0, <2>2, <1>0, <1>3, <1>4, <1>5 DEF Follows, OthersTeam
    <3> QED BY <3>1, <3>2
  <2> QED BY <2>1, <2>2
<1>13. "team" \notin crossed' =>
        (\E f \in Team!Emails : Team!ActiveAdmin(f)') /\ \A q \in TeamProcs : Replaceable(q)'
  BY <1>0, <1>3, <1>4 DEF StaffInv, Replaceable, Team!ActiveAdmin, OthersTeam
<1> QED BY <1>6, <1>9, <1>10, <1>11, <1>12, <1>13 DEF StaffInv, Local

LEMMA ReportsStep ==
  ASSUME StaffAssumed, StaffInv, NEW p \in TeamProcs, Team!AdoptCreated(p) \/ Team!Attach(p) PROVE StaffInv'
<1>0. /\ Team!TypeOK /\ Local(p) /\ staffPc[p] \in {"adopt", "attach"} /\ request[p].manager \in Managers
      /\ managers[request[p].manager].status # "none" /\ request[p].spv \in SpvManagers \cup {NoSpv}
      /\ request[p].op # "post"
  BY TeamTyped DEF StaffInv, Local, Purpose, Team!AdoptCreated, Team!Attach, Team!At, TeamLocalTyped, TeamRequests
<1>1. PICK m \in Managers : m = request[p].manager
  BY <1>0
<1>2. PICK s \in SpvManagers \cup {NoSpv} : managers' = [managers EXCEPT ![m].spv = s]
  BY <1>0, <1>1 DEF Team!AdoptCreated, Team!Attach, Team!SetReportsTo
<1>3. Team!Finish(p) /\ UNCHANGED <<admins, spvStatus, operator, crossed, made, active, torn>>
  BY DEF Team!AdoptCreated, Team!Attach, Team!history
<1>4. TeamLocalTyped' /\ OthersTeam(p) /\ staffPc'[p] = "idle" /\ request'[p] = Team!Idle
  BY <1>0, <1>3, TeamFinish DEF OthersTeam
<1>5. /\ managers' \in [Managers -> Profiles]
      /\ \A n \in Managers : managers'[n].status = managers[n].status /\ managers'[n].login = managers[n].login
      /\ \A n \in Managers \ {m} : managers'[n] = managers[n]
  <2>1. managers \in [Managers -> Profiles]
    BY <1>0, TeamTyped DEF TeamTablesTyped
  <2>2. managers' = [managers EXCEPT ![m] = [status |-> managers[m].status, login |-> managers[m].login, spv |-> s]]
    BY <2>1, <1>2, ProfileFields
  <2>3. [status |-> managers[m].status, login |-> managers[m].login, spv |-> s] \in Profiles
    BY <2>1 DEF Profiles
  <2> QED BY <2>1, <2>2, <2>3
<1>6. Team!TypeOK'
  <2>1. TeamTablesTyped' /\ TeamHistoryTyped'
    BY <1>0, <1>3, <1>5, TeamTyped DEF TeamTablesTyped, TeamHistoryTyped
  <2> QED BY <2>1, <1>4, TeamTyped DEF Team!TypeOK, TeamTablesTyped, TeamLocalTyped, TeamHistoryTyped,
                                     TeamPcs, Logins, Profiles, TeamRequests
<1>7. ASSUME NEW q \in TeamProcs PROVE Local(q)'
  <2>0. Local(q) /\ Remembered(p, q)
    BY DEF StaffInv, Local
  <2>1. CASE q # p
    <3>0. staffPc[q] \notin {"idle", "count", "change", "insert"} => request[q].manager \in Managers
      BY <2>0, <1>0, RequestManager DEF Local
    <3>1. Purpose(q)'
      BY <2>0, <2>1, <3>0, <1>3, <1>4, <1>5 DEF Local, OthersTeam, Purpose
    <3>2. Posting(q)'
      <4>1. request[q].op = "post" => request[q].manager \in Managers
        BY <2>0, <1>0, RequestManager DEF Local
      <4> QED BY <4>1, <2>0, <2>1, <1>3, <1>4, <1>5 DEF Local, OthersTeam, Posting
    <3>3. Adopting(q)'
      <4>1. staffPc[q] \in {"disable", "adopt", "attach"} => request[q].op # "post"
        BY <2>0 DEF Local, Purpose
      <4>2. (staffPc[q] \in {"disable", "adopt", "attach"} /\ request[q].manager \notin crossed) => request[q].manager # m
        BY <4>1, <2>0, <2>1, <1>0, <1>1 DEF Remembered
      <4> QED BY <4>2, <3>0, <2>0, <2>1, <1>3, <1>4, <1>5 DEF Local, OthersTeam, Adopting
    <3>4. Creating(q)'
      BY <2>0, <2>1, <3>0, <1>4, <1>5 DEF Local, OthersTeam, Creating, Team!Idle, StaffAssumed
    <3>5. Awaited(q)' /\ TeamApart(q)'
      BY <2>0, <2>1, <1>3, <1>4, <1>5 DEF Local, OthersTeam, Awaited, TeamApart, Team!Idle
    <3> QED BY <3>1, <3>2, <3>3, <3>4, <3>5 DEF Local
  <2>2. CASE q = p
    BY <2>2, <1>4, IdleKnows
  <2> QED BY <2>1, <2>2
<1>8. \A q, r \in TeamProcs : Remembered(q, r)'
  BY <1>3, <1>4, RememberedStays
<1>9. \A f \in Team!Emails : EmailRow(f)'
  BY <1>3 DEF StaffInv, EmailRow
<1>10. ASSUME NEW n \in Managers PROVE ManagerRow(n)' /\ Follows(n)'
  <2>0. ManagerRow(n) /\ Follows(n)
    BY DEF StaffInv
  <2>1. ManagerRow(n)'
    <3>1. managers'[n].status = "none" => n # m
      BY <1>0, <1>1, <1>5
    <3> QED BY <3>1, <2>0, <1>3, <1>5 DEF ManagerRow
  <2>2. Follows(n)'
    BY <2>0, <1>0, <1>3, <1>4, <1>5 DEF Follows, OthersTeam
  <2> QED BY <2>1, <2>2
<1>11. "team" \notin crossed' =>
        (\E f \in Team!Emails : Team!ActiveAdmin(f)') /\ \A q \in TeamProcs : Replaceable(q)'
  BY <1>0, <1>3, <1>4 DEF StaffInv, Replaceable, Team!ActiveAdmin, OthersTeam
<1> QED BY <1>6, <1>7, <1>8, <1>9, <1>10, <1>11 DEF StaffInv, Local

LEMMA UpdateProfileStep == ASSUME StaffAssumed, StaffInv, NEW p \in TeamProcs, Team!UpdateProfile(p) PROVE StaffInv'
<1>0. /\ Team!TypeOK /\ Local(p) /\ staffPc[p] = "update" /\ request[p].op = "profile"
      /\ request[p].manager \in Managers /\ managers[request[p].manager].status # "none"
      /\ request[p].to \in {"active", "suspended"} /\ saw[p] = managers[request[p].manager].login
  BY DEF StaffInv, Local, Purpose, Team!UpdateProfile, Team!At
<1>1. PICK m \in Managers : m = request[p].manager
  BY <1>0
<1>2. PICK s \in {"active", "suspended"} : s = request[p].to
  BY <1>0
<1>3. /\ managers' = [managers EXCEPT ![m].status = s]
      /\ active' = [q \in TeamProcs |-> active[q] \/ (s = "active" /\ request[q].op = "post" /\ request[q].manager = m)]
      /\ IF saw[p] = NoEmail THEN Team!Finish(p) ELSE Team!Continue(p, "disable")
      /\ UNCHANGED <<admins, spvStatus, operator, crossed, made, torn>>
  BY <1>1, <1>2 DEF Team!UpdateProfile
<1>4. /\ TeamLocalTyped' /\ \A q \in TeamProcs \ {p} : staffPc'[q] = staffPc[q] /\ request'[q] = request[q] /\ saw'[q] = saw[q]
      /\ \/ staffPc'[p] = "idle" /\ request'[p] = Team!Idle /\ saw[p] = NoEmail
         \/ staffPc'[p] = "disable" /\ request'[p] = request[p] /\ saw' = saw /\ saw[p] # NoEmail
  <2>1. CASE saw[p] = NoEmail
    BY <2>1, <1>0, <1>3, TeamFinish
  <2>2. CASE saw[p] # NoEmail
    BY <2>2, <1>0, <1>3, TeamContinue DEF TeamPcs
  <2> QED BY <2>1, <2>2
<1>5. /\ managers' \in [Managers -> Profiles]
      /\ managers'[m].status = s
      /\ \A n \in Managers : managers'[n].spv = managers[n].spv /\ managers'[n].login = managers[n].login
      /\ \A n \in Managers \ {m} : managers'[n] = managers[n]
  <2>1. managers \in [Managers -> Profiles]
    BY <1>0, TeamTyped DEF TeamTablesTyped
  <2>2. managers' = [managers EXCEPT ![m] = [status |-> s, login |-> managers[m].login, spv |-> managers[m].spv]]
    BY <2>1, <1>3, ProfileFields
  <2>3. [status |-> s, login |-> managers[m].login, spv |-> managers[m].spv] \in Profiles
    BY <2>1 DEF Profiles
  <2> QED BY <2>1, <2>2, <2>3
<1>6. active \in [TeamProcs -> BOOLEAN] /\ active' \in [TeamProcs -> BOOLEAN]
  <2>1. active \in [TeamProcs -> BOOLEAN]
    BY <1>0 DEF Team!TypeOK
  <2> QED BY <2>1, <1>3, Zenon
<1>7. Team!TypeOK'
  <2>1. TeamTablesTyped' /\ TeamHistoryTyped'
    BY <1>0, <1>3, <1>5, <1>6, TeamTyped DEF TeamTablesTyped, TeamHistoryTyped
  <2> QED BY <2>1, <1>4, TeamTyped DEF Team!TypeOK, TeamTablesTyped, TeamLocalTyped, TeamHistoryTyped,
                                     TeamPcs, Logins, Profiles, TeamRequests
<1>8. \A q \in TeamProcs : /\ active[q] => active'[q]
                           /\ (s = "active" /\ request[q].op = "post" /\ request[q].manager = m) => active'[q]
  BY <1>3, Zenon
<1>9. ASSUME NEW q \in TeamProcs PROVE Local(q)'
  <2>0. Local(q) /\ Remembered(p, q)
    BY DEF StaffInv, Local
  <2>1. CASE q # p
    <3>0. /\ staffPc[q] \notin {"idle", "count", "change", "insert"} => request[q].manager \in Managers
          /\ request[q].op = "post" => request[q].manager \in Managers
      BY <2>0, <1>0, RequestManager DEF Local
    <3>1. Purpose(q)'
      BY <2>0, <2>1, <3>0, <1>2, <1>3, <1>4, <1>5 DEF Local, Purpose
    <3>2. Posting(q)'
      <4>1. Posting(q) /\ staffPc'[q] = staffPc[q] /\ request'[q] = request[q]
        BY <2>0, <2>1, <1>4 DEF Local
      <4>2. CASE request[q].manager = m
        BY <4>1, <4>2, <1>5, <1>8 DEF Posting
      <4>3. CASE request[q].manager # m
        BY <4>1, <4>3, <3>0, <1>5, <1>8 DEF Posting
      <4> QED BY <4>2, <4>3
    <3>3. Adopting(q)'
      <4>1. staffPc[q] \in {"disable", "adopt", "attach"} => request[q].op # "post"
        BY <2>0 DEF Local, Purpose
      <4>2. (staffPc[q] \in {"disable", "adopt", "attach"} /\ request[q].manager \notin crossed) => request[q].manager # m
        BY <4>1, <2>0, <2>1, <1>0, <1>1 DEF Remembered
      <4> QED BY <4>2, <3>0, <2>0, <2>1, <1>3, <1>4, <1>5 DEF Local, Adopting
    <3>4. Creating(q)'
      <4>1. staffPc[q] \in {"login", "profile"} => request[q].manager # m
        BY <2>0, <1>0, <1>1 DEF Local, Creating
      <4> QED BY <4>1, <2>0, <2>1, <3>0, <1>4, <1>5 DEF Local, Creating, Team!Idle, StaffAssumed
    <3>5. Awaited(q)' /\ TeamApart(q)'
      BY <2>0, <2>1, <1>3, <1>4, <1>5 DEF Local, Awaited, TeamApart, Team!Idle
    <3> QED BY <3>1, <3>2, <3>3, <3>4, <3>5 DEF Local
  <2>2. CASE q = p /\ staffPc'[p] = "idle" /\ request'[p] = Team!Idle
    BY <2>2, IdleKnows
  <2>3. CASE q = p /\ staffPc'[p] = "disable" /\ request'[p] = request[p] /\ saw' = saw /\ saw[p] # NoEmail
    <3>0. managers[m].login \in Team!Emails \cup {NoEmail}
      BY <1>0, TeamTyped DEF TeamTablesTyped, Profiles
    <3>1. Purpose(p)'
      BY <2>3, <3>0, <1>0, <1>1, <1>2, <1>5 DEF Purpose
    <3>2. Adopting(p)' /\ Posting(p)'
      BY <2>3, <1>0, <1>1, <1>2, <1>3, <1>5 DEF Adopting, Posting
    <3>3. Creating(p)' /\ Awaited(p)' /\ TeamApart(p)'
      BY <2>3 DEF Creating, Awaited, TeamApart
    <3> QED BY <2>3, <3>1, <3>2, <3>3 DEF Local
  <2> QED BY <2>1, <2>2, <2>3, <1>4
<1>10. ASSUME NEW q \in TeamProcs, NEW r \in TeamProcs PROVE Remembered(q, r)'
  <2>1. Remembered(q, r)
    BY DEF StaffInv
  <2> QED BY <2>1, <1>3, <1>4 DEF Remembered, Team!Idle, StaffAssumed
<1>11. \A f \in Team!Emails : EmailRow(f)'
  BY <1>3 DEF StaffInv, EmailRow
<1>12. ASSUME NEW n \in Managers PROVE ManagerRow(n)' /\ Follows(n)'
  <2>0. ManagerRow(n) /\ Follows(n)
    BY DEF StaffInv
  <2>1. ManagerRow(n)'
    BY <2>0, <1>2, <1>3, <1>5 DEF ManagerRow
  <2>2. CASE n = m
    BY <2>1, <2>2, <1>0, <1>1, <1>4, <1>5 DEF Follows, StaffAssumed
  <2>3. CASE n # m
    <3>1. \A q \in TeamProcs : (staffPc[q] = "disable" /\ request[q].manager = n) =>
            (staffPc'[q] = "disable" /\ request'[q].manager = n)
      BY <1>0, <1>4
    <3> QED BY <2>0, <2>1, <2>3, <3>1, <1>3, <1>5 DEF Follows
  <2> QED BY <2>1, <2>2, <2>3
<1>13. "team" \notin crossed' =>
        (\E f \in Team!Emails : Team!ActiveAdmin(f)') /\ \A q \in TeamProcs : Replaceable(q)'
  BY <1>0, <1>3, <1>4 DEF StaffInv, Replaceable, Team!ActiveAdmin
<1> QED BY <1>7, <1>9, <1>10, <1>11, <1>12, <1>13 DEF StaffInv, Local

LEMMA SetLoginDisabledStep ==
  ASSUME StaffAssumed, StaffInv, NEW p \in TeamProcs, Team!SetLoginDisabled(p) PROVE StaffInv'
<1>0. /\ Team!TypeOK /\ Local(p) /\ staffPc[p] = "disable" /\ request[p].op = "profile"
      /\ request[p].manager \in Managers
      /\ request[p].to \in {"active", "suspended"} /\ saw[p] = managers[request[p].manager].login
      /\ saw[p] \in Team!Emails
  BY DEF StaffInv, Local, Purpose, Team!SetLoginDisabled, Team!At
<1>1. PICK m \in Managers : m = request[p].manager
  BY <1>0
<1>2. PICK e \in Team!Emails : e = saw[p] /\ e = managers[m].login
  BY <1>0, <1>1
<1>3. /\ admins' = IF admins[e].role # "manager" THEN admins
                   ELSE [admins EXCEPT ![e].disabled = (request[p].to = "suspended")]
      /\ Team!Finish(p) /\ UNCHANGED <<managers, spvStatus, operator, crossed, made, active, torn>>
  BY <1>2 DEF Team!SetLoginDisabled, Team!DisabledFor, Team!history
<1>4. TeamLocalTyped' /\ OthersTeam(p) /\ staffPc'[p] = "idle" /\ request'[p] = Team!Idle
  BY <1>0, <1>3, TeamFinish DEF OthersTeam
<1>5. PICK b \in BOOLEAN : b <=> request[p].to = "suspended"
  OBVIOUS
<1>6. /\ admins' \in [Team!Emails -> Logins]
      /\ \A f \in Team!Emails \ {e} : admins'[f] = admins[f]
      /\ admins[e].role # "manager" => admins'[e] = admins[e]
      /\ admins[e].role = "manager" => admins'[e].role = "manager" /\ admins'[e].disabled = b
  <2>1. admins \in [Team!Emails -> Logins]
    BY <1>0, TeamTyped DEF TeamTablesTyped
  <2>2. CASE admins[e].role # "manager"
    BY <2>1, <2>2, <1>3
  <2>3. CASE admins[e].role = "manager"
    <3>1. (request[p].to = "suspended") = b
      BY <1>5
    <3>2. admins' = [admins EXCEPT ![e].disabled = b]
      BY <2>3, <3>1, <1>3
    <3>3. [admins[e] EXCEPT !.disabled = b] \in Logins
      BY <2>1 DEF Logins
    <3> QED BY <2>1, <2>3, <3>2, <3>3 DEF Logins
  <2> QED BY <2>2, <2>3
<1>7. Team!TypeOK'
  <2>1. TeamTablesTyped' /\ TeamHistoryTyped'
    BY <1>0, <1>3, <1>6, TeamTyped DEF TeamTablesTyped, TeamHistoryTyped
  <2> QED BY <2>1, <1>4, TeamTyped DEF Team!TypeOK, TeamTablesTyped, TeamLocalTyped, TeamHistoryTyped,
                                     TeamPcs, Logins, Profiles, TeamRequests
<1>8. \A f \in Team!Emails : admins'[f].role = admins[f].role
  BY <1>6
<1>9. ASSUME NEW q \in TeamProcs PROVE Local(q)'
  <2>0. Local(q)
    BY DEF StaffInv, Local
  <2>1. CASE q # p
    <3>1. Purpose(q)' /\ Posting(q)' /\ Adopting(q)'
      BY <2>0, <2>1, <1>3, <1>4, <1>8 DEF Local, OthersTeam, Purpose, Posting, Adopting
    <3>2. Creating(q)'
      BY <2>0, <2>1, <1>3, <1>4 DEF Local, OthersTeam, Creating, Purpose, Team!Idle, StaffAssumed
    <3>3. TeamApart(q)'
      BY <2>0, <2>1, <1>3, <1>4 DEF Local, OthersTeam, TeamApart, Team!Idle
    <3>4. Awaited(q)'
      <4>1. staffPc[q] = "profile" => request[q].email # e
        BY <2>0, <1>2 DEF Local, Awaited
      <4> QED BY <4>1, <2>0, <2>1, <1>3, <1>4, <1>6, <1>8 DEF Local, OthersTeam, Awaited
    <3> QED BY <3>1, <3>2, <3>3, <3>4 DEF Local
  <2>2. CASE q = p
    BY <2>2, <1>4, IdleKnows
  <2> QED BY <2>1, <2>2
<1>10. \A q, r \in TeamProcs : Remembered(q, r)'
  BY <1>3, <1>4, RememberedStays
<1>11. \A f \in Team!Emails : EmailRow(f)'
  BY <1>3, <1>6, <1>8 DEF StaffInv, EmailRow
<1>12. ASSUME NEW n \in Managers PROVE ManagerRow(n)' /\ Follows(n)'
  <2>0. ManagerRow(n) /\ Follows(n)
    BY DEF StaffInv
  <2>1. ManagerRow(n)'
    BY <2>0, <1>3, <1>8 DEF ManagerRow
  <2>2. CASE n = m
    <3>1. e \notin crossed => admins[e].role = "manager"
      BY <2>0, <2>2, <1>2 DEF ManagerRow
    <3>2. m \notin crossed => managers[m].status = request[p].to
      BY <1>0, <1>1 DEF Local, Adopting
    <3>3. (m \notin crossed /\ e \notin crossed) => (admins'[e].disabled <=> managers'[m].status = "suspended")
      BY <3>1, <3>2, <1>3, <1>5, <1>6
    <3> QED BY <2>1, <2>2, <3>3, <1>2, <1>3 DEF Follows
  <2>3. CASE n # m
    <3>1. managers[n].login # e
      BY <2>3, <1>2 DEF StaffInv, ManagerRow
    <3>2. \A q \in TeamProcs : (staffPc[q] = "disable" /\ request[q].manager = n) =>
            (staffPc'[q] = "disable" /\ request'[q].manager = n)
      BY <2>3, <1>1, <1>4 DEF OthersTeam
    <3> QED BY <2>0, <2>1, <3>1, <3>2, <1>3, <1>6 DEF Follows
  <2> QED BY <2>1, <2>2, <2>3
<1>13. "team" \notin crossed' =>
        (\E f \in Team!Emails : Team!ActiveAdmin(f)') /\ \A q \in TeamProcs : Replaceable(q)'
  <2>1. \A f \in Team!Emails : Team!ActiveAdmin(f)' <=> Team!ActiveAdmin(f)
    <3> SUFFICES ASSUME NEW f \in Team!Emails PROVE Team!ActiveAdmin(f)' <=> Team!ActiveAdmin(f)
      OBVIOUS
    <3>1. CASE admins'[f] = admins[f]
      BY <3>1 DEF Team!ActiveAdmin
    <3>2. CASE admins'[f].role = "manager" /\ admins[f].role = "manager"
      BY <3>2 DEF Team!ActiveAdmin
    <3> QED BY <3>1, <3>2, <1>6
  <2> SUFFICES ASSUME "team" \notin crossed
               PROVE  (\E f \in Team!Emails : Team!ActiveAdmin(f)') /\ \A q \in TeamProcs : Replaceable(q)'
    BY <1>3
  <2>2. (\E f \in Team!Emails : Team!ActiveAdmin(f)) /\ \A q \in TeamProcs : Replaceable(q) /\ Purpose(q)
    BY DEF StaffInv
  <2>3. ASSUME NEW q \in TeamProcs PROVE Replaceable(q)'
    <3>1. CASE staffPc'[q] # "change"
      BY <3>1 DEF Replaceable
    <3>2. CASE staffPc'[q] = "change"
      <4>1. q # p /\ staffPc[q] = "change" /\ request'[q] = request[q] /\ request[q].email \in Team!Emails
        BY <3>2, <2>2, <1>4 DEF OthersTeam, Purpose
      <4>2. Replaceable(q)
        BY <2>2
      <4> QED BY <4>1, <4>2, <2>1 DEF Replaceable, Team!ActiveAdmin
    <3> QED BY <3>1, <3>2
  <2> QED BY <2>1, <2>2, <2>3
<1> QED BY <1>7, <1>9, <1>10, <1>11, <1>12, <1>13 DEF StaffInv, Local

\* What opening a request does to the state.
Opened(p, r, next) ==
  /\ staffPc[p] = "idle" /\ staffPc'[p] = next /\ request'[p] = r /\ OthersTeam(p)
  /\ UNCHANGED <<admins, managers, spvStatus, operator, made, torn>> /\ crossed \subseteq crossed'
  /\ \A q \in TeamProcs \ {p} : \A x \in Team!Subjects(r) \cap Team!Subjects(request[q]) :
       x \notin {NoEmail, NoManager} => x \in crossed'

\* What a request is about and an open one too.
Common(r) == UNION {Team!Subjects(r) \cap Team!Subjects(request[q]) : q \in TeamProcs}

LEMMA BeginOpens ==
  ASSUME StaffAssumed, Team!TypeOK, NEW p \in TeamProcs, NEW r \in TeamRequests,
         NEW read \in Team!Emails \cup {NoEmail}, NEW next \in TeamPcs, Team!Begin(p, r, read, next),
         UNCHANGED <<admins, managers, spvStatus, operator, made, active, torn>>
  PROVE  Opened(p, r, next) /\ Team!TypeOK' /\ saw'[p] = read
<1>1. /\ staffPc[p] = "idle" /\ staffPc' = [staffPc EXCEPT ![p] = next] /\ request' = [request EXCEPT ![p] = r]
      /\ saw' = [saw EXCEPT ![p] = read] /\ calls < MaxStaffCalls /\ calls' = calls + 1
  BY DEF Team!Begin, Team!Open, Team!At, Team!Goto
<1>2. /\ staffPc'[p] = next /\ request'[p] = r /\ saw'[p] = read /\ OthersTeam(p) /\ TeamLocalTyped'
  <2>1. TeamLocalTyped
    BY TeamTyped
  <2>2. calls' \in 0..MaxStaffCalls
    BY <2>1, <1>1 DEF TeamLocalTyped, StaffAssumed
  <2> QED BY <2>1, <2>2, <1>1 DEF TeamLocalTyped, OthersTeam
<1>c. crossed' = crossed \cup (Common(r) \ {NoEmail, NoManager})
  BY DEF Team!Begin, Common
<1>3. \A q \in TeamProcs \ {p} : \A x \in Team!Subjects(r) \cap Team!Subjects(request[q]) :
        x \notin {NoEmail, NoManager} => x \in crossed'
  <2> SUFFICES ASSUME NEW q \in TeamProcs, NEW x \in Team!Subjects(r) \cap Team!Subjects(request[q]),
                      x \notin {NoEmail, NoManager}
               PROVE  x \in crossed'
    OBVIOUS
  <2>1. x \in Common(r)
    <3>1. Team!Subjects(r) \cap Team!Subjects(request[q])
            \in {Team!Subjects(r) \cap Team!Subjects(request[o]) : o \in TeamProcs}
      OBVIOUS
    <3> QED BY <3>1 DEF Common
  <2> QED BY <2>1, <1>c
<1>4. Team!Subjects(r) \ {NoEmail, NoManager} \in SUBSET (Team!Emails \cup Managers \cup {"team"})
  <2>1. r.email \in Team!Emails \cup {NoEmail} /\ r.manager \in Managers \cup {NoManager}
    BY DEF TeamRequests
  <2>2. r.manager # NoManager => managers[r.manager].login \in Team!Emails \cup {NoEmail}
    BY <2>1, TeamTyped DEF TeamTablesTyped, Profiles
  <2> QED BY <2>1, <2>2 DEF Team!Subjects
<1>5. TeamHistoryTyped'
  <2>1. TeamHistoryTyped
    BY TeamTyped
  <2>2. crossed' \in SUBSET (Team!Emails \cup Managers \cup {"team"})
    <3>1. Common(r) \subseteq Team!Subjects(r)
      BY DEF Common
    <3>2. crossed \in SUBSET (Team!Emails \cup Managers \cup {"team"})
      BY <2>1 DEF TeamHistoryTyped
    <3> QED BY <3>1, <3>2, <1>c, <1>4
  <2> QED BY <2>1, <2>2 DEF TeamHistoryTyped
<1>6. Team!TypeOK'
  <2>1. TeamTablesTyped'
    BY TeamTyped DEF TeamTablesTyped
  <2> QED BY <2>1, <1>2, <1>5, TeamTyped DEF Team!TypeOK, TeamTablesTyped, TeamLocalTyped, TeamHistoryTyped,
                                     TeamPcs, Logins, Profiles, TeamRequests
<1> QED BY <1>1, <1>c, <1>2, <1>3, <1>6 DEF Opened

\* An open request is in order when it is about nobody who is being created.
LEMMA OpenedStays ==
  ASSUME StaffAssumed, StaffInv, Team!TypeOK', NEW p \in TeamProcs, NEW r \in TeamRequests, NEW next \in TeamPcs,
         Opened(p, r, next), Local(p)', "team" \notin crossed' => Replaceable(p)',
         \/ r.manager = NoManager \/ managers[r.manager].status # "none"
         \/ \A q \in TeamProcs : request[q].manager # r.manager
  PROVE  StaffInv'
<1>0. Team!TypeOK
  BY DEF StaffInv
<1>1. ASSUME NEW q \in TeamProcs \ {p} PROVE Local(q)'
  <2>0. Local(q)
    BY DEF StaffInv, Local
  <2>1. Purpose(q)' /\ Posting(q)' /\ Adopting(q)'
    BY <2>0 DEF Local, Opened, OthersTeam, Purpose, Posting, Adopting
  <2>2. Creating(q)'
    <3>1. staffPc[q] \in {"login", "profile"} => request[q].manager \in Managers /\ request[q].manager # r.manager
      BY <2>0 DEF Local, Purpose, Creating, StaffAssumed
    <3> QED BY <3>1, <2>0 DEF Local, Opened, OthersTeam, Creating
  <2>3. Awaited(q)'
    <3>1. staffPc'[p] = "profile" => request'[p].email \notin Team!Emails \/ request'[p].email # request[q].email
                                     \/ staffPc[q] # "profile"
      <4>1. staffPc'[q] = staffPc[q] /\ request'[q] = request[q]
        BY DEF Opened, OthersTeam
      <4> QED BY <4>1 DEF Local, Awaited
    <3> QED BY <3>1, <2>0 DEF Local, Opened, OthersTeam, Awaited
  <2>4. TeamApart(q)'
    <3>1. r.email \in Team!Subjects(r) /\ request[q].email \in Team!Subjects(request[q])
      BY DEF Team!Subjects
    <3>2. (request[q].email \in Team!Emails /\ r.email = request[q].email) => request[q].email \in crossed'
      BY <3>1 DEF Opened, StaffAssumed
    <3>3. staffPc[q] \in {"count", "change"} => request[q].email \in Team!Emails
      BY <2>0 DEF Local, Purpose
    <3> QED BY <3>2, <3>3, <2>0 DEF Local, Opened, OthersTeam, TeamApart
  <2> QED BY <2>1, <2>2, <2>3, <2>4 DEF Local
<1>2. ASSUME NEW q \in TeamProcs \ {p} PROVE Remembered(p, q)' /\ Remembered(q, p)'
  <2>1. r.op = "team" => "team" \in Team!Subjects(r)
    BY DEF Team!Subjects
  <2>2. request[q].op = "team" => "team" \in Team!Subjects(request[q])
    BY DEF Team!Subjects
  <2>3. r.manager \in Team!Subjects(r) /\ request[q].manager \in Team!Subjects(request[q])
    BY DEF Team!Subjects
  <2>4. (r.op = "team" /\ request[q].op = "team") => "team" \in crossed'
    <3>1. "team" \notin {NoEmail, NoManager} \/ "team" \in {NoEmail, NoManager}
      OBVIOUS
    <3>2. "team" # NoEmail /\ "team" # NoManager
      BY DEF StaffAssumed
    <3> QED BY <2>1, <2>2, <3>2 DEF Opened
  <2>5. (r.manager \in Managers /\ request[q].manager = r.manager) => r.manager \in crossed'
    BY <2>3 DEF Opened, StaffAssumed
  <2> QED BY <2>4, <2>5 DEF Remembered, Opened, OthersTeam
<1>3. ASSUME NEW q \in TeamProcs, NEW x \in TeamProcs PROVE Remembered(q, x)'
  <2>1. CASE q = p /\ x = p
    BY <2>1 DEF Remembered
  <2>2. CASE q # p /\ x # p
    <3>1. Remembered(q, x)
      BY DEF StaffInv
    <3> QED BY <2>2, <3>1 DEF Remembered, Opened, OthersTeam
  <2> QED BY <2>1, <2>2, <1>2
<1>4. \A f \in Team!Emails : EmailRow(f)'
  BY DEF StaffInv, EmailRow, Opened
<1>5. ASSUME NEW m \in Managers PROVE ManagerRow(m)' /\ Follows(m)'
  <2>1. ManagerRow(m) /\ Follows(m)
    BY DEF StaffInv
  <2>2. ManagerRow(m)'
    BY <2>1 DEF ManagerRow, Opened
  <2>3. Follows(m)'
    BY <2>1 DEF Follows, Opened, OthersTeam
  <2> QED BY <2>2, <2>3
<1>6. "team" \notin crossed' =>
        (\E f \in Team!Emails : Team!ActiveAdmin(f)') /\ \A q \in TeamProcs : Replaceable(q)'
  <2> SUFFICES ASSUME "team" \notin crossed'
               PROVE  (\E f \in Team!Emails : Team!ActiveAdmin(f)') /\ \A q \in TeamProcs : Replaceable(q)'
    OBVIOUS
  <2>1. (\E f \in Team!Emails : Team!ActiveAdmin(f)) /\ \A q \in TeamProcs : Replaceable(q)
    BY DEF StaffInv, Opened
  <2>2. \A q \in TeamProcs \ {p} : Replaceable(q)'
    BY <2>1 DEF Replaceable, Team!ActiveAdmin, Opened, OthersTeam
  <2> QED BY <2>1, <2>2 DEF Team!ActiveAdmin, Opened
<1> QED BY <1>1, <1>3, <1>4, <1>5, <1>6 DEF StaffInv, Local

LEMMA TeamUpdateStep ==
  ASSUME StaffAssumed, StaffInv, NEW p \in TeamProcs, NEW e \in Team!Emails, NEW change \in Team!Changes,
         Team!TeamUpdate(p, e, change)
  PROVE  StaffInv'
<1>r. PICK r : r = [Team!Idle EXCEPT !.op = "team", !.email = e, !.to = change]
  OBVIOUS
<1> DEFINE next == IF change \in {"demote", "disable"} /\ Team!ActiveAdmin(e) THEN "count" ELSE "change"
<1>0. Team!TypeOK /\ UNCHANGED <<admins, managers, spvStatus, operator, made, active, torn>>
  BY DEF StaffInv, Team!TeamUpdate, Team!tables
<1>1. r = [op |-> "team", email |-> e, manager |-> NoManager, spv |-> NoSpv, to |-> change] /\ r \in TeamRequests
  <2>1. r = [op |-> r.op, email |-> r.email, manager |-> r.manager, spv |-> r.spv, to |-> r.to]
    BY <1>r DEF Team!Idle
  <2>2. r.op = "team" /\ r.email = e /\ r.manager = NoManager /\ r.spv = NoSpv /\ r.to = change
    BY <1>r DEF Team!Idle
  <2>3. [op |-> "team", email |-> e, manager |-> NoManager, spv |-> NoSpv, to |-> change] \in TeamRequests
    BY DEF TeamRequests, Team!Ops
  <2> QED BY <2>1, <2>2, <2>3
<1>2. next \in TeamPcs /\ next \in {"count", "change"}
      /\ (next = "change" => change \notin {"demote", "disable"} \/ ~Team!ActiveAdmin(e))
  BY DEF TeamPcs
<1>3. Team!Begin(p, r, NoEmail, next) /\ admins[e] # Team!Nothing /\ ~Team!HasProfile(e)
  BY <1>r DEF Team!TeamUpdate
<1> HIDE DEF next
<1>4. Opened(p, r, next) /\ Team!TypeOK'
  BY <1>0, <1>1, <1>2, <1>3, BeginOpens
<1>5. admins[e].role # "none" /\ \A m \in Managers : managers[m].login # e
  BY <1>3 DEF StaffInv, EmailRow, Team!HasProfile
<1>6. ASSUME e \notin crossed', NEW q \in TeamProcs, request'[q].op = "manager" PROVE request'[q].email # e
  <2>1. q # p /\ request'[q] = request[q]
    BY <1>1, <1>4, <1>6 DEF Opened, OthersTeam
  <2>2. e \in Team!Subjects(r) /\ request[q].email \in Team!Subjects(request[q])
    BY <1>1 DEF Team!Subjects
  <2> QED BY <2>1, <2>2, <1>4, <1>6 DEF Opened, StaffAssumed
<1>7. Local(p)'
  <2>1. Purpose(p)'
    BY <1>0, <1>1, <1>2, <1>4, <1>5 DEF Opened, Purpose
  <2>2. TeamApart(p)'
    BY <1>0, <1>1, <1>4, <1>5, <1>6 DEF Opened, TeamApart
  <2>3. Creating(p)' /\ Awaited(p)' /\ Posting(p)' /\ Adopting(p)'
    BY <1>1, <1>2, <1>4 DEF Opened, Creating, Awaited, Posting, Adopting
  <2> QED BY <2>1, <2>2, <2>3 DEF Local
<1>8. Replaceable(p)'
  BY <1>0, <1>1, <1>2, <1>4 DEF Opened, Replaceable, Team!ActiveAdmin
<1> QED BY <1>1, <1>2, <1>4, <1>7, <1>8, OpenedStays

LEMMA TeamCreateStep ==
  ASSUME StaffAssumed, StaffInv, NEW p \in TeamProcs, NEW e \in Team!Emails, NEW hired \in Team!AssignableRoles,
         Team!TeamCreate(p, e, hired)
  PROVE  StaffInv'
<1>r. PICK r : r = [Team!Idle EXCEPT !.op = "hire", !.email = e, !.to = hired]
  OBVIOUS
<1>0. Team!TypeOK /\ UNCHANGED <<admins, managers, spvStatus, operator, made, active, torn>>
  BY DEF StaffInv, Team!TeamCreate, Team!tables
<1>1. r = [op |-> "hire", email |-> e, manager |-> NoManager, spv |-> NoSpv, to |-> hired] /\ r \in TeamRequests
  <2>1. r = [op |-> r.op, email |-> r.email, manager |-> r.manager, spv |-> r.spv, to |-> r.to]
    BY <1>r DEF Team!Idle
  <2>2. r.op = "hire" /\ r.email = e /\ r.manager = NoManager /\ r.spv = NoSpv /\ r.to = hired
    BY <1>r DEF Team!Idle
  <2>3. [op |-> "hire", email |-> e, manager |-> NoManager, spv |-> NoSpv, to |-> hired] \in TeamRequests
    BY DEF TeamRequests, Team!Ops
  <2> QED BY <2>1, <2>2, <2>3
<1>2. Team!Begin(p, r, NoEmail, "insert")
  BY <1>r DEF Team!TeamCreate
<1>3. Opened(p, r, "insert") /\ Team!TypeOK' /\ "insert" \in TeamPcs
  BY <1>0, <1>1, <1>2, BeginOpens DEF TeamPcs
<1>4. Local(p)' /\ Replaceable(p)'
  BY <1>1, <1>3 DEF Opened, Local, Purpose, Creating, Awaited, TeamApart, Posting, Adopting, Replaceable
<1> QED BY <1>1, <1>3, <1>4, OpenedStays

LEMMA CreateManagerStep ==
  ASSUME StaffAssumed, StaffInv, NEW p \in TeamProcs, NEW m \in Managers, NEW e \in Team!Emails \cup {NoEmail},
         NEW s \in SpvManagers \cup {NoSpv}, Team!CreateManager(p, m, e, s)
  PROVE  StaffInv'
<1>r. PICK r : r = [Team!Idle EXCEPT !.op = "manager", !.email = e, !.manager = m, !.spv = s]
  OBVIOUS
<1> DEFINE next == IF e = NoEmail THEN "profile" ELSE "login"
<1>0. Team!TypeOK /\ UNCHANGED <<admins, managers, spvStatus, operator, made, active, torn>>
  BY DEF StaffInv, Team!CreateManager, Team!tables
<1>1. r = [op |-> "manager", email |-> e, manager |-> m, spv |-> s, to |-> "none"] /\ r \in TeamRequests
  <2>1. r = [op |-> r.op, email |-> r.email, manager |-> r.manager, spv |-> r.spv, to |-> r.to]
    BY <1>r DEF Team!Idle
  <2>2. r.op = "manager" /\ r.email = e /\ r.manager = m /\ r.spv = s /\ r.to = "none"
    BY <1>r DEF Team!Idle
  <2>3. [op |-> "manager", email |-> e, manager |-> m, spv |-> s, to |-> "none"] \in TeamRequests
    BY DEF TeamRequests, Team!Ops
  <2> QED BY <2>1, <2>2, <2>3
<1>2. next \in TeamPcs /\ next \in {"profile", "login"} /\ (next = "profile" <=> e = NoEmail)
  BY DEF TeamPcs
<1>3. Team!Begin(p, r, NoEmail, next) /\ managers[m] = Team!NoProfile /\ \A q \in TeamProcs : request[q].manager # m
  BY <1>r DEF Team!CreateManager, Team!Unused
<1> HIDE DEF next
<1>4. Opened(p, r, next) /\ Team!TypeOK'
  BY <1>0, <1>1, <1>2, <1>3, BeginOpens
<1>5. managers[m].status = "none"
  BY <1>3 DEF Team!NoProfile
<1>6. Local(p)'
  <2>1. Purpose(p)' /\ Awaited(p)' /\ TeamApart(p)' /\ Posting(p)' /\ Adopting(p)'
    BY <1>1, <1>2, <1>4 DEF Opened, Purpose, Awaited, TeamApart, Posting, Adopting, StaffAssumed
  <2>2. Creating(p)'
    BY <1>0, <1>1, <1>3, <1>4, <1>5 DEF Opened, OthersTeam, Creating
  <2> QED BY <2>1, <2>2 DEF Local
<1>7. Replaceable(p)'
  BY <1>2, <1>4 DEF Opened, Replaceable
<1> QED BY <1>1, <1>2, <1>3, <1>4, <1>6, <1>7, OpenedStays

LEMMA ManagerUpdateStep ==
  ASSUME StaffAssumed, StaffInv, NEW p \in TeamProcs, NEW m \in Managers, NEW to \in {"active", "suspended"},
         Team!ManagerUpdate(p, m, to)
  PROVE  StaffInv'
<1>r. PICK r : r = [Team!Idle EXCEPT !.op = "profile", !.manager = m, !.to = to]
  OBVIOUS
<1>0. Team!TypeOK /\ UNCHANGED <<admins, managers, spvStatus, operator, made, active, torn>>
  BY DEF StaffInv, Team!ManagerUpdate, Team!tables
<1>1. r = [op |-> "profile", email |-> NoEmail, manager |-> m, spv |-> NoSpv, to |-> to] /\ r \in TeamRequests
  <2>1. r = [op |-> r.op, email |-> r.email, manager |-> r.manager, spv |-> r.spv, to |-> r.to]
    BY <1>r DEF Team!Idle
  <2>2. r.op = "profile" /\ r.email = NoEmail /\ r.manager = m /\ r.spv = NoSpv /\ r.to = to
    BY <1>r DEF Team!Idle
  <2>3. [op |-> "profile", email |-> NoEmail, manager |-> m, spv |-> NoSpv, to |-> to] \in TeamRequests
    BY DEF TeamRequests, Team!Ops
  <2> QED BY <2>1, <2>2, <2>3
<1>2. Team!Begin(p, r, managers[m].login, "update") /\ managers[m] # Team!NoProfile
  BY <1>r DEF Team!ManagerUpdate
<1>3. managers[m].login \in Team!Emails \cup {NoEmail}
  BY <1>0, TeamTyped DEF TeamTablesTyped, Profiles
<1>4. Opened(p, r, "update") /\ Team!TypeOK' /\ "update" \in TeamPcs /\ saw'[p] = managers[m].login
  BY <1>0, <1>1, <1>2, <1>3, BeginOpens DEF TeamPcs
<1>5. managers[m].status # "none"
  BY <1>2 DEF StaffInv, ManagerRow
<1>6. Local(p)' /\ Replaceable(p)'
  BY <1>0, <1>1, <1>4, <1>5 DEF Opened, Local, Purpose, Creating, Awaited, TeamApart, Posting, Adopting, Replaceable
<1> QED BY <1>1, <1>4, <1>5, <1>6, OpenedStays

LEMMA ReportsCallStep ==
  ASSUME StaffAssumed, StaffInv, NEW p \in TeamProcs, NEW m \in Managers, NEW s \in SpvManagers,
         NEW op \in {"adopt", "release"}, managers[m] # Team!NoProfile,
         op = "adopt" => Team!MayAdopt(m, s),
         Team!Begin(p, [Team!Idle EXCEPT !.op = op, !.manager = m, !.spv = s], NoEmail, "attach"),
         UNCHANGED <<admins, managers, spvStatus, operator, made, active, torn>>
  PROVE  StaffInv'
<1>r. PICK r : r = [Team!Idle EXCEPT !.op = op, !.manager = m, !.spv = s]
  OBVIOUS
<1>0. Team!TypeOK
  BY DEF StaffInv
<1>1. r = [op |-> op, email |-> NoEmail, manager |-> m, spv |-> s, to |-> "none"] /\ r \in TeamRequests
  <2>1. r = [op |-> r.op, email |-> r.email, manager |-> r.manager, spv |-> r.spv, to |-> r.to]
    BY <1>r DEF Team!Idle
  <2>2. r.op = op /\ r.email = NoEmail /\ r.manager = m /\ r.spv = s /\ r.to = "none"
    BY <1>r DEF Team!Idle
  <2>3. [op |-> op, email |-> NoEmail, manager |-> m, spv |-> s, to |-> "none"] \in TeamRequests
    BY DEF TeamRequests, Team!Ops
  <2> QED BY <2>1, <2>2, <2>3
<1>2. Team!Begin(p, r, NoEmail, "attach")
  BY <1>r
<1>3. Opened(p, r, "attach") /\ Team!TypeOK' /\ "attach" \in TeamPcs
  BY <1>0, <1>1, <1>2, BeginOpens DEF TeamPcs
<1>4. managers[m].status # "none"
  BY DEF StaffInv, ManagerRow
<1>5. Adopting(p)'
  BY <1>1, <1>3 DEF Opened, Adopting, Team!MayAdopt
<1>6. Local(p)' /\ Replaceable(p)'
  BY <1>1, <1>3, <1>4, <1>5 DEF Opened, Local, Purpose, Creating, Awaited, TeamApart, Posting, Replaceable
<1> QED BY <1>1, <1>3, <1>4, <1>6, OpenedStays

LEMMA PostStep ==
  ASSUME StaffAssumed, StaffInv, NEW p \in TeamProcs, NEW m \in Managers, Team!Post(p, m) PROVE StaffInv'
<1>r. PICK r : r = [Team!Idle EXCEPT !.op = "post", !.manager = m]
  OBVIOUS
<1>0. Team!TypeOK /\ UNCHANGED <<admins, managers, spvStatus, operator, saw, crossed, made, torn>>
  BY DEF StaffInv, Team!Post, Team!tables
<1>1. r = [op |-> "post", email |-> NoEmail, manager |-> m, spv |-> NoSpv, to |-> "none"] /\ r \in TeamRequests
  <2>1. r = [op |-> r.op, email |-> r.email, manager |-> r.manager, spv |-> r.spv, to |-> r.to]
    BY <1>r DEF Team!Idle
  <2>2. r.op = "post" /\ r.email = NoEmail /\ r.manager = m /\ r.spv = NoSpv /\ r.to = "none"
    BY <1>r DEF Team!Idle
  <2>3. [op |-> "post", email |-> NoEmail, manager |-> m, spv |-> NoSpv, to |-> "none"] \in TeamRequests
    BY DEF TeamRequests, Team!Ops
  <2> QED BY <2>1, <2>2, <2>3
<1>2. /\ staffPc[p] = "idle" /\ staffPc' = [staffPc EXCEPT ![p] = "read"] /\ request' = [request EXCEPT ![p] = r]
      /\ calls < MaxStaffCalls /\ calls' = calls + 1 /\ managers[m].login # NoEmail
      /\ active' = [active EXCEPT ![p] = (managers[m].status = "active")]
  BY <1>r DEF Team!Post, Team!Open, Team!At, Team!Goto
<1>3. /\ active' \in [TeamProcs -> BOOLEAN] /\ (managers[m].status = "active" => active'[p])
      /\ \A q \in TeamProcs \ {p} : active'[q] = active[q]
  <2>1. active \in [TeamProcs -> BOOLEAN]
    BY <1>0 DEF Team!TypeOK
  <2>2. PICK b \in BOOLEAN : b = (managers[m].status = "active")
    OBVIOUS
  <2>3. active' = [active EXCEPT ![p] = b]
    BY <1>2, <2>2
  <2>4. active' \in [TeamProcs -> BOOLEAN] /\ active'[p] = b /\ \A q \in TeamProcs \ {p} : active'[q] = active[q]
    BY <2>1, <2>3
  <2> QED BY <2>2, <2>4
<1>4. /\ staffPc'[p] = "read" /\ request'[p] = r /\ OthersTeam(p) /\ TeamLocalTyped'
  <2>1. TeamLocalTyped
    BY <1>0, TeamTyped
  <2>2. calls' \in 0..MaxStaffCalls
    BY <2>1, <1>2 DEF TeamLocalTyped, StaffAssumed
  <2> QED BY <2>1, <2>2, <1>0, <1>1, <1>2, <1>3 DEF TeamLocalTyped, TeamPcs, OthersTeam
<1>5. Team!TypeOK'
  <2>1. TeamTablesTyped' /\ TeamHistoryTyped'
    BY <1>0, <1>3, TeamTyped DEF TeamTablesTyped, TeamHistoryTyped
  <2> QED BY <2>1, <1>4, TeamTyped DEF Team!TypeOK, TeamTablesTyped, TeamLocalTyped, TeamHistoryTyped,
                                     TeamPcs, Logins, Profiles, TeamRequests
<1>6. managers[m].status # "none"
  BY <1>2 DEF StaffInv, ManagerRow, Team!NoProfile
<1>7. Local(p)' /\ Replaceable(p)'
  <2>1. Posting(p)'
    BY <1>0, <1>1, <1>3, <1>4 DEF Posting
  <2> QED BY <2>1, <1>0, <1>1, <1>4, <1>6 DEF Local, Purpose, Creating, Awaited, TeamApart, Adopting, Replaceable
<1>8. ASSUME NEW q \in TeamProcs \ {p} PROVE Local(q)'
  <2>0. Local(q)
    BY DEF StaffInv, Local
  <2>1. Purpose(q)' /\ Posting(q)' /\ Adopting(q)'
    BY <2>0, <1>0, <1>4 DEF Local, OthersTeam, Purpose, Posting, Adopting
  <2>2. Creating(q)'
    <3>1. staffPc[q] \in {"login", "profile"} => request[q].manager # m
      BY <2>0, <1>6 DEF Local, Creating
    <3> QED BY <3>1, <2>0, <1>0, <1>1, <1>4 DEF Local, OthersTeam, Creating
  <2>3. Awaited(q)' /\ TeamApart(q)'
    BY <2>0, <1>0, <1>1, <1>4 DEF Local, OthersTeam, Awaited, TeamApart
  <2> QED BY <2>1, <2>2, <2>3 DEF Local
<1>9. ASSUME NEW q \in TeamProcs, NEW x \in TeamProcs PROVE Remembered(q, x)'
  <2>1. Remembered(q, x)
    BY DEF StaffInv
  <2> QED BY <2>1, <1>0, <1>1, <1>4 DEF Remembered, OthersTeam
<1>10. \A f \in Team!Emails : EmailRow(f)'
  BY <1>0 DEF StaffInv, EmailRow
<1>11. ASSUME NEW n \in Managers PROVE ManagerRow(n)' /\ Follows(n)'
  <2>1. ManagerRow(n) /\ Follows(n)
    BY DEF StaffInv
  <2>2. ManagerRow(n)'
    BY <2>1, <1>0 DEF ManagerRow
  <2>3. Follows(n)'
    BY <2>1, <1>0, <1>2, <1>4 DEF Follows, OthersTeam
  <2> QED BY <2>2, <2>3
<1>12. "team" \notin crossed' =>
        (\E f \in Team!Emails : Team!ActiveAdmin(f)') /\ \A q \in TeamProcs : Replaceable(q)'
  BY <1>0, <1>4, <1>7 DEF StaffInv, Replaceable, Team!ActiveAdmin, OthersTeam
<1> QED BY <1>5, <1>7, <1>8, <1>9, <1>10, <1>11, <1>12 DEF StaffInv, Local

LEMMA SpvStep ==
  ASSUME StaffAssumed, StaffInv, NEW s \in SpvManagers, NEW to \in {"active", "suspended"},
         Team!SpvUpdate(s, to)
  PROVE  StaffInv'
<1>1. Team!TypeOK
  BY DEF StaffInv
<1>2. /\ UNCHANGED <<admins, managers, operator, staffPc, request, saw, crossed, made, active, torn>>
      /\ spvStatus' = [spvStatus EXCEPT ![s] = to] /\ calls < MaxStaffCalls /\ calls' = calls + 1
  BY DEF Team!SpvUpdate, Team!history
<1>3. TeamTablesTyped' /\ calls' \in 0..MaxStaffCalls
  BY <1>1, <1>2, TeamTyped DEF TeamTablesTyped, TeamLocalTyped, StaffAssumed
<1> QED BY <1>2, <1>3, StaffOutside

LEMMA InstalledStep == ASSUME StaffAssumed, StaffInv, NEW m \in Managers, Team!Installed(m) PROVE StaffInv'
<1>1. Team!TypeOK
  BY DEF StaffInv
<1>2. /\ UNCHANGED <<admins, managers, spvStatus, staffPc, request, saw, calls, crossed, made, active, torn>>
      /\ operator' = m
  BY DEF Team!Installed, Team!history, Team!local
<1>3. TeamTablesTyped' /\ calls' \in 0..MaxStaffCalls
  BY <1>1, <1>2, TeamTyped DEF TeamTablesTyped, TeamLocalTyped
<1> QED BY <1>2, <1>3, StaffOutside

LEMMA CallsStep == ASSUME StaffAssumed, StaffInv, NEW p \in TeamProcs, Team!Call(p) PROVE StaffInv'
<1>1. CASE Team!TeamCall(p)
  BY <1>1, TeamUpdateStep, TeamCreateStep DEF Team!TeamCall
<1>2. CASE Team!ManagerCall(p)
  BY <1>2, CreateManagerStep, ManagerUpdateStep DEF Team!ManagerCall
<1>3. CASE Team!SpvCall(p)
  <2>1. PICK m \in Managers, s \in SpvManagers :
          \/ \E e \in Team!Emails \cup {NoEmail} : Team!CreateManager(p, m, e, s)
          \/ Team!Adopt(p, m, s) \/ Team!Release(p, m, s)
    BY <1>3 DEF Team!SpvCall
  <2>2. CASE \E e \in Team!Emails \cup {NoEmail} : Team!CreateManager(p, m, e, s)
    BY <2>2, CreateManagerStep
  <2>3. CASE Team!Adopt(p, m, s)
    BY <2>3, ReportsCallStep DEF Team!Adopt, Team!tables
  <2>4. CASE Team!Release(p, m, s)
    BY <2>4, ReportsCallStep DEF Team!Release, Team!tables
  <2> QED BY <2>1, <2>2, <2>3, <2>4
<1>4. CASE \E m \in Managers : Team!Post(p, m)
  BY <1>4, PostStep
<1> QED BY <1>1, <1>2, <1>3, <1>4 DEF Team!Call

LEMMA AdvanceStep == ASSUME StaffAssumed, StaffInv, NEW p \in TeamProcs, Team!Advance(p) PROVE StaffInv'
BY CountTeamStep, ChangeStep, TakenStep, FreeStep, CreateProfileStep, ReportsStep, UpdateProfileStep,
   SetLoginDisabledStep, PostSteps DEF Team!Advance

LEMMA StaffNext == ASSUME StaffAssumed, StaffInv, [Team!Next]_(Team!vars) PROVE StaffInv'
<1>1. CASE Team!Next
  BY <1>1, CallsStep, AdvanceStep, DiesStep, SpvStep, InstalledStep DEF Team!Next
<1>2. CASE UNCHANGED Team!vars
  <2>1. UNCHANGED <<admins, managers, spvStatus, operator, staffPc, request, saw, calls, crossed, made, active, torn>>
    BY <1>2 DEF Team!vars, Team!tables, Team!local, Team!history
  <2>2. TeamTablesTyped' /\ calls' \in 0..MaxStaffCalls
    BY <2>1, TeamTyped DEF StaffInv, TeamTablesTyped, TeamLocalTyped
  <2> QED BY <2>1, <2>2, StaffOutside
<1> QED BY <1>1, <1>2

LEMMA StaffAlways == Team!Spec => []StaffInv
<1>1. Team!Init => StaffInv
  BY StaffInit, BackOfficeAssumption
<1>2. StaffInv /\ [Team!Next]_(Team!vars) => StaffInv'
  BY StaffNext, BackOfficeAssumption
<1> QED BY <1>1, <1>2, PTL DEF Team!Spec

\* Whatever is changed and whoever crosses: an issuer keeps an administrator, an
\* email gets one login, a login follows its profile, and a suspended manager
\* posts nothing.
LEMMA StaffSafe ==
  ASSUME StaffAssumed, StaffInv
  PROVE  Team!SomeAdmin /\ Team!EmailOnce /\ Team!LoginFollowsProfile /\ Team!SuspendedIsOut
<1>1. Team!SomeAdmin /\ Team!EmailOnce
  BY DEF StaffInv, Team!SomeAdmin, Team!EmailOnce, EmailRow
<1>2. Team!LoginFollowsProfile
  <2> SUFFICES ASSUME NEW m \in Managers, managers[m].login # NoEmail, m \notin crossed \cup torn,
                      managers[m].login \notin crossed, \A q \in TeamProcs : request[q].manager # m
               PROVE  admins[managers[m].login].disabled <=> managers[m].status = "suspended"
    BY DEF Team!LoginFollowsProfile
  <2>1. managers[m].login \in Team!Emails
    BY TeamTyped DEF StaffInv, TeamTablesTyped, Profiles
  <2>2. Follows(m)
    BY DEF StaffInv
  <2> QED BY <2>1, <2>2 DEF Follows
<1>3. Team!SuspendedIsOut
  BY DEF StaffInv, Team!SuspendedIsOut, Team!At, Posting
<1> QED BY <1>1, <1>2, <1>3

\* A manager leaves one SPV manager for another by way of nobody.
LEMMA StaffReleases ==
  ASSUME StaffAssumed, StaffInv, Team!Next, NEW m \in Managers, managers[m].spv # NoSpv,
         managers'[m].spv # managers[m].spv
  PROVE  managers'[m].spv = NoSpv \/ m \in crossed
<1>0. managers \in [Managers -> Profiles]
  BY TeamTyped DEF StaffInv, TeamTablesTyped
<1>1. PICK p \in TeamProcs : Team!CreateProfile(p) \/ Team!AdoptCreated(p) \/ Team!UpdateProfile(p) \/ Team!Attach(p)
  <2>1. managers' # managers
    OBVIOUS
  <2>2. ~\E s \in SpvManagers, to \in {"active", "suspended"} : Team!SpvUpdate(s, to)
    BY <2>1 DEF Team!SpvUpdate
  <2>3. ~\E n \in Managers : Team!Installed(n)
    BY <2>1 DEF Team!Installed
  <2>4. PICK p \in TeamProcs : Team!Call(p) \/ Team!Advance(p) \/ Team!Crash(p)
    BY <2>2, <2>3 DEF Team!Next
  <2>5. ~Team!Crash(p)
    BY <2>1 DEF Team!Crash, Team!tables
  <2>6. ~Team!TeamCall(p)
    BY <2>1 DEF Team!TeamCall, Team!TeamUpdate, Team!TeamCreate, Team!tables
  <2>7. ~Team!ManagerCall(p)
    BY <2>1 DEF Team!ManagerCall, Team!CreateManager, Team!ManagerUpdate, Team!tables
  <2>8. ~Team!SpvCall(p)
    BY <2>1 DEF Team!SpvCall, Team!CreateManager, Team!Adopt, Team!Release, Team!tables
  <2>9. ~\E n \in Managers : Team!Post(p, n)
    BY <2>1 DEF Team!Post, Team!tables
  <2>10. Team!Advance(p)
    BY <2>4, <2>5, <2>6, <2>7, <2>8, <2>9 DEF Team!Call
  <2>11. ~(Team!CountOtherActiveIssuerAdmins(p) \/ Team!WriteChange(p) \/ Team!InsertMember(p) \/ Team!CreateLogin(p))
    BY <2>1 DEF Team!CountOtherActiveIssuerAdmins, Team!WriteChange, Team!InsertMember, Team!CreateLogin, Team!tables
  <2>12. ~(Team!SetLoginDisabled(p) \/ Team!ReadOffering(p) \/ Team!AssertOperates(p) \/ Team!WritePost(p))
    BY <2>1 DEF Team!SetLoginDisabled, Team!ReadOffering, Team!AssertOperates, Team!WritePost, Team!tables
  <2> QED BY <2>10, <2>11, <2>12 DEF Team!Advance
<1>2. Local(p) /\ request[p].manager \in Managers
  BY <1>1 DEF StaffInv, Local, Purpose, Team!CreateProfile, Team!AdoptCreated, Team!UpdateProfile, Team!Attach, Team!At
<1>3. request[p].manager = m
  BY <1>0, <1>1, <1>2 DEF Team!CreateProfile, Team!AdoptCreated, Team!UpdateProfile, Team!Attach, Team!SetReportsTo
<1>4. ManagerRow(m)
  BY DEF StaffInv
<1>5. CASE Team!CreateProfile(p)
  BY <1>2, <1>3, <1>4, <1>5 DEF Local, Creating, ManagerRow, Team!CreateProfile, Team!At, Team!NoProfile
<1>6. CASE Team!AdoptCreated(p)
  BY <1>2, <1>3, <1>6 DEF Local, Adopting, Team!AdoptCreated, Team!At
<1>7. CASE Team!UpdateProfile(p)
  <2>1. managers' = [managers EXCEPT ![m].status = request[p].to]
    BY <1>3, <1>7 DEF Team!UpdateProfile
  <2>2. managers' = [managers EXCEPT ![m] =
                       [status |-> request[p].to, login |-> managers[m].login, spv |-> managers[m].spv]]
    BY <2>1, <1>0, ProfileFields
  <2> QED BY <2>2, <1>0
<1>8. CASE Team!Attach(p)
  <2>1. managers' = [managers EXCEPT ![m].spv = IF request[p].op = "adopt" THEN request[p].spv ELSE NoSpv]
    BY <1>3, <1>8 DEF Team!Attach, Team!SetReportsTo
  <2>2. managers'[m].spv = IF request[p].op = "adopt" THEN request[p].spv ELSE NoSpv
    BY <2>1, <1>0 DEF Profiles
  <2>3. request[p].op = "adopt" => m \in crossed \/ managers[m].spv \in {NoSpv, request[p].spv}
    BY <1>2, <1>3, <1>8 DEF Local, Adopting, Team!Attach, Team!At
  <2> QED BY <2>2, <2>3
<1> QED BY <1>1, <1>5, <1>6, <1>7, <1>8

\* Crossing changes leave the issuer its administrators, its managers one login
\* that follows the profile, and one SPV manager at a time: TeamService,
\* ManagersService and SpvManagersService decide on what they read before they
\* write.
THEOREM StaffStays == Team!Spec => StaffIsKept
<1>1. StaffInv => Team!SomeAdmin /\ Team!EmailOnce /\ Team!LoginFollowsProfile /\ Team!SuspendedIsOut
  BY StaffSafe, BackOfficeAssumption
<1>2. StaffInv /\ [Team!Next]_(Team!vars) =>
        [\A m \in Managers : (managers[m].spv # NoSpv /\ managers'[m].spv # managers[m].spv) =>
           managers'[m].spv = NoSpv \/ m \in crossed]_(Team!vars)
  BY StaffReleases, BackOfficeAssumption
<1>3. Team!Spec => []StaffInv
  BY StaffAlways
<1> QED BY <1>1, <1>2, <1>3, PTL DEF Team!Spec, StaffIsKept, Team!StaffIsKept, Team!ReleaseFirst

-----------------------------------------------------------------------------
(* The recovery of a wallet. *)

\* What is known of a recovery from where it is: what it has linked stays linked,
\* and what it has frozen and read is there.
CaseAt(q) ==
  /\ casePc[q] = "idle" => job[q] = Recovery!NoJob
  /\ casePc[q] # "idle" => job[q].from \in Wallets /\ job[q].to \in Wallets /\ person[job[q].from] # Nobody
  /\ casePc[q] \in {"register", "freeze", "read", "submit"} => person[job[q].to] = person[job[q].from]
  /\ (casePc[q] = "link" /\ job[q].to \notin shared) => person[job[q].to] # person[job[q].from]
  /\ (casePc[q] \in {"read", "submit"} /\ job[q].from \notin thawed) => job[q].from \in frozen
  /\ (casePc[q] = "submit" /\ job[q].from \notin thawed) => balance[job[q].from] >= amount[q]

\* Two recoveries that are open for one new wallet are remembered.
SharedOk ==
  \A q, r \in CaseProcs : (q # r /\ job[q].to = job[r].to /\ job[q].to \in Wallets) => job[q].to \in shared

\* A transfer that waits is covered by a wallet that is still frozen.
TransferOk(t) ==
  /\ person[t.from] # Nobody /\ person[t.to] = person[t.from]
  /\ (~t.done /\ t.from \notin thawed) => t.from \in frozen /\ balance[t.from] >= t.amount

TransfersOk == \A n \in 1..Len(transfers) : TransferOk(transfers[n])

CasesInv == Recovery!TypeOK /\ (\A q \in CaseProcs : CaseAt(q)) /\ SharedOk /\ TransfersOk /\ stuck = {}

LEMMA CasesInit == ASSUME CasesAssumed, Recovery!Init PROVE CasesInv
<1>1. Recovery!TypeOK
  <2>1. transfers \in Seq([from : Wallets, to : Wallets, amount : Nat \ {0}, done : BOOLEAN])
    BY DEF Recovery!Init
  <2>2. balance \in [Wallets -> Nat] /\ amount \in [CaseProcs -> Nat] /\ recoveries \in 0..MaxRecoveries
    BY DEF Recovery!Init, CasesAssumed
  <2>3. job \in [CaseProcs -> [case : Cases \cup {NoCase}, from : Wallets \cup {NoWallet}, to : Wallets \cup {NoWallet}]]
    BY DEF Recovery!Init, Recovery!NoJob
  <2> QED BY <2>1, <2>2, <2>3 DEF Recovery!Init, Recovery!TypeOK, CasesAssumed
<1>2. (\A q \in CaseProcs : CaseAt(q)) /\ SharedOk
  BY DEF Recovery!Init, CaseAt, SharedOk, Recovery!NoJob, CasesAssumed
<1> QED BY <1>1, <1>2 DEF Recovery!Init, CasesInv, TransfersOk

CasePcs == {"idle", "find", "link", "register", "freeze", "read", "submit"}
CaseJobs == [case : Cases \cup {NoCase}, from : Wallets \cup {NoWallet}, to : Wallets \cup {NoWallet}]

CaseLocalTyped ==
  /\ casePc \in [CaseProcs -> CasePcs] /\ job \in [CaseProcs -> CaseJobs]
  /\ amount \in [CaseProcs -> Nat] /\ recoveries \in 0..MaxRecoveries

SameCase(r) == casePc'[r] = casePc[r] /\ job'[r] = job[r] /\ amount'[r] = amount[r]

OthersCase(q) == \A r \in CaseProcs \ {q} : SameCase(r)

\* Links are added, and what leaves a frozen wallet is remembered.
CasesGrow ==
  /\ \A w \in Wallets : person[w] # Nobody => person'[w] = person[w]
  /\ shared \subseteq shared' /\ thawed \subseteq thawed' /\ balance' \in [Wallets -> Nat]
  /\ \A w \in Wallets : (w \in frozen /\ w \notin thawed') => w \in frozen' /\ balance'[w] >= balance[w]

LEMMA CaseTyped == Recovery!TypeOK <=>
  /\ matter \in [Cases -> {"none", "open", "closed"}] /\ DOMAIN person = Wallets
  /\ registered \in SUBSET Wallets /\ frozen \in SUBSET Wallets /\ balance \in [Wallets -> Nat]
  /\ transfers \in Seq([from : Wallets, to : Wallets, amount : Nat \ {0}, done : BOOLEAN])
  /\ thawed \in SUBSET Wallets /\ shared \in SUBSET Wallets /\ stuck \in SUBSET Wallets
  /\ CaseLocalTyped
BY DEF Recovery!TypeOK, CaseLocalTyped, CasePcs, CaseJobs

LEMMA CaseFinish ==
  ASSUME CaseLocalTyped, NEW q \in CaseProcs, Recovery!Finish(q)
  PROVE  /\ OthersCase(q) /\ CaseLocalTyped' /\ casePc'[q] = "idle" /\ job'[q] = Recovery!NoJob
BY DEF CaseLocalTyped, Recovery!Finish, Recovery!Goto, Recovery!NoJob, OthersCase, SameCase, CasePcs, CaseJobs

LEMMA CaseContinue ==
  ASSUME CaseLocalTyped, NEW q \in CaseProcs, NEW next \in CasePcs, Recovery!Continue(q, next)
  PROVE  /\ OthersCase(q) /\ CaseLocalTyped' /\ casePc'[q] = next /\ job'[q] = job[q] /\ amount'[q] = amount[q]
BY DEF CaseLocalTyped, Recovery!Continue, Recovery!Goto, OthersCase, SameCase, CasePcs

LEMMA CaseStays ==
  ASSUME Recovery!TypeOK, NEW r \in CaseProcs, CaseAt(r), SameCase(r), CasesGrow,
         (casePc[r] = "link" /\ job[r].to \notin shared') => person'[job[r].to] = person[job[r].to]
  PROVE  CaseAt(r)'
<1>1. casePc'[r] = casePc[r] /\ job'[r] = job[r] /\ amount'[r] = amount[r]
  BY DEF SameCase
<1>2. CASE casePc[r] = "idle"
  BY <1>1, <1>2 DEF CaseAt
<1>3. CASE casePc[r] # "idle"
  <2> DEFINE v == job[r].from
             w == job[r].to
  <2>1. v \in Wallets /\ w \in Wallets /\ person[v] # Nobody /\ person'[v] = person[v]
    BY <1>3 DEF CaseAt, CasesGrow
  <2>2. casePc[r] \in {"register", "freeze", "read", "submit"} => person'[w] = person'[v]
    BY <2>1 DEF CaseAt, CasesGrow
  <2>3. (casePc[r] = "link" /\ w \notin shared') => person'[w] # person'[v]
    BY <2>1 DEF CaseAt, CasesGrow
  <2>4. (casePc[r] \in {"read", "submit"} /\ v \notin thawed') => v \in frozen /\ v \in frozen' /\ balance'[v] >= balance[v]
    BY <2>1 DEF CaseAt, CasesGrow
  <2>5. (casePc[r] = "submit" /\ v \notin thawed') => balance'[v] >= amount[r]
    <3> SUFFICES ASSUME casePc[r] = "submit", v \notin thawed' PROVE balance'[v] >= amount[r]
      OBVIOUS
    <3>1. balance[v] >= amount[r]
      BY DEF CaseAt, CasesGrow
    <3>2. balance[v] \in Nat /\ amount[r] \in Nat
      BY <2>1, CaseTyped DEF CaseLocalTyped
    <3>3. balance'[v] >= balance[v]
      BY <2>4
    <3>4. balance'[v] \in Nat
      BY <2>1 DEF CasesGrow
    <3> QED BY <3>1, <3>2, <3>3, <3>4
  <2> QED BY <1>1, <1>3, <2>1, <2>2, <2>3, <2>4, <2>5 DEF CaseAt
<1> QED BY <1>2, <1>3

Transferring == [from : Wallets, to : Wallets, amount : Nat \ {0}, done : BOOLEAN]

LEMMA TransferStays ==
  ASSUME Recovery!TypeOK, CasesGrow, NEW t \in Transferring, TransferOk(t)
  PROVE  TransferOk(t)'
<1> DEFINE v == t.from
<1>1. v \in Wallets /\ t.to \in Wallets /\ t.amount \in Nat
  BY DEF Transferring
<1>2. person'[v] # Nobody /\ person'[t.to] = person'[v]
  BY <1>1 DEF TransferOk, CasesGrow
<1>3. ASSUME ~t.done, v \notin thawed' PROVE v \in frozen' /\ balance'[v] >= t.amount
  <2>1. v \in frozen /\ balance[v] >= t.amount /\ v \in frozen' /\ balance'[v] >= balance[v]
    BY <1>1, <1>3 DEF TransferOk, CasesGrow
  <2>2. balance[v] \in Nat /\ balance'[v] \in Nat
    BY <1>1, CaseTyped DEF CasesGrow
  <2> QED BY <1>1, <2>1, <2>2
<1> QED BY <1>2, <1>3 DEF TransferOk

LEMMA TransfersStay == ASSUME CasesInv, CasesGrow, UNCHANGED transfers PROVE TransfersOk'
<1>1. ASSUME NEW n \in 1..Len(transfers), NEW t, t = transfers[n] PROVE TransferOk(t)'
  <2>t. transfers \in Seq(Transferring)
    BY CaseTyped DEF CasesInv, Transferring
  <2>1. t \in Transferring
    BY <1>1, <2>t
  <2>2. TransferOk(t)
    BY <1>1 DEF CasesInv, TransfersOk
  <2> QED BY <2>1, <2>2, TransferStays DEF CasesInv
<1> QED BY <1>1 DEF TransfersOk, TransferOk

LEMMA SharedStays ==
  ASSUME CasesAssumed, SharedOk, NEW q \in CaseProcs, OthersCase(q), job'[q].to \in {job[q].to, NoWallet}, shared \subseteq shared'
  PROVE  SharedOk'
<1> SUFFICES ASSUME NEW r \in CaseProcs, NEW t \in CaseProcs, r # t, job'[r].to = job'[t].to, job'[r].to \in Wallets
             PROVE  job'[r].to \in shared'
  BY DEF SharedOk
<1>1. job[r].to = job'[r].to /\ job[t].to = job'[t].to
  BY DEF OthersCase, SameCase, CasesAssumed
<1> QED BY <1>1 DEF SharedOk

\* A step of one recovery that links nothing and submits nothing.
LEMMA CaseQuiet ==
  ASSUME CasesAssumed, CasesInv, NEW q \in CaseProcs, OthersCase(q), CaseLocalTyped', CaseAt(q)',
         job'[q].to \in {job[q].to, NoWallet}, registered' \in SUBSET Wallets, frozen' \in SUBSET Wallets, frozen \subseteq frozen',
         UNCHANGED <<matter, person, transfers, balance, thawed, shared, stuck>>
  PROVE  CasesInv'
<1>t. Recovery!TypeOK
  BY DEF CasesInv
<1>1. CasesGrow
  <2>1. balance \in [Wallets -> Nat]
    BY <1>t, CaseTyped
  <2> QED BY <2>1 DEF CasesGrow
<1>2. \A r \in CaseProcs \ {q} : CaseAt(r)'
  BY <1>t, <1>1, CaseStays DEF CasesInv, OthersCase
<1>3. Recovery!TypeOK'
  BY <1>t DEF Recovery!TypeOK, CaseLocalTyped, CasePcs, CaseJobs
<1>4. SharedOk'
  BY SharedStays DEF CasesInv
<1>5. TransfersOk'
  BY <1>1, TransfersStay
<1>6. \A r \in CaseProcs : CaseAt(r)'
  BY <1>2
<1>7. stuck' = {}
  BY DEF CasesInv
<1> QED BY <1>3, <1>4, <1>5, <1>6, <1>7 DEF CasesInv

LEMMA CaseReadSteps ==
  ASSUME CasesAssumed, CasesInv, NEW q \in CaseProcs,
         \/ Recovery!Find(q) \/ Recovery!Register(q) \/ Recovery!Freeze(q) \/ Recovery!ReadBalance(q) \/ Recovery!Crash(q)
  PROVE  CasesInv'
<1>t. Recovery!TypeOK /\ CaseLocalTyped /\ CaseAt(q)
  BY CaseTyped DEF CasesInv
<1>u. UNCHANGED <<matter, person, transfers, balance, thawed, shared, stuck>>
  BY DEF Recovery!Find, Recovery!Register, Recovery!Freeze, Recovery!ReadBalance, Recovery!Crash, Recovery!tables, Recovery!chain,
     Recovery!history
<1>s. registered \in SUBSET Wallets /\ frozen \in SUBSET Wallets
  BY <1>t, CaseTyped
<1>f. ASSUME Recovery!Finish(q), registered' \in SUBSET Wallets, frozen' \in SUBSET Wallets, frozen \subseteq frozen' PROVE CasesInv'
  <2>1. OthersCase(q) /\ CaseLocalTyped' /\ casePc'[q] = "idle" /\ job'[q] = Recovery!NoJob
    BY <1>t, <1>f, CaseFinish
  <2>2. CaseAt(q)' /\ job'[q].to = NoWallet
    BY <2>1 DEF CaseAt, Recovery!NoJob
  <2> QED BY <1>u, <1>f, <2>1, <2>2, CaseQuiet
<1>1. CASE Recovery!Find(q)
  <2> DEFINE next == IF person[job[q].to] = person[job[q].from] THEN "register" ELSE "link"
  <2>1. casePc[q] = "find" /\ Recovery!Continue(q, next) /\ UNCHANGED <<registered, frozen>> /\ next \in CasePcs
    BY <1>1 DEF Recovery!Find, Recovery!At, Recovery!AlreadyLinked, CasePcs, Recovery!chain
  <2>2. next = "register" => person[job[q].to] = person[job[q].from]
    OBVIOUS
  <2>3. next = "link" => person[job[q].to] # person[job[q].from]
    OBVIOUS
  <2>4. next \in {"register", "link"}
    OBVIOUS
  <2> HIDE DEF next
  <2>5. OthersCase(q) /\ CaseLocalTyped' /\ casePc'[q] = next /\ job'[q] = job[q] /\ amount'[q] = amount[q]
    BY <1>t, <2>1, CaseContinue
  <2>6. CaseAt(q)'
    BY <1>t, <1>u, <2>1, <2>2, <2>3, <2>4, <2>5 DEF CaseAt
  <2> QED BY <1>u, <1>s, <2>1, <2>5, <2>6, CaseQuiet
<1>2. CASE Recovery!Register(q)
  <2>1. casePc[q] = "register" /\ UNCHANGED frozen
    BY <1>2 DEF Recovery!Register, Recovery!At
  <2>2. CASE Recovery!Finish(q) /\ UNCHANGED registered
    BY <1>s, <1>f, <2>1, <2>2
  <2>3. CASE registered' = registered \cup {job[q].to} /\ Recovery!Continue(q, "freeze")
    <3>1. OthersCase(q) /\ CaseLocalTyped' /\ casePc'[q] = "freeze" /\ job'[q] = job[q] /\ amount'[q] = amount[q]
      BY <1>t, <2>3, CaseContinue DEF CasePcs
    <3>2. registered' \in SUBSET Wallets /\ CaseAt(q)'
      BY <1>t, <1>u, <1>s, <2>1, <2>3, <3>1 DEF CaseAt
    <3> QED BY <1>u, <1>s, <2>1, <3>1, <3>2, CaseQuiet
  <2> QED BY <1>2, <2>2, <2>3 DEF Recovery!Register, Recovery!Proceed, Recovery!Following
<1>3. CASE Recovery!Freeze(q)
  <2>1. casePc[q] = "freeze" /\ UNCHANGED registered
    BY <1>3 DEF Recovery!Freeze, Recovery!At
  <2>2. CASE Recovery!Finish(q) /\ UNCHANGED frozen
    BY <1>s, <1>f, <2>1, <2>2
  <2>3. CASE frozen' = frozen \cup {job[q].from} /\ Recovery!Continue(q, "read")
    <3>1. OthersCase(q) /\ CaseLocalTyped' /\ casePc'[q] = "read" /\ job'[q] = job[q] /\ amount'[q] = amount[q]
      BY <1>t, <2>3, CaseContinue DEF CasePcs
    <3>2. frozen' \in SUBSET Wallets /\ CaseAt(q)'
      BY <1>t, <1>u, <1>s, <2>1, <2>3, <3>1 DEF CaseAt
    <3> QED BY <1>u, <1>s, <2>1, <2>3, <3>1, <3>2, CaseQuiet
  <2> QED BY <1>3, <2>2, <2>3 DEF Recovery!Freeze, Recovery!Proceed, Recovery!Following
<1>4. CASE Recovery!ReadBalance(q)
  <2> DEFINE b == balance[job[q].from]
  <2>1. /\ casePc[q] = "read" /\ amount' = [amount EXCEPT ![q] = b] /\ Recovery!Goto(q, "submit")
        /\ UNCHANGED <<registered, frozen, job, recoveries>>
    BY <1>4 DEF Recovery!ReadBalance, Recovery!At, Recovery!Following, Recovery!chain
  <2>2. b \in Nat
    BY <1>t, <2>1, CaseTyped DEF CaseAt
  <2>3. b = balance'[job[q].from]
    BY <1>u
  <2> HIDE DEF b
  <2>4. OthersCase(q) /\ CaseLocalTyped' /\ casePc'[q] = "submit" /\ job'[q] = job[q] /\ amount'[q] = b
    BY <1>t, <2>1, <2>2 DEF CaseLocalTyped, Recovery!Goto, OthersCase, SameCase, CasePcs
  <2>5. CaseAt(q)'
    BY <1>t, <1>u, <2>1, <2>2, <2>3, <2>4 DEF CaseAt
  <2> QED BY <1>u, <1>s, <2>1, <2>4, <2>5, CaseQuiet
<1>5. CASE Recovery!Crash(q)
  BY <1>s, <1>f, <1>5 DEF Recovery!Crash, Recovery!chain
<1> QED BY <1>1, <1>2, <1>3, <1>4, <1>5

LEMMA AdminLinkWalletStep ==
  ASSUME CasesAssumed, CasesInv, NEW q \in CaseProcs, Recovery!AdminLinkWallet(q)
  PROVE  CasesInv'
<1>t. Recovery!TypeOK /\ CaseLocalTyped /\ CaseAt(q)
  BY CaseTyped DEF CasesInv
<1> DEFINE v == job[q].from
           w == job[q].to
<1>u. UNCHANGED <<matter, transfers, registered, frozen, balance, thawed, shared>>
  BY DEF Recovery!AdminLinkWallet, Recovery!chain
<1>1. casePc[q] = "link" /\ v \in Wallets /\ w \in Wallets /\ person[v] # Nobody
  BY <1>t DEF Recovery!AdminLinkWallet, Recovery!At, CaseAt
<1>s. registered \in SUBSET Wallets /\ frozen \in SUBSET Wallets
  BY <1>t, CaseTyped
<1>2. CASE person[w] = Nobody
  <2>1. person' = [person EXCEPT ![w] = person[v]] /\ Recovery!Continue(q, "register") /\ UNCHANGED stuck
    BY <1>2 DEF Recovery!AdminLinkWallet
  <2>2. OthersCase(q) /\ CaseLocalTyped' /\ casePc'[q] = "register" /\ job'[q] = job[q] /\ amount'[q] = amount[q]
    BY <1>t, <2>1, CaseContinue DEF CasePcs
  <2>3. /\ DOMAIN person' = Wallets /\ person'[w] = person[v] /\ person'[v] = person[v]
        /\ \A x \in Wallets \ {w} : person'[x] = person[x]
    BY <1>t, <1>1, <1>2, <2>1, CaseTyped
  <2>4. CasesGrow
    <3>1. balance' \in [Wallets -> Nat]
      BY <1>t, <1>u, CaseTyped
    <3>2. \A x \in Wallets : balance[x] \in Nat /\ balance'[x] >= balance[x]
      BY <1>t, <1>u, CaseTyped
    <3> QED BY <1>2, <1>u, <2>3, <3>1, <3>2 DEF CasesGrow
  <2>5. CaseAt(q)'
    BY <1>1, <2>2, <2>3 DEF CaseAt
  <2>6. ASSUME NEW r \in CaseProcs \ {q} PROVE CaseAt(r)'
    <3>1. CaseAt(r) /\ SameCase(r)
      BY <2>2 DEF CasesInv, OthersCase
    <3>2. (casePc[r] = "link" /\ job[r].to \notin shared') => person'[job[r].to] = person[job[r].to]
      BY <1>1, <1>u, <2>3, <3>1 DEF CasesInv, SharedOk, CaseAt
    <3> QED BY <1>t, <2>4, <3>1, <3>2, CaseStays
  <2>7. Recovery!TypeOK'
    BY <1>t, <1>u, <2>1, <2>2, <2>3 DEF Recovery!TypeOK, CaseLocalTyped, CasePcs, CaseJobs
  <2>8. SharedOk' /\ TransfersOk'
    BY <1>u, <2>2, <2>4, SharedStays, TransfersStay DEF CasesInv
  <2>9. \A r \in CaseProcs : CaseAt(r)'
    BY <2>5, <2>6
  <2>10. stuck' = {}
    BY <2>1 DEF CasesInv
  <2> QED BY <2>7, <2>8, <2>9, <2>10 DEF CasesInv
<1>3. CASE person[w] # Nobody
  <2>1. Recovery!Finish(q) /\ UNCHANGED person
    BY <1>3 DEF Recovery!AdminLinkWallet
  <2>2. UNCHANGED stuck
    BY <1>t, <1>1, <1>3 DEF Recovery!AdminLinkWallet, CaseAt
  <2>3. OthersCase(q) /\ CaseLocalTyped' /\ casePc'[q] = "idle" /\ job'[q] = Recovery!NoJob
    BY <1>t, <2>1, CaseFinish
  <2>4. CaseAt(q)' /\ job'[q].to = NoWallet
    BY <2>3 DEF CaseAt, Recovery!NoJob
  <2> QED BY <1>u, <1>s, <2>1, <2>2, <2>3, <2>4, CaseQuiet
<1> QED BY <1>2, <1>3

LEMMA SubmitTransferStep ==
  ASSUME CasesAssumed, CasesInv, NEW q \in CaseProcs, Recovery!SubmitTransfer(q)
  PROVE  CasesInv'
<1>t. Recovery!TypeOK /\ CaseLocalTyped /\ CaseAt(q) /\ transfers \in Seq(Transferring)
  BY CaseTyped DEF CasesInv, Transferring
<1>u. UNCHANGED <<matter, person, registered, frozen, balance, thawed, shared, stuck>>
  BY DEF Recovery!SubmitTransfer, Recovery!chain, Recovery!history
<1>s. registered \in SUBSET Wallets /\ frozen \in SUBSET Wallets /\ balance \in [Wallets -> Nat]
  BY <1>t, CaseTyped
<1>1. casePc[q] = "submit" /\ Recovery!Finish(q)
  BY DEF Recovery!SubmitTransfer, Recovery!At, Recovery!Proceed, Recovery!Following
<1>2. OthersCase(q) /\ CaseLocalTyped' /\ casePc'[q] = "idle" /\ job'[q] = Recovery!NoJob
  BY <1>t, <1>1, CaseFinish
<1>3. CaseAt(q)' /\ job'[q].to = NoWallet
  BY <1>2 DEF CaseAt, Recovery!NoJob
<1>4. CASE UNCHANGED transfers
  BY <1>u, <1>s, <1>2, <1>3, <1>4, CaseQuiet
<1>5. CASE amount[q] # 0 /\ transfers' = Append(transfers, [from |-> job[q].from, to |-> job[q].to, amount |-> amount[q], done |-> FALSE])
  <2> DEFINE t == [from |-> job[q].from, to |-> job[q].to, amount |-> amount[q], done |-> FALSE]
  <2>1. job[q].from \in Wallets /\ job[q].to \in Wallets /\ amount[q] \in Nat
    BY <1>t, <1>1 DEF CaseAt, CaseLocalTyped
  <2>2. t \in Transferring
    BY <1>5, <2>1 DEF Transferring
  <2>3. TransferOk(t)
    BY <1>t, <1>1 DEF CaseAt, TransferOk
  <2>4. transfers' = Append(transfers, t)
    BY <1>5
  <2> HIDE DEF t
  <2>5. CasesGrow
    <3>1. \A x \in Wallets : balance[x] \in Nat /\ balance'[x] >= balance[x]
      BY <1>u, <1>s
    <3> QED BY <1>s, <1>u, <3>1 DEF CasesGrow
  <2>6. transfers' \in Seq(Transferring) /\ Len(transfers') = Len(transfers) + 1 /\ Len(transfers) \in Nat
        /\ transfers'[Len(transfers) + 1] = t /\ \A n \in 1..Len(transfers) : transfers'[n] = transfers[n]
    BY <1>t, <2>2, <2>4
  <2>7. \A n \in 1..Len(transfers') : transfers'[n] \in Transferring /\ TransferOk(transfers'[n])
    <3> SUFFICES ASSUME NEW n \in 1..Len(transfers') PROVE transfers'[n] \in Transferring /\ TransferOk(transfers'[n])
      OBVIOUS
    <3>1. CASE n = Len(transfers) + 1
      BY <2>2, <2>3, <2>6, <3>1
    <3>2. CASE n \in 1..Len(transfers)
      <4>1. transfers[n] \in Transferring /\ TransferOk(transfers[n])
        BY <1>t, <3>2 DEF CasesInv, TransfersOk
      <4> QED BY <2>6, <3>2, <4>1
    <3> QED BY <2>6, <3>1, <3>2
  <2>8. TransfersOk'
    <3>1. ASSUME NEW n \in 1..Len(transfers'), NEW x, x = transfers'[n] PROVE TransferOk(x)'
      BY <1>t, <2>5, <2>7, <3>1, TransferStays
    <3> QED BY <3>1 DEF TransfersOk, TransferOk
  <2>9. \A r \in CaseProcs \ {q} : CaseAt(r)'
    BY <1>t, <1>u, <1>2, <2>5, CaseStays DEF CasesInv, OthersCase
  <2>10. \A r \in CaseProcs : CaseAt(r)'
    BY <1>3, <2>9
  <2>11. Recovery!TypeOK'
    BY <1>t, <1>u, <1>2, <2>6 DEF Recovery!TypeOK, CaseLocalTyped, CasePcs, CaseJobs, Transferring
  <2>12. SharedOk' /\ stuck' = {}
    BY <1>u, <1>2, <1>3, SharedStays DEF CasesInv
  <2> QED BY <2>8, <2>10, <2>11, <2>12 DEF CasesInv
<1> QED BY <1>4, <1>5 DEF Recovery!SubmitTransfer

LEMMA RecoverCaseStep ==
  ASSUME CasesAssumed, CasesInv, NEW q \in CaseProcs, NEW c \in Cases, NEW v \in Wallets, NEW w \in Wallets, Recovery!Recover(q, c, v, w)
  PROVE  CasesInv'
<1>t. Recovery!TypeOK /\ CaseLocalTyped /\ CaseAt(q)
  BY CaseTyped DEF CasesInv
<1>u. UNCHANGED <<matter, person, transfers, registered, frozen, balance, thawed, stuck>>
  BY DEF Recovery!Recover, Recovery!tables, Recovery!chain
<1> DEFINE j == [case |-> c, from |-> v, to |-> w]
<1>1. /\ casePc[q] = "idle" /\ person[v] # Nobody /\ recoveries < MaxRecoveries /\ recoveries' = recoveries + 1
      /\ Recovery!Goto(q, "find") /\ job' = [job EXCEPT ![q] = j] /\ UNCHANGED amount
  BY DEF Recovery!Recover, Recovery!At
<1>2. \/ shared' = shared \cup {w}
      \/ UNCHANGED shared /\ \A r \in CaseProcs : job[r].to # w
  BY DEF Recovery!Recover
<1>3. j \in CaseJobs /\ j.to = w /\ j.from = v
  BY DEF CaseJobs
<1> HIDE DEF j
<1>4. OthersCase(q) /\ casePc'[q] = "find" /\ job'[q] = j
  BY <1>t, <1>1 DEF CaseLocalTyped, Recovery!Goto, OthersCase, SameCase
<1>5. CaseLocalTyped'
  <2>1. recoveries' \in 0..MaxRecoveries
    BY <1>t, <1>1 DEF CaseLocalTyped, CasesAssumed
  <2> QED BY <1>t, <1>1, <1>3, <2>1 DEF CaseLocalTyped, Recovery!Goto, CasePcs
<1>6. CaseAt(q)'
  BY <1>u, <1>1, <1>3, <1>4 DEF CaseAt
<1>7. CasesGrow
  <2>1. balance \in [Wallets -> Nat]
    BY <1>t, CaseTyped
  <2>2. \A x \in Wallets : balance[x] \in Nat /\ balance'[x] >= balance[x]
    BY <1>u, <2>1
  <2> QED BY <1>u, <1>2, <2>1, <2>2 DEF CasesGrow
<1>8. \A r \in CaseProcs \ {q} : CaseAt(r)'
  BY <1>t, <1>u, <1>4, <1>7, CaseStays DEF CasesInv, OthersCase
<1>9. SharedOk'
  <2> SUFFICES ASSUME NEW r \in CaseProcs, NEW s \in CaseProcs, r # s, job'[r].to = job'[s].to, job'[r].to \in Wallets
               PROVE  job'[r].to \in shared'
    BY DEF SharedOk
  <2>1. \A x \in CaseProcs \ {q} : job'[x] = job[x]
    BY <1>4 DEF OthersCase, SameCase
  <2>2. shared \subseteq shared'
    BY <1>2
  <2>3. CASE r = q \/ s = q
    BY <1>2, <1>3, <1>4, <2>1, <2>3
  <2>4. CASE r # q /\ s # q
    BY <2>1, <2>2, <2>4 DEF CasesInv, SharedOk
  <2> QED BY <2>3, <2>4
<1>10. Recovery!TypeOK'
  <2>1. shared' \in SUBSET Wallets
    BY <1>t, <1>2, CaseTyped
  <2> QED BY <1>t, <1>u, <1>5, <2>1 DEF Recovery!TypeOK, CaseLocalTyped, CasePcs, CaseJobs
<1>11. TransfersOk' /\ stuck' = {}
  BY <1>u, <1>7, TransfersStay DEF CasesInv
<1>12. \A r \in CaseProcs : CaseAt(r)'
  BY <1>6, <1>8
<1> QED BY <1>9, <1>10, <1>11, <1>12 DEF CasesInv

\* A step of the chain, of a case or of nobody.
LEMMA CasesOutside ==
  ASSUME CasesAssumed, CasesInv, CasesGrow, UNCHANGED <<person, registered, casePc, job, amount, recoveries, shared, stuck>>,
         matter' \in [Cases -> {"none", "open", "closed"}], frozen' \in SUBSET Wallets, thawed' \in SUBSET Wallets,
         transfers' \in Seq(Transferring), TransfersOk'
  PROVE  CasesInv'
<1>t. Recovery!TypeOK
  BY DEF CasesInv
<1>1. \A r \in CaseProcs : CaseAt(r)'
  BY <1>t, CaseStays DEF CasesInv, SameCase
<1>2. SharedOk' /\ stuck' = {}
  BY DEF CasesInv, SharedOk
<1>3. Recovery!TypeOK'
  BY <1>t DEF Recovery!TypeOK, CasesGrow, Transferring
<1> QED BY <1>1, <1>2, <1>3 DEF CasesInv

LEMMA CasesStart ==
  ASSUME CasesAssumed, CasesInv, UNCHANGED <<person, transfers, registered, frozen, balance, casePc, job, amount, recoveries, thawed, shared, stuck>>,
         matter' \in [Cases -> {"none", "open", "closed"}]
  PROVE  CasesInv'
<1>1. balance \in [Wallets -> Nat] /\ frozen \in SUBSET Wallets /\ thawed \in SUBSET Wallets /\ transfers \in Seq(Transferring)
  BY CaseTyped DEF CasesInv, Transferring
<1>2. \A x \in Wallets : balance[x] \in Nat /\ balance'[x] >= balance[x]
  BY <1>1
<1>3. CasesGrow
  BY <1>1, <1>2 DEF CasesGrow
<1> QED BY <1>1, <1>3, CasesOutside, TransfersStay

LEMMA ChainSteps ==
  ASSUME CasesAssumed, CasesInv, NEW v \in Wallets, NEW w \in Wallets,
         Recovery!Unfreeze(w) \/ Recovery!Mint(w) \/ Recovery!Transfer(v, w)
  PROVE  CasesInv'
<1>t. /\ balance \in [Wallets -> Nat] /\ frozen \in SUBSET Wallets /\ thawed \in SUBSET Wallets /\ transfers \in Seq(Transferring)
      /\ matter \in [Cases -> {"none", "open", "closed"}]
  BY CaseTyped DEF CasesInv, Transferring
<1>u. UNCHANGED <<matter, person, transfers, registered, casePc, job, amount, recoveries, shared, stuck>>
  BY DEF Recovery!Unfreeze, Recovery!Mint, Recovery!Transfer, Recovery!tables, Recovery!local, Recovery!history
<1>1. CASE Recovery!Unfreeze(w)
  <2>1. frozen' = frozen \ {w} /\ thawed' = thawed \cup {w} /\ UNCHANGED balance
    BY <1>1 DEF Recovery!Unfreeze
  <2>2. \A x \in Wallets : balance[x] \in Nat /\ balance'[x] >= balance[x]
    BY <1>t, <2>1
  <2>3. CasesGrow
    BY <1>t, <1>u, <2>1, <2>2 DEF CasesGrow
  <2> QED BY <1>t, <1>u, <2>1, <2>3, CasesOutside, TransfersStay
<1>2. CASE Recovery!Mint(w)
  <2>1. balance' = [balance EXCEPT ![w] = @ + 1] /\ UNCHANGED <<frozen, thawed>>
    BY <1>2 DEF Recovery!Mint, Recovery!history
  <2>2. \A x \in Wallets : balance[x] \in Nat /\ balance'[x] >= balance[x]
    BY <1>t, <2>1
  <2>3. balance' \in [Wallets -> Nat]
    BY <1>t, <2>1
  <2>4. CasesGrow
    BY <1>t, <1>u, <2>1, <2>2, <2>3 DEF CasesGrow
  <2> QED BY <1>t, <1>u, <2>1, <2>4, CasesOutside, TransfersStay
<1>3. CASE Recovery!Transfer(v, w)
  <2>1. /\ v # w /\ v \notin frozen /\ balance[v] > 0 /\ UNCHANGED <<frozen, thawed>>
        /\ balance' = [balance EXCEPT ![v] = @ - 1, ![w] = @ + 1]
    BY <1>3 DEF Recovery!Transfer, Recovery!history
  <2>2. balance' \in [Wallets -> Nat]
    BY <1>t, <2>1
  <2>3. \A x \in Wallets \ {v} : balance[x] \in Nat /\ balance'[x] >= balance[x]
    BY <1>t, <2>1
  <2>4. CasesGrow
    BY <1>t, <1>u, <2>1, <2>2, <2>3 DEF CasesGrow
  <2> QED BY <1>t, <1>u, <2>1, <2>4, CasesOutside, TransfersStay
<1> QED BY <1>1, <1>2, <1>3

LEMMA ExecuteStep ==
  ASSUME CasesAssumed, CasesInv, NEW n \in 1..Len(transfers), Recovery!Execute(n)
  PROVE  CasesInv'
<1>t. /\ balance \in [Wallets -> Nat] /\ frozen \in SUBSET Wallets /\ thawed \in SUBSET Wallets /\ transfers \in Seq(Transferring)
      /\ matter \in [Cases -> {"none", "open", "closed"}]
  BY CaseTyped DEF CasesInv, Transferring
<1>u. UNCHANGED <<matter, person, registered, frozen, casePc, job, amount, recoveries, shared, stuck>>
  BY DEF Recovery!Execute, Recovery!local
<1> DEFINE v == transfers[n].from
           w == transfers[n].to
           a == transfers[n].amount
<1>1. v \in Wallets /\ w \in Wallets /\ a \in Nat
  <2>1. transfers[n] \in Transferring
    BY <1>t
  <2> QED BY <2>1 DEF Transferring
<1>2. \/ /\ balance[v] >= a /\ balance' = [balance EXCEPT ![v] = @ - a, ![w] = @ + a] /\ thawed' = thawed \cup {v}
      \/ UNCHANGED <<balance, thawed>>
  BY DEF Recovery!Execute
<1>3. transfers' = [transfers EXCEPT ![n].done = TRUE]
  BY DEF Recovery!Execute
<1>4. transfers' \in Seq(Transferring) /\ Len(transfers') = Len(transfers)
  <2>1. transfers[n] \in Transferring
    BY <1>t
  <2>2. [transfers[n] EXCEPT !.done = TRUE] \in Transferring
    BY <2>1 DEF Transferring
  <2>3. transfers' = [transfers EXCEPT ![n] = [transfers[n] EXCEPT !.done = TRUE]]
    BY <1>3
  <2> QED BY <1>t, <2>2, <2>3
<1>5. /\ transfers'[n].from = v /\ transfers'[n].to = w /\ transfers'[n].done = TRUE
      /\ \A m \in 1..Len(transfers) : m # n => transfers'[m] = transfers[m]
  <2>1. transfers[n] \in Transferring
    BY <1>t
  <2> QED BY <1>t, <1>3, <2>1 DEF Transferring
<1> HIDE DEF v, w, a
<1>6. CasesGrow
  <2>1. CASE UNCHANGED <<balance, thawed>>
    <3>1. \A x \in Wallets : balance[x] \in Nat /\ balance'[x] >= balance[x]
      BY <1>t, <2>1
    <3> QED BY <1>t, <1>u, <2>1, <3>1 DEF CasesGrow
  <2>2. CASE balance[v] >= a /\ balance' = [balance EXCEPT ![v] = @ - a, ![w] = @ + a] /\ thawed' = thawed \cup {v}
    <3>a. balance[v] - a \in Nat /\ balance[w] + a \in Nat /\ balance[v] \in Nat /\ balance[w] \in Nat
      BY <1>t, <1>1, <2>2
    <3>b. \A x \in Wallets \ {v, w} : balance'[x] = balance[x]
      BY <1>t, <1>1, <2>2
    <3>c. DOMAIN balance' = Wallets
      BY <1>t, <1>1, <2>2
    <3>d. CASE v # w
      <4>1. balance'[v] = balance[v] - a /\ balance'[w] = balance[w] + a
        BY <1>t, <1>1, <2>2, <3>d
      <4>2. balance' \in [Wallets -> Nat]
        BY <1>t, <1>1, <2>2, <3>a
      <4>3. \A x \in Wallets \ {v} : balance[x] \in Nat /\ balance'[x] >= balance[x]
        BY <1>t, <1>1, <3>a, <3>b, <4>1
      <4> QED BY <1>u, <2>2, <4>2, <4>3 DEF CasesGrow
    <3>e. CASE v = w
      <4>1. balance' \in [Wallets -> Nat]
        BY <1>t, <1>1, <2>2, <3>a, <3>e
      <4>2. \A x \in Wallets \ {v} : balance[x] \in Nat /\ balance'[x] >= balance[x]
        BY <1>t, <3>b, <3>e
      <4> QED BY <1>u, <2>2, <4>1, <4>2 DEF CasesGrow
    <3> QED BY <3>d, <3>e
  <2> QED BY <1>2, <2>1, <2>2
<1>7. thawed' \in SUBSET Wallets
  BY <1>t, <1>1, <1>2
<1>8. TransfersOk'
  <2>1. ASSUME NEW m \in 1..Len(transfers), NEW x, x = transfers'[m] PROVE TransferOk(x)'
    <3>1. CASE m # n
      <4>1. x = transfers[m] /\ x \in Transferring
        BY <1>t, <1>5, <2>1, <3>1
      <4>2. TransferOk(x)
        BY <4>1 DEF CasesInv, TransfersOk
      <4> QED BY <1>6, <4>1, <4>2, TransferStays DEF CasesInv
    <3>2. CASE m = n
      <4>1. TransferOk(transfers[n])
        BY DEF CasesInv, TransfersOk
      <4>2. person[v] # Nobody /\ person[w] = person[v]
        BY <4>1 DEF TransferOk, v, w
      <4> QED BY <1>u, <1>5, <2>1, <3>2, <4>2 DEF TransferOk
    <3> QED BY <3>1, <3>2
  <2> QED BY <1>4, <2>1 DEF TransfersOk, TransferOk
<1> QED BY <1>t, <1>u, <1>4, <1>6, <1>7, <1>8, CasesOutside

LEMMA CasesStep == ASSUME CasesAssumed, CasesInv, [Recovery!Next]_(Recovery!vars) PROVE CasesInv'
<1>t. matter \in [Cases -> {"none", "open", "closed"}]
  BY CaseTyped DEF CasesInv
<1>1. CASE UNCHANGED Recovery!vars
  BY <1>t, <1>1, CasesStart DEF Recovery!vars, Recovery!tables, Recovery!chain, Recovery!local, Recovery!history
<1>2. ASSUME NEW c \in Cases, Recovery!OpenCase(c) \/ Recovery!CloseCase(c) PROVE CasesInv'
  <2>1. matter' \in [Cases -> {"none", "open", "closed"}]
    BY <1>t, <1>2 DEF Recovery!OpenCase, Recovery!CloseCase
  <2> QED BY <1>2, <2>1, CasesStart DEF Recovery!OpenCase, Recovery!CloseCase, Recovery!chain, Recovery!local, Recovery!history
<1>3. ASSUME NEW q \in CaseProcs, Recovery!Call(q) \/ Recovery!Advance(q) \/ Recovery!Crash(q) PROVE CasesInv'
  BY <1>2, <1>3, RecoverCaseStep, CaseReadSteps, AdminLinkWalletStep, SubmitTransferStep DEF Recovery!Call, Recovery!Advance
<1>4. ASSUME NEW n \in 1..Len(transfers), Recovery!Execute(n) PROVE CasesInv'
  BY <1>4, ExecuteStep
<1>5. ASSUME NEW v \in Wallets, NEW w \in Wallets, Recovery!Unfreeze(w) \/ Recovery!Mint(w) \/ Recovery!Transfer(v, w) PROVE CasesInv'
  BY <1>5, ChainSteps
<1> QED BY <1>1, <1>3, <1>4, <1>5 DEF Recovery!Next

LEMMA CasesAlways == Recovery!Spec => []CasesInv
<1>1. Recovery!Init => CasesInv
  BY CasesInit, BackOfficeAssumption
<1>2. CasesInv /\ [Recovery!Next]_(Recovery!vars) => CasesInv'
  BY CasesStep, BackOfficeAssumption
<1> QED BY <1>1, <1>2, PTL DEF Recovery!Spec

\* A recovery moves a person's tokens to a wallet of that person, whatever dies,
\* is repeated or comes late in between: what it submitted is still there, it
\* is one person's, and the link it made does not stop its repetition.
THEOREM RecoveriesHold == Recovery!Spec => []RecoveryHolds
<1>1. CasesInv => RecoveryHolds
  <2> SUFFICES ASSUME CasesInv PROVE RecoveryHolds
    OBVIOUS
  <2>1. Recovery!SubmittedStays /\ Recovery!SamePerson
    BY DEF CasesInv, TransfersOk, TransferOk, Recovery!SubmittedStays, Recovery!SamePerson
  <2> QED BY <2>1 DEF CasesInv, RecoveryHolds, Recovery!RecoveryHolds, Recovery!RunsAgain
<1> QED BY <1>1, CasesAlways, PTL

-----------------------------------------------------------------------------
(* The keys and their nonces. *)

\* The nonce is in a block or at the node.
Spent(r, n) == n < mined[r] \/ n \in pool[r]

\* The senders that may still bring a nonce of r to the node, and those of them
\* that wait for another question than k.
Busy(r) == {p \in Senders : role[p] = r /\ sendPc[p] \in {"populate", "send"}}
Elsewhere(r, k) == {p \in Busy(r) : ticket[p].ask # k}

\* m sends on the question k fit in the sends made: while it has no answer,
\* beside every nonce the node has and every one that may still reach it.
Room(r, k, m) ==
  IF answer[r][k] = None
    THEN mined[r] + Cardinality(pool[r]) + Cardinality(Elsewhere(r, k)) + m =< sends
    ELSE answer[r][k] + m =< sends

SenderAt(p) ==
  /\ sendPc[p] # "idle" => role[p] \in Roles /\ ticket[p].ask \in 1..asked[role[p]]
  /\ \A r \in Roles, k \in Keys!Asks, d \in Keys!Nonces :
       (sendPc[p] \in {"populate", "send"} /\ role[p] = r /\ ticket[p].ask = k /\ ticket[p].delta = d)
         => Room(r, k, d + 1)

\* An answer is not beyond the nonces the node has seen.
Answered(r) ==
  \A n \in Keys!Asks :
    /\ n > asked[r] => answer[r][n] = None
    /\ answer[r][n] # None => \A m \in Keys!Nonces : m < answer[r][n] => Spent(r, m)

KeyAt(r) ==
  /\ mined[r] + Cardinality(pool[r]) + Cardinality(Busy(r)) =< sends
  /\ asked[r] =< sends

\* A nonce that was handed out is on its way or at the node.
Covered(i, r, k, d) ==
  \/ \E p \in Senders : Keys!InFlight(p, i, r) /\ ticket[p].ask = k /\ ticket[p].delta = d
  \/ answer[r][k] # None /\ Spent(r, answer[r][k] + d)

CacheAt(i, r) ==
  /\ cache[i][r].ask = 0 => cache[i][r].delta = 0
  /\ \A k \in Keys!Asks, d \in Keys!Nonces : (cache[i][r].ask = k /\ cache[i][r].delta = d) =>
       /\ k =< asked[r] /\ Room(r, k, d)
       /\ \A e \in Keys!Nonces : e < d => Covered(i, r, k, e)

SignInv ==
  /\ Keys!TypeOK /\ (\A p \in Senders : SenderAt(p)) /\ (\A r \in Roles : KeyAt(r) /\ Answered(r))
  /\ \A i \in Instances, r \in Roles : CacheAt(i, r)


LEMMA KeysInit == ASSUME KeysAssumed, Keys!Init PROVE SignInv
<1>1. Keys!TypeOK
  <2>1. mined \in [Roles -> Keys!Nonces] /\ asked \in [Roles -> Keys!Nonces] /\ sends \in Keys!Nonces
    BY DEF Keys!Init, Keys!Nonces, KeysAssumed
  <2>2. answer \in [Roles -> [Keys!Asks -> Keys!Nonces \cup {None}]]
    BY DEF Keys!Init
  <2>3. Keys!Fresh \in [ask : Keys!Nonces, delta : Keys!Nonces]
    BY DEF Keys!Fresh, Keys!Nonces, KeysAssumed
  <2>4. cache \in [Instances -> [Roles -> [ask : Keys!Nonces, delta : Keys!Nonces]]]
        /\ ticket \in [Senders -> [ask : Keys!Nonces, delta : Keys!Nonces]]
    BY <2>3 DEF Keys!Init
  <2> QED BY <2>1, <2>2, <2>4 DEF Keys!Init, Keys!TypeOK, Keys!Pcs
<1>2. \A p \in Senders : SenderAt(p)
  BY DEF Keys!Init, SenderAt
<1>3. \A r \in Roles : KeyAt(r)
  <2> SUFFICES ASSUME NEW r \in Roles PROVE KeyAt(r)
    OBVIOUS
  <2>1. Busy(r) = {} /\ pool[r] = {} /\ mined[r] = 0 /\ sends = 0 /\ asked[r] = 0
    BY DEF Keys!Init, Busy
  <2> QED BY <2>1, FS_EmptySet DEF KeyAt
<1>4. \A r \in Roles : Answered(r)
  BY DEF Keys!Init, Answered
<1>5. \A i \in Instances, r \in Roles : CacheAt(i, r)
  BY DEF Keys!Init, CacheAt, Keys!Fresh, Keys!Asks
<1> QED BY <1>1, <1>2, <1>3, <1>4, <1>5 DEF SignInv

LEMMA Countable ==
  ASSUME KeysAssumed, NEW S, S \in SUBSET Senders \/ S \in SUBSET Keys!Nonces
  PROVE  IsFiniteSet(S) /\ Cardinality(S) \in Nat
<1>1. IsFiniteSet(Keys!Nonces)
  BY FS_Interval DEF KeysAssumed, Keys!Nonces
<1>2. IsFiniteSet(S)
  BY <1>1, FS_Subset DEF KeysAssumed
<1> QED BY <1>2, FS_CardinalityType

\* What a question that has no answer leaves room beside.
Load(r, k) == mined[r] + Cardinality(pool[r]) + Cardinality(Elsewhere(r, k))

LEMMA Loads ==
  ASSUME KeysAssumed, Keys!TypeOK, NEW r \in Roles, NEW k
  PROVE  /\ mined[r] \in Nat /\ Cardinality(pool[r]) \in Nat /\ Cardinality(Busy(r)) \in Nat
         /\ IsFiniteSet(pool[r]) /\ IsFiniteSet(Busy(r)) /\ IsFiniteSet(Elsewhere(r, k))
         /\ Cardinality(Elsewhere(r, k)) \in Nat /\ Cardinality(Elsewhere(r, k)) =< Cardinality(Busy(r))
         /\ Load(r, k) \in Nat
<1>1. mined[r] \in Nat /\ pool[r] \in SUBSET Keys!Nonces
  BY DEF Keys!TypeOK, Keys!Nonces
<1>2. Busy(r) \in SUBSET Senders /\ Elsewhere(r, k) \in SUBSET Busy(r) /\ Elsewhere(r, k) \in SUBSET Senders
  BY DEF Busy, Elsewhere
<1>3. Cardinality(pool[r]) \in Nat /\ IsFiniteSet(pool[r])
  BY <1>1, Countable
<1>4. Cardinality(Busy(r)) \in Nat /\ IsFiniteSet(Busy(r))
  BY <1>2, Countable
<1>5. Cardinality(Elsewhere(r, k)) \in Nat /\ IsFiniteSet(Elsewhere(r, k))
  BY <1>2, Countable
<1>6. Cardinality(Elsewhere(r, k)) =< Cardinality(Busy(r))
  BY <1>2, <1>4, FS_Subset
<1> QED BY <1>1, <1>3, <1>4, <1>5, <1>6 DEF Load

LEMMA RoomStays ==
  ASSUME KeysAssumed, Keys!TypeOK, Keys!TypeOK', NEW r \in Roles, NEW k \in Keys!Asks, NEW m \in Nat,
         answer'[r][k] = answer[r][k], Room(r, k, m), NEW n \in Nat, sends' >= sends + n,
         answer[r][k] = None => Load(r, k)' =< Load(r, k) + (sends' - sends - n) /\ Load(r, k)' \in Nat
  PROVE  Room(r, k, m + n)'
<1>1. Load(r, k) \in Nat /\ sends \in Nat /\ sends' \in Nat
  BY Loads DEF Keys!TypeOK, Keys!Nonces
<1>2. CASE answer[r][k] = None
  <2>1. Load(r, k) + m =< sends
    BY <1>2 DEF Room, Load
  <2>2. Load(r, k)' + (m + n) =< sends'
    BY <1>1, <1>2, <2>1
  <2> QED BY <1>2, <2>2 DEF Room, Load
<1>3. CASE answer[r][k] # None
  <2>1. answer[r][k] \in Nat /\ answer[r][k] + m =< sends
    BY <1>3 DEF Room, Keys!TypeOK, Keys!Nonces
  <2>2. answer'[r][k] + (m + n) =< sends'
    BY <1>1, <2>1
  <2> QED BY <1>3, <2>2 DEF Room
<1> QED BY <1>2, <1>3


\* p stays on its way, ends, or waits for its block.
Resumes(p) ==
  \/ sendPc'[p] = "idle"
  \/ /\ sendPc[p] # "idle" /\ role'[p] = role[p] /\ ticket'[p] = ticket[p]
     /\ sendPc'[p] \in {"populate", "send"} => sendPc[p] \in {"populate", "send"}

\* The manager forgets, or it and the sends it has under way stay.
Keeps(i) ==
  \/ \A r \in Roles : cache'[i][r] = Keys!Fresh
  \/ /\ cache'[i] = cache[i]
     /\ \A p \in Senders, r \in Roles :
          Keys!InFlight(p, i, r) => Keys!InFlight(p, i, r)' /\ ticket'[p] = ticket[p]

\* Fewer senders on their way put no question in doubt.
LEMMA Lighter ==
  ASSUME KeysAssumed, Keys!TypeOK, Keys!TypeOK', \A p \in Senders : Resumes(p), NEW r \in Roles
  PROVE  /\ Cardinality(Busy(r)') =< Cardinality(Busy(r)) /\ Cardinality(Busy(r)') \in Nat
         /\ \A k : /\ Cardinality(Elsewhere(r, k)') =< Cardinality(Elsewhere(r, k))
                   /\ Cardinality(Elsewhere(r, k)') \in Nat
<1>1. Busy(r)' \in SUBSET Busy(r)
  BY DEF Busy, Resumes
<1>2. \A k : Elsewhere(r, k)' \in SUBSET Elsewhere(r, k)
  BY <1>1 DEF Elsewhere, Busy, Resumes
<1>3. Busy(r) \in SUBSET Senders /\ \A k : Elsewhere(r, k) \in SUBSET Senders
  BY DEF Busy, Elsewhere
<1>4. IsFiniteSet(Busy(r)) /\ \A k : IsFiniteSet(Elsewhere(r, k))
  BY Loads
<1>5. Cardinality(Busy(r)') =< Cardinality(Busy(r)) /\ Cardinality(Busy(r)') \in Nat
  BY <1>1, <1>4, FS_Subset, FS_CardinalityType
<1>6. ASSUME NEW k
      PROVE  /\ Cardinality(Elsewhere(r, k)') =< Cardinality(Elsewhere(r, k))
             /\ Cardinality(Elsewhere(r, k)') \in Nat
  <2> DEFINE S == Elsewhere(r, k)
             T == Elsewhere(r, k)'
  <2>1. IsFiniteSet(S) /\ T \in SUBSET S
    BY <1>2, <1>4
  <2> HIDE DEF S, T
  <2>2. Cardinality(T) =< Cardinality(S) /\ Cardinality(T) \in Nat
    BY <2>1, FS_Subset, FS_CardinalityType
  <2> QED BY <2>2 DEF S, T
<1> QED BY <1>5, <1>6

\* What was handed out of a question is still on its way, or has arrived.
Delivers(i) ==
  \/ \A r \in Roles : cache'[i][r] = Keys!Fresh
  \/ /\ cache'[i] = cache[i]
     /\ \A p \in Senders, r \in Roles : Keys!InFlight(p, i, r) =>
          \/ Keys!InFlight(p, i, r)' /\ ticket'[p] = ticket[p]
          \/ \A k \in Keys!Asks, d \in Keys!Nonces : (ticket[p].ask = k /\ ticket[p].delta = d) =>
               answer[r][k] # None /\ Spent(r, answer[r][k] + d)'

\* Nonces only move on: from a sender to the node, and from the node to a block.
Flows(r) ==
  /\ \A m \in Nat : Spent(r, m) => Spent(r, m)'
  /\ mined'[r] + Cardinality(pool'[r]) + Cardinality(Busy(r)') =< mined[r] + Cardinality(pool[r]) + Cardinality(Busy(r))
  /\ \A k \in Keys!Asks : answer[r][k] = None => Load(r, k)' =< Load(r, k) /\ Load(r, k)' \in Nat

LEMMA Flow ==
  ASSUME KeysAssumed, SignInv, Keys!TypeOK', UNCHANGED <<asked, answer, sends>>,
         \A r \in Roles : Flows(r), \A p \in Senders : Resumes(p), \A i \in Instances : Delivers(i)
  PROVE  SignInv'
<1>0. Keys!TypeOK /\ sends \in Nat
  BY DEF SignInv, Keys!TypeOK, Keys!Nonces
<1>1. ASSUME NEW r \in Roles, NEW k \in Keys!Asks, NEW m \in Nat, Room(r, k, m)
      PROVE  Room(r, k, m)'
  <2>1. Load(r, k) \in Nat
    BY <1>0, Loads
  <2>2. answer[r][k] = None => Load(r, k)' =< Load(r, k) + (sends' - sends - 0) /\ Load(r, k)' \in Nat
    BY <2>1, <1>0 DEF Flows
  <2>3. Room(r, k, m + 0)'
    <3>1. 0 \in Nat /\ sends' >= sends + 0 /\ answer'[r][k] = answer[r][k]
      BY <1>0
    <3> QED BY <1>0, <1>1, <2>2, <3>1, RoomStays
  <2>4. m + 0 = m
    OBVIOUS
  <2> QED BY <2>3, <2>4
<1>2. ASSUME NEW p \in Senders PROVE SenderAt(p)'
  <2>1. Resumes(p) /\ SenderAt(p) /\ ticket[p] \in [ask : Keys!Nonces, delta : Keys!Nonces]
    BY <1>0 DEF SignInv, Keys!TypeOK
  <2>2. CASE sendPc'[p] = "idle"
    BY <2>2 DEF SenderAt
  <2>3. CASE sendPc'[p] # "idle"
    <3>1. /\ role'[p] = role[p] /\ ticket'[p] = ticket[p] /\ role[p] \in Roles
          /\ ticket[p].ask \in 1..asked[role[p]]
      BY <2>1, <2>3 DEF Resumes, SenderAt
    <3>2. ASSUME NEW r \in Roles, NEW k \in Keys!Asks, NEW d \in Keys!Nonces,
                 sendPc'[p] \in {"populate", "send"}, role'[p] = r, ticket'[p].ask = k, ticket'[p].delta = d
          PROVE  Room(r, k, d + 1)'
      <4>1. Room(r, k, d + 1)
        BY <2>1, <2>3, <3>1, <3>2 DEF Resumes, SenderAt
      <4>2. d + 1 \in Nat
        BY DEF Keys!Nonces
      <4> QED BY <4>1, <4>2, <1>1
    <3>3. ticket'[p].ask \in 1..asked'[role'[p]]
      BY <3>1
    <3> QED BY <3>1, <3>2, <3>3 DEF SenderAt
  <2> QED BY <2>2, <2>3
<1>3. ASSUME NEW r \in Roles PROVE KeyAt(r)' /\ Answered(r)'
  <2>1. KeyAt(r) /\ Answered(r) /\ Flows(r)
    BY DEF SignInv
  <2>2. mined[r] \in Nat /\ Cardinality(pool[r]) \in Nat /\ Cardinality(Busy(r)) \in Nat
    BY <1>0, Loads
  <2>3. mined'[r] \in Nat /\ Cardinality(pool'[r]) \in Nat /\ Cardinality(Busy(r)') \in Nat
    <3>1. mined'[r] \in Nat /\ pool'[r] \in SUBSET Keys!Nonces
      BY DEF Keys!TypeOK, Keys!Nonces
    <3>2. Busy(r)' \in SUBSET Senders
      BY DEF Busy
    <3> QED BY <3>1, <3>2, Countable
  <2>4. KeyAt(r)'
    BY <2>1, <2>2, <2>3, <1>0 DEF KeyAt, Flows
  <2>5. Answered(r)'
    BY <2>1 DEF Answered, Flows, Keys!Nonces
  <2> QED BY <2>4, <2>5
<1>4. ASSUME NEW i \in Instances, NEW r \in Roles PROVE CacheAt(i, r)'
  <2>1. CacheAt(i, r) /\ Delivers(i) /\ Flows(r)
    BY DEF SignInv
  <2>2. CASE cache'[i][r] = Keys!Fresh
    BY <2>2 DEF CacheAt, Keys!Fresh, Keys!Asks
  <2>3. CASE cache'[i][r] # Keys!Fresh
    <3>1. cache'[i][r] = cache[i][r] /\ \A p \in Senders : Keys!InFlight(p, i, r) =>
            \/ Keys!InFlight(p, i, r)' /\ ticket'[p] = ticket[p]
            \/ \A k \in Keys!Asks, d \in Keys!Nonces : (ticket[p].ask = k /\ ticket[p].delta = d) =>
                 answer[r][k] # None /\ Spent(r, answer[r][k] + d)'
      BY <2>1, <2>3 DEF Delivers
    <3>2. ASSUME NEW k \in Keys!Asks, NEW d \in Keys!Nonces, cache[i][r].ask = k, cache[i][r].delta = d
          PROVE  k =< asked'[r] /\ Room(r, k, d)' /\ \A e \in Keys!Nonces : e < d => Covered(i, r, k, e)'
      <4>1. k =< asked[r] /\ Room(r, k, d) /\ \A e \in Keys!Nonces : e < d => Covered(i, r, k, e)
        BY <2>1, <3>2 DEF CacheAt
      <4>2. Room(r, k, d)'
        BY <4>1, <1>1 DEF Keys!Nonces
      <4>3. ASSUME NEW e \in Keys!Nonces, e < d PROVE Covered(i, r, k, e)'
        <5>1. Covered(i, r, k, e)
          BY <4>1, <4>3
        <5>2. CASE answer[r][k] # None /\ Spent(r, answer[r][k] + e)
          <6>1. answer[r][k] + e \in Nat
            BY <5>2, <1>0 DEF Keys!TypeOK, Keys!Nonces
          <6>2. \A x \in Nat : Spent(r, x) => Spent(r, x)'
            BY <2>1 DEF Flows
          <6>3. answer'[r][k] = answer[r][k]
            OBVIOUS
          <6> QED BY <5>2, <6>1, <6>2, <6>3 DEF Covered, Spent
        <5>3. ASSUME NEW p \in Senders, Keys!InFlight(p, i, r), ticket[p].ask = k, ticket[p].delta = e
              PROVE  Covered(i, r, k, e)'
          <6>1. CASE Keys!InFlight(p, i, r)' /\ ticket'[p] = ticket[p]
            BY <6>1, <5>3 DEF Covered
          <6>2. CASE answer[r][k] # None /\ Spent(r, answer[r][k] + e)'
            BY <6>2 DEF Covered, Spent
          <6> QED BY <6>1, <6>2, <5>3, <3>1
        <5> QED BY <5>1, <5>2, <5>3 DEF Covered
      <4> QED BY <4>1, <4>2, <4>3
    <3> QED BY <2>1, <3>1, <3>2 DEF CacheAt
  <2> QED BY <2>2, <2>3
<1> QED BY <1>2, <1>3, <1>4 DEF SignInv

LEMMA Calm ==
  ASSUME KeysAssumed, SignInv, Keys!TypeOK', UNCHANGED <<mined, pool, asked, answer, sends>>,
         \A p \in Senders : Resumes(p), \A i \in Instances : Keeps(i)
  PROVE  SignInv'
<1>0. Keys!TypeOK
  BY DEF SignInv
<1>1. ASSUME NEW r \in Roles PROVE Flows(r)
  <2>1. mined[r] \in Nat /\ Cardinality(pool[r]) \in Nat /\ Cardinality(Busy(r)) \in Nat
    BY <1>0, Loads
  <2>2. Cardinality(Busy(r)') =< Cardinality(Busy(r)) /\ Cardinality(Busy(r)') \in Nat
    BY <1>0, Lighter
  <2>3. ASSUME NEW k \in Keys!Asks PROVE Load(r, k)' =< Load(r, k) /\ Load(r, k)' \in Nat
    <3>1. Cardinality(Elsewhere(r, k)') =< Cardinality(Elsewhere(r, k)) /\ Cardinality(Elsewhere(r, k)') \in Nat
      BY <1>0, Lighter
    <3>2. Cardinality(Elsewhere(r, k)) \in Nat
      BY <1>0, Loads
    <3> QED BY <2>1, <3>1, <3>2 DEF Load
  <2>4. \A m \in Nat : Spent(r, m) => Spent(r, m)'
    BY DEF Spent
  <2> QED BY <2>1, <2>2, <2>3, <2>4 DEF Flows
<1>2. \A i \in Instances : Delivers(i)
  BY DEF Keeps, Delivers
<1> QED BY <1>1, <1>2, Flow

LEMMA FreshTyped == ASSUME KeysAssumed PROVE Keys!Fresh \in [ask : Keys!Nonces, delta : Keys!Nonces]
BY DEF KeysAssumed, Keys!Fresh, Keys!Nonces

LEMMA GotoResumes ==
  ASSUME Keys!TypeOK, NEW p \in Senders, NEW here \in {"populate", "send", "failed"}, sendPc[p] = here,
         NEW there \in {"send", "failed", "wait"}, sendPc' = [sendPc EXCEPT ![p] = there],
         here = "failed" => there = "failed", UNCHANGED <<role, ticket>>
  PROVE  \A q \in Senders : Resumes(q)
BY DEF Resumes, Keys!TypeOK

LEMMA PopulateStep == ASSUME KeysAssumed, SignInv, NEW p \in Senders, Keys!Populate(p) PROVE SignInv'
<1>0. Keys!TypeOK
  BY DEF SignInv
<1>1. PICK there \in {"send", "failed"} : sendPc' = [sendPc EXCEPT ![p] = there]
  BY DEF Keys!Populate, Keys!Goto
<1>2. sendPc[p] = "populate" /\ UNCHANGED <<mined, pool, asked, answer, cache, role, ticket, sends>>
  BY DEF Keys!Populate, Keys!At, Keys!chain
<1>3. Keys!TypeOK'
  BY <1>0, <1>1, <1>2 DEF Keys!TypeOK, Keys!Pcs
<1>4. \A q \in Senders : Resumes(q)
  BY <1>0, <1>1, <1>2, GotoResumes
<1>5. \A i \in Instances : Keeps(i)
  BY <1>0, <1>1, <1>2 DEF Keeps, Keys!InFlight, Keys!TypeOK
<1> QED BY <1>2, <1>3, <1>4, <1>5, Calm

LEMMA CaughtStep == ASSUME KeysAssumed, SignInv, NEW p \in Senders, Keys!Caught(p) PROVE SignInv'
<1>0. Keys!TypeOK /\ Home[p] \in Instances
  BY DEF SignInv, KeysAssumed
<1>1. /\ sendPc[p] = "failed" /\ sendPc' = [sendPc EXCEPT ![p] = "idle"]
      /\ role' = [role EXCEPT ![p] = None] /\ ticket' = [ticket EXCEPT ![p] = Keys!Fresh]
      /\ cache' = [cache EXCEPT ![Home[p]] = [r \in Roles |-> Keys!Fresh]]
      /\ UNCHANGED <<mined, pool, asked, answer, sends>>
  BY DEF Keys!Caught, Keys!At, Keys!Finish, Keys!Goto, Keys!ResetNonces, Keys!chain
<1>2. Keys!TypeOK'
  BY <1>0, <1>1, FreshTyped DEF Keys!TypeOK, Keys!Pcs
<1>3. \A q \in Senders : Resumes(q)
  BY <1>0, <1>1 DEF Resumes, Keys!TypeOK
<1>4. ASSUME NEW i \in Instances PROVE Keeps(i)
  <2>1. CASE i = Home[p]
    BY <2>1, <1>0, <1>1 DEF Keeps, Keys!TypeOK
  <2>2. CASE i # Home[p]
    BY <2>2, <1>0, <1>1 DEF Keeps, Keys!TypeOK, Keys!InFlight
  <2> QED BY <2>1, <2>2
<1> QED BY <1>1, <1>2, <1>3, <1>4, Calm

LEMMA WaitedStep == ASSUME KeysAssumed, SignInv, NEW p \in Senders, Keys!Wait(p) PROVE SignInv'
<1>0. Keys!TypeOK
  BY DEF SignInv
<1>1. /\ sendPc[p] = "wait" /\ sendPc' = [sendPc EXCEPT ![p] = "idle"]
      /\ role' = [role EXCEPT ![p] = None] /\ ticket' = [ticket EXCEPT ![p] = Keys!Fresh]
      /\ UNCHANGED <<mined, pool, asked, answer, cache, sends>>
  BY DEF Keys!Wait, Keys!At, Keys!Finish, Keys!Goto, Keys!chain
<1>2. Keys!TypeOK'
  BY <1>0, <1>1, FreshTyped DEF Keys!TypeOK, Keys!Pcs
<1>3. \A q \in Senders : Resumes(q)
  BY <1>0, <1>1 DEF Resumes, Keys!TypeOK
<1>4. \A i \in Instances : Keeps(i)
  BY <1>0, <1>1 DEF Keeps, Keys!TypeOK, Keys!InFlight
<1> QED BY <1>1, <1>2, <1>3, <1>4, Calm

LEMMA RestartStep == ASSUME KeysAssumed, SignInv, NEW i \in Instances, Keys!Restart(i) PROVE SignInv'
<1>0. Keys!TypeOK
  BY DEF SignInv
<1>1. /\ sendPc' = [p \in Senders |-> IF Home[p] = i THEN "idle" ELSE sendPc[p]]
      /\ role' = [p \in Senders |-> IF Home[p] = i THEN None ELSE role[p]]
      /\ ticket' = [p \in Senders |-> IF Home[p] = i THEN Keys!Fresh ELSE ticket[p]]
      /\ cache' = [cache EXCEPT ![i] = [r \in Roles |-> Keys!Fresh]]
      /\ UNCHANGED <<mined, pool, asked, answer, sends>>
  BY DEF Keys!Restart, Keys!chain
<1>2. Keys!TypeOK'
  BY <1>0, <1>1, FreshTyped DEF Keys!TypeOK, Keys!Pcs
<1>3. \A q \in Senders : Resumes(q)
  BY <1>0, <1>1 DEF Resumes, Keys!TypeOK
<1>4. ASSUME NEW j \in Instances PROVE Keeps(j)
  <2>1. CASE j = i
    BY <2>1, <1>0, <1>1 DEF Keeps, Keys!TypeOK
  <2>2. CASE j # i
    BY <2>2, <1>0, <1>1 DEF Keeps, Keys!TypeOK, Keys!InFlight
  <2> QED BY <2>1, <2>2
<1> QED BY <1>1, <1>2, <1>3, <1>4, Calm

LEMMA Interval ==
  ASSUME NEW a \in Int, NEW b \in Int, a =< b + 1 PROVE Cardinality(a..b) = b - a + 1
<1>1. Cardinality(a..b) = IF a > b THEN 0 ELSE b - a + 1
  BY FS_Interval
<1>2. CASE a > b
  BY <1>1, <1>2
<1>3. CASE ~(a > b)
  BY <1>1, <1>3
<1> QED BY <1>2, <1>3

LessThan == OpToRel(<, Nat)

LEMMA LessThanWellFounded == IsWellFoundedOn(LessThan, Nat)
BY NatLessThanWellFounded DEF LessThan

LEMMA LessThanIsLess == \A x, y \in Nat : <<x, y>> \in LessThan <=> x < y
BY DEF LessThan, OpToRel

LEMMA Smallest == ASSUME NEW S \in SUBSET Nat, S # {} PROVE \E n \in S : \A m \in S : n =< m
<1>1. PICK n \in S : \A m \in S : ~(<<m, n>> \in LessThan)
  BY LessThanWellFounded, WFMin
<1>2. ASSUME NEW m \in S PROVE n =< m
  <2>1. ~(<<m, n>> \in LessThan) /\ m \in Nat /\ n \in Nat
    BY <1>1
  <2>2. ~(m < n)
    BY <2>1, LessThanIsLess
  <2> QED BY <2>1, <2>2
<1> QED BY <1>2

\* The node always waits for a nonce, and for one it can still be given.
LEMMA NonceWaited ==
  ASSUME KeysAssumed, Keys!TypeOK, NEW r \in Roles, mined[r] + Cardinality(pool[r]) =< MaxSends
  PROVE  /\ Keys!NextNonce(r) \in Keys!Nonces /\ Keys!NextNonce(r) =< mined[r] + Cardinality(pool[r])
         /\ ~Spent(r, Keys!NextNonce(r))
         /\ \A m \in Nat : m < Keys!NextNonce(r) => Spent(r, m)
<1>1. /\ mined[r] \in Nat /\ Cardinality(pool[r]) \in Nat /\ IsFiniteSet(pool[r])
      /\ MaxSends \in Nat /\ Keys!Nonces = 0..MaxSends
  BY Loads DEF KeysAssumed, Keys!Nonces
<1> DEFINE Free == {n \in mined[r]..MaxSends : n \notin pool[r]}
<1>2. Free # {}
  <2> SUFFICES ASSUME Free = {} PROVE FALSE
    OBVIOUS
  <2>1. mined[r]..MaxSends \in SUBSET pool[r]
    OBVIOUS
  <2>2. Cardinality(mined[r]..MaxSends) =< Cardinality(pool[r])
    BY <2>1, <1>1, FS_Subset
  <2>3. Cardinality(mined[r]..MaxSends) = MaxSends - mined[r] + 1
    <3>1. mined[r] \in Int /\ MaxSends \in Int /\ mined[r] =< MaxSends + 1
      BY <1>1
    <3> QED BY <3>1, Interval
  <2> QED BY <2>2, <2>3, <1>1
<1>3. Free \in SUBSET Nat
  BY <1>1
<1>4. PICK f \in Free : \A m \in Free : f =< m
  BY <1>2, <1>3, Smallest
<1>5. f \in Keys!Nonces /\ f \in Nat /\ mined[r] =< f /\ f =< MaxSends /\ f \notin pool[r]
  BY <1>1, <1>4
<1>6. ASSUME NEW m \in mined[r]..(f - 1) PROVE m \in pool[r]
  BY <1>1, <1>4, <1>5
<1>7. \E n \in Keys!Nonces : Keys!Reaches(r, n) /\ n \notin pool[r]
  BY <1>5, <1>6 DEF Keys!Reaches
<1> DEFINE n == Keys!NextNonce(r)
<1>8. n \in Keys!Nonces /\ Keys!Reaches(r, n) /\ n \notin pool[r]
  BY <1>7 DEF Keys!NextNonce
<1> HIDE DEF n
<1>9. n \in Nat /\ mined[r] =< n /\ mined[r]..(n - 1) \in SUBSET pool[r]
  BY <1>1, <1>8 DEF Keys!Reaches
<1>10. Cardinality(mined[r]..(n - 1)) =< Cardinality(pool[r])
  BY <1>1, <1>9, FS_Subset
<1>11. Cardinality(mined[r]..(n - 1)) = n - mined[r]
  <2>1. n - 1 \in Int /\ mined[r] \in Int /\ mined[r] =< (n - 1) + 1 /\ (n - 1) - mined[r] + 1 = n - mined[r]
    BY <1>1, <1>9
  <2>2. Cardinality(mined[r]..(n - 1)) = (n - 1) - mined[r] + 1
    BY <2>1, Interval
  <2> QED BY <2>1, <2>2
<1>12. n =< mined[r] + Cardinality(pool[r])
  BY <1>1, <1>9, <1>10, <1>11
<1>13. ~Spent(r, n)
  BY <1>1, <1>8, <1>9 DEF Spent
<1>14. ASSUME NEW m \in Nat, m < n PROVE Spent(r, m)
  BY <1>1, <1>9, <1>14 DEF Spent
<1> QED BY <1>8, <1>12, <1>13, <1>14 DEF n

LEMMA AnswerStep == ASSUME KeysAssumed, SignInv, NEW r \in Roles, Keys!Answer(r) PROVE SignInv'
<1>0. Keys!TypeOK /\ sends \in Nat /\ sends =< MaxSends /\ MaxSends \in Nat
  BY DEF SignInv, Keys!TypeOK, Keys!Nonces, KeysAssumed
<1>1. PICK n \in Keys!Asks : /\ n =< asked[r] /\ answer[r][n] = None
                             /\ answer' = [answer EXCEPT ![r][n] = Keys!NextNonce(r)]
  BY DEF Keys!Answer
<1>2. UNCHANGED <<mined, pool, asked, cache, sendPc, role, ticket, sends>>
  BY DEF Keys!Answer, Keys!chain
<1> DEFINE a == Keys!NextNonce(r)
<1>3. mined[r] \in Nat /\ Cardinality(pool[r]) \in Nat /\ Cardinality(Busy(r)) \in Nat
  BY <1>0, Loads
<1>4. mined[r] + Cardinality(pool[r]) =< sends /\ KeyAt(r) /\ Answered(r)
  BY <1>3, <1>0 DEF SignInv, KeyAt
<1>5. mined[r] + Cardinality(pool[r]) =< MaxSends
  BY <1>0, <1>3, <1>4
<1>6. /\ a \in Keys!Nonces /\ a =< mined[r] + Cardinality(pool[r])
      /\ \A m \in Nat : m < a => Spent(r, m)
  BY <1>0, <1>5, NonceWaited
<1> HIDE DEF a
<1>7. Keys!TypeOK'
  <2>1. answer' \in [Roles -> [Keys!Asks -> Keys!Nonces \cup {None}]]
    BY <1>0, <1>1, <1>6 DEF Keys!TypeOK, a
  <2> QED BY <1>0, <1>2, <2>1 DEF Keys!TypeOK
<1>8. ASSUME NEW x \in Roles, NEW k \in Keys!Asks, <<x, k>> # <<r, n>> PROVE answer'[x][k] = answer[x][k]
  BY <1>0, <1>1, <1>8 DEF Keys!TypeOK
<1>9. answer'[r][n] = a /\ a # None /\ a \in Nat
  BY <1>0, <1>1, <1>6 DEF Keys!TypeOK, a, KeysAssumed, Keys!Nonces
<1>10. ASSUME NEW x \in Roles, NEW k \in Keys!Asks, NEW m \in Nat, Room(x, k, m) PROVE Room(x, k, m)'
  <2>1. CASE <<x, k>> = <<r, n>>
    <3>1. Cardinality(Elsewhere(r, n)) \in Nat
      BY <1>0, Loads
    <3>2. mined[r] + Cardinality(pool[r]) + Cardinality(Elsewhere(r, n)) + m =< sends
      BY <1>10, <2>1, <1>1 DEF Room
    <3>3. a + m =< sends
      BY <3>1, <3>2, <1>0, <1>3, <1>6, <1>9
    <3> QED BY <2>1, <3>3, <1>9, <1>2 DEF Room
  <2>2. CASE <<x, k>> # <<r, n>>
    BY <1>10, <1>8, <2>2, <1>2 DEF Room, Elsewhere, Busy
  <2> QED BY <2>1, <2>2
<1>11. ASSUME NEW p \in Senders PROVE SenderAt(p)'
  <2>1. SenderAt(p)
    BY DEF SignInv
  <2>2. ASSUME NEW x \in Roles, NEW k \in Keys!Asks, NEW d \in Keys!Nonces,
               sendPc'[p] \in {"populate", "send"}, role'[p] = x, ticket'[p].ask = k, ticket'[p].delta = d
        PROVE  Room(x, k, d + 1)'
    <3>1. Room(x, k, d + 1) /\ d + 1 \in Nat
      BY <2>1, <2>2, <1>2 DEF SenderAt, Keys!Nonces
    <3> QED BY <3>1, <1>10
  <2> QED BY <2>1, <2>2, <1>2 DEF SenderAt
<1>12. ASSUME NEW x \in Roles PROVE KeyAt(x)' /\ Answered(x)'
  <2>1. KeyAt(x) /\ Answered(x)
    BY DEF SignInv
  <2>2. KeyAt(x)'
    BY <2>1, <1>2 DEF KeyAt, Busy
  <2>3. ASSUME NEW k \in Keys!Asks
        PROVE  /\ k > asked'[x] => answer'[x][k] = None
               /\ answer'[x][k] # None => \A m \in Keys!Nonces : m < answer'[x][k] => Spent(x, m)'
    <3>1. CASE <<x, k>> = <<r, n>>
      <4>1. asked[r] \in Nat /\ n \in Nat
        BY <1>0 DEF Keys!TypeOK, Keys!Nonces, Keys!Asks
      <4> QED BY <3>1, <4>1, <1>1, <1>2, <1>6, <1>9 DEF Spent, Keys!Nonces
    <3>2. CASE <<x, k>> # <<r, n>>
      BY <3>2, <2>1, <1>8, <1>2 DEF Answered, Spent
    <3> QED BY <3>1, <3>2
  <2> QED BY <2>2, <2>3 DEF Answered
<1>13. ASSUME NEW i \in Instances, NEW x \in Roles PROVE CacheAt(i, x)'
  <2>1. CacheAt(i, x)
    BY DEF SignInv
  <2>2. ASSUME NEW k \in Keys!Asks, NEW d \in Keys!Nonces, cache[i][x].ask = k, cache[i][x].delta = d
        PROVE  k =< asked'[x] /\ Room(x, k, d)' /\ \A e \in Keys!Nonces : e < d => Covered(i, x, k, e)'
    <3>1. k =< asked[x] /\ Room(x, k, d) /\ \A e \in Keys!Nonces : e < d => Covered(i, x, k, e)
      BY <2>1, <2>2 DEF CacheAt
    <3>2. Room(x, k, d)'
      BY <3>1, <1>10 DEF Keys!Nonces
    <3>3. ASSUME NEW e \in Keys!Nonces, e < d PROVE Covered(i, x, k, e)'
      <4>1. answer[x][k] # None => answer'[x][k] = answer[x][k]
        BY <1>1, <1>8
      <4> QED BY <3>1, <3>3, <4>1, <1>2 DEF Covered, Spent, Keys!InFlight
    <3> QED BY <3>1, <3>2, <3>3, <1>2
  <2> QED BY <2>1, <2>2, <1>2 DEF CacheAt
<1> QED BY <1>7, <1>11, <1>12, <1>13 DEF SignInv

\* Flows of the other keys, whose nonces stay where they are.
LEMMA Elsewise ==
  ASSUME KeysAssumed, Keys!TypeOK, Keys!TypeOK', \A p \in Senders : Resumes(p), NEW x \in Roles,
         mined'[x] = mined[x], pool'[x] = pool[x]
  PROVE  Flows(x)
<1>1. mined[x] \in Nat /\ Cardinality(pool[x]) \in Nat /\ Cardinality(Busy(x)) \in Nat
  BY Loads
<1>2. Cardinality(Busy(x)') =< Cardinality(Busy(x)) /\ Cardinality(Busy(x)') \in Nat
  BY Lighter
<1>3. ASSUME NEW k \in Keys!Asks PROVE Load(x, k)' =< Load(x, k) /\ Load(x, k)' \in Nat
  <2>1. Cardinality(Elsewhere(x, k)') =< Cardinality(Elsewhere(x, k)) /\ Cardinality(Elsewhere(x, k)') \in Nat
    BY Lighter
  <2>2. Cardinality(Elsewhere(x, k)) \in Nat
    BY Loads
  <2> QED BY <1>1, <2>1, <2>2 DEF Load
<1> QED BY <1>1, <1>2, <1>3 DEF Flows, Spent

LEMMA MineStep == ASSUME KeysAssumed, SignInv, NEW r \in Roles, Keys!Mine(r) PROVE SignInv'
<1>0. Keys!TypeOK /\ KeyAt(r) /\ MaxSends \in Nat /\ sends \in Nat /\ sends =< MaxSends
  BY DEF SignInv, KeysAssumed, Keys!TypeOK, Keys!Nonces
<1>1. /\ mined[r] \in pool[r] /\ pool' = [pool EXCEPT ![r] = @ \ {mined[r]}]
      /\ mined' = [mined EXCEPT ![r] = @ + 1]
      /\ UNCHANGED <<asked, answer, cache, sendPc, role, ticket, sends>>
  BY DEF Keys!Mine
<1>2. mined[r] \in Nat /\ Cardinality(pool[r]) \in Nat /\ Cardinality(Busy(r)) \in Nat /\ IsFiniteSet(pool[r])
  BY <1>0, Loads
<1>3. Cardinality(pool[r] \ {mined[r]}) = Cardinality(pool[r]) - 1
  BY <1>1, <1>2, FS_RemoveElement
<1>4. Cardinality(pool[r] \ {mined[r]}) \in Nat
  <2>1. pool[r] \ {mined[r]} \in SUBSET Keys!Nonces
    BY <1>0 DEF Keys!TypeOK
  <2> QED BY <2>1, Countable
<1>5. mined'[r] = mined[r] + 1 /\ pool'[r] = pool[r] \ {mined[r]}
  BY <1>0, <1>1 DEF Keys!TypeOK
<1>6. Keys!TypeOK'
  <2>1. mined[r] + 1 =< MaxSends
    BY <1>0, <1>2, <1>3, <1>4 DEF KeyAt
  <2>2. mined[r] + 1 \in Keys!Nonces
    BY <2>1, <1>2, <1>0 DEF Keys!Nonces
  <2>3. mined' \in [Roles -> Keys!Nonces] /\ pool' \in [Roles -> SUBSET Keys!Nonces]
    BY <2>2, <1>0, <1>1 DEF Keys!TypeOK
  <2> QED BY <2>3, <1>0, <1>1 DEF Keys!TypeOK
<1>7. \A p \in Senders : Resumes(p)
  BY <1>1 DEF Resumes
<1>8. \A i \in Instances : Delivers(i)
  BY <1>1 DEF Delivers, Keys!InFlight
<1>9. Flows(r)
  <2>1. \A m \in Nat : Spent(r, m) => Spent(r, m)'
    BY <1>2, <1>5 DEF Spent
  <2>2. Busy(r)' = Busy(r)
    BY <1>1 DEF Busy
  <2>3. mined'[r] + Cardinality(pool'[r]) = mined[r] + Cardinality(pool[r])
    BY <1>2, <1>3, <1>4, <1>5
  <2>4. ASSUME NEW k \in Keys!Asks PROVE Load(r, k)' = Load(r, k) /\ Load(r, k) \in Nat
    <3>1. Elsewhere(r, k)' = Elsewhere(r, k)
      BY <1>1, <2>2 DEF Elsewhere
    <3>2. Load(r, k) \in Nat
      BY <1>0, Loads
    <3> QED BY <2>3, <3>1, <3>2 DEF Load
  <2> QED BY <1>2, <2>1, <2>2, <2>3, <2>4 DEF Flows
<1>10. ASSUME NEW x \in Roles PROVE Flows(x)
  <2>1. CASE x = r
    BY <2>1, <1>9
  <2>2. CASE x # r
    <3>1. mined'[x] = mined[x] /\ pool'[x] = pool[x]
      BY <2>2, <1>0, <1>1 DEF Keys!TypeOK
    <3> QED BY <3>1, <1>0, <1>6, <1>7, Elsewise
  <2> QED BY <2>1, <2>2
<1> QED BY <1>1, <1>6, <1>7, <1>8, <1>10, Flow

LEMMA KeyBroadcastStep == ASSUME KeysAssumed, SignInv, NEW p \in Senders, Keys!Broadcast(p) PROVE SignInv'
<1>0. Keys!TypeOK /\ SenderAt(p)
  BY DEF SignInv
<1>1. /\ sendPc[p] = "send" /\ answer[role[p]][ticket[p].ask] # None
      /\ UNCHANGED <<mined, asked, answer, cache, role, ticket, sends>>
  BY DEF Keys!Broadcast, Keys!At, Keys!chain
<1>2. PICK there \in {"failed", "wait"} : sendPc' = [sendPc EXCEPT ![p] = there]
  BY DEF Keys!Broadcast, Keys!Goto
<1>3. \A q \in Senders : Resumes(q)
  BY <1>0, <1>1, <1>2, GotoResumes
<1>4. PICK r \in Roles : r = role[p]
  BY <1>0, <1>1 DEF SenderAt
<1>5. ticket[p] \in [ask : Keys!Nonces, delta : Keys!Nonces] /\ asked[r] \in Keys!Nonces
  BY <1>0 DEF Keys!TypeOK
<1>6. PICK k \in Keys!Asks : k = ticket[p].ask
  <2>1. ticket[p].ask \in 1..asked[r]
    BY <1>0, <1>1, <1>4 DEF SenderAt
  <2> QED BY <2>1, <1>5 DEF Keys!Asks, Keys!Nonces, KeysAssumed
<1>7. PICK d \in Keys!Nonces : d = ticket[p].delta
  BY <1>5
<1>8. answer[r][k] # None /\ answer[r][k] \in Nat /\ d \in Nat /\ Keys!Nonce(p) = answer[r][k] + d
  BY <1>0, <1>1, <1>4, <1>6, <1>7 DEF Keys!TypeOK, Keys!Nonces, Keys!Nonce
<1>9. PICK n \in Nat : n = answer[r][k] + d /\ n = Keys!Nonce(p)
  BY <1>8
<1>10. CASE Spent(r, n)
  <2>1. there = "failed" /\ UNCHANGED pool
    BY <1>10, <1>0, <1>2, <1>4, <1>9 DEF Keys!Broadcast, Keys!Goto, Spent, Keys!chain, Keys!TypeOK
  <2>2. Keys!TypeOK'
    BY <2>1, <1>0, <1>1, <1>2 DEF Keys!TypeOK, Keys!Pcs
  <2>3. \A i \in Instances : Keeps(i)
    BY <2>1, <1>0, <1>1, <1>2 DEF Keeps, Keys!InFlight, Keys!TypeOK
  <2> QED BY <2>1, <2>2, <2>3, <1>1, <1>3, Calm
<1>11. CASE ~Spent(r, n)
  <2>1. pool' = [pool EXCEPT ![r] = @ \cup {n}]
    BY <1>11, <1>4, <1>9 DEF Keys!Broadcast, Spent
  <2>2. n + 1 =< sends
    <3>1. Room(r, k, d + 1)
      BY <1>0, <1>1, <1>4, <1>6, <1>7 DEF SenderAt
    <3>2. answer[r][k] + (d + 1) =< sends
      BY <3>1, <1>8 DEF Room
    <3> QED BY <3>2, <1>8, <1>9, <1>0 DEF Keys!TypeOK, Keys!Nonces
  <2>3. n \in Keys!Nonces
    BY <2>2, <1>9, <1>0 DEF Keys!TypeOK, Keys!Nonces, KeysAssumed
  <2>4. Keys!TypeOK'
    <3>1. pool' \in [Roles -> SUBSET Keys!Nonces]
      BY <2>1, <2>3, <1>0 DEF Keys!TypeOK
    <3>2. sendPc' \in [Senders -> Keys!Pcs]
      BY <1>0, <1>2 DEF Keys!TypeOK, Keys!Pcs
    <3> QED BY <3>1, <3>2, <1>0, <1>1 DEF Keys!TypeOK
  <2>5. pool'[r] = pool[r] \cup {n} /\ n \notin pool[r]
    BY <2>1, <1>0, <1>11 DEF Keys!TypeOK, Spent
  <2>6. mined[r] \in Nat /\ Cardinality(pool[r]) \in Nat /\ IsFiniteSet(pool[r])
        /\ Cardinality(Busy(r)) \in Nat /\ IsFiniteSet(Busy(r))
    BY <1>0, Loads
  <2>7. Cardinality(pool'[r]) = Cardinality(pool[r]) + 1
    BY <2>5, <2>6, FS_AddElement
  <2>8. p \in Busy(r) /\ Busy(r)' = Busy(r) \ {p}
    BY <1>0, <1>1, <1>2, <1>4 DEF Busy, Keys!TypeOK
  <2>9. Cardinality(Busy(r)') = Cardinality(Busy(r)) - 1
    BY <2>6, <2>8, FS_RemoveElement
  <2>10. ASSUME NEW y \in Keys!Asks, answer[r][y] = None
         PROVE  Load(r, y)' = Load(r, y) /\ Load(r, y) \in Nat
    <3>1. y # k
      BY <2>10, <1>8
    <3>2. p \in Elsewhere(r, y) /\ Elsewhere(r, y)' = Elsewhere(r, y) \ {p}
      BY <3>1, <2>8, <1>1, <1>6 DEF Elsewhere
    <3>3. IsFiniteSet(Elsewhere(r, y)) /\ Cardinality(Elsewhere(r, y)) \in Nat
      BY <1>0, Loads
    <3>4. Cardinality(Elsewhere(r, y)') = Cardinality(Elsewhere(r, y)) - 1
      BY <3>2, <3>3, FS_RemoveElement
    <3> QED BY <3>3, <3>4, <2>6, <2>7, <1>1 DEF Load
  <2>11. \A m \in Nat : Spent(r, m) => Spent(r, m)'
    BY <2>5, <1>1 DEF Spent
  <2>12. Flows(r)
    BY <2>6, <2>7, <2>9, <2>10, <2>11, <1>1 DEF Flows
  <2>13. ASSUME NEW x \in Roles PROVE Flows(x)
    <3>1. CASE x = r
      BY <3>1, <2>12
    <3>2. CASE x # r
      <4>1. mined'[x] = mined[x] /\ pool'[x] = pool[x]
        BY <3>2, <2>1, <1>0, <1>1 DEF Keys!TypeOK
      <4> QED BY <4>1, <1>0, <1>3, <2>4, Elsewise
    <3> QED BY <3>1, <3>2
  <2>14. Spent(r, n)'
    BY <2>5 DEF Spent
  <2>15. ASSUME NEW i \in Instances PROVE Delivers(i)
    <3>1. ASSUME NEW q \in Senders, NEW x \in Roles, Keys!InFlight(q, i, x)
          PROVE  \/ Keys!InFlight(q, i, x)' /\ ticket'[q] = ticket[q]
                 \/ \A y \in Keys!Asks, e \in Keys!Nonces : (ticket[q].ask = y /\ ticket[q].delta = e) =>
                      answer[x][y] # None /\ Spent(x, answer[x][y] + e)'
      <4>1. CASE q # p
        BY <4>1, <3>1, <1>0, <1>1, <1>2 DEF Keys!InFlight, Keys!TypeOK
      <4>2. CASE q = p
        <5>1. x = r
          BY <4>2, <3>1, <1>4 DEF Keys!InFlight
        <5>2. ASSUME NEW y \in Keys!Asks, NEW e \in Keys!Nonces, ticket[q].ask = y, ticket[q].delta = e
              PROVE  answer[x][y] # None /\ Spent(x, answer[x][y] + e)'
          <6>1. y = k /\ e = d
            BY <5>2, <4>2, <1>6, <1>7
          <6>2. answer[r][k] + d = n /\ answer'[r][k] = answer[r][k]
            BY <1>9, <1>1
          <6> QED BY <5>1, <6>1, <6>2, <2>14, <1>8 DEF Spent
        <5> QED BY <5>2
      <4> QED BY <4>1, <4>2
    <3> QED BY <3>1, <1>1 DEF Delivers
  <2> QED BY <2>4, <2>13, <2>15, <1>1, <1>3, Flow
<1> QED BY <1>10, <1>11

LEMMA KeySubmitStep ==
  ASSUME KeysAssumed, SignInv, NEW p \in Senders, NEW r \in Roles, Keys!Submit(p, r) PROVE SignInv'
<1> DEFINE i == Home[p]
           c == cache[i][r]
           new == c.ask = 0
           k == IF new THEN asked[r] + 1 ELSE c.ask
           d == c.delta
<1>0. /\ Keys!TypeOK /\ i \in Instances /\ MaxSends \in Nat /\ sends \in Nat /\ asked[r] \in Nat
      /\ c.ask \in Nat /\ d \in Keys!Nonces /\ d \in Nat /\ KeyAt(r) /\ Answered(r) /\ CacheAt(i, r)
      /\ c \in [ask : Keys!Nonces, delta : Keys!Nonces]
  BY DEF SignInv, KeysAssumed, Keys!TypeOK, Keys!Nonces
<1>1. /\ sendPc[p] = "idle" /\ sends < MaxSends /\ sends' = sends + 1
      /\ role' = [role EXCEPT ![p] = r] /\ sendPc' = [sendPc EXCEPT ![p] = "populate"]
      /\ UNCHANGED <<mined, pool, answer>>
  BY DEF Keys!Submit, Keys!At, Keys!Goto, Keys!chain
<1>2. asked' = IF new THEN [asked EXCEPT ![r] = @ + 1] ELSE asked
  BY DEF Keys!Submit
<1>3. ticket' = [ticket EXCEPT ![p] = [ask |-> k, delta |-> d]]
  BY DEF Keys!Submit
<1>4. cache' = [cache EXCEPT ![i][r] = [ask |-> k, delta |-> d + 1]]
  <2>1. cache' = [cache EXCEPT ![i][r] = [[ask |-> k, delta |-> d] EXCEPT !.delta = @ + 1]]
    BY DEF Keys!Submit
  <2>2. [[ask |-> k, delta |-> d] EXCEPT !.delta = @ + 1] = [ask |-> k, delta |-> d + 1]
    OBVIOUS
  <2> HIDE DEF k, d
  <2> QED BY <2>1, <2>2
<1>5. k \in Keys!Asks /\ k =< asked'[r] /\ asked[r] =< asked'[r] /\ asked'[r] \in Keys!Nonces
  <2>1. asked[r] =< sends
    BY <1>0 DEF KeyAt
  <2>2. CASE new
    <3>1. asked'[r] = asked[r] + 1 /\ k = asked[r] + 1
      BY <2>2, <1>0, <1>2 DEF Keys!TypeOK
    <3> QED BY <3>1, <2>1, <1>0, <1>1 DEF Keys!Asks, Keys!Nonces
  <2>3. CASE ~new
    <3>1. asked'[r] = asked[r] /\ k = c.ask /\ k \in Keys!Asks
      BY <2>3, <1>0, <1>2 DEF Keys!Asks, Keys!Nonces
    <3>2. k =< asked[r]
      BY <2>3, <3>1, <1>0 DEF CacheAt
    <3> QED BY <3>1, <3>2, <1>0 DEF Keys!TypeOK
  <2> QED BY <2>2, <2>3
<1>6. Room(r, k, d)
  <2>1. CASE new
    <3>1. d = 0
      BY <2>1, <1>0 DEF CacheAt
    <3>2. answer[r][k] = None
      BY <2>1, <1>0, <1>5 DEF Answered
    <3>3. /\ Cardinality(Elsewhere(r, k)) =< Cardinality(Busy(r)) /\ Cardinality(Elsewhere(r, k)) \in Nat
          /\ Cardinality(Busy(r)) \in Nat /\ mined[r] \in Nat /\ Cardinality(pool[r]) \in Nat
      BY <1>0, Loads
    <3>4. mined[r] + Cardinality(pool[r]) + Cardinality(Elsewhere(r, k)) + 0 =< sends
      BY <3>3, <1>0 DEF KeyAt
    <3> QED BY <3>1, <3>2, <3>4 DEF Room
  <2>2. CASE ~new
    <3>1. k = cache[i][r].ask /\ d = cache[i][r].delta
      BY <2>2
    <3>2. \A y \in Keys!Asks, e \in Keys!Nonces :
            (cache[i][r].ask = y /\ cache[i][r].delta = e) => Room(r, y, e)
      BY <1>0 DEF CacheAt
    <3> HIDE DEF k, d
    <3> QED BY <3>1, <3>2, <1>0, <1>5
  <2> QED BY <2>1, <2>2
<1>7. ~new => \A e \in Keys!Nonces : e < d => Covered(i, r, k, e)
  BY <1>0, <1>5 DEF CacheAt
<1>8. new => d = 0
  BY <1>0 DEF CacheAt
<1> HIDE DEF k, d, new, c
<1>9. d + 1 \in Keys!Nonces
  <2>1. d =< sends
    <3>1. CASE answer[r][k] = None
      <4>1. mined[r] \in Nat /\ Cardinality(pool[r]) \in Nat /\ Cardinality(Elsewhere(r, k)) \in Nat
        BY <1>0, Loads
      <4>2. mined[r] + Cardinality(pool[r]) + Cardinality(Elsewhere(r, k)) + d =< sends
        BY <3>1, <1>6 DEF Room
      <4> QED BY <4>1, <4>2, <1>0
    <3>2. CASE answer[r][k] # None
      <4>1. answer[r][k] \in Nat /\ answer[r][k] + d =< sends
        BY <3>2, <1>5, <1>6, <1>0 DEF Room, Keys!TypeOK, Keys!Nonces
      <4> QED BY <4>1, <1>0
    <3> QED BY <3>1, <3>2
  <2> QED BY <2>1, <1>0, <1>1 DEF Keys!Nonces
<1>10. k \in Keys!Nonces /\ k # 0
  BY <1>5, <1>0 DEF Keys!Asks, Keys!Nonces
<1>11. Keys!TypeOK'
  <2>1. asked' \in [Roles -> Keys!Nonces]
    BY <1>0, <1>2, <1>5 DEF Keys!TypeOK
  <2>2. [ask |-> k, delta |-> d + 1] \in [ask : Keys!Nonces, delta : Keys!Nonces]
        /\ [ask |-> k, delta |-> d] \in [ask : Keys!Nonces, delta : Keys!Nonces]
    BY <1>9, <1>10, <1>0
  <2>3. cache' \in [Instances -> [Roles -> [ask : Keys!Nonces, delta : Keys!Nonces]]]
    BY <2>2, <1>4, <1>0 DEF Keys!TypeOK
  <2>4. ticket' \in [Senders -> [ask : Keys!Nonces, delta : Keys!Nonces]]
    BY <2>2, <1>3, <1>0 DEF Keys!TypeOK
  <2>5. sends' \in Keys!Nonces
    BY <1>0, <1>1 DEF Keys!Nonces
  <2> QED BY <2>1, <2>3, <2>4, <2>5, <1>0, <1>1 DEF Keys!TypeOK, Keys!Pcs
<1>12. /\ sendPc'[p] = "populate" /\ role'[p] = r /\ ticket'[p] = [ask |-> k, delta |-> d]
       /\ \A q \in Senders \ {p} : sendPc'[q] = sendPc[q] /\ role'[q] = role[q] /\ ticket'[q] = ticket[q]
  BY <1>0, <1>1, <1>3 DEF Keys!TypeOK
<1>13. Busy(r)' = Busy(r) \cup {p} /\ p \notin Busy(r)
  BY <1>1, <1>12 DEF Busy
<1>14. \A x \in Roles \ {r} : Busy(x)' = Busy(x)
  BY <1>1, <1>12 DEF Busy
<1>15. ASSUME NEW x \in Roles, NEW y
       PROVE  /\ Elsewhere(x, y)' = Elsewhere(x, y) \/ Elsewhere(x, y)' = Elsewhere(x, y) \cup {p}
              /\ x = r /\ y = k => Elsewhere(x, y)' = Elsewhere(x, y)
  <2>1. CASE x = r
    BY <2>1, <1>12, <1>13 DEF Elsewhere, Busy
  <2>2. CASE x # r
    BY <2>2, <1>1, <1>12, <1>14 DEF Elsewhere, Busy
  <2> QED BY <2>1, <2>2
<1>16. ASSUME NEW x \in Roles, NEW y \in Keys!Asks
       PROVE  /\ Load(x, y)' =< Load(x, y) + 1 /\ Load(x, y)' \in Nat
              /\ x = r /\ y = k => Load(x, y)' =< Load(x, y)
  <2>1. /\ mined[x] \in Nat /\ Cardinality(pool[x]) \in Nat
        /\ IsFiniteSet(Elsewhere(x, y)) /\ Cardinality(Elsewhere(x, y)) \in Nat
    BY <1>0, Loads
  <2>2. CASE Elsewhere(x, y)' = Elsewhere(x, y)
    BY <2>1, <2>2, <1>1 DEF Load
  <2>3. CASE Elsewhere(x, y)' = Elsewhere(x, y) \cup {p} /\ ~(x = r /\ y = k)
    <3>1. Cardinality(Elsewhere(x, y) \cup {p}) =< Cardinality(Elsewhere(x, y)) + 1
          /\ Cardinality(Elsewhere(x, y) \cup {p}) \in Nat
      <4>1. Cardinality(Elsewhere(x, y) \cup {p}) =
              IF p \in Elsewhere(x, y) THEN Cardinality(Elsewhere(x, y)) ELSE Cardinality(Elsewhere(x, y)) + 1
        BY <2>1, FS_AddElement
      <4> QED BY <4>1, <2>1
    <3> QED BY <2>1, <2>3, <3>1, <1>1 DEF Load
  <2> QED BY <1>15, <2>2, <2>3
<1>17. ASSUME NEW x \in Roles, NEW y \in Keys!Asks, NEW m \in Nat, Room(x, y, m) PROVE Room(x, y, m)'
  <2>1. 0 \in Nat /\ sends' >= sends + 0 /\ answer'[x][y] = answer[x][y] /\ m + 0 = m
    BY <1>0, <1>1
  <2>2. Load(x, y) \in Nat
    BY <1>0, Loads
  <2>3. Load(x, y)' =< Load(x, y) + (sends' - sends - 0) /\ Load(x, y)' \in Nat
    BY <1>16, <2>2, <1>0, <1>1
  <2>4. Room(x, y, m + 0)'
    BY <1>0, <1>11, <1>17, <2>1, <2>3, RoomStays
  <2> QED BY <2>1, <2>4
<1>18. ASSUME NEW y \in Keys!Asks, y = k, NEW m \in Keys!Nonces, m = d PROVE Room(r, y, m + 1)'
  <2>1. 1 \in Nat /\ sends' >= sends + 1 /\ answer'[r][y] = answer[r][y] /\ m \in Nat
    BY <1>0, <1>1, <1>18
  <2>2. Load(r, y) \in Nat
    BY <1>0, Loads
  <2>3. Load(r, y)' =< Load(r, y) + (sends' - sends - 1) /\ Load(r, y)' \in Nat
    BY <1>16, <1>18, <2>2, <1>0, <1>1
  <2>4. Room(r, y, m)
    BY <1>6, <1>18
  <2> QED BY <1>0, <1>11, <2>1, <2>3, <2>4, RoomStays
<1>19. ASSUME NEW q \in Senders PROVE SenderAt(q)'
  <2>1. SenderAt(q)
    BY DEF SignInv
  <2>2. CASE q = p
    <3>1. ticket'[q].ask \in 1..asked'[role'[q]] /\ role'[q] \in Roles
      BY <2>2, <1>12, <1>5, <1>10 DEF Keys!Nonces, Keys!Asks
    <3>2. ASSUME NEW x \in Roles, NEW y \in Keys!Asks, NEW m \in Keys!Nonces,
                 role'[q] = x, ticket'[q].ask = y, ticket'[q].delta = m
          PROVE  Room(x, y, m + 1)'
      <4>1. x = r /\ y = k /\ m = d
        BY <2>2, <3>2, <1>12
      <4> QED BY <4>1, <1>18
    <3> QED BY <3>1, <3>2 DEF SenderAt
  <2>3. CASE q # p
    <3>1. sendPc'[q] = sendPc[q] /\ role'[q] = role[q] /\ ticket'[q] = ticket[q]
      BY <2>3, <1>12
    <3>2. \A x \in Roles : asked[x] =< asked'[x] /\ asked[x] \in Nat /\ asked'[x] \in Nat
      BY <1>0, <1>2, <1>5 DEF Keys!TypeOK, Keys!Nonces
    <3>3. sendPc'[q] # "idle" => role'[q] \in Roles /\ ticket'[q].ask \in 1..asked'[role'[q]]
      BY <2>1, <3>1, <3>2 DEF SenderAt
    <3>4. ASSUME NEW x \in Roles, NEW y \in Keys!Asks, NEW m \in Keys!Nonces,
                 sendPc'[q] \in {"populate", "send"}, role'[q] = x, ticket'[q].ask = y, ticket'[q].delta = m
          PROVE  Room(x, y, m + 1)'
      <4>1. Room(x, y, m + 1) /\ m + 1 \in Nat
        BY <2>1, <3>1, <3>4 DEF SenderAt, Keys!Nonces
      <4> QED BY <4>1, <1>17
    <3> QED BY <3>3, <3>4 DEF SenderAt
  <2> QED BY <2>2, <2>3
<1>20. ASSUME NEW x \in Roles PROVE KeyAt(x)'
  <2>1. KeyAt(x)
    BY DEF SignInv
  <2>2. /\ mined[x] \in Nat /\ Cardinality(pool[x]) \in Nat
        /\ IsFiniteSet(Busy(x)) /\ Cardinality(Busy(x)) \in Nat
    BY <1>0, Loads
  <2>3. Cardinality(Busy(x)') =< Cardinality(Busy(x)) + 1 /\ Cardinality(Busy(x)') \in Nat
    <3>1. CASE x = r
      <4>1. Cardinality(Busy(r) \cup {p}) = Cardinality(Busy(r)) + 1
        BY <2>2, <3>1, <1>13, FS_AddElement
      <4> QED BY <4>1, <3>1, <1>13, <2>2
    <3>2. CASE x # r
      BY <3>2, <1>14, <2>2
    <3> QED BY <3>1, <3>2
  <2>4. mined'[x] + Cardinality(pool'[x]) + Cardinality(Busy(x)') =< sends'
    BY <2>1, <2>2, <2>3, <1>0, <1>1 DEF KeyAt
  <2>5. asked'[x] =< sends'
    <3>1. asked[x] \in Nat /\ asked'[x] =< asked[x] + 1 /\ asked'[x] \in Nat
      BY <1>0, <1>2 DEF Keys!TypeOK, Keys!Nonces
    <3> QED BY <3>1, <2>1, <1>0, <1>1 DEF KeyAt
  <2> QED BY <2>4, <2>5 DEF KeyAt
<1>21. ASSUME NEW x \in Roles PROVE Answered(x)'
  <2>1. Answered(x) /\ asked[x] \in Nat /\ asked[x] =< asked'[x] /\ asked'[x] \in Nat
    BY <1>0, <1>2, <1>5 DEF SignInv, Keys!TypeOK, Keys!Nonces
  <2> QED BY <2>1, <1>1, <1>0 DEF Answered, Spent, Keys!Asks
<1>22. ASSUME NEW j \in Instances, NEW x \in Roles, NEW y, NEW e, Covered(j, x, y, e) PROVE Covered(j, x, y, e)'
  <2>1. CASE answer[x][y] # None /\ Spent(x, answer[x][y] + e)
    BY <2>1, <1>1 DEF Covered, Spent
  <2>2. ASSUME NEW q \in Senders, Keys!InFlight(q, j, x), ticket[q].ask = y, ticket[q].delta = e
        PROVE  Covered(j, x, y, e)'
    <3>1. q # p
      BY <2>2, <1>1 DEF Keys!InFlight
    <3>2. Keys!InFlight(q, j, x)' /\ ticket'[q] = ticket[q]
      BY <3>1, <2>2, <1>12 DEF Keys!InFlight
    <3> QED BY <3>2, <2>2 DEF Covered
  <2> QED BY <1>22, <2>1, <2>2 DEF Covered
<1>23. ASSUME NEW j \in Instances, NEW x \in Roles PROVE CacheAt(j, x)'
  <2>1. CacheAt(j, x) /\ asked[x] \in Nat /\ asked'[x] \in Nat /\ asked[x] =< asked'[x]
    BY <1>0, <1>2, <1>5 DEF SignInv, Keys!TypeOK, Keys!Nonces
  <2>2. CASE j = i /\ x = r
    <3>1. cache'[j][x] = [ask |-> k, delta |-> d + 1]
      BY <2>2, <1>0, <1>4 DEF Keys!TypeOK
    <3>2. ASSUME NEW y \in Keys!Asks, NEW m \in Keys!Nonces, cache'[j][x].ask = y, cache'[j][x].delta = m
          PROVE  y =< asked'[x] /\ Room(x, y, m)' /\ \A e \in Keys!Nonces : e < m => Covered(j, x, y, e)'
      <4>1. y = k /\ m = d + 1
        BY <3>1, <3>2
      <4>2. Room(r, y, m)'
        <5>1. PICK z \in Keys!Nonces : z = d
          BY <1>0
        <5>2. Room(r, y, z + 1)'
          BY <4>1, <5>1, <1>18
        <5>3. z + 1 = m
          BY <4>1, <5>1
        <5> QED BY <5>2, <5>3
      <4>3. ASSUME NEW e \in Keys!Nonces, e < m PROVE Covered(j, x, y, e)'
        <5>1. CASE e = d
          <6>1. Keys!InFlight(p, j, x)' /\ ticket'[p].ask = y /\ ticket'[p].delta = e
            BY <5>1, <4>1, <2>2, <1>12 DEF Keys!InFlight
          <6> QED BY <6>1 DEF Covered
        <5>2. CASE e # d
          <6>1. e < d /\ ~new
            BY <5>2, <4>1, <4>3, <1>0, <1>8 DEF Keys!Nonces
          <6>2. Covered(j, x, y, e)
            BY <6>1, <4>1, <2>2, <1>7
          <6> QED BY <6>2, <1>22
        <5> QED BY <5>1, <5>2
      <4> QED BY <4>1, <4>2, <4>3, <2>2, <1>5
    <3> QED BY <3>1, <3>2, <1>10 DEF CacheAt
  <2>3. CASE ~(j = i /\ x = r)
    <3>1. cache'[j][x] = cache[j][x]
      BY <2>3, <1>0, <1>4 DEF Keys!TypeOK
    <3>2. ASSUME NEW y \in Keys!Asks, NEW m \in Keys!Nonces, cache[j][x].ask = y, cache[j][x].delta = m
          PROVE  y =< asked'[x] /\ Room(x, y, m)' /\ \A e \in Keys!Nonces : e < m => Covered(j, x, y, e)'
      <4>1. y =< asked[x] /\ Room(x, y, m) /\ \A e \in Keys!Nonces : e < m => Covered(j, x, y, e)
        BY <2>1, <3>2 DEF CacheAt
      <4>2. Room(x, y, m)'
        BY <4>1, <1>17 DEF Keys!Nonces
      <4>3. y =< asked'[x]
        BY <4>1, <2>1 DEF Keys!Asks
      <4> QED BY <4>1, <4>2, <4>3, <1>22
    <3> QED BY <2>1, <3>1, <3>2 DEF CacheAt
  <2> QED BY <2>2, <2>3
<1> QED BY <1>11, <1>19, <1>20, <1>21, <1>23 DEF SignInv

LEMMA KeysNext == ASSUME KeysAssumed, SignInv, [Keys!Next]_(Keys!vars) PROVE SignInv'
<1>1. CASE UNCHANGED Keys!vars
  <2>1. UNCHANGED <<mined, pool, asked, answer, cache, sendPc, role, ticket, sends>>
    BY <1>1 DEF Keys!vars, Keys!chain
  <2>2. Keys!TypeOK'
    BY <2>1 DEF SignInv, Keys!TypeOK
  <2>3. (\A p \in Senders : Resumes(p)) /\ \A i \in Instances : Keeps(i)
    BY <2>1 DEF Resumes, Keeps, Keys!InFlight
  <2> QED BY <2>1, <2>2, <2>3, Calm
<1>2. CASE Keys!Next
  <2>1. CASE \E p \in Senders : \E r \in Roles : Keys!Submit(p, r)
    BY <2>1, KeySubmitStep
  <2>2. CASE \E p \in Senders : Keys!Populate(p) \/ Keys!Broadcast(p) \/ Keys!Caught(p) \/ Keys!Wait(p)
    BY <2>2, PopulateStep, KeyBroadcastStep, CaughtStep, WaitedStep
  <2>3. CASE \E r \in Roles : Keys!Answer(r) \/ Keys!Mine(r)
    BY <2>3, AnswerStep, MineStep
  <2>4. CASE \E i \in Instances : Keys!Restart(i)
    BY <2>4, RestartStep
  <2> QED BY <1>2, <2>1, <2>2, <2>3, <2>4 DEF Keys!Next
<1> QED BY <1>1, <1>2

LEMMA KeysAlways == Keys!Spec => []SignInv
<1>1. Keys!Init => SignInv
  BY KeysInit, BackOfficeAssumption
<1>2. SignInv /\ [Keys!Next]_(Keys!vars) => SignInv'
  BY KeysNext, BackOfficeAssumption
<1> QED BY <1>1, <1>2, PTL DEF Keys!Spec

\* One revert does not wedge what follows (tx.service.ts): when the sends of an
\* instance have ended, what its manager hands out next is not behind a gap.
THEOREM SendsNeverWedge == Keys!Spec => []NeverWedged
<1>0. KeysAssumed
  BY BackOfficeAssumption
<1> USE <1>0
<1>1. SignInv => NeverWedged
  <2> SUFFICES ASSUME SignInv, NEW i \in Instances, NEW r \in Roles, cache[i][r].ask # 0,
                      answer[r][cache[i][r].ask] # None, ~\E p \in Senders : Keys!InFlight(p, i, r)
               PROVE  answer[r][cache[i][r].ask] + cache[i][r].delta =< Keys!NextNonce(r)
    BY DEF NeverWedged, Keys!NeverWedged
  <2>1. Keys!TypeOK /\ KeyAt(r) /\ Answered(r) /\ CacheAt(i, r)
        /\ cache[i][r] \in [ask : Keys!Nonces, delta : Keys!Nonces]
    BY DEF SignInv, Keys!TypeOK
  <2>2. PICK k \in Keys!Asks : k = cache[i][r].ask
    BY <2>1 DEF Keys!Asks, Keys!Nonces, KeysAssumed
  <2>3. PICK d \in Keys!Nonces : d = cache[i][r].delta
    BY <2>1
  <2>4. PICK a \in Keys!Nonces : a = answer[r][k]
    BY <2>1, <2>2 DEF Keys!TypeOK
  <2>5. mined[r] + Cardinality(pool[r]) =< MaxSends
    <3>1. mined[r] \in Nat /\ Cardinality(pool[r]) \in Nat /\ Cardinality(Busy(r)) \in Nat
      BY <2>1, Loads
    <3> QED BY <3>1, <2>1 DEF KeyAt, Keys!TypeOK, Keys!Nonces, KeysAssumed
  <2> DEFINE n == Keys!NextNonce(r)
  <2>6. n \in Keys!Nonces /\ ~Spent(r, n)
    BY <2>1, <2>5, NonceWaited
  <2> HIDE DEF n
  <2>7. \A m \in Keys!Nonces : m < a => Spent(r, m)
    BY <2>1, <2>2, <2>4 DEF Answered
  <2>8. \A e \in Keys!Nonces : e < d => Spent(r, a + e)
    BY <2>1, <2>2, <2>3, <2>4 DEF CacheAt, Covered
  <2>9. ASSUME n < a + d PROVE FALSE
    <3>1. n \in Nat /\ a \in Nat /\ d \in Nat /\ MaxSends \in Nat /\ n =< MaxSends /\ d =< MaxSends
      BY <2>3, <2>4, <2>6 DEF Keys!Nonces, KeysAssumed
    <3>2. CASE n < a
      BY <3>2, <2>6, <2>7
    <3>3. CASE n >= a
      <4>1. PICK e \in Nat : n = a + e
        BY <3>1, <3>3
      <4>2. e \in Keys!Nonces /\ e < d
        BY <4>1, <3>1, <2>9 DEF Keys!Nonces
      <4> QED BY <4>1, <4>2, <2>6, <2>8
    <3> QED BY <3>1, <3>2, <3>3
  <2>10. a + d =< n
    <3>1. a \in Nat /\ d \in Nat /\ n \in Nat
      BY <2>3, <2>4, <2>6 DEF Keys!Nonces
    <3> QED BY <3>1, <2>9
  <2> QED BY <2>10, <2>2, <2>3, <2>4 DEF n
<1> QED BY <1>1, KeysAlways, PTL

-----------------------------------------------------------------------------
(* The offerings and their tokens: the specification of the instance is the *)
(* one that DeploymentProofs is about.                                      *)

Listed == INSTANCE DeploymentProofs WITH
  Procs <- DeployProcs, CrashPoints <- DeployCrashPoints, MaxCalls <- MaxDeployCalls,
  status <- listing, pc <- deployPc, calls <- tries

LEMMA DeployInit == Deploy!Init => Listed!Init
  BY DEF Deploy!Init, Listed!Init, Deploy!Issuers, Listed!Issuers

LEMMA DeployCalls ==
  ASSUME NEW p \in DeployProcs, Deploy!Call(p)
  PROVE  Listed!Call(p)
  BY DEF Deploy!Call, Listed!Call, Deploy!Create, Listed!Create, Deploy!SetStatus, Listed!SetStatus,
     Deploy!Remove, Listed!Remove, Deploy!DeployToken, Listed!DeployToken, Deploy!MayBecome, Listed!MayBecome,
     Deploy!Statuses, Listed!Statuses, Deploy!MayList, Listed!MayList, Deploy!Begin, Listed!Begin, Deploy!chain,
     Listed!chain, Deploy!records, Listed!records, Deploy!history, Listed!history, Deploy!At, Listed!At,
     Deploy!Goto, Listed!Goto

LEMMA DeployAdvances ==
  ASSUME NEW p \in DeployProcs, Deploy!Advance(p)
  PROVE  Listed!Advance(p)
<1>1. /\ Deploy!CheckExists(p) => Listed!CheckExists(p)
      /\ Deploy!WriteStatus(p) => Listed!WriteStatus(p)
      /\ Deploy!DeleteOffering(p) => Listed!DeleteOffering(p)
  BY DEF Deploy!CheckExists, Listed!CheckExists, Deploy!WriteStatus, Listed!WriteStatus, Deploy!DeleteOffering,
     Listed!DeleteOffering, Deploy!Update, Listed!Update, Deploy!Removable, Listed!Removable, Deploy!At,
     Listed!At, Deploy!Continue, Listed!Continue, Deploy!Finish, Listed!Finish, Deploy!chain, Listed!chain,
     Deploy!records, Listed!records, Deploy!history, Listed!history, Deploy!Goto, Listed!Goto
<1>2. /\ Deploy!TokenSymbolInUse(p) => Listed!TokenSymbolInUse(p)
      /\ Deploy!CheckKyb(p) => Listed!CheckKyb(p)
      /\ Deploy!GetToken(p) => Listed!GetToken(p)
      /\ Deploy!Adopt(p) => Listed!Adopt(p)
  BY DEF Deploy!TokenSymbolInUse, Listed!TokenSymbolInUse, Deploy!CheckKyb, Listed!CheckKyb, Deploy!GetToken,
     Listed!GetToken, Deploy!Adopt, Listed!Adopt, Deploy!Orphan, Listed!Orphan, Deploy!Unrecorded,
     Listed!Unrecorded, Deploy!MayAdopt, Listed!MayAdopt, Deploy!At, Listed!At, Deploy!Continue, Listed!Continue,
     Deploy!Finish, Listed!Finish, Deploy!Mine, Listed!Mine, Deploy!chain, Listed!chain, Deploy!records,
     Listed!records, Deploy!MayList, Listed!MayList, Deploy!history, Listed!history, Deploy!Goto, Listed!Goto
<1>3. /\ Deploy!DeploySuite(p) => Listed!DeploySuite(p)
      /\ Deploy!UnpauseIfNeeded(p) => Listed!UnpauseIfNeeded(p)
      /\ Deploy!RecordToken(p) => Listed!RecordToken(p)
      /\ Deploy!SetTokenSymbol(p) => Listed!SetTokenSymbol(p)
  BY DEF Deploy!DeploySuite, Listed!DeploySuite, Deploy!UnpauseIfNeeded, Listed!UnpauseIfNeeded,
     Deploy!RecordToken, Listed!RecordToken, Deploy!SetTokenSymbol, Listed!SetTokenSymbol, Deploy!Unpause,
     Listed!Unpause, Deploy!Update, Listed!Update, Deploy!OpenPlanned, Listed!OpenPlanned, Deploy!At, Listed!At,
     Deploy!Mine, Listed!Mine, Deploy!Continue, Listed!Continue, Deploy!Finish, Listed!Finish, Deploy!chain,
     Listed!chain, Deploy!records, Listed!records, Deploy!history, Listed!history, Deploy!Goto, Listed!Goto
<1>4. /\ Deploy!OpenPlanned(p) => Listed!OpenPlanned(p)
      /\ Deploy!Crash(p) => Listed!Crash(p)
  BY DEF Deploy!OpenPlanned, Listed!OpenPlanned, Deploy!Crash, Listed!Crash, Deploy!Update, Listed!Update,
     Deploy!At, Listed!At, Deploy!Finish, Listed!Finish, Deploy!chain, Listed!chain, Deploy!history,
     Listed!history, Deploy!records, Listed!records, Deploy!Goto, Listed!Goto
<1>5. \A live \in BOOLEAN : Deploy!InsertOffering(p, live) => Listed!InsertOffering(p, live)
  BY DEF Deploy!InsertOffering, Listed!InsertOffering, Deploy!At, Listed!At, Deploy!Finish, Listed!Finish,
     Deploy!chain, Listed!chain, Deploy!history, Listed!history, Deploy!Goto, Listed!Goto
<1> QED BY <1>1, <1>2, <1>3, <1>4, <1>5 DEF Deploy!Advance, Listed!Advance

LEMMA DeployNext == [Deploy!Next]_(Deploy!vars) => [Listed!Next]_(Listed!vars)
<1>1. \A p \in DeployProcs : Deploy!Crash(p) => Listed!Crash(p)
  BY DEF Deploy!Crash, Listed!Crash, Deploy!At, Listed!At, Deploy!Finish, Listed!Finish, Deploy!chain,
     Listed!chain, Deploy!records, Listed!records, Deploy!history, Listed!history, Deploy!Goto, Listed!Goto
<1>2. \A i \in Deploy!Issuers, answered \in {"approved", "rejected"} :
        Deploy!DecideKyb(i, answered) => Listed!DecideKyb(i, answered)
  BY DEF Deploy!DecideKyb, Listed!DecideKyb, Deploy!chain, Listed!chain
<1>3. Deploy!Issuers = Listed!Issuers /\ (UNCHANGED Deploy!vars => UNCHANGED Listed!vars)
  BY DEF Deploy!Issuers, Listed!Issuers, Deploy!vars, Listed!vars, Deploy!chain, Listed!chain, Deploy!records,
     Listed!records, Deploy!local, Listed!local, Deploy!history, Listed!history
<1> QED BY <1>1, <1>2, <1>3, DeployCalls, DeployAdvances DEF Deploy!Next, Listed!Next

LEMMA DeploySpec == Deploy!Spec => Listed!Spec
  BY DeployInit, DeployNext, PTL DEF Deploy!Spec, Listed!Spec

LEMMA DeployNames == Listed!Assumed
  BY BackOfficeAssumption DEF DeployAssumed, Listed!Assumed, Deploy!Issuers, Listed!Issuers

\* An offering is open only with a token, and its token is the issuer's own,
\* alone its, live and kept (offerings.service.ts, token-deployment.service.ts).
THEOREM ListingsAlwaysAgree == Deploy!Spec => ListingsAgree
<1>a. /\ Listed!TokenIsOwn => Deploy!TokenIsOwn
      /\ Listed!ListedIsLive => Deploy!ListedIsLive
      /\ Listed!OpenHasToken => Deploy!OpenHasToken
      /\ Listed!OneListing => Deploy!OneListing
      /\ Listed!ListedWasApproved => Deploy!ListedWasApproved
  BY DEF Listed!TokenIsOwn, Deploy!TokenIsOwn, Listed!ListedIsLive, Deploy!ListedIsLive, Listed!OpenHasToken,
         Deploy!OpenHasToken, Listed!OneListing, Deploy!OneListing, Listed!ListedWasApproved,
         Deploy!ListedWasApproved, Listed!Mine, Deploy!Mine
<1>b. [\A o \in Offerings \ doubled : symbol[o] # NoSymbol => symbol'[o] = symbol[o]]_(Listed!vars) =>
        [\A o \in Offerings \ doubled : symbol[o] # NoSymbol => symbol'[o] = symbol[o]]_(Deploy!vars)
  BY DEF Listed!vars, Deploy!vars, Listed!chain, Deploy!chain, Listed!records, Deploy!records, Listed!local,
         Deploy!local, Listed!history, Deploy!history
<1>1. Listed!ListingsAgree => ListingsAgree
  BY <1>a, <1>b, PTL DEF ListingsAgree, Deploy!ListingsAgree, Listed!ListingsAgree, Deploy!KeepsToken, Listed!KeepsToken
<1>2. Listed!Spec => Listed!ListingsAgree
  BY DeployNames, Listed!ListingsHold
<1> QED BY <1>1, <1>2, DeploySpec, PTL

-----------------------------------------------------------------------------
(* Together. *)

\* Every variable of the five parts has its type, in any run of them together.
THEOREM BackOfficeTyped ==
  (Spec /\ Team!Spec /\ Deploy!Spec /\ Recovery!Spec /\ Keys!Spec) => []AllTyped
<1>1. StaffInv => Team!TypeOK
  BY DEF StaffInv
<1>2. CasesInv => Recovery!TypeOK
  BY DEF CasesInv
<1>3. SignInv => Keys!TypeOK
  BY DEF SignInv
<1>4. Listed!TypeOK => Deploy!TypeOK
  BY DEF Listed!TypeOK, Deploy!TypeOK, Listed!Issuers, Deploy!Issuers, Listed!Statuses, Deploy!Statuses
<1>5. Listed!Spec => []Listed!TypeOK
  BY DeployNames, Listed!DeploymentTyped
<1> QED BY <1>1, <1>2, <1>3, <1>4, <1>5, AlwaysTyped, StaffAlways, CasesAlways, KeysAlways, DeploySpec, PTL DEF AllTyped
=============================================================================
