------------------------------ MODULE Approvals ------------------------------
(***************************************************************************)
(* The maker-checker queue: a sensitive chain write (mint, burn, forced    *)
(* transfer, pause) is submitted, approved by enough admins other than its *)
(* maker, claimed by one approval call, and executed.                      *)
(*                                                                         *)
(* A process p \in Procs is one HTTP call of an admin; every await on the  *)
(* database or the chain ends a step.                                      *)
(***************************************************************************)
EXTENDS Integers, FiniteSets

CONSTANTS
  Admins,     \* admins of one issuer
  NoAdmin,
  Entitled,   \* Entitled[r]: the admins whose role satisfies r's action
  Requests,   \* operations admins ask for
  NoRequest,
  Procs,      \* calls being served
  Thresholds, \* the thresholds configured for the actions
  Faults,     \* what may fail
  CrashPoints, \* the calls a process may die before
  MaxWrites   \* bound: chain writes per operation

ASSUME AdminsAssumption == IsFiniteSet(Admins) /\ NoAdmin \notin Admins
ASSUME EntitledAssumption == Entitled \in [Requests -> SUBSET Admins]
ASSUME NoRequestAssumption == NoRequest \notin Requests
ASSUME ThresholdsAssumption == Thresholds \subseteq Nat
ASSUME MaxWritesAssumption == MaxWrites \in Nat

Statuses == {"none", "pending", "executing", "executed", "failed", "rejected"}
TxStates == {"none", "mempool", "mined", "reverted"}
Writes == 1..MaxWrites

VARIABLES
  status,    \* operation_requests.status; "none" where there is no row
  by,        \* requested_by
  need,      \* approvals_required, the threshold when it was submitted
  approvals, \* operation_approvals: who approved
  chain,     \* the chain writes sent for the operation
  pc,        \* the call a process makes next
  actor,     \* the admin it serves
  req,       \* the operation it is about
  num        \* the chain write it waits for

rowVars == <<status, by, need, approvals>>
procVars == <<actor, req, num>>
vars == <<rowVars, chain, pc, procVars>>

ExecPcs == {"send", "wait", "writeExecuted", "writeFailed"}
Pcs == ExecPcs \cup {"idle", "addApproval", "count", "claim", "writeRejected"}

\* Every variable has its type.
TypeOK ==
  /\ status \in [Requests -> Statuses]
  /\ by \in [Requests -> Admins \cup {NoAdmin}]
  /\ need \in [Requests -> Nat]
  /\ approvals \in [Requests -> SUBSET Admins]
  /\ chain \in [Requests -> [Writes -> TxStates]]
  /\ pc \in [Procs -> Pcs]
  /\ actor \in [Procs -> Admins \cup {NoAdmin}]
  /\ req \in [Procs -> Requests \cup {NoRequest}]
  /\ num \in [Procs -> 0..MaxWrites]

Init ==
  /\ status = [r \in Requests |-> "none"]
  /\ by = [r \in Requests |-> NoAdmin]
  /\ need = [r \in Requests |-> 0]
  /\ approvals = [r \in Requests |-> {}]
  /\ chain = [r \in Requests |-> [n \in Writes |-> "none"]]
  /\ pc = [p \in Procs |-> "idle"]
  /\ actor = [p \in Procs |-> NoAdmin]
  /\ req = [p \in Procs |-> NoRequest]
  /\ num = [p \in Procs |-> 0]

-----------------------------------------------------------------------------
At(p, here) == pc[p] = here
Goto(p, next) == pc' = [pc EXCEPT ![p] = next]

Begin(p, a, r, next) ==
  /\ At(p, "idle") /\ Goto(p, next)
  /\ actor' = [actor EXCEPT ![p] = a]
  /\ req' = [req EXCEPT ![p] = r]
  /\ UNCHANGED num

Finish(p) ==
  /\ Goto(p, "idle")
  /\ actor' = [actor EXCEPT ![p] = NoAdmin]
  /\ req' = [req EXCEPT ![p] = NoRequest]
  /\ num' = [num EXCEPT ![p] = 0]

\* setOutcome, and the claim: the row's status is written.
Put(r, s) == status' = [status EXCEPT ![r] = s] /\ UNCHANGED <<by, need, approvals>>

-----------------------------------------------------------------------------
(* submit *)

\* With threshold 0 there is no row, and the maker's call executes at once.
Submit(p, a, r, n) ==
  /\ by[r] = NoAdmin
  /\ a \in Entitled[r]
  /\ by' = [by EXCEPT ![r] = a]
  /\ need' = [need EXCEPT ![r] = n]
  /\ \/ n = 0 /\ Begin(p, a, r, "send") /\ UNCHANGED status
     \/ n > 0 /\ status' = [status EXCEPT ![r] = "pending"] /\ UNCHANGED <<pc, procVars>>
  /\ UNCHANGED <<approvals, chain>>

-----------------------------------------------------------------------------
(* approve *)

\* Mutant: the maker may approve too.
ApproveOwn(p, a, r) ==
  /\ status[r] = "pending" /\ a \in Entitled[r]
  /\ Begin(p, a, r, "addApproval")
  /\ UNCHANGED <<rowVars, chain>>

\* requirePending, four eyes, role: a call that fails one of them answers an
\* error and changes nothing.
Approve(p, a, r) ==
  /\ status[r] = "pending"
  /\ a # by[r]
  /\ a \in Entitled[r]
  /\ Begin(p, a, r, "addApproval")
  /\ UNCHANGED <<rowVars, chain>>

\* The primary key admits one approval per admin.
AddApproval(p) ==
  /\ At(p, "addApproval")
  /\ \/ actor[p] \in approvals[req[p]] /\ Finish(p) /\ UNCHANGED approvals
     \/ /\ actor[p] \notin approvals[req[p]]
        /\ approvals' = [approvals EXCEPT ![req[p]] = @ \cup {actor[p]}]
        /\ Goto(p, "count")
        /\ UNCHANGED procVars
  /\ UNCHANGED <<status, by, need, chain>>

\* Mutant: the row is executed once the count passes the threshold.
CountPast(p) ==
  /\ At(p, "count")
  /\ \/ Cardinality(approvals[req[p]]) <= need[req[p]] /\ Finish(p)
     \/ Cardinality(approvals[req[p]]) > need[req[p]] /\ Goto(p, "claim") /\ UNCHANGED procVars
  /\ UNCHANGED <<rowVars, chain>>

Count(p) ==
  /\ At(p, "count")
  /\ \/ Cardinality(approvals[req[p]]) < need[req[p]] /\ Finish(p)
     \/ Cardinality(approvals[req[p]]) >= need[req[p]] /\ Goto(p, "claim") /\ UNCHANGED procVars
  /\ UNCHANGED <<rowVars, chain>>

\* Mutant: the claim does not look at the status.
ClaimUnguarded(p) ==
  /\ At(p, "claim") /\ Put(req[p], "executing") /\ Goto(p, "send")
  /\ UNCHANGED <<chain, procVars>>

\* claimForExecution: pending to executing; the loser only answers.
Claim(p) ==
  /\ At(p, "claim")
  /\ \/ status[req[p]] = "pending" /\ Put(req[p], "executing")
        /\ Goto(p, "send") /\ UNCHANGED procVars
     \/ status[req[p]] # "pending" /\ Finish(p) /\ UNCHANGED rowVars
  /\ UNCHANGED chain

-----------------------------------------------------------------------------
(* execute *)

\* The pre-flight checks or the send fail, or the transaction is broadcast and
\* its answer may be lost.
Send(p) ==
  /\ At(p, "send")
  /\ \/ "send" \in Faults /\ Goto(p, "writeFailed") /\ UNCHANGED <<chain, num>>
     \/ \E n \in Writes :
          /\ chain[req[p]][n] = "none"
          /\ chain' = [chain EXCEPT ![req[p]][n] = "mempool"]
          /\ num' = [num EXCEPT ![p] = n]
          /\ \/ Goto(p, "wait")
             \/ "lostReply" \in Faults /\ Goto(p, "writeFailed")
  /\ UNCHANGED <<rowVars, actor, req>>

\* Mutant: any receipt counts as a success.
WaitAny(p) ==
  /\ At(p, "wait") /\ chain[req[p]][num[p]] \in {"mined", "reverted"}
  /\ Goto(p, "writeExecuted")
  /\ UNCHANGED <<rowVars, chain, procVars>>

\* tx.wait() answers with the receipt or throws, and the balance read after it
\* may throw although the write is mined.
Wait(p) ==
  /\ At(p, "wait")
  /\ \/ chain[req[p]][num[p]] = "mined" /\ Goto(p, "writeExecuted")
     \/ chain[req[p]][num[p]] = "reverted" /\ Goto(p, "writeFailed")
     \/ "wait" \in Faults /\ Goto(p, "writeFailed")
  /\ UNCHANGED <<rowVars, chain, procVars>>

\* An update that fails here lands in the catch block.  An operation without a
\* row has no outcome to write.
WriteExecuted(p) ==
  /\ At(p, "writeExecuted")
  /\ \/ need[req[p]] > 0 /\ Put(req[p], "executed") /\ Finish(p)
     \/ need[req[p]] = 0 /\ Finish(p) /\ UNCHANGED rowVars
     \/ "db" \in Faults /\ need[req[p]] > 0 /\ Goto(p, "writeFailed")
        /\ UNCHANGED <<rowVars, procVars>>
  /\ UNCHANGED chain

WriteFailed(p) ==
  /\ At(p, "writeFailed")
  /\ \/ need[req[p]] > 0 /\ Put(req[p], "failed")
     \/ need[req[p]] = 0 /\ UNCHANGED rowVars
     \/ "db" \in Faults /\ need[req[p]] > 0 /\ UNCHANGED rowVars
  /\ Finish(p)
  /\ UNCHANGED chain

-----------------------------------------------------------------------------
(* reject, the chain, and the death of a process *)

Reject(p, a, r) ==
  /\ status[r] = "pending"
  /\ a = by[r] \/ a \in Entitled[r]
  /\ Begin(p, a, r, "writeRejected")
  /\ UNCHANGED <<rowVars, chain>>

\* Mutant: a rejection is written under another name.
WriteCancelled(p) ==
  /\ At(p, "writeRejected") /\ Put(req[p], "cancelled") /\ Finish(p)
  /\ UNCHANGED chain

\* setOutcome, whatever the status is by then.
WriteRejected(p) ==
  /\ At(p, "writeRejected")
  /\ Put(req[p], "rejected")
  /\ Finish(p)
  /\ UNCHANGED chain

Include(r, n) ==
  /\ chain[r][n] = "mempool"
  /\ \E s \in {"mined"} \cup (IF "revert" \in Faults THEN {"reverted"} ELSE {}) :
       chain' = [chain EXCEPT ![r][n] = s]
  /\ UNCHANGED <<rowVars, pc, procVars>>

Crash(p) ==
  /\ pc[p] \in CrashPoints
  /\ Finish(p)
  /\ UNCHANGED <<rowVars, chain>>

-----------------------------------------------------------------------------
Advance(p) == \/ AddApproval(p) \/ Count(p) \/ Claim(p) \/ Send(p) \/ Wait(p)
              \/ WriteExecuted(p) \/ WriteFailed(p) \/ WriteRejected(p)

Call(p) == \E a \in Admins, r \in Requests :
  \/ \E n \in Thresholds : Submit(p, a, r, n)
  \/ Approve(p, a, r)
  \/ Reject(p, a, r)

Next == \/ \E p \in Procs : Advance(p) \/ Call(p) \/ Crash(p)
        \/ \E r \in Requests, n \in Writes : Include(r, n)

Spec == Init /\ [][Next]_vars

\* A call that was accepted goes on; a transaction in the mempool is mined.
Fairness == /\ \A p \in Procs : WF_vars(Advance(p))
            /\ \A r \in Requests, n \in Writes : WF_vars(Include(r, n))
LiveSpec == Spec /\ Fairness

-----------------------------------------------------------------------------
(* Properties. *)

Sent(r) == {n \in Writes : chain[r][n] # "none"}

\* However approvals race, fail, crash and are rejected, one operation is sent
\* to the chain at most once: claimForExecution admits one call, and nothing
\* makes a claimed request pending again.
ExecutedOnce == \A r \in Requests : \A m, n \in Sent(r) : m = n

\* What was sent to the chain had the approvals its threshold asked for, of
\* admins who hold the role and are not its maker.
FourEyes ==
  \A r \in Requests :
    Sent(r) # {} =>
      Cardinality({a \in approvals[r] : a # by[r] /\ a \in Entitled[r]}) >= need[r]

\* A request reads executed only if its write is in a block.
ExecutedIsMined ==
  \A r \in Requests : status[r] = "executed" => \E n \in Writes : chain[r][n] = "mined"

\* A request that has its approvals does not stay pending: of concurrent
\* approvals one counts them all, unless its process dies before the claim.
ThresholdActs ==
  \A r \in Requests :
    status[r] = "pending" /\ Cardinality(approvals[r]) >= need[r] ~> status[r] # "pending"

\* What is executed was approved by others, was sent once, and is on the chain
\* where the request says so.
ExecutionIsSound == ExecutedOnce /\ FourEyes /\ ExecutedIsMined
=============================================================================
