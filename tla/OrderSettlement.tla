--------------------------- MODULE OrderSettlement ---------------------------
(***************************************************************************)
(* The life of an order after its allocation was reserved: paid, then      *)
(* settled (minted) or refunded; the close of an escrowed offering; the    *)
(* sweeper that recovers after a crash.                                    *)
(*                                                                         *)
(* One request handler (or sweeper tick) is a process p \in Procs.  Every  *)
(* await on the database, the payment provider or the chain ends a step,   *)
(* so pc[p] names the call p makes next.  The database updates each row    *)
(* atomically; nothing holds a lock across two steps.                      *)
(***************************************************************************)
EXTENDS Naturals, FiniteSets

CONSTANTS
  Orders,       \* orders of one offering
  Procs,        \* request handlers and sweeper ticks
  NoOrder,      \* no order
  Amount,       \* Amount[o]: the order's amount in paise
  Escrow,       \* TRUE iff the offering has a minimum raise
  MinimumRaise, \* the minimum raise in paise
  CryptoTxs,    \* payment transactions an investor may point at
  Checkout,     \* the payment reference the provider issued
  Requests,     \* the entry points in use
  Faults,       \* what may fail
  CrashPoints,  \* the calls a process may die before
  MaxClaims     \* bound: claims of one order

ASSUME NoOrderAssumption == NoOrder \notin Orders
ASSUME OrdersAssumption == IsFiniteSet(Orders)
ASSUME AmountAssumption == Amount \in [Orders -> Nat] /\ MinimumRaise \in Nat
ASSUME EscrowAssumption == Escrow \in BOOLEAN
ASSUME MaxClaimsAssumption == MaxClaims \in Nat
ASSUME CheckoutAssumption == Checkout \notin CryptoTxs

Statuses == {"pending_payment", "paid", "settling", "settled", "refunding",
             "refunded", "failed", "cancelled", "expired"}
OfferingStatuses == {"open", "coming_soon", "funded", "cancelled"}
Closed == {"funded", "cancelled"}
EventTypes == {"captured", "failed", "refunded"}
MintStates == {"none", "mempool", "mined", "reverted", "dropped"}
Claims == 1..MaxClaims

VARIABLES
  status,    \* subscriptions.status
  txHash,    \* subscriptions.tx_hash: the claim that sent the mint; 0 is NULL
  payRef,    \* subscriptions.payment_ref
  offering,  \* offerings.status
  mint,      \* chain: the mint sent under an order's n-th claim
  captured,  \* provider: the orders whose money it took
  refunds,   \* provider: the claims under which it returned an order's money
  events,    \* provider: webhook events it has for us, and keeps delivering
  ledger,    \* webhook_events: the events claimed
  pc,        \* the call a process makes next
  ord,       \* the order it works on
  num,       \* the claim it holds, or the mint it asks the chain about
  loop,      \* locals of closeOffering and of the sweeper's scan
  claims,    \* history: settlement and refund claims an order was given
  grants     \* history: writes that made an order claimable (paid or failed)

rowVars == <<status, txHash, payRef, offering>>
providerVars == <<captured, refunds, events, ledger>>
histVars == <<claims, grants>>
frame == <<ord, num, loop>>
vars == <<rowVars, mint, providerVars, pc, frame, histVars>>

SettlePcs == {"mint", "persist", "wait", "writeSettled", "writeUnsettled"}
RefundPcs == {"refund", "writeRefunded", "writeUnrefunded"}
Pcs == SettlePcs \cup RefundPcs \cup
  {"idle", "capture", "writePaid", "writeDeclined", "afterPaid",
   "cryptoDup", "writeCrypto", "hookCaptured", "hookFailed", "hookRefunded",
   "writeHookFailed", "writeHookRefunded", "claimSettle", "claimRefund",
   "closeScan", "closeClaim", "closeNext", "expire", "recNext", "recReceipt",
   "recMempool", "recSettled", "recRequeue"}

NoSeen == [o \in Orders |-> 0]
NoLoop == [then |-> "idle", todo |-> {}, met |-> FALSE, closed |-> FALSE,
           seen |-> NoSeen, pay |-> Checkout]
Loops == [then : {"idle", "closeNext", "recNext"}, todo : SUBSET Orders,
          met : BOOLEAN, closed : BOOLEAN, seen : [Orders -> 0..MaxClaims],
          pay : CryptoTxs \cup {Checkout}]

RowsOK ==
  /\ status \in [Orders -> Statuses]
  /\ txHash \in [Orders -> 0..MaxClaims]
  /\ payRef \in [Orders -> CryptoTxs \cup {Checkout}]
  /\ offering \in OfferingStatuses
ProviderOK ==
  /\ captured \in SUBSET Orders
  /\ refunds \in [Orders -> SUBSET Claims]
  /\ events \in SUBSET (Orders \X EventTypes)
  /\ ledger \in SUBSET events
FrameOK ==
  /\ pc \in [Procs -> Pcs]
  /\ ord \in [Procs -> Orders \cup {NoOrder}]
  /\ num \in [Procs -> 0..MaxClaims]
  /\ loop \in [Procs -> Loops]
HistoryOK ==
  /\ claims \in [Orders -> 0..MaxClaims]
  /\ grants \in [Orders -> Nat]
MintOK == mint \in [Orders -> [Claims -> MintStates]]

\* Every variable has its type.
TypeOK == RowsOK /\ MintOK /\ ProviderOK /\ FrameOK /\ HistoryOK

Init ==
  /\ status = [o \in Orders |-> "pending_payment"]
  /\ txHash = NoSeen
  /\ payRef = [o \in Orders |-> Checkout]
  /\ offering = "open"
  /\ mint = [o \in Orders |-> [n \in Claims |-> "none"]]
  /\ captured = {} /\ events = {} /\ ledger = {}
  /\ refunds = [o \in Orders |-> {}]
  /\ pc = [p \in Procs |-> "idle"]
  /\ ord = [p \in Procs |-> NoOrder]
  /\ num = [p \in Procs |-> 0]
  /\ loop = [p \in Procs |-> NoLoop]
  /\ claims = NoSeen
  /\ grants = NoSeen

-----------------------------------------------------------------------------
(* Control of one process, and the unconditional row update. *)

Goto(p, next) == pc' = [pc EXCEPT ![p] = next] /\ UNCHANGED frame

Begin(p, o, next) ==
  /\ pc[p] = "idle"
  /\ pc' = [pc EXCEPT ![p] = next]
  /\ ord' = [ord EXCEPT ![p] = o]
  /\ UNCHANGED <<num, loop>>

\* The handler is over: answered, failed or killed.
Finish(p) ==
  /\ pc' = [pc EXCEPT ![p] = "idle"]
  /\ ord' = [ord EXCEPT ![p] = NoOrder]
  /\ num' = [num EXCEPT ![p] = 0]
  /\ loop' = [loop EXCEPT ![p] = NoLoop]

\* settle() or refundOrder() returns to its caller.
Return(p) ==
  /\ pc' = [pc EXCEPT ![p] = loop[p].then]
  /\ ord' = [ord EXCEPT ![p] = NoOrder]
  /\ num' = [num EXCEPT ![p] = 0]
  /\ loop' = IF loop[p].then = "idle" THEN [loop EXCEPT ![p] = NoLoop] ELSE loop

Claimable == {"paid", "failed"}

\* repo.update: sets the status whatever it was.
Put(o, s) ==
  /\ status' = [status EXCEPT ![o] = s]
  /\ grants' = IF s \in Claimable THEN [grants EXCEPT ![o] = @ + 1] ELSE grants

At(p, here) == pc[p] = here
Fault(f) == f \in Faults

-----------------------------------------------------------------------------
(* pay: the investor's own capture. *)

PayStart(p, o) ==
  /\ "pay" \in Requests
  /\ status[o] = "pending_payment"
  /\ Begin(p, o, "capture")
  /\ UNCHANGED <<rowVars, mint, providerVars, histVars>>

\* Mutant: a declined capture is taken for a success.
CaptureUnchecked(p) ==
  /\ At(p, "capture")
  /\ \/ captured' = captured \cup {ord[p]} /\ events' = events \cup {<<ord[p], "captured">>}
     \/ /\ Fault("decline") /\ ord[p] \notin captured
        /\ events' = events \cup {<<ord[p], "failed">>} /\ UNCHANGED captured
  /\ Goto(p, "writePaid")
  /\ UNCHANGED <<rowVars, mint, refunds, ledger, histVars>>

\* The provider takes the money (again a success if it already had it) or
\* declines; either way it also emits the event of the webhook.
Capture(p) ==
  /\ At(p, "capture")
  /\ \/ /\ captured' = captured \cup {ord[p]}
        /\ events' = events \cup {<<ord[p], "captured">>}
        /\ Goto(p, "writePaid")
     \/ /\ Fault("decline") /\ ord[p] \notin captured
        /\ events' = events \cup {<<ord[p], "failed">>}
        /\ Goto(p, "writeDeclined")
        /\ UNCHANGED captured
  /\ UNCHANGED <<rowVars, mint, refunds, ledger, histVars>>

WritePaid(p) ==
  /\ At(p, "writePaid")
  /\ Put(ord[p], "paid")
  /\ Goto(p, "afterPaid")
  /\ UNCHANGED <<txHash, payRef, offering, mint, providerVars, claims>>

WriteDeclined(p) ==
  /\ pc[p] \in {"writeDeclined", "writeHookFailed"}
  /\ Put(ord[p], "failed")
  /\ Finish(p)
  /\ UNCHANGED <<txHash, payRef, offering, mint, providerVars, claims>>

\* Mutant: every paid order is settled at once, escrowed or not.
AfterPaidSettles(p) ==
  /\ At(p, "afterPaid") /\ Goto(p, "claimSettle")
  /\ UNCHANGED <<rowVars, mint, providerVars, histVars>>

\* Mutant: every paid order waits for a close, though only a raise has one.
AfterPaidWaits(p) ==
  /\ At(p, "afterPaid") /\ Finish(p)
  /\ UNCHANGED <<rowVars, mint, providerVars, histVars>>

\* Escrowed orders wait for the close, or are refunded when it came first.
AfterPaid(p) ==
  /\ At(p, "afterPaid")
  /\ \/ ~Escrow /\ Goto(p, "claimSettle")
     \/ Escrow /\ offering \in Closed /\ Goto(p, "claimRefund")
     \/ Escrow /\ offering \notin Closed /\ Finish(p)
  /\ UNCHANGED <<rowVars, mint, providerVars, histVars>>

-----------------------------------------------------------------------------
(* payWithCrypto: the investor points at a transfer already mined. *)

CryptoStart(p, o, t) ==
  /\ "crypto" \in Requests
  /\ status[o] = "pending_payment"
  /\ At(p, "idle")
  /\ pc' = [pc EXCEPT ![p] = "cryptoDup"]
  /\ ord' = [ord EXCEPT ![p] = o]
  /\ loop' = [loop EXCEPT ![p].pay = t]
  /\ UNCHANGED <<num, rowVars, mint, providerVars, histVars>>

\* byPaymentRef(txHash), then only reads of the chain before the update.
CryptoDup(p) ==
  /\ At(p, "cryptoDup")
  /\ \/ /\ \E o \in Orders \ {ord[p]} : payRef[o] = loop[p].pay
        /\ Finish(p)
     \/ /\ \A o \in Orders \ {ord[p]} : payRef[o] # loop[p].pay
        /\ Goto(p, "writeCrypto")
  /\ UNCHANGED <<rowVars, mint, providerVars, histVars>>

WriteCrypto(p) ==
  /\ At(p, "writeCrypto")
  /\ Put(ord[p], "paid")
  /\ payRef' = [payRef EXCEPT ![ord[p]] = loop[p].pay]
  /\ pc' = [pc EXCEPT ![p] = "afterPaid"]
  /\ loop' = [loop EXCEPT ![p] = NoLoop]
  /\ UNCHANGED <<ord, num, txHash, offering, mint, providerVars, claims>>

-----------------------------------------------------------------------------
(* The payment provider and its webhook. *)

\* The investor pays, is declined, or charges back, on the provider's side.
ProviderEvent(o, type) ==
  /\ "webhook" \in Requests
  /\ \/ type = "captured" /\ captured' = captured \cup {o}
     \/ type = "failed" /\ Fault("decline") /\ o \notin captured /\ UNCHANGED captured
     \/ type = "refunded" /\ Fault("chargeback") /\ o \in captured /\ UNCHANGED captured
  /\ events' = events \cup {<<o, type>>}
  /\ UNCHANGED <<rowVars, mint, refunds, ledger, pc, frame, histVars>>

HookPc == [captured |-> "hookCaptured", failed |-> "hookFailed",
           refunded |-> "hookRefunded"]

\* handlePayment: the event id is claimed first; a replay is acknowledged and
\* dropped.  byPaymentRef no longer finds an order paid in crypto since.
HookClaim(p, o, type) ==
  /\ "webhook" \in Requests
  /\ <<o, type>> \in events \ ledger
  /\ ledger' = ledger \cup {<<o, type>>}
  /\ Begin(p, o, HookPc[type])
  /\ UNCHANGED <<rowVars, mint, captured, refunds, events, histVars>>

\* The row is read; what is written follows in a later step.
HookRead(p) ==
  LET o == ord[p]
      Known == payRef[o] = Checkout
  IN
  /\ \/ At(p, "hookCaptured") /\ Known /\ status[o] = "pending_payment" /\ Goto(p, "writePaid")
     \/ At(p, "hookCaptured") /\ Known /\ status[o] # "pending_payment" /\ Goto(p, "afterPaid")
     \/ At(p, "hookFailed") /\ Known /\ status[o] = "pending_payment" /\ Goto(p, "writeHookFailed")
     \/ At(p, "hookFailed") /\ Known /\ status[o] # "pending_payment" /\ Finish(p)
     \/ At(p, "hookRefunded") /\ Known /\ status[o] \in Claimable /\ Goto(p, "writeHookRefunded")
     \/ At(p, "hookRefunded") /\ Known /\ status[o] \notin Claimable /\ Finish(p)
     \/ pc[p] \in {"hookCaptured", "hookFailed", "hookRefunded"} /\ ~Known /\ Finish(p)
  /\ UNCHANGED <<rowVars, mint, providerVars, histVars>>

WriteHookRefunded(p) ==
  /\ At(p, "writeHookRefunded")
  /\ Put(ord[p], "refunded")
  /\ Finish(p)
  /\ UNCHANGED <<txHash, payRef, offering, mint, providerVars, claims>>

-----------------------------------------------------------------------------
(* settle: claim, mint, persist the hash, wait, record. *)

\* Mutant: the update has no condition on the status it claims from.
TakeUnguarded(p, from, to, next) ==
  LET o == ord[p] IN
  /\ claims[o] < MaxClaims
  /\ status' = [status EXCEPT ![o] = to]
  /\ claims' = [claims EXCEPT ![o] = @ + 1]
  /\ num' = [num EXCEPT ![p] = claims[o] + 1]
  /\ pc' = [pc EXCEPT ![p] = next]
  /\ UNCHANGED <<ord, loop, txHash, payRef, offering, mint, providerVars, grants>>

\* A claim moves the row and hands p the next claim number, or finds the order
\* taken.
Take(p, from, to, next) ==
  LET o == ord[p] IN
  /\ status[o] \in from
  /\ claims[o] < MaxClaims
  /\ status' = [status EXCEPT ![o] = to]
  /\ claims' = [claims EXCEPT ![o] = @ + 1]
  /\ num' = [num EXCEPT ![p] = claims[o] + 1]
  /\ pc' = [pc EXCEPT ![p] = next]
  /\ UNCHANGED <<ord, loop, txHash, payRef, offering, mint, providerVars, grants>>

\* What a caller does once settle() did not settle: closeOffering returns the
\* money, the others are done.
NotSettled(p) ==
  IF loop[p].then = "closeNext"
  THEN /\ pc' = [pc EXCEPT ![p] = "claimRefund"]
       /\ num' = [num EXCEPT ![p] = 0]
       /\ UNCHANGED <<ord, loop>>
  ELSE Return(p)

ClaimSettle(p) ==
  /\ At(p, "claimSettle")
  /\ \/ Take(p, {"paid"}, "settling", "mint")
     \/ /\ status[ord[p]] # "paid"
        /\ NotSettled(p)
        /\ UNCHANGED <<rowVars, mint, providerVars, histVars>>

\* The order is read again, outside the try block: a failure there leaves it
\* settling.  Then TxService.submit: the send fails before the broadcast, is
\* broadcast, or is broadcast and its answer lost.
Mint(p) ==
  /\ At(p, "mint")
  /\ \/ Fault("db") /\ NotSettled(p) /\ UNCHANGED mint
     \/ Fault("send") /\ Goto(p, "writeUnsettled") /\ UNCHANGED mint
     \/ /\ mint' = [mint EXCEPT ![ord[p]][num[p]] = "mempool"]
        /\ \/ Goto(p, "persist")
           \/ Fault("lostReply") /\ Goto(p, "writeUnsettled")
  /\ UNCHANGED <<rowVars, providerVars, histVars>>

\* The onSent hook; its failure is logged and the wait goes on.
Persist(p) ==
  /\ At(p, "persist")
  /\ \/ txHash' = [txHash EXCEPT ![ord[p]] = num[p]]
     \/ Fault("db") /\ UNCHANGED txHash
  /\ Goto(p, "wait")
  /\ UNCHANGED <<status, payRef, offering, mint, providerVars, histVars>>

\* Mutant: the receipt's status is not looked at.
WaitAnyReceipt(p) ==
  LET m == mint[ord[p]][num[p]] IN
  /\ At(p, "wait")
  /\ \/ m \in {"mined", "reverted"} /\ Goto(p, "writeSettled")
     \/ Fault("wait") /\ Goto(p, "writeUnsettled")
  /\ UNCHANGED <<rowVars, mint, providerVars, histVars>>

\* tx.wait() answers with the receipt, or throws.
Wait(p) ==
  LET m == mint[ord[p]][num[p]] IN
  /\ At(p, "wait")
  /\ \/ m = "mined" /\ Goto(p, "writeSettled")
     \/ m = "reverted" /\ Goto(p, "writeUnsettled")
     \/ Fault("wait") /\ Goto(p, "writeUnsettled")
  /\ UNCHANGED <<rowVars, mint, providerVars, histVars>>

\* A failing update lands in the catch block too.
WriteSettled(p) ==
  /\ At(p, "writeSettled")
  /\ \/ /\ Put(ord[p], "settled")
        /\ txHash' = [txHash EXCEPT ![ord[p]] = num[p]]
        /\ Return(p)
     \/ /\ Fault("db")
        /\ Goto(p, "writeUnsettled")
        /\ UNCHANGED <<status, txHash, grants>>
  /\ UNCHANGED <<payRef, offering, mint, providerVars, claims>>

\* When this update fails too, the order stays settling.
WriteUnsettled(p) ==
  /\ At(p, "writeUnsettled")
  /\ \/ Put(ord[p], "paid")
     \/ Fault("db") /\ UNCHANGED <<status, grants>>
  /\ NotSettled(p)
  /\ UNCHANGED <<txHash, payRef, offering, mint, providerVars, claims>>

-----------------------------------------------------------------------------
(* refundOrder: claim, call the provider, record. *)

\* Mutant: a refund may be resumed while another handler is at it.
ClaimRefundAgain(p) ==
  /\ At(p, "claimRefund")
  /\ \/ Take(p, Claimable \cup {"refunding"}, "refunding", "refund")
     \/ /\ status[ord[p]] \notin Claimable /\ Return(p)
        /\ UNCHANGED <<rowVars, mint, providerVars, histVars>>

\* Mutant: a refund may be claimed from any status.
ClaimRefundAny(p) == At(p, "claimRefund") /\ Take(p, Statuses, "refunding", "refund")

ClaimRefund(p) ==
  /\ At(p, "claimRefund")
  /\ \/ Take(p, Claimable, "refunding", "refund")
     \/ /\ status[ord[p]] \notin Claimable
        /\ Return(p)
        /\ UNCHANGED <<rowVars, mint, providerVars, histVars>>

\* The provider returns the money, refuses, or does it and the answer is lost.
Refund(p) ==
  /\ At(p, "refund")
  /\ \/ /\ refunds' = [refunds EXCEPT ![ord[p]] = @ \cup {num[p]}]
        /\ \/ Goto(p, "writeRefunded")
           \/ Fault("lostReply") /\ Goto(p, "writeUnrefunded")
     \/ Fault("refund") /\ Goto(p, "writeUnrefunded") /\ UNCHANGED refunds
  /\ UNCHANGED <<rowVars, mint, captured, events, ledger, histVars>>

WriteRefunded(p) ==
  /\ At(p, "writeRefunded")
  /\ Put(ord[p], "refunded")
  /\ Return(p)
  /\ UNCHANGED <<txHash, payRef, offering, mint, providerVars, claims>>

\* Mutant: a refused refund is recorded as made.
WriteUnrefundedAsRefunded(p) ==
  /\ At(p, "writeUnrefunded") /\ Put(ord[p], "refunded") /\ Return(p)
  /\ UNCHANGED <<txHash, payRef, offering, mint, providerVars, claims>>

WriteUnrefunded(p) ==
  /\ At(p, "writeUnrefunded")
  /\ Put(ord[p], "paid")
  /\ Return(p)
  /\ UNCHANGED <<txHash, payRef, offering, mint, providerVars, claims>>

-----------------------------------------------------------------------------
(* closeOffering: decide once, then settle or refund every paid order. *)

CloseStart(p) ==
  /\ "close" \in Requests
  /\ Escrow
  /\ At(p, "idle")
  /\ pc' = [pc EXCEPT ![p] = "closeScan"]
  /\ loop' = [loop EXCEPT ![p] = [loop[p] EXCEPT !.closed = offering \in Closed,
                                                !.met = offering = "funded"]]
  /\ UNCHANGED <<ord, num, rowVars, mint, providerVars, histVars>>

Escrowed == {o \in Orders : status[o] = "paid"}
\* The paise of S, told apart; counting them adds the amounts up.
Raised(S) == Cardinality(UNION {{o} \X (1..Amount[o]) : o \in S})
Met == Raised(Escrowed) >= MinimumRaise

\* Mutant: unpaid reservations count towards the minimum.
CloseScanReserved(p) ==
  LET Reserved == {o \in Orders : status[o] \in {"paid", "pending_payment"}} IN
  /\ At(p, "closeScan")
  /\ pc' = [pc EXCEPT ![p] = IF loop[p].closed THEN "closeNext" ELSE "closeClaim"]
  /\ loop' = [loop EXCEPT ![p] =
       [loop[p] EXCEPT !.todo = Escrowed, !.then = "closeNext",
                       !.met = IF loop[p].closed THEN loop[p].met
                               ELSE Raised(Reserved) >= MinimumRaise]]
  /\ UNCHANGED <<ord, num, rowVars, mint, providerVars, histVars>>

\* byOfferingStatus('paid'), and the verdict drawn from what it returned.
CloseScan(p) ==
  /\ At(p, "closeScan")
  /\ IF loop[p].closed /\ Escrowed = {}
     THEN Finish(p)
     ELSE /\ pc' = [pc EXCEPT ![p] = IF loop[p].closed THEN "closeNext" ELSE "closeClaim"]
          /\ loop' = [loop EXCEPT ![p] =
               [loop[p] EXCEPT !.todo = Escrowed, !.then = "closeNext",
                               !.met = IF loop[p].closed THEN loop[p].met ELSE Met]]
          /\ UNCHANGED <<ord, num>>
  /\ UNCHANGED <<rowVars, mint, providerVars, histVars>>

Outcome(p) == IF loop[p].met THEN "funded" ELSE "cancelled"

\* Mutant: the offering is closed whoever closed it before.
CloseClaimAlways(p) ==
  /\ At(p, "closeClaim") /\ offering' = Outcome(p) /\ Goto(p, "closeNext")
  /\ UNCHANGED <<status, txHash, payRef, mint, providerVars, histVars>>

\* claimOfferingClosed; the loser answers CLOSE_IN_PROGRESS.
CloseClaim(p) ==
  /\ At(p, "closeClaim")
  /\ \/ offering \notin Closed /\ offering' = Outcome(p) /\ Goto(p, "closeNext")
     \/ offering \in Closed /\ Finish(p) /\ UNCHANGED offering
  /\ UNCHANGED <<status, txHash, payRef, mint, providerVars, histVars>>

CloseNext(p) ==
  /\ At(p, "closeNext")
  /\ \/ loop[p].todo = {} /\ Finish(p)
     \/ \E o \in loop[p].todo :
          /\ pc' = [pc EXCEPT ![p] = IF loop[p].met THEN "claimSettle" ELSE "claimRefund"]
          /\ ord' = [ord EXCEPT ![p] = o]
          /\ loop' = [loop EXCEPT ![p].todo = @ \ {o}]
          /\ UNCHANGED num
  /\ UNCHANGED <<rowVars, mint, providerVars, histVars>>

\* OfferingsService.setStatus: the issuer's own status change, unconditional.
SetStatus(s) ==
  /\ "setStatus" \in Requests
  /\ s \in {"open", "coming_soon", "funded"}
  /\ offering' = s
  /\ UNCHANGED <<status, txHash, payRef, mint, providerVars, pc, frame, histVars>>

-----------------------------------------------------------------------------
(* The sweeper: release stale reservations, then recover stale settlements. *)

SweepPcs == {"expire", "recNext", "recReceipt", "recMempool", "recSettled", "recRequeue"}
Sweeping(p) == pc[p] \in SweepPcs \/ loop[p].then = "recNext"

\* One tick at a time, by the lease; it is not renewed during a tick, so a
\* tick that outlives it may overlap the next.
SweepStart(p) ==
  /\ "sweep" \in Requests
  /\ Fault("leaseLapse") \/ \A q \in Procs : ~Sweeping(q)
  /\ At(p, "idle") /\ Goto(p, "expire")
  /\ UNCHANGED <<rowVars, mint, providerVars, histVars>>

\* expireStaleReservations: each row is tested again by the update, so any
\* order still unpaid may be the next one released.
Expire(p, o) ==
  /\ At(p, "expire")
  /\ status[o] = "pending_payment"
  /\ status' = [status EXCEPT ![o] = "expired"]
  /\ UNCHANGED <<txHash, payRef, offering, mint, providerVars, pc, frame, histVars>>

\* A settlement is stale once its handler died, or waits for a transaction
\* that will never be mined.  Another live one is taken for stale only when it
\* is slower than the ten minutes the scan allows ("slow").
Hung(q) == pc[q] = "wait" /\ mint[ord[q]][num[q]] = "dropped"
Live(o) == \E q \in Procs : pc[q] \in SettlePcs /\ ord[q] = o /\ ~Hung(q)
\* Mutant: an order whose hash was never persisted is not looked at.
StaleHashed(o) == status[o] = "settling" /\ txHash[o] # 0 /\ (Fault("slow") \/ ~Live(o))
Stale(o) == status[o] = "settling" /\ (Fault("slow") \/ ~Live(o))

RecoverScan(p) ==
  /\ At(p, "expire")
  /\ pc' = [pc EXCEPT ![p] = "recNext"]
  /\ loop' = [loop EXCEPT ![p] =
       [loop[p] EXCEPT !.todo = {o \in Orders : Stale(o)}, !.then = "recNext",
                       !.seen = [o \in Orders |-> IF Stale(o) THEN txHash[o] ELSE 0]]]
  /\ UNCHANGED <<ord, num, rowVars, mint, providerVars, histVars>>

RecoverNext(p) ==
  /\ At(p, "recNext")
  /\ \/ loop[p].todo = {} /\ Finish(p)
     \/ \E o \in loop[p].todo :
          /\ pc' = [pc EXCEPT ![p] = IF loop[p].seen[o] = 0 THEN "recRequeue" ELSE "recReceipt"]
          /\ ord' = [ord EXCEPT ![p] = o]
          /\ num' = [num EXCEPT ![p] = loop[p].seen[o]]
          /\ loop' = [loop EXCEPT ![p].todo = @ \ {o}]
  /\ UNCHANGED <<rowVars, mint, providerVars, histVars>>

\* Mutant: an RPC failure counts as a receipt that is not there.
RecoverReceiptGuess(p) ==
  LET m == mint[ord[p]][num[p]] IN
  /\ At(p, "recReceipt")
  /\ \/ m = "mined" /\ Goto(p, "recSettled")
     \/ m = "reverted" /\ Goto(p, "recRequeue")
     \/ m \in {"mempool", "dropped"} /\ Goto(p, "recMempool")
     \/ Fault("rpcReceipt") /\ Goto(p, "recRequeue")
  /\ UNCHANGED <<rowVars, mint, providerVars, histVars>>

\* getTransactionReceipt; an RPC failure leaves the order for the next scan.
RecoverReceipt(p) ==
  LET m == mint[ord[p]][num[p]] IN
  /\ At(p, "recReceipt")
  /\ \/ m = "mined" /\ Goto(p, "recSettled")
     \/ m = "reverted" /\ Goto(p, "recRequeue")
     \/ m \in {"mempool", "dropped"} /\ Goto(p, "recMempool")
     \/ Fault("rpcReceipt") /\ Return(p)
  /\ UNCHANGED <<rowVars, mint, providerVars, histVars>>

\* getTransaction; here an RPC failure falls through to the requeue.
RecoverMempool(p) ==
  /\ At(p, "recMempool")
  /\ \/ mint[ord[p]][num[p]] # "dropped" /\ Return(p)
     \/ mint[ord[p]][num[p]] = "dropped" /\ Goto(p, "recRequeue")
     \/ Fault("rpcTx") /\ Goto(p, "recRequeue")
  /\ UNCHANGED <<rowVars, mint, providerVars, histVars>>

RecoverSettled(p) ==
  /\ At(p, "recSettled")
  /\ Put(ord[p], "settled")
  /\ Return(p)
  /\ UNCHANGED <<txHash, payRef, offering, mint, providerVars, claims>>

\* Mutant: the requeued order gets a status of its own.
RecoverRequeueNamed(p) ==
  /\ At(p, "recRequeue") /\ Put(ord[p], "requeued") /\ Return(p)
  /\ UNCHANGED <<txHash, payRef, offering, mint, providerVars, claims>>

\* A non-escrow order has no close to retry it, so it is settled again here.
RecoverRequeue(p) ==
  /\ At(p, "recRequeue")
  /\ Put(ord[p], "paid")
  /\ IF Escrow
     THEN Return(p)
     ELSE /\ pc' = [pc EXCEPT ![p] = "claimSettle"]
          /\ num' = [num EXCEPT ![p] = 0]
          /\ UNCHANGED <<ord, loop>>
  /\ UNCHANGED <<txHash, payRef, offering, mint, providerVars, claims>>

-----------------------------------------------------------------------------
(* The chain, and the death of a process. *)

Include(o, n) ==
  /\ mint[o][n] = "mempool"
  /\ \E m \in {"mined"} \cup (IF Fault("revert") THEN {"reverted"} ELSE {})
                        \cup (IF Fault("drop") THEN {"dropped"} ELSE {}) :
       mint' = [mint EXCEPT ![o][n] = m]
  /\ UNCHANGED <<rowVars, providerVars, pc, frame, histVars>>

Crash(p) ==
  /\ pc[p] \in CrashPoints
  /\ Finish(p)
  /\ UNCHANGED <<rowVars, mint, providerVars, histVars>>

-----------------------------------------------------------------------------
Settle(p) == \/ ClaimSettle(p) \/ Mint(p) \/ Persist(p) \/ Wait(p)
             \/ WriteSettled(p) \/ WriteUnsettled(p)
RefundOrder(p) == ClaimRefund(p) \/ Refund(p) \/ WriteRefunded(p) \/ WriteUnrefunded(p)
Handle(p) == \/ Capture(p) \/ WritePaid(p) \/ WriteDeclined(p) \/ AfterPaid(p)
             \/ CryptoDup(p) \/ WriteCrypto(p) \/ HookRead(p) \/ WriteHookRefunded(p)
Close(p) == CloseScan(p) \/ CloseClaim(p) \/ CloseNext(p)
Sweep(p) == \/ RecoverScan(p) \/ RecoverNext(p) \/ RecoverReceipt(p)
            \/ RecoverMempool(p) \/ RecoverSettled(p) \/ RecoverRequeue(p)

\* A process that is running goes on with its next call.
Advance(p) == Settle(p) \/ RefundOrder(p) \/ Handle(p) \/ Close(p) \/ Sweep(p)

Call(p) ==
  \/ \E o \in Orders : PayStart(p, o)
  \/ \E o \in Orders, t \in CryptoTxs : CryptoStart(p, o, t)
  \/ \E o \in Orders, type \in EventTypes : HookClaim(p, o, type)
  \/ CloseStart(p)
  \/ SweepStart(p)

Environment ==
  \/ \E o \in Orders, type \in EventTypes : ProviderEvent(o, type)
  \/ \E o \in Orders, n \in Claims : Include(o, n)
  \/ \E s \in OfferingStatuses : SetStatus(s)

Next ==
  \/ \E p \in Procs : Advance(p) \/ Call(p) \/ Crash(p)
  \/ \E p \in Procs, o \in Orders : Expire(p, o)
  \/ Environment

Spec == Init /\ [][Next]_vars

\* A started handler goes on until it answers; the timer keeps starting sweeps;
\* a transaction in the mempool is eventually mined or dropped.
Fairness ==
  /\ \A p \in Procs : WF_vars(Advance(p))
  /\ WF_vars(\E p \in Procs : SweepStart(p))
  /\ \A o \in Orders, n \in Claims : WF_vars(Include(o, n))

LiveSpec == Spec /\ Fairness

-----------------------------------------------------------------------------
(* Properties. *)

Mints(o) == {n \in Claims : mint[o][n] # "none"}
Issued(o) == {n \in Claims : mint[o][n] \in {"mempool", "mined"}}

\* Whatever fails and however handlers interleave, a settlement or refund claim
\* buys one chain mint or one provider refund, never both, and there are no
\* more of them than writes that made the order claimable: the conditional
\* updates claimForSettlement and claimForRefund admit one handler each.
OneOutcomePerGrant ==
  \A o \in Orders :
    /\ Mints(o) \cap refunds[o] = {}
    /\ Mints(o) \cup refunds[o] \subseteq 1..grants[o]

\* An order reads settled only if one of its mints is in a block: settle writes
\* it after the receipt, and recovery only on a successful receipt.
SettledIsMinted ==
  \A o \in Orders :
    status[o] = "settled" => \E n \in Claims : mint[o][n] = "mined"

\* An order reads refunded only if the provider gave the money back, to our
\* call or on its own (a chargeback).
RefundedIsReturned ==
  \A o \in Orders :
    status[o] = "refunded" => refunds[o] # {} \/ <<o, "refunded">> \in events

\* Nothing is minted for an order nobody paid: the provider has the money, or
\* the order names a payment transaction.
MintedIsPaidFor ==
  \A o \in Orders : Mints(o) # {} => o \in captured \/ payRef[o] # Checkout

\* An escrowed order is minted only when its raise was declared funded.
EscrowHeld ==
  Escrow => \A o \in Orders : Mints(o) # {} => offering = "funded"

\* No order has two mints that landed or may still land.
NoDoubleMint == \A o \in Orders : Cardinality(Issued(o)) <= 1

\* However an order is settled, refunded, recovered and closed at the same time,
\* it has one outcome: a mint that landed or may still land, or one return of
\* its money, neither of them twice and never both.
OneOutcome == \A o \in Orders : Cardinality(Issued(o)) + Cardinality(refunds[o]) <= 1

\* Two closes of a raise never work to different verdicts.
Deciding(p) == loop[p].then = "closeNext" /\ pc[p] # "closeClaim"
OneVerdict ==
  \A p, q \in Procs : Deciding(p) /\ Deciding(q) => loop[p].met = loop[q].met

\* A raise is declared funded only when the orders then paid reach the minimum.
FundedIsMet == [][offering # "funded" /\ offering' = "funded" => Met]_vars

\* A settlement claim never outlives its handler for good: the order leaves
\* settling, though its handler may have died at any step after the claim.
SettlingResolves ==
  \A o \in Orders : status[o] = "settling" ~> status[o] # "settling"

\* An order paid outside a raise is settled, or refunded, though handlers die at
\* any call of the settlement, until the instance has no claims left.
PaidResolves ==
  \A o \in Orders :
    status[o] = "paid" ~> status[o] \in {"settled", "refunded"} \/ claims[o] = MaxClaims
=============================================================================
