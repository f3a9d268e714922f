------------------------ MODULE OrderSettlementProofs ------------------------
EXTENDS OrderSettlement, TLAPS

(***************************************************************************)
(* Type correctness.                                                       *)
(***************************************************************************)
ClaimPcs == {"claimSettle", "claimRefund"}
OrderPcs == SettlePcs \cup RefundPcs \cup ClaimPcs \cup
  {"capture", "writePaid", "writeDeclined", "afterPaid", "cryptoDup", "writeCrypto",
   "hookCaptured", "hookFailed", "hookRefunded", "writeHookFailed",
   "writeHookRefunded", "recReceipt", "recMempool", "recSettled", "recRequeue"}

OwnerPcs == SettlePcs \cup RefundPcs

\* A process at a call about an order has one in hand, and at a call under a
\* claim it has a claim number.
OrderAtHand ==
  \A p \in Procs :
    /\ pc[p] \in OrderPcs => ord[p] \in Orders
    /\ pc[p] \in OwnerPcs => num[p] \in Claims
FrameInv == FrameOK /\ OrderAtHand
TInv == RowsOK /\ MintOK /\ ProviderOK /\ FrameInv /\ HistoryOK

LEMMA InitTyped == Init => TInv
<1> SUFFICES ASSUME Init PROVE TInv
  OBVIOUS
<1>1. NoSeen \in [Orders -> 0..MaxClaims]
  BY MaxClaimsAssumption DEF NoSeen
<1>2. NoLoop \in Loops
  BY <1>1 DEF NoLoop, Loops
<1>3. RowsOK
  BY <1>1 DEF Init, RowsOK, Statuses, OfferingStatuses
<1>4. ProviderOK /\ MintOK
  BY DEF Init, ProviderOK, MintOK, MintStates
<1>5. FrameInv
  BY <1>2, MaxClaimsAssumption DEF Init, FrameInv, FrameOK, OrderAtHand, OrderPcs,
     OwnerPcs, ClaimPcs, SettlePcs, RefundPcs, Pcs
<1>6. HistoryOK
  BY <1>1 DEF Init, HistoryOK, NoSeen
<1> QED BY <1>3, <1>4, <1>5, <1>6 DEF TInv

\* Facts about the calls named by an action, kept in one place.
LEMMA PcsOfOrders == OrderPcs \subseteq Pcs
BY DEF OrderPcs, Pcs, ClaimPcs, SettlePcs, RefundPcs

LEMMA GotoFrame ==
  ASSUME FrameInv, NEW p \in Procs, NEW next \in Pcs,
         next \in OrderPcs => ord[p] \in Orders,
         next \in OwnerPcs => num[p] \in Claims, Goto(p, next)
  PROVE  FrameInv'
BY DEF FrameInv, FrameOK, OrderAtHand, Goto, frame

\* The same for the calls of one kind: about an order, under no claim; under a
\* claim; and about no order.
LEMMA GotoOrder ==
  ASSUME FrameInv, NEW p \in Procs, NEW next \in OrderPcs \ OwnerPcs,
         ord[p] \in Orders, Goto(p, next)
  PROVE  FrameInv'
BY GotoFrame, PcsOfOrders

LEMMA GotoOwner ==
  ASSUME FrameInv, NEW p \in Procs, NEW next \in OwnerPcs,
         ord[p] \in Orders, num[p] \in Claims, Goto(p, next)
  PROVE  FrameInv'
BY GotoFrame, PcsOfOrders DEF OrderPcs, OwnerPcs

LEMMA GotoFree ==
  ASSUME FrameInv, NEW p \in Procs, NEW next \in Pcs \ (OrderPcs \cup OwnerPcs),
         Goto(p, next)
  PROVE  FrameInv'
BY GotoFrame

LEMMA FinishFrame ==
  ASSUME FrameInv, NEW p \in Procs, Finish(p)
  PROVE  FrameInv'
<1>1. NoLoop \in Loops
  BY MaxClaimsAssumption DEF NoLoop, Loops, NoSeen
<1>2. "idle" \in Pcs /\ "idle" \notin OrderPcs \cup OwnerPcs
  BY DEF Pcs, OrderPcs, OwnerPcs, SettlePcs, RefundPcs, ClaimPcs
<1> QED BY <1>1, <1>2, MaxClaimsAssumption DEF FrameInv, FrameOK, OrderAtHand, Finish

LEMMA ReturnFrame ==
  ASSUME FrameInv, NEW p \in Procs, Return(p)
  PROVE  FrameInv'
<1>1. NoLoop \in Loops
  BY MaxClaimsAssumption DEF NoLoop, Loops, NoSeen
<1>2. loop[p].then \in Pcs /\ loop[p].then \notin OrderPcs \cup OwnerPcs
  BY DEF FrameInv, FrameOK, Loops, Pcs, OrderPcs, OwnerPcs, SettlePcs, RefundPcs, ClaimPcs
<1> QED BY <1>1, <1>2, MaxClaimsAssumption DEF FrameInv, FrameOK, OrderAtHand, Return

LEMMA NotSettledFrame ==
  ASSUME FrameInv, NEW p \in Procs, NotSettled(p), ord[p] \in Orders
  PROVE  FrameInv'
<1>1. "claimRefund" \in Pcs \ OwnerPcs
  BY DEF Pcs, OwnerPcs, SettlePcs, RefundPcs
<1>2. CASE loop[p].then = "closeNext"
  BY <1>1, <1>2, MaxClaimsAssumption DEF NotSettled, FrameInv, FrameOK, OrderAtHand
<1>3. CASE loop[p].then # "closeNext"
  BY <1>3, ReturnFrame DEF NotSettled
<1> QED BY <1>2, <1>3

LEMMA BeginFrame ==
  ASSUME FrameInv, NEW p \in Procs, NEW o \in Orders, NEW next \in Pcs \ OwnerPcs,
         Begin(p, o, next)
  PROVE  FrameInv'
BY DEF FrameInv, FrameOK, OrderAtHand, Begin

\* An update of one order's status keeps the rows and the counters typed.
LEMMA PutTyped ==
  ASSUME RowsOK, HistoryOK, NEW o \in Orders, NEW s \in Statuses, Put(o, s), claims' = claims
  PROVE  status' \in [Orders -> Statuses] /\ HistoryOK'
BY DEF RowsOK, HistoryOK, Put

LEMMA HandleTyped ==
  ASSUME TInv, NEW p \in Procs, Handle(p)
  PROVE  TInv'
<1> USE DEF TInv, rowVars, providerVars, histVars
<1>1. CASE Capture(p)
  <2>1. ord[p] \in Orders /\ "writePaid" \in OrderPcs \ OwnerPcs /\ "writeDeclined" \in OrderPcs \ OwnerPcs
    BY <1>1 DEF Capture, At, FrameInv, OrderAtHand, OrderPcs, OwnerPcs,
     SettlePcs, RefundPcs, ClaimPcs
  <2>2. FrameInv'
    BY <1>1, <2>1, GotoOrder, PcsOfOrders DEF Capture
  <2>3. ProviderOK'
    BY <1>1, <2>1 DEF Capture, ProviderOK, EventTypes
  <2> QED BY <1>1, <2>2, <2>3 DEF Capture, RowsOK, MintOK, HistoryOK
<1>2. CASE WritePaid(p)
  <2>1. ord[p] \in Orders /\ "afterPaid" \in OrderPcs \ OwnerPcs /\ "paid" \in Statuses
    BY <1>2 DEF WritePaid, At, FrameInv, OrderAtHand, OrderPcs, OwnerPcs, Statuses,
     SettlePcs, RefundPcs, ClaimPcs
  <2>2. FrameInv'
    BY <1>2, <2>1, GotoOrder, PcsOfOrders DEF WritePaid
  <2>3. RowsOK' /\ HistoryOK'
    BY <1>2, <2>1, PutTyped DEF WritePaid, RowsOK
  <2> QED BY <1>2, <2>2, <2>3 DEF WritePaid, ProviderOK, MintOK
<1>3. CASE WriteDeclined(p)
  <2>1. ord[p] \in Orders /\ "failed" \in Statuses
    BY <1>3 DEF WriteDeclined, FrameInv, OrderAtHand, OrderPcs, OwnerPcs, Statuses,
     SettlePcs, RefundPcs, ClaimPcs
  <2>2. FrameInv'
    BY <1>3, FinishFrame DEF WriteDeclined
  <2>3. RowsOK' /\ HistoryOK'
    BY <1>3, <2>1, PutTyped DEF WriteDeclined, RowsOK
  <2> QED BY <1>3, <2>2, <2>3 DEF WriteDeclined, ProviderOK, MintOK
<1>4. CASE AfterPaid(p)
  <2>1. ord[p] \in Orders /\ "claimSettle" \in OrderPcs \ OwnerPcs /\ "claimRefund" \in OrderPcs \ OwnerPcs
    BY <1>4 DEF AfterPaid, At, FrameInv, OrderAtHand, OrderPcs, OwnerPcs,
     SettlePcs, RefundPcs, ClaimPcs
  <2>2. FrameInv'
    BY <1>4, <2>1, GotoOrder, FinishFrame, PcsOfOrders DEF AfterPaid
  <2> QED BY <1>4, <2>2 DEF AfterPaid, RowsOK, ProviderOK, MintOK, HistoryOK
<1>5. CASE CryptoDup(p)
  <2>1. ord[p] \in Orders /\ "writeCrypto" \in OrderPcs \ OwnerPcs
    BY <1>5 DEF CryptoDup, At, FrameInv, OrderAtHand, OrderPcs, OwnerPcs,
     SettlePcs, RefundPcs, ClaimPcs
  <2>2. FrameInv'
    BY <1>5, <2>1, GotoOrder, FinishFrame, PcsOfOrders DEF CryptoDup
  <2> QED BY <1>5, <2>2 DEF CryptoDup, RowsOK, ProviderOK, MintOK, HistoryOK
<1>6. CASE WriteCrypto(p)
  <2>1. ord[p] \in Orders /\ "afterPaid" \in OrderPcs \ OwnerPcs /\ "paid" \in Statuses
    BY <1>6 DEF WriteCrypto, At, FrameInv, OrderAtHand, OrderPcs, OwnerPcs, Statuses,
     SettlePcs, RefundPcs, ClaimPcs
  <2>2. NoLoop \in Loops
    BY MaxClaimsAssumption DEF NoLoop, Loops, NoSeen
  <2>3. FrameInv'
    BY <1>6, <2>1, <2>2, PcsOfOrders DEF WriteCrypto, FrameInv, FrameOK, OrderAtHand
  <2>4. loop[p].pay \in CryptoTxs \cup {Checkout}
    BY DEF FrameInv, FrameOK, Loops
  <2>5. RowsOK' /\ HistoryOK'
    BY <1>6, <2>1, <2>4, PutTyped DEF WriteCrypto, RowsOK
  <2> QED BY <1>6, <2>3, <2>5 DEF WriteCrypto, ProviderOK, MintOK
<1>7. CASE HookRead(p)
  <2>1. "writePaid" \in OrderPcs \ OwnerPcs /\ "afterPaid" \in OrderPcs \ OwnerPcs /\ "writeHookFailed" \in OrderPcs \ OwnerPcs /\ "writeHookRefunded" \in OrderPcs \ OwnerPcs
    BY DEF OrderPcs, OwnerPcs, SettlePcs, RefundPcs, ClaimPcs
  <2>2. ord[p] \in Orders
    BY <1>7 DEF HookRead, At, FrameInv, OrderAtHand, OrderPcs, OwnerPcs,
     SettlePcs, RefundPcs, ClaimPcs
  <2>3. FrameInv'
    BY <1>7, <2>1, <2>2, GotoOrder, FinishFrame, PcsOfOrders DEF HookRead
  <2> QED BY <1>7, <2>3 DEF HookRead, RowsOK, ProviderOK, MintOK, HistoryOK
<1>8. CASE WriteHookRefunded(p)
  <2>1. ord[p] \in Orders /\ "refunded" \in Statuses
    BY <1>8 DEF WriteHookRefunded, At, FrameInv, OrderAtHand, OrderPcs, OwnerPcs, Statuses,
     SettlePcs, RefundPcs, ClaimPcs
  <2>2. FrameInv'
    BY <1>8, FinishFrame DEF WriteHookRefunded
  <2>3. RowsOK' /\ HistoryOK'
    BY <1>8, <2>1, PutTyped DEF WriteHookRefunded, RowsOK
  <2> QED BY <1>8, <2>2, <2>3 DEF WriteHookRefunded, ProviderOK, MintOK
<1> QED BY <1>1, <1>2, <1>3, <1>4, <1>5, <1>6, <1>7, <1>8 DEF Handle

\* Taking a claim, and the caller going on with it.
LEMMA TakeTyped ==
  ASSUME TInv, NEW p \in Procs, NEW from, NEW to \in Statuses, NEW next \in OrderPcs,
         ord[p] \in Orders, Take(p, from, to, next)
  PROVE  TInv'
<1> USE DEF TInv, providerVars
<1>1. claims[ord[p]] + 1 \in Claims /\ Claims \subseteq 0..MaxClaims
  BY MaxClaimsAssumption DEF Take, HistoryOK, Claims
<1>2. RowsOK' /\ HistoryOK'
  BY <1>1 DEF Take, RowsOK, HistoryOK
<1>3. FrameInv'
  BY <1>1, PcsOfOrders DEF Take, FrameInv, FrameOK, OrderAtHand
<1> QED BY <1>2, <1>3 DEF Take, ProviderOK, MintOK

LEMMA SettleTyped ==
  ASSUME TInv, NEW p \in Procs, Settle(p)
  PROVE  TInv'
<1> USE DEF TInv, rowVars, providerVars, histVars
<1>0. /\ ord[p] \in Orders
      /\ ~At(p, "claimSettle") => num[p] \in Claims
  BY DEF Settle, ClaimSettle, Mint, Persist, Wait, WriteSettled, WriteUnsettled, At,
     FrameInv, OrderAtHand, OrderPcs, OwnerPcs, SettlePcs, ClaimPcs
<1>a. /\ "persist" \in OwnerPcs /\ "wait" \in OwnerPcs
      /\ "writeSettled" \in OwnerPcs /\ "writeUnsettled" \in OwnerPcs
      /\ "mint" \in OrderPcs
  BY DEF OwnerPcs, OrderPcs, SettlePcs
<1>1. CASE ClaimSettle(p)
  <2>1. "settling" \in Statuses /\ "mint" \in OrderPcs
    BY <1>a DEF Statuses
  <2>2. CASE Take(p, {"paid"}, "settling", "mint")
    BY <1>0, <2>1, <2>2, TakeTyped
  <2>3. CASE NotSettled(p) /\ UNCHANGED <<rowVars, mint, providerVars, histVars>>
    <3>1. FrameInv'
      BY <1>0, <2>3, NotSettledFrame
    <3> QED BY <2>3, <3>1 DEF RowsOK, ProviderOK, MintOK, HistoryOK
  <2> QED BY <1>1, <2>2, <2>3 DEF ClaimSettle
<1>2. CASE Mint(p)
  <2>1. FrameInv'
    BY <1>0, <1>2, <1>a, GotoOwner, NotSettledFrame DEF Mint, At
  <2>2. MintOK'
    BY <1>2 DEF Mint, MintOK, MintStates
  <2> QED BY <1>2, <2>1, <2>2 DEF Mint, RowsOK, ProviderOK, HistoryOK
<1>3. CASE Persist(p)
  <2>1. FrameInv'
    BY <1>0, <1>3, <1>a, GotoOwner DEF Persist, At
  <2>2. RowsOK'
    BY <1>3 DEF Persist, RowsOK, FrameInv, FrameOK
  <2> QED BY <1>3, <2>1, <2>2 DEF Persist, ProviderOK, MintOK, HistoryOK
<1>4. CASE Wait(p)
  <2>1. FrameInv'
    BY <1>0, <1>4, <1>a, GotoOwner DEF Wait, At
  <2> QED BY <1>4, <2>1 DEF Wait, RowsOK, ProviderOK, MintOK, HistoryOK
<1>5. CASE WriteSettled(p)
  <2>1. FrameInv'
    BY <1>0, <1>5, <1>a, GotoOwner, ReturnFrame DEF WriteSettled, At
  <2>2. "settled" \in Statuses
    BY DEF Statuses
  <2>3. HistoryOK' /\ status' \in [Orders -> Statuses]
    BY <1>0, <1>5, <2>2, PutTyped DEF WriteSettled, RowsOK, HistoryOK
  <2>4. RowsOK'
    BY <1>5, <2>3 DEF WriteSettled, RowsOK, FrameInv, FrameOK
  <2> QED BY <1>5, <2>1, <2>3, <2>4 DEF WriteSettled, ProviderOK, MintOK
<1>6. CASE WriteUnsettled(p)
  <2>1. FrameInv'
    BY <1>0, <1>6, NotSettledFrame DEF WriteUnsettled
  <2>2. "paid" \in Statuses
    BY DEF Statuses
  <2>3. RowsOK' /\ HistoryOK'
    BY <1>0, <1>6, <2>2, PutTyped DEF WriteUnsettled, RowsOK, HistoryOK
  <2> QED BY <1>6, <2>1, <2>3 DEF WriteUnsettled, ProviderOK, MintOK
<1> QED BY <1>1, <1>2, <1>3, <1>4, <1>5, <1>6 DEF Settle

LEMMA RefundTyped ==
  ASSUME TInv, NEW p \in Procs, RefundOrder(p)
  PROVE  TInv'
<1> USE DEF TInv, rowVars, providerVars, histVars
<1>0. /\ ord[p] \in Orders
      /\ ~At(p, "claimRefund") => num[p] \in Claims
  BY DEF RefundOrder, ClaimRefund, Refund, WriteRefunded, WriteUnrefunded, At,
     FrameInv, OrderAtHand, OrderPcs, OwnerPcs, RefundPcs, ClaimPcs
<1>a. /\ "writeRefunded" \in OwnerPcs /\ "writeUnrefunded" \in OwnerPcs
      /\ "refund" \in OrderPcs
  BY DEF OwnerPcs, OrderPcs, RefundPcs
<1>b. "paid" \in Statuses /\ "refunding" \in Statuses /\ "refunded" \in Statuses
  BY DEF Statuses
<1>1. CASE ClaimRefund(p)
  <2>1. "refund" \in OrderPcs
    BY <1>a
  <2>2. CASE Take(p, Claimable, "refunding", "refund")
    BY <1>0, <1>b, <2>1, <2>2, TakeTyped
  <2>3. CASE Return(p) /\ UNCHANGED <<rowVars, mint, providerVars, histVars>>
    BY <2>3, ReturnFrame DEF RowsOK, ProviderOK, MintOK, HistoryOK
  <2> QED BY <1>1, <2>2, <2>3 DEF ClaimRefund
<1>2. CASE Refund(p)
  <2>0. num[p] \in Claims
    BY <1>0, <1>2 DEF Refund, At
  <2>1. FrameInv'
    BY <1>0, <1>2, <1>a, <2>0, GotoOwner DEF Refund
  <2>2. ProviderOK'
    BY <1>2, <2>0 DEF Refund, ProviderOK
  <2> QED BY <1>2, <2>1, <2>2 DEF Refund, RowsOK, MintOK, HistoryOK
<1>3. CASE WriteRefunded(p)
  <2>1. RowsOK' /\ HistoryOK'
    BY <1>0, <1>b, <1>3, PutTyped DEF WriteRefunded, RowsOK
  <2> QED BY <1>3, <2>1, ReturnFrame DEF WriteRefunded, ProviderOK, MintOK
<1>4. CASE WriteUnrefunded(p)
  <2>1. RowsOK' /\ HistoryOK'
    BY <1>0, <1>b, <1>4, PutTyped DEF WriteUnrefunded, RowsOK
  <2> QED BY <1>4, <2>1, ReturnFrame DEF WriteUnrefunded, ProviderOK, MintOK
<1> QED BY <1>1, <1>2, <1>3, <1>4 DEF RefundOrder

LEMMA CloseTyped ==
  ASSUME TInv, NEW p \in Procs, Close(p)
  PROVE  TInv'
<1> USE DEF TInv, rowVars, providerVars, histVars
<1>a. /\ "closeNext" \in Pcs \ (OrderPcs \cup OwnerPcs) /\ "closeClaim" \in Pcs \ (OrderPcs \cup OwnerPcs)
      /\ ClaimPcs \subseteq Pcs \ OwnerPcs
  BY DEF Pcs, OrderPcs, OwnerPcs, SettlePcs, RefundPcs, ClaimPcs
<1>1. CASE CloseScan(p)
  <2>1. FrameInv'
    <3> DEFINE next == IF loop[p].closed THEN "closeNext" ELSE "closeClaim"
               r == [loop[p] EXCEPT !.todo = Escrowed, !.then = "closeNext",
                                    !.met = IF loop[p].closed THEN loop[p].met ELSE Met]
    <3>1. Escrowed \in SUBSET Orders /\ Met \in BOOLEAN
      BY DEF Escrowed, Met
    <3>2. next \in Pcs \ (OrderPcs \cup OwnerPcs)
      BY <1>a
    <3>3. r \in Loops
      BY <3>1 DEF FrameInv, FrameOK, Loops
    <3>4. CASE Finish(p)
      BY <3>4, FinishFrame
    <3>5. CASE ~Finish(p)
      <4>1. /\ pc' = [pc EXCEPT ![p] = next] /\ UNCHANGED <<ord, num>>
            /\ loop' = [loop EXCEPT ![p] = r]
        BY <1>1, <3>5 DEF CloseScan
      <4> HIDE DEF next, r
      <4> QED BY <4>1, <3>2, <3>3 DEF FrameInv, FrameOK, OrderAtHand
    <3> QED BY <3>4, <3>5
  <2> QED BY <1>1, <2>1 DEF CloseScan, RowsOK, ProviderOK, MintOK, HistoryOK
<1>2. CASE CloseClaim(p)
  <2>1. FrameInv'
    BY <1>2, <1>a, GotoFree, FinishFrame DEF CloseClaim
  <2>2. RowsOK'
    BY <1>2 DEF CloseClaim, Outcome, RowsOK, OfferingStatuses
  <2> QED BY <1>2, <2>1, <2>2 DEF CloseClaim, ProviderOK, MintOK, HistoryOK
<1>3. CASE CloseNext(p)
  <2>1. FrameInv'
    <3>1. CASE Finish(p)
      BY <3>1, FinishFrame
    <3>2. CASE ~Finish(p)
      <4> PICK o \in loop[p].todo :
              /\ pc' = [pc EXCEPT ![p] = IF loop[p].met THEN "claimSettle" ELSE "claimRefund"]
              /\ ord' = [ord EXCEPT ![p] = o]
              /\ loop' = [loop EXCEPT ![p].todo = @ \ {o}]
              /\ num' = num
        BY <1>3, <3>2 DEF CloseNext
      <4>1. o \in Orders /\ [loop[p] EXCEPT !.todo = @ \ {o}] \in Loops
        BY DEF FrameInv, FrameOK, Loops
      <4> QED BY <1>a, <4>1 DEF FrameInv, FrameOK, OrderAtHand, ClaimPcs
    <3> QED BY <3>1, <3>2
  <2> QED BY <1>3, <2>1 DEF CloseNext, RowsOK, ProviderOK, MintOK, HistoryOK
<1> QED BY <1>1, <1>2, <1>3 DEF Close

LEMMA SweepTyped ==
  ASSUME TInv, NEW p \in Procs, Sweep(p)
  PROVE  TInv'
<1> USE DEF TInv, rowVars, providerVars, histVars
<1>a. /\ "recNext" \in Pcs \ (OrderPcs \cup OwnerPcs)
      /\ "recReceipt" \in OrderPcs \ OwnerPcs /\ "recMempool" \in OrderPcs \ OwnerPcs /\ "recSettled" \in OrderPcs \ OwnerPcs /\ "recRequeue" \in OrderPcs \ OwnerPcs /\ "claimSettle" \in OrderPcs \ OwnerPcs
  BY DEF Pcs, OrderPcs, OwnerPcs, SettlePcs, RefundPcs, ClaimPcs
<1>b. "paid" \in Statuses /\ "settled" \in Statuses
  BY DEF Statuses
<1>c. pc[p] \in {"recReceipt", "recMempool", "recSettled", "recRequeue"} => ord[p] \in Orders
  BY <1>a DEF FrameInv, OrderAtHand
<1>1. CASE RecoverScan(p)
  <2>1. {o \in Orders : Stale(o)} \in SUBSET Orders
    OBVIOUS
  <2>2. [o \in Orders |-> IF Stale(o) THEN txHash[o] ELSE 0] \in [Orders -> 0..MaxClaims]
    BY MaxClaimsAssumption DEF RowsOK
  <2>3. FrameInv'
    <3> DEFINE todo == {o \in Orders : Stale(o)}
               seen == [o \in Orders |-> IF Stale(o) THEN txHash[o] ELSE 0]
    <3>1. /\ pc' = [pc EXCEPT ![p] = "recNext"] /\ UNCHANGED <<ord, num>>
          /\ loop' = [loop EXCEPT ![p] = [loop[p] EXCEPT !.todo = todo, !.then = "recNext",
                                                   !.seen = seen]]
      BY <1>1 DEF RecoverScan
    <3> HIDE DEF todo, seen
    <3>2. [loop[p] EXCEPT !.todo = todo, !.then = "recNext", !.seen = seen] \in Loops
      BY <2>1, <2>2 DEF todo, seen, FrameInv, FrameOK, Loops
    <3> QED BY <3>1, <3>2, <1>a DEF FrameInv, FrameOK, OrderAtHand
  <2> QED BY <1>1, <2>3 DEF RecoverScan, RowsOK, ProviderOK, MintOK, HistoryOK
<1>2. CASE RecoverNext(p)
  <2>1. FrameInv'
    <3>1. CASE Finish(p)
      BY <3>1, FinishFrame
    <3>2. CASE ~Finish(p)
      <4> PICK o \in loop[p].todo :
              /\ pc' = [pc EXCEPT ![p] = IF loop[p].seen[o] = 0 THEN "recRequeue"
                                                            ELSE "recReceipt"]
              /\ ord' = [ord EXCEPT ![p] = o]
              /\ num' = [num EXCEPT ![p] = loop[p].seen[o]]
              /\ loop' = [loop EXCEPT ![p].todo = @ \ {o}]
        BY <1>2, <3>2 DEF RecoverNext
      <4>1. o \in Orders /\ [loop[p] EXCEPT !.todo = @ \ {o}] \in Loops
        BY DEF FrameInv, FrameOK, Loops
      <4>2. loop[p].seen[o] \in 0..MaxClaims
        BY <4>1 DEF FrameInv, FrameOK, Loops
      <4> QED BY <1>a, <4>1, <4>2, PcsOfOrders DEF FrameInv, FrameOK, OrderAtHand
    <3> QED BY <3>1, <3>2
  <2> QED BY <1>2, <2>1 DEF RecoverNext, RowsOK, ProviderOK, MintOK, HistoryOK
<1>3. CASE RecoverReceipt(p)
  <2>1. FrameInv'
    BY <1>3, <1>a, <1>c, GotoOrder, ReturnFrame, PcsOfOrders DEF RecoverReceipt, At
  <2> QED BY <1>3, <2>1 DEF RecoverReceipt, RowsOK, ProviderOK, MintOK, HistoryOK
<1>4. CASE RecoverMempool(p)
  <2>1. FrameInv'
    BY <1>4, <1>a, <1>c, GotoOrder, ReturnFrame, PcsOfOrders DEF RecoverMempool, At
  <2> QED BY <1>4, <2>1 DEF RecoverMempool, RowsOK, ProviderOK, MintOK, HistoryOK
<1>5. CASE RecoverSettled(p)
  <2>1. RowsOK' /\ HistoryOK'
    BY <1>5, <1>b, <1>c, PutTyped DEF RecoverSettled, RowsOK, At
  <2> QED BY <1>5, <2>1, ReturnFrame DEF RecoverSettled, ProviderOK, MintOK
<1>6. CASE RecoverRequeue(p)
  <2>1. RowsOK' /\ HistoryOK'
    BY <1>6, <1>b, <1>c, PutTyped DEF RecoverRequeue, RowsOK, At
  <2>2. FrameInv'
    <3>1. CASE Escrow
      BY <1>6, <3>1, ReturnFrame DEF RecoverRequeue
    <3>2. CASE ~Escrow
      BY <1>6, <1>a, <1>c, <3>2, PcsOfOrders, MaxClaimsAssumption
      DEF RecoverRequeue, FrameInv, FrameOK, OrderAtHand, At
    <3> QED BY <3>1, <3>2
  <2> QED BY <1>6, <2>1, <2>2 DEF RecoverRequeue, ProviderOK, MintOK
<1> QED BY <1>1, <1>2, <1>3, <1>4, <1>5, <1>6 DEF Sweep

LEMMA CallTyped ==
  ASSUME TInv, NEW p \in Procs, Call(p)
  PROVE  TInv'
<1> USE DEF TInv, rowVars, providerVars, histVars
<1>a. /\ "capture" \in Pcs \ OwnerPcs /\ "cryptoDup" \in Pcs \ OwnerPcs /\ "hookCaptured" \in Pcs \ OwnerPcs /\ "hookFailed" \in Pcs \ OwnerPcs /\ "hookRefunded" \in Pcs \ OwnerPcs
      /\ "closeScan" \in Pcs \ (OrderPcs \cup OwnerPcs) /\ "expire" \in Pcs \ (OrderPcs \cup OwnerPcs)
  BY DEF Pcs, OrderPcs, OwnerPcs, SettlePcs, RefundPcs, ClaimPcs
<1>1. ASSUME NEW o \in Orders, PayStart(p, o)
      PROVE  TInv'
  <2>1. FrameInv'
    BY <1>1, <1>a, BeginFrame DEF PayStart
  <2> QED BY <1>1, <2>1 DEF PayStart, RowsOK, ProviderOK, MintOK, HistoryOK
<1>2. ASSUME NEW o \in Orders, NEW t \in CryptoTxs, CryptoStart(p, o, t)
      PROVE  TInv'
  <2>1. FrameInv'
    <3> DEFINE r == [loop[p] EXCEPT !.pay = t]
    <3>1. r \in Loops
      BY DEF FrameInv, FrameOK, Loops
    <3>2. /\ pc' = [pc EXCEPT ![p] = "cryptoDup"] /\ ord' = [ord EXCEPT ![p] = o]
          /\ UNCHANGED num
      BY <1>2 DEF CryptoStart
    <3>3. loop' = [loop EXCEPT ![p] = r]
      BY <1>2, Zenon DEF CryptoStart
    <3> HIDE DEF r
    <3> QED BY <3>1, <3>2, <3>3, <1>a DEF FrameInv, FrameOK, OrderAtHand
  <2> QED BY <1>2, <2>1 DEF CryptoStart, RowsOK, ProviderOK, MintOK, HistoryOK
<1>3. ASSUME NEW o \in Orders, NEW type \in EventTypes, HookClaim(p, o, type)
      PROVE  TInv'
  <2>1. HookPc[type] \in Pcs \ OwnerPcs
    BY <1>a DEF HookPc, EventTypes
  <2>2. FrameInv'
    BY <1>3, <2>1, BeginFrame DEF HookClaim
  <2>3. ProviderOK'
    BY <1>3 DEF HookClaim, ProviderOK
  <2> QED BY <1>3, <2>2, <2>3 DEF HookClaim, RowsOK, MintOK, HistoryOK
<1>4. CASE CloseStart(p)
  <2>1. FrameInv'
    <3> DEFINE closed == offering \in Closed
               met == offering = "funded"
               r == [loop[p] EXCEPT !.closed = closed, !.met = met]
    <3>1. r \in Loops
      <4>1. closed \in BOOLEAN /\ met \in BOOLEAN
        OBVIOUS
      <4> HIDE DEF closed, met
      <4> QED BY <4>1 DEF FrameInv, FrameOK, Loops
    <3>2. pc' = [pc EXCEPT ![p] = "closeScan"] /\ UNCHANGED <<ord, num>>
      BY <1>4 DEF CloseStart
    <3>3. loop' = [loop EXCEPT ![p] = r]
      BY <1>4, Zenon DEF CloseStart
    <3> HIDE DEF r
    <3> QED BY <3>1, <3>2, <3>3, <1>a DEF FrameInv, FrameOK, OrderAtHand
  <2> QED BY <1>4, <2>1 DEF CloseStart, RowsOK, ProviderOK, MintOK, HistoryOK
<1>5. CASE SweepStart(p)
  <2>1. FrameInv'
    BY <1>5, <1>a, GotoFree DEF SweepStart
  <2> QED BY <1>5, <2>1 DEF SweepStart, RowsOK, ProviderOK, MintOK, HistoryOK
<1> QED BY <1>1, <1>2, <1>3, <1>4, <1>5 DEF Call

LEMMA EnvironmentTyped == TInv /\ Environment => TInv'
<1> SUFFICES ASSUME TInv, Environment PROVE TInv'
  OBVIOUS
<1> USE DEF TInv, rowVars, providerVars, histVars, frame
<1>0. UNCHANGED <<pc, frame>> => FrameInv'
  BY DEF FrameInv, FrameOK, OrderAtHand
<1>1. ASSUME NEW o \in Orders, NEW type \in EventTypes, ProviderEvent(o, type)
      PROVE  TInv'
  BY <1>0, <1>1 DEF ProviderEvent, RowsOK, ProviderOK, MintOK, HistoryOK
<1>2. ASSUME NEW o \in Orders, NEW n \in Claims, Include(o, n)
      PROVE  TInv'
  <2>1. MintOK'
    BY <1>2 DEF Include, MintOK, MintStates
  <2> QED BY <1>0, <1>2, <2>1 DEF Include, RowsOK, ProviderOK, HistoryOK
<1>3. ASSUME NEW s \in OfferingStatuses, SetStatus(s)
      PROVE  TInv'
  BY <1>0, <1>3 DEF SetStatus, RowsOK, ProviderOK, MintOK, HistoryOK
<1> QED BY <1>1, <1>2, <1>3 DEF Environment

LEMMA NextTyped == TInv /\ [Next]_vars => TInv'
<1> SUFFICES ASSUME TInv, [Next]_vars PROVE TInv'
  OBVIOUS
<1>1. ASSUME NEW p \in Procs, Advance(p) PROVE TInv'
  BY <1>1, SettleTyped, RefundTyped, HandleTyped, CloseTyped, SweepTyped DEF Advance
<1>2. ASSUME NEW p \in Procs, Call(p) PROVE TInv'
  BY <1>2, CallTyped
<1>3. ASSUME NEW p \in Procs, Crash(p) PROVE TInv'
  BY <1>3, FinishFrame
  DEF Crash, TInv, RowsOK, ProviderOK, MintOK, HistoryOK, rowVars, providerVars, histVars
<1>4. ASSUME NEW p \in Procs, NEW o \in Orders, Expire(p, o) PROVE TInv'
  BY <1>4 DEF Expire, TInv, RowsOK, ProviderOK, MintOK, FrameInv, FrameOK, OrderAtHand,
     HistoryOK, providerVars, histVars, frame, Statuses
<1>5. CASE Environment
  BY <1>5, EnvironmentTyped
<1>6. CASE UNCHANGED vars
  BY <1>6 DEF vars, TInv, RowsOK, ProviderOK, MintOK, FrameInv, FrameOK, OrderAtHand,
     HistoryOK, rowVars, providerVars, histVars, frame
<1> QED BY <1>1, <1>2, <1>3, <1>4, <1>5, <1>6 DEF Next

\* Every variable keeps its type, for any orders, processes, requests and
\* faults.
THEOREM TypeCorrect == Spec => []TypeOK
<1>1. Spec => []TInv
  BY InitTyped, NextTyped, PTL DEF Spec
<1>2. TInv => TypeOK
  BY DEF TInv, FrameInv, TypeOK
<1> QED BY <1>1, <1>2, PTL

-----------------------------------------------------------------------------
(***************************************************************************)
(* What the conditional updates claimForSettlement and claimForRefund are  *)
(* for: however handlers interleave, crash and retry, a claim has one      *)
(* holder and buys one mint or one refund, and what the rows say of the    *)
(* money and of the chain is true.                                         *)
(***************************************************************************)

\* Claims never outnumber the writes that made the order claimable, and one of
\* those is still unspent while it is claimable.
Unclaimed(o) == IF status[o] \in Claimable THEN 1 ELSE 0
Counted == \A o \in Orders : claims[o] + Unclaimed(o) <= grants[o]

\* A handler at a call under a claim holds a claim handed out, and no other
\* handler holds the same one.
Held == \A p \in Procs : pc[p] \in OwnerPcs => num[p] \in 1..claims[ord[p]]
Exclusive ==
  \A p, q \in Procs :
    p # q /\ pc[p] \in OwnerPcs /\ pc[q] \in OwnerPcs /\ ord[p] = ord[q]
      => num[p] # num[q]

\* What was minted or refunded was under a claim handed out, of one kind only;
\* a handler's claim has not been used for the other kind.
Spent ==
  \A o \in Orders : /\ Mints(o) \cup refunds[o] \subseteq 1..claims[o]
                    /\ Mints(o) \cap refunds[o] = {}
OfOneKind ==
  \A p \in Procs : /\ pc[p] \in SettlePcs => num[p] \notin refunds[ord[p]]
                   /\ pc[p] \in RefundPcs => num[p] \notin Mints(ord[p])

ClaimInv == Counted /\ Held /\ Exclusive /\ Spent /\ OfOneKind

-----------------------------------------------------------------------------
\* Most steps hand out no claim and spend none: whoever holds a claim after the
\* step held it before.
Keeps ==
  \A r \in Procs :
    /\ pc'[r] \in SettlePcs => /\ pc[r] \in SettlePcs
                               /\ ord'[r] = ord[r] /\ num'[r] = num[r]
    /\ pc'[r] \in RefundPcs => /\ pc[r] \in RefundPcs
                               /\ ord'[r] = ord[r] /\ num'[r] = num[r]
Quiet == /\ Keeps /\ claims' = claims /\ refunds' = refunds
         /\ \A o \in Orders : Mints(o)' = Mints(o)

LEMMA QuietStep ==
  ASSUME TInv, ClaimInv, Quiet, Counted'
  PROVE  ClaimInv'
<1>1. Spent'
  BY DEF ClaimInv, Spent, Quiet
<1>2. ASSUME NEW r \in Procs, pc'[r] \in OwnerPcs
      PROVE  pc[r] \in OwnerPcs /\ ord'[r] = ord[r] /\ num'[r] = num[r] /\ ord[r] \in Orders
  BY <1>2 DEF Quiet, Keeps, OwnerPcs, TInv, FrameInv, OrderAtHand, OrderPcs
<1>3. Held'
  BY <1>2 DEF ClaimInv, Held, Quiet
<1>4. Exclusive'
  BY <1>2 DEF ClaimInv, Exclusive
<1>5. OfOneKind'
  BY <1>2 DEF ClaimInv, OfOneKind, Quiet, Keeps, OwnerPcs
<1> QED BY <1>1, <1>3, <1>4, <1>5 DEF ClaimInv

LEMMA GotoKeeps ==
  ASSUME TInv, NEW p \in Procs, NEW next, Goto(p, next),
         next \in SettlePcs => pc[p] \in SettlePcs,
         next \in RefundPcs => pc[p] \in RefundPcs
  PROVE  Keeps
BY DEF TInv, FrameInv, FrameOK, Goto, frame, Keeps

\* A step of p after which p is under no claim and the others are where they were.
LEMMA FreeKeeps ==
  ASSUME TInv, NEW p \in Procs, NEW next, next \notin OwnerPcs,
         pc' = [pc EXCEPT ![p] = next],
         \A r \in Procs \ {p} : ord'[r] = ord[r] /\ num'[r] = num[r]
  PROVE  Keeps
BY DEF TInv, FrameInv, FrameOK, Keeps, OwnerPcs

LEMMA FinishKeeps ==
  ASSUME TInv, NEW p \in Procs, Finish(p)
  PROVE  Keeps
<1>1. "idle" \notin OwnerPcs
  BY DEF OwnerPcs, SettlePcs, RefundPcs
<1> QED BY <1>1, FreeKeeps DEF Finish, TInv, FrameInv, FrameOK

LEMMA ReturnKeeps ==
  ASSUME TInv, NEW p \in Procs, Return(p)
  PROVE  Keeps
<1>1. loop[p].then \notin OwnerPcs
  BY DEF TInv, FrameInv, FrameOK, Loops, OwnerPcs, SettlePcs, RefundPcs
<1> QED BY <1>1, FreeKeeps DEF Return, TInv, FrameInv, FrameOK

LEMMA NotSettledKeeps ==
  ASSUME TInv, NEW p \in Procs, NotSettled(p)
  PROVE  Keeps
<1>1. "claimRefund" \notin OwnerPcs
  BY DEF OwnerPcs, SettlePcs, RefundPcs
<1>2. CASE loop[p].then = "closeNext"
  BY <1>1, <1>2, FreeKeeps DEF NotSettled, TInv, FrameInv, FrameOK
<1> QED BY <1>2, ReturnKeeps DEF NotSettled

LEMMA PutCounted ==
  ASSUME TInv, Counted, NEW o \in Orders, NEW s, Put(o, s), claims' = claims
  PROVE  Counted'
BY DEF TInv, RowsOK, HistoryOK, Counted, Unclaimed, Put

LEMMA SameMints == UNCHANGED mint => \A o \in Orders : Mints(o)' = Mints(o)
BY DEF Mints

-----------------------------------------------------------------------------
(* One lemma per group of steps. *)

LEMMA HandleClaims ==
  ASSUME TInv, ClaimInv, NEW p \in Procs, Handle(p)
  PROVE  Quiet /\ Counted'
<1> USE DEF Quiet, rowVars, providerVars, histVars
<1>a. /\ "writePaid" \notin OwnerPcs /\ "writeDeclined" \notin OwnerPcs
      /\ "afterPaid" \notin OwnerPcs /\ "writeCrypto" \notin OwnerPcs
      /\ "claimSettle" \notin OwnerPcs /\ "claimRefund" \notin OwnerPcs
      /\ "writeHookFailed" \notin OwnerPcs /\ "writeHookRefunded" \notin OwnerPcs
  BY DEF OwnerPcs, SettlePcs, RefundPcs
<1>b. Counted
  BY DEF ClaimInv
<1>c. ASSUME UNCHANGED <<status, grants, claims>> PROVE Counted'
  BY <1>b, <1>c DEF Counted, Unclaimed
<1>1. CASE Capture(p)
  BY <1>1, <1>a, <1>c, GotoKeeps, SameMints DEF Capture, OwnerPcs
<1>2. CASE WritePaid(p)
  <2>1. ord[p] \in Orders
    BY <1>2 DEF WritePaid, At, TInv, FrameInv, OrderAtHand, OrderPcs
  <2> QED BY <1>2, <2>1, <1>a, <1>b, GotoKeeps, PutCounted, SameMints DEF WritePaid, OwnerPcs
<1>3. CASE WriteDeclined(p)
  <2>1. ord[p] \in Orders
    BY <1>3 DEF WriteDeclined, TInv, FrameInv, OrderAtHand, OrderPcs
  <2> QED BY <1>3, <2>1, <1>b, FinishKeeps, PutCounted, SameMints DEF WriteDeclined
<1>4. CASE AfterPaid(p)
  BY <1>4, <1>a, <1>c, GotoKeeps, FinishKeeps, SameMints DEF AfterPaid, OwnerPcs
<1>5. CASE CryptoDup(p)
  BY <1>5, <1>a, <1>c, GotoKeeps, FinishKeeps, SameMints DEF CryptoDup, OwnerPcs
<1>6. CASE WriteCrypto(p)
  <2>1. ord[p] \in Orders
    BY <1>6 DEF WriteCrypto, At, TInv, FrameInv, OrderAtHand, OrderPcs
  <2>2. Keeps
    BY <1>6, <1>a, FreeKeeps DEF WriteCrypto
  <2> QED BY <1>6, <2>1, <2>2, <1>b, PutCounted, SameMints DEF WriteCrypto
<1>7. CASE HookRead(p)
  <2>1. Keeps
    BY <1>7, <1>a, GotoKeeps, FinishKeeps DEF HookRead, OwnerPcs
  <2> QED BY <1>7, <2>1, <1>c, SameMints DEF HookRead
<1>8. CASE WriteHookRefunded(p)
  <2>1. ord[p] \in Orders
    BY <1>8 DEF WriteHookRefunded, At, TInv, FrameInv, OrderAtHand, OrderPcs
  <2> QED BY <1>8, <2>1, <1>b, FinishKeeps, PutCounted, SameMints DEF WriteHookRefunded
<1> QED BY <1>1, <1>2, <1>3, <1>4, <1>5, <1>6, <1>7, <1>8 DEF Handle

\* A claim taken is a new number, so nobody holds it and nothing was spent
\* under it.
LEMMA TakeClaims ==
  ASSUME TInv, ClaimInv, NEW p \in Procs, NEW from \in SUBSET Claimable,
         NEW to \in Statuses \ Claimable, NEW next \in OwnerPcs,
         ord[p] \in Orders, Take(p, from, to, next)
  PROVE  ClaimInv'
<1> DEFINE o == ord[p]
<1>1. /\ claims' = [claims EXCEPT ![o] = @ + 1] /\ claims[o] \in Nat
      /\ num' = [num EXCEPT ![p] = claims[o] + 1] /\ ord' = ord
      /\ pc' = [pc EXCEPT ![p] = next]
      /\ UNCHANGED <<mint, refunds>>
  BY MaxClaimsAssumption DEF Take, TInv, HistoryOK, providerVars
<1>2. \A x \in Orders : claims[x] \in Nat /\ claims'[x] \in Nat /\ claims[x] <= claims'[x]
  BY <1>1, MaxClaimsAssumption DEF TInv, HistoryOK
<1>3. ASSUME NEW r \in Procs \ {p}
      PROVE  pc'[r] = pc[r] /\ num'[r] = num[r] /\ ord'[r] = ord[r]
  BY <1>1 DEF TInv, FrameInv, FrameOK
<1>4. pc'[p] = next /\ num'[p] = claims[o] + 1 /\ ord'[p] = o /\ claims'[o] = claims[o] + 1
  BY <1>1 DEF TInv, FrameInv, FrameOK, HistoryOK
<1>5. ASSUME NEW r \in Procs, pc[r] \in OwnerPcs
      PROVE  ord[r] \in Orders /\ num[r] \in 1..claims[ord[r]]
  BY <1>5 DEF TInv, FrameInv, OrderAtHand, OrderPcs, OwnerPcs, ClaimInv, Held
<1>6. Counted'
  <2>1. /\ status' = [status EXCEPT ![o] = to] /\ status[o] \in Claimable
        /\ grants' = grants
    BY DEF Take
  <2> QED BY <1>1, <2>1, MaxClaimsAssumption
     DEF ClaimInv, Counted, Unclaimed, TInv, RowsOK, HistoryOK
<1>7. Held'
  <2> SUFFICES ASSUME NEW r \in Procs, pc'[r] \in OwnerPcs
               PROVE  num'[r] \in 1..claims'[ord'[r]]
    BY DEF Held
  <2>1. CASE r = p
    BY <2>1, <1>1, <1>4
  <2>2. CASE r # p
    BY <2>2, <1>2, <1>3, <1>5
  <2> QED BY <2>1, <2>2
<1>8. Exclusive'
  <2> SUFFICES ASSUME NEW r \in Procs, NEW q \in Procs, r # q, pc'[r] \in OwnerPcs,
                      pc'[q] \in OwnerPcs, ord'[r] = ord'[q]
               PROVE  num'[r] # num'[q]
    BY DEF Exclusive
  <2>1. CASE r # p /\ q # p
    BY <2>1, <1>3 DEF ClaimInv, Exclusive
  <2>2. CASE r = p
    BY <2>2, <1>1, <1>3, <1>4, <1>5
  <2>3. CASE q = p
    BY <2>3, <1>1, <1>3, <1>4, <1>5
  <2> QED BY <2>1, <2>2, <2>3
<1>9. Spent'
  <2>1. \A x \in Orders : Mints(x)' = Mints(x) /\ refunds'[x] = refunds[x]
    BY <1>1, SameMints
  <2>2. \A x \in Orders : 1..claims[x] \subseteq 1..claims'[x]
    BY <1>2
  <2> QED BY <2>1, <2>2 DEF ClaimInv, Spent
<1>10. OfOneKind'
  <2>1. \A x \in Orders : Mints(x)' = Mints(x) /\ refunds'[x] = refunds[x]
    BY <1>1, SameMints
  <2>2. num'[p] \notin Mints(ord[p])' \cup refunds'[ord[p]]
    <3>1. Mints(o) \cup refunds[o] \subseteq 1..claims[o] /\ claims[o] + 1 \notin 1..claims[o]
      BY <1>1 DEF ClaimInv, Spent
    <3> QED BY <3>1, <1>1, <1>4, <2>1
  <2>3. ASSUME NEW r \in Procs \ {p}
        PROVE  /\ pc'[r] \in SettlePcs => num'[r] \notin refunds'[ord'[r]]
               /\ pc'[r] \in RefundPcs => num'[r] \notin Mints(ord[r])'
    BY <1>3, <1>5, <2>1 DEF ClaimInv, OfOneKind, OwnerPcs
  <2> QED BY <1>4, <2>2, <2>3 DEF OfOneKind
<1> QED BY <1>6, <1>7, <1>8, <1>9, <1>10 DEF ClaimInv

LEMMA SettleClaims ==
  ASSUME TInv, ClaimInv, NEW p \in Procs, Settle(p), TInv'
  PROVE  ClaimInv'
<1> USE DEF rowVars, providerVars, histVars
<1>a. /\ "persist" \in SettlePcs /\ "wait" \in SettlePcs /\ "mint" \in OwnerPcs
      /\ "writeSettled" \in SettlePcs /\ "writeUnsettled" \in SettlePcs
      /\ \A s \in SettlePcs : s \notin RefundPcs
  BY DEF OwnerPcs, SettlePcs, RefundPcs
<1>b. Counted /\ ord[p] \in Orders
  BY DEF ClaimInv, Settle, ClaimSettle, Mint, Persist, Wait, WriteSettled, WriteUnsettled,
     At, TInv, FrameInv, OrderAtHand, OrderPcs, SettlePcs, ClaimPcs
<1>c. ASSUME UNCHANGED <<status, grants, claims>> PROVE Counted'
  BY <1>b, <1>c DEF Counted, Unclaimed
<1>1. CASE ClaimSettle(p)
  <2>1. {"paid"} \in SUBSET Claimable /\ "settling" \in Statuses \ Claimable
    BY DEF Claimable, Statuses
  <2>2. CASE Take(p, {"paid"}, "settling", "mint")
    BY <1>a, <1>b, <2>1, <2>2, TakeClaims
  <2>3. CASE NotSettled(p) /\ UNCHANGED <<rowVars, mint, providerVars, histVars>>
    BY <2>3, <1>c, NotSettledKeeps, SameMints, QuietStep DEF Quiet
  <2> QED BY <1>1, <2>2, <2>3 DEF ClaimSettle
<1>2. CASE Mint(p)
  \* The claim it holds is not one a refund was made under.
  <2>1. Keeps /\ Counted' /\ claims' = claims /\ refunds' = refunds
    BY <1>2, <1>a, <1>c, GotoKeeps, NotSettledKeeps DEF Mint, At, SettlePcs
  <2>2. CASE UNCHANGED mint
    BY <2>1, <2>2, SameMints, QuietStep DEF Quiet
  <2>3. CASE mint' = [mint EXCEPT ![ord[p]][num[p]] = "mempool"] /\ UNCHANGED frame
    <3>1. pc[p] \in SettlePcs /\ pc[p] \in OwnerPcs
      BY <1>2 DEF Mint, At, SettlePcs, OwnerPcs
    <3>2. ord' = ord /\ num' = num
      BY <2>3 DEF frame
    <3>a. \A x \in Orders, n \in Claims :
             mint'[x][n] # "none" => mint[x][n] # "none" \/ (x = ord[p] /\ n = num[p])
      BY <2>3, <1>b DEF TInv, MintOK
    <3>b. ASSUME NEW x \in Orders
           PROVE  Mints(x)' \subseteq Mints(x) \cup (IF x = ord[p] THEN {num[p]} ELSE {})
      BY <3>a DEF Mints
    <3>3. num[p] \in 1..claims[ord[p]] /\ num[p] \notin refunds[ord[p]]
      BY <3>1 DEF ClaimInv, Held, OfOneKind
    <3>4. Spent'
      BY <2>1, <3>b, <3>3, <1>b DEF ClaimInv, Spent
    <3>5. ASSUME NEW r \in Procs, pc'[r] \in OwnerPcs
          PROVE  pc[r] \in OwnerPcs /\ ord[r] \in Orders
      BY <3>5, <2>1 DEF Keeps, OwnerPcs, TInv, FrameInv, OrderAtHand, OrderPcs
    <3>6. Held' /\ Exclusive'
      BY <2>1, <3>2, <3>5 DEF ClaimInv, Held, Exclusive
    <3>7. OfOneKind'
      <4> SUFFICES ASSUME NEW r \in Procs
                   PROVE  /\ pc'[r] \in SettlePcs => num[r] \notin refunds[ord[r]]
                          /\ pc'[r] \in RefundPcs => num[r] \notin Mints(ord[r])'
        BY <2>1, <3>2 DEF OfOneKind
      <4>1. pc'[r] \in SettlePcs => num[r] \notin refunds[ord[r]]
        BY <2>1 DEF Keeps, ClaimInv, OfOneKind
      <4>2. ASSUME pc'[r] \in RefundPcs PROVE num[r] \notin Mints(ord[r])'
        <5>1. pc[r] \in RefundPcs /\ ord[r] \in Orders /\ num[r] \notin Mints(ord[r])
          BY <4>2, <2>1, <3>5 DEF Keeps, ClaimInv, OfOneKind, OwnerPcs
        <5>2. r # p
          BY <5>1, <3>1, <1>a
        <5>3. ord[r] = ord[p] => num[r] # num[p]
          BY <5>1, <5>2, <3>1 DEF ClaimInv, Exclusive, OwnerPcs
        <5> QED BY <5>1, <5>3, <3>2, <3>b
      <4> QED BY <4>1, <4>2
    <3> QED BY <2>1, <3>4, <3>6, <3>7 DEF ClaimInv
  <2> QED BY <1>2, <2>2, <2>3 DEF Mint, Goto
<1>3. CASE Persist(p)
  <2>1. Keeps
    BY <1>3, <1>a, GotoKeeps DEF Persist, At
  <2> QED BY <1>3, <2>1, <1>c, SameMints, QuietStep DEF Persist, Quiet
<1>4. CASE Wait(p)
  <2>1. Keeps
    BY <1>4, <1>a, GotoKeeps DEF Wait, At
  <2> QED BY <1>4, <2>1, <1>c, SameMints, QuietStep DEF Wait, Quiet
<1>5. CASE WriteSettled(p)
  <2>1. Keeps
    BY <1>5, <1>a, GotoKeeps, ReturnKeeps DEF WriteSettled, At
  <2>2. Counted'
    BY <1>5, <1>b, <1>c, PutCounted DEF WriteSettled
  <2> QED BY <1>5, <2>1, <2>2, SameMints, QuietStep DEF WriteSettled, Quiet
<1>6. CASE WriteUnsettled(p)
  <2>1. Counted'
    BY <1>6, <1>b, <1>c, PutCounted DEF WriteUnsettled
  <2> QED BY <1>6, <2>1, NotSettledKeeps, SameMints, QuietStep DEF WriteUnsettled, Quiet
<1> QED BY <1>1, <1>2, <1>3, <1>4, <1>5, <1>6 DEF Settle

LEMMA RefundClaims ==
  ASSUME TInv, ClaimInv, NEW p \in Procs, RefundOrder(p), TInv'
  PROVE  ClaimInv'
<1> USE DEF rowVars, providerVars, histVars
<1>a. /\ "writeRefunded" \in RefundPcs /\ "writeUnrefunded" \in RefundPcs
      /\ "refund" \in OwnerPcs /\ \A s \in RefundPcs : s \notin SettlePcs
  BY DEF OwnerPcs, SettlePcs, RefundPcs
<1>b. Counted /\ ord[p] \in Orders
  BY DEF ClaimInv, RefundOrder, ClaimRefund, Refund, WriteRefunded, WriteUnrefunded,
     At, TInv, FrameInv, OrderAtHand, OrderPcs, RefundPcs, ClaimPcs
<1>c. ASSUME UNCHANGED <<status, grants, claims>> PROVE Counted'
  BY <1>b, <1>c DEF Counted, Unclaimed
<1>1. CASE ClaimRefund(p)
  <2>1. Claimable \in SUBSET Claimable /\ "refunding" \in Statuses \ Claimable
    BY DEF Claimable, Statuses
  <2>2. CASE Take(p, Claimable, "refunding", "refund")
    BY <1>a, <1>b, <2>1, <2>2, TakeClaims
  <2>3. CASE Return(p) /\ UNCHANGED <<rowVars, mint, providerVars, histVars>>
    BY <2>3, <1>c, ReturnKeeps, SameMints, QuietStep DEF Quiet
  <2> QED BY <1>1, <2>2, <2>3 DEF ClaimRefund
<1>2. CASE Refund(p)
  <2>1. Keeps /\ Counted' /\ claims' = claims /\ ord' = ord /\ num' = num
    BY <1>2, <1>a, <1>c, GotoKeeps DEF Refund, At, RefundPcs, Goto, frame
  <2>2. \A x \in Orders : Mints(x)' = Mints(x)
    BY <1>2, SameMints DEF Refund
  <2>3. CASE UNCHANGED refunds
    BY <2>1, <2>2, <2>3, QuietStep DEF Quiet
  <2>4. CASE refunds' = [refunds EXCEPT ![ord[p]] = @ \cup {num[p]}]
    <3>1. pc[p] \in RefundPcs /\ pc[p] \in OwnerPcs
      BY <1>2 DEF Refund, At, RefundPcs, OwnerPcs
    <3>2. \A x \in Orders : refunds'[x] = refunds[x] \cup (IF x = ord[p] THEN {num[p]} ELSE {})
      BY <2>4 DEF TInv, ProviderOK
    <3>3. num[p] \in 1..claims[ord[p]] /\ num[p] \notin Mints(ord[p])
      BY <3>1 DEF ClaimInv, Held, OfOneKind
    <3>4. Spent'
      BY <2>1, <2>2, <3>2, <3>3, <1>b DEF ClaimInv, Spent
    <3>5. ASSUME NEW r \in Procs, pc'[r] \in OwnerPcs
          PROVE  pc[r] \in OwnerPcs /\ ord[r] \in Orders
      BY <3>5, <2>1 DEF Keeps, OwnerPcs, TInv, FrameInv, OrderAtHand, OrderPcs
    <3>6. Held' /\ Exclusive'
      BY <2>1, <3>5 DEF ClaimInv, Held, Exclusive
    <3>7. OfOneKind'
      <4> SUFFICES ASSUME NEW r \in Procs
                   PROVE  /\ pc'[r] \in SettlePcs => num[r] \notin refunds'[ord[r]]
                          /\ pc'[r] \in RefundPcs => num[r] \notin Mints(ord[r])'
        BY <2>1 DEF OfOneKind
      <4>1. ASSUME pc'[r] \in SettlePcs PROVE num[r] \notin refunds'[ord[r]]
        <5>1. pc[r] \in SettlePcs /\ ord[r] \in Orders /\ num[r] \notin refunds[ord[r]]
          BY <4>1, <2>1, <3>5 DEF Keeps, ClaimInv, OfOneKind, OwnerPcs
        <5>2. r # p
          BY <5>1, <3>1, <1>a
        <5>3. ord[r] = ord[p] => num[r] # num[p]
          BY <5>1, <5>2, <3>1 DEF ClaimInv, Exclusive, OwnerPcs
        <5> QED BY <5>1, <5>3, <3>2
      <4>2. ASSUME pc'[r] \in RefundPcs PROVE num[r] \notin Mints(ord[r])'
        <5>1. pc[r] \in RefundPcs /\ ord[r] \in Orders /\ num[r] \notin Mints(ord[r])
          BY <4>2, <2>1, <3>5 DEF Keeps, ClaimInv, OfOneKind, OwnerPcs
        <5> QED BY <5>1, <2>1, <2>2
      <4> QED BY <4>1, <4>2
    <3> QED BY <2>1, <3>4, <3>6, <3>7 DEF ClaimInv
  <2> QED BY <1>2, <2>3, <2>4 DEF Refund
<1>3. CASE WriteRefunded(p)
  <2>1. Counted'
    BY <1>3, <1>b, PutCounted DEF WriteRefunded
  <2> QED BY <1>3, <2>1, ReturnKeeps, SameMints, QuietStep DEF WriteRefunded, Quiet
<1>4. CASE WriteUnrefunded(p)
  <2>1. Counted'
    BY <1>4, <1>b, PutCounted DEF WriteUnrefunded
  <2> QED BY <1>4, <2>1, ReturnKeeps, SameMints, QuietStep DEF WriteUnrefunded, Quiet
<1> QED BY <1>1, <1>2, <1>3, <1>4 DEF RefundOrder

LEMMA CloseClaims ==
  ASSUME TInv, ClaimInv, NEW p \in Procs, Close(p)
  PROVE  Quiet /\ Counted'
<1> USE DEF rowVars, providerVars, histVars, frame
<1>a. /\ "closeNext" \notin OwnerPcs /\ "closeClaim" \notin OwnerPcs
      /\ "claimSettle" \notin OwnerPcs /\ "claimRefund" \notin OwnerPcs
  BY DEF OwnerPcs, SettlePcs, RefundPcs
<1>1. UNCHANGED <<status, mint, refunds, histVars>>
  BY DEF Close, CloseScan, CloseClaim, CloseNext
<1>2. Keeps
  <2>1. CASE CloseScan(p)
    <3>1. CASE Finish(p)
      BY <3>1, FinishKeeps
    <3>2. CASE ~Finish(p)
      BY <2>1, <3>2, <1>a, FreeKeeps DEF CloseScan
    <3> QED BY <3>1, <3>2
  <2>2. CASE CloseClaim(p)
    BY <2>2, <1>a, GotoKeeps, FinishKeeps DEF CloseClaim, OwnerPcs
  <2>3. CASE CloseNext(p)
    <3>1. CASE Finish(p)
      BY <3>1, FinishKeeps
    <3>2. CASE ~Finish(p)
      <4> PICK o \in loop[p].todo :
              /\ pc' = [pc EXCEPT ![p] = IF loop[p].met THEN "claimSettle" ELSE "claimRefund"]
              /\ ord' = [ord EXCEPT ![p] = o]
              /\ num' = num
        BY <2>3, <3>2 DEF CloseNext
      <4>1. \A r \in Procs \ {p} : ord'[r] = ord[r] /\ num'[r] = num[r]
        BY DEF TInv, FrameInv, FrameOK
      <4> QED BY <4>1, <1>a, FreeKeeps
    <3> QED BY <3>1, <3>2
  <2> QED BY <2>1, <2>2, <2>3 DEF Close
<1> QED BY <1>1, <1>2, SameMints DEF Quiet, ClaimInv, Counted, Unclaimed

LEMMA SweepClaims ==
  ASSUME TInv, ClaimInv, NEW p \in Procs, Sweep(p)
  PROVE  Quiet /\ Counted'
<1> USE DEF rowVars, providerVars, histVars, frame
<1>a. /\ "recNext" \notin OwnerPcs /\ "recReceipt" \notin OwnerPcs
      /\ "recMempool" \notin OwnerPcs /\ "recSettled" \notin OwnerPcs
      /\ "recRequeue" \notin OwnerPcs /\ "claimSettle" \notin OwnerPcs
  BY DEF OwnerPcs, SettlePcs, RefundPcs
<1>b. Counted
  BY DEF ClaimInv
<1>c. UNCHANGED <<mint, refunds, claims>>
  BY DEF Sweep, RecoverScan, RecoverNext, RecoverReceipt, RecoverMempool, RecoverSettled,
     RecoverRequeue
<1>d. ASSUME UNCHANGED <<status, grants>> PROVE Counted'
  BY <1>b, <1>c, <1>d DEF Counted, Unclaimed
<1>e. pc[p] \in {"recSettled", "recRequeue"} => ord[p] \in Orders
  BY DEF TInv, FrameInv, OrderAtHand, OrderPcs
<1>1. CASE RecoverScan(p)
  BY <1>1, <1>a, <1>c, <1>d, FreeKeeps, SameMints DEF RecoverScan, Quiet
<1>2. CASE RecoverNext(p)
  <2>1. CASE Finish(p)
    BY <1>2, <2>1, <1>c, <1>d, FinishKeeps, SameMints DEF RecoverNext, Quiet
  <2>2. CASE ~Finish(p)
    <3> PICK o \in loop[p].todo :
            /\ pc' = [pc EXCEPT ![p] = IF loop[p].seen[o] = 0 THEN "recRequeue"
                                                          ELSE "recReceipt"]
            /\ ord' = [ord EXCEPT ![p] = o]
            /\ num' = [num EXCEPT ![p] = loop[p].seen[o]]
      BY <1>2, <2>2 DEF RecoverNext
    <3>1. \A r \in Procs \ {p} : ord'[r] = ord[r] /\ num'[r] = num[r]
      BY DEF TInv, FrameInv, FrameOK
    <3>2. Keeps
      BY <3>1, <1>a, FreeKeeps
    <3> QED BY <1>2, <3>2, <1>c, <1>d, SameMints DEF RecoverNext, Quiet
  <2> QED BY <2>1, <2>2
<1>3. CASE RecoverReceipt(p)
  <2>1. Keeps
    BY <1>3, <1>a, GotoKeeps, ReturnKeeps DEF RecoverReceipt, OwnerPcs
  <2> QED BY <1>3, <2>1, <1>c, <1>d, SameMints DEF RecoverReceipt, Quiet
<1>4. CASE RecoverMempool(p)
  <2>1. Keeps
    BY <1>4, <1>a, GotoKeeps, ReturnKeeps DEF RecoverMempool, OwnerPcs
  <2> QED BY <1>4, <2>1, <1>c, <1>d, SameMints DEF RecoverMempool, Quiet
<1>5. CASE RecoverSettled(p)
  <2>1. Counted'
    BY <1>5, <1>b, <1>c, <1>e, PutCounted DEF RecoverSettled, At
  <2> QED BY <1>5, <2>1, <1>c, ReturnKeeps, SameMints DEF RecoverSettled, Quiet
<1>6. CASE RecoverRequeue(p)
  <2>1. Counted'
    BY <1>6, <1>b, <1>c, <1>e, PutCounted DEF RecoverRequeue, At
  <2>2. Keeps
    <3>1. CASE Escrow
      BY <1>6, <3>1, ReturnKeeps DEF RecoverRequeue
    <3>2. CASE ~Escrow
      <4>1. \A r \in Procs \ {p} : ord'[r] = ord[r] /\ num'[r] = num[r]
        BY <1>6, <3>2 DEF RecoverRequeue, TInv, FrameInv, FrameOK
      <4> QED BY <1>6, <3>2, <4>1, <1>a, FreeKeeps DEF RecoverRequeue
    <3> QED BY <3>1, <3>2
  <2> QED BY <2>1, <2>2, <1>c, SameMints DEF Quiet
<1> QED BY <1>1, <1>2, <1>3, <1>4, <1>5, <1>6 DEF Sweep

\* An entry point puts an idle process to work, under no claim.
LEMMA CallClaims ==
  ASSUME TInv, ClaimInv, NEW p \in Procs, Call(p)
  PROVE  Quiet /\ Counted'
<1> USE DEF rowVars, providerVars, histVars, frame
<1>a. /\ "capture" \notin OwnerPcs /\ "cryptoDup" \notin OwnerPcs
      /\ "hookCaptured" \notin OwnerPcs /\ "hookFailed" \notin OwnerPcs
      /\ "hookRefunded" \notin OwnerPcs /\ "closeScan" \notin OwnerPcs
      /\ "expire" \notin OwnerPcs
  BY DEF OwnerPcs, SettlePcs, RefundPcs
<1>b. ASSUME NEW o, NEW next, next \notin OwnerPcs, Begin(p, o, next) PROVE Keeps
  <2>1. \A r \in Procs \ {p} : ord'[r] = ord[r] /\ num'[r] = num[r]
    BY <1>b DEF Begin, TInv, FrameInv, FrameOK
  <2> QED BY <1>b, <2>1, FreeKeeps DEF Begin
<1>1. UNCHANGED <<status, mint, refunds, histVars>>
  BY DEF Call, PayStart, CryptoStart, HookClaim, CloseStart, SweepStart
<1>2. Keeps
  <2>1. ASSUME NEW o \in Orders, PayStart(p, o) PROVE Keeps
    BY <2>1, <1>a, <1>b DEF PayStart
  <2>2. ASSUME NEW o \in Orders, NEW t \in CryptoTxs, CryptoStart(p, o, t) PROVE Keeps
    <3>1. \A r \in Procs \ {p} : ord'[r] = ord[r] /\ num'[r] = num[r]
      BY <2>2 DEF CryptoStart, TInv, FrameInv, FrameOK
    <3> QED BY <2>2, <3>1, <1>a, FreeKeeps DEF CryptoStart
  <2>3. ASSUME NEW o \in Orders, NEW type \in EventTypes, HookClaim(p, o, type) PROVE Keeps
    <3>1. HookPc[type] \notin OwnerPcs
      BY <1>a DEF HookPc, EventTypes
    <3> QED BY <2>3, <3>1, <1>b DEF HookClaim
  <2>4. CASE CloseStart(p)
    BY <2>4, <1>a, FreeKeeps DEF CloseStart
  <2>5. CASE SweepStart(p)
    BY <2>5, <1>a, GotoKeeps DEF SweepStart, OwnerPcs
  <2> QED BY <2>1, <2>2, <2>3, <2>4, <2>5 DEF Call
<1> QED BY <1>1, <1>2, SameMints DEF Quiet, ClaimInv, Counted, Unclaimed

LEMMA EnvironmentClaims ==
  ASSUME TInv, ClaimInv, Environment
  PROVE  Quiet /\ Counted'
<1> USE DEF rowVars, providerVars, histVars, frame
<1>1. UNCHANGED <<status, refunds, histVars, pc, ord, num>>
  BY DEF Environment, ProviderEvent, Include, SetStatus
<1>2. Keeps /\ Counted'
  BY <1>1 DEF Keeps, ClaimInv, Counted, Unclaimed
<1>3. ASSUME NEW o \in Orders, NEW n \in Claims, Include(o, n)
      PROVE  \A x \in Orders : Mints(x)' = Mints(x)
  <2>1. \A x \in Orders, k \in Claims : mint'[x][k] = "none" <=> mint[x][k] = "none"
    BY <1>3 DEF Include, TInv, MintOK
  <2> QED BY <2>1 DEF Mints
<1>4. \A x \in Orders : Mints(x)' = Mints(x)
  BY <1>3, SameMints DEF Environment, ProviderEvent, SetStatus
<1> QED BY <1>1, <1>2, <1>4 DEF Quiet

LEMMA InitClaims == Init => ClaimInv
<1> SUFFICES ASSUME Init PROVE ClaimInv
  OBVIOUS
<1>1. Counted
  BY DEF Init, Counted, Unclaimed, Claimable, NoSeen
<1>2. Held /\ Exclusive /\ OfOneKind
  BY DEF Init, Held, Exclusive, OfOneKind, OwnerPcs, SettlePcs, RefundPcs
<1>3. Spent
  BY DEF Init, Spent, Mints
<1> QED BY <1>1, <1>2, <1>3 DEF ClaimInv

LEMMA NextClaims == TInv /\ ClaimInv /\ [Next]_vars => ClaimInv'
<1> SUFFICES ASSUME TInv, ClaimInv, [Next]_vars PROVE ClaimInv'
  OBVIOUS
<1>0. TInv'
  BY NextTyped
<1>1. ASSUME NEW p \in Procs, Advance(p) PROVE ClaimInv'
  BY <1>0, <1>1, QuietStep, SettleClaims, RefundClaims, HandleClaims, CloseClaims, SweepClaims
  DEF Advance
<1>2. ASSUME NEW p \in Procs, Call(p) PROVE ClaimInv'
  BY <1>2, QuietStep, CallClaims
<1>3. ASSUME NEW p \in Procs, Crash(p) PROVE ClaimInv'
  <2>1. Quiet /\ Counted'
    BY <1>3, FinishKeeps, SameMints
    DEF Crash, Quiet, ClaimInv, Counted, Unclaimed, rowVars, providerVars, histVars
  <2> QED BY <2>1, QuietStep
<1>4. ASSUME NEW p \in Procs, NEW o \in Orders, Expire(p, o) PROVE ClaimInv'
  <2>1. Quiet
    BY <1>4, SameMints DEF Expire, Quiet, Keeps, frame, providerVars, histVars
  <2>2. Counted'
    BY <1>4 DEF Expire, ClaimInv, Counted, Unclaimed, Claimable, TInv, RowsOK, HistoryOK, histVars
  <2> QED BY <2>1, <2>2, QuietStep
<1>5. CASE Environment
  BY <1>5, QuietStep, EnvironmentClaims
<1>6. CASE UNCHANGED vars
  <2>1. Quiet /\ Counted'
    BY <1>6, SameMints
    DEF vars, Quiet, Keeps, ClaimInv, Counted, Unclaimed, rowVars, providerVars, histVars, frame
  <2> QED BY <2>1, QuietStep
<1> QED BY <1>1, <1>2, <1>3, <1>4, <1>5, <1>6 DEF Next

\* However handlers interleave, fail and retry, an order has no more mints and
\* refunds together than it had writes that made it claimable, and no claim
\* buys both.
THEOREM ClaimsBuyOnce == Spec => []OneOutcomePerGrant
<1>1. Init => TInv /\ ClaimInv
  BY InitTyped, InitClaims
<1>2. TInv /\ ClaimInv /\ [Next]_vars => (TInv /\ ClaimInv)'
  BY NextTyped, NextClaims
<1>3. TInv /\ ClaimInv => OneOutcomePerGrant
  <2> SUFFICES ASSUME TInv, ClaimInv, NEW o \in Orders
               PROVE  /\ Mints(o) \cap refunds[o] = {}
                      /\ Mints(o) \cup refunds[o] \subseteq 1..grants[o]
    BY DEF OneOutcomePerGrant
  <2>1. claims[o] <= grants[o] /\ claims[o] \in Nat /\ grants[o] \in Nat
    BY MaxClaimsAssumption DEF ClaimInv, Counted, Unclaimed, TInv, HistoryOK
  <2> QED BY <2>1 DEF ClaimInv, Spent
<1> QED BY <1>1, <1>2, <1>3, PTL DEF Spec

-----------------------------------------------------------------------------
(***************************************************************************)
(* What the rows say of the money and of the chain.  A handler that goes   *)
(* on without asking again knows why its order is paid for, its claim      *)
(* unused or its mint in a block, and nothing takes that from it: money    *)
(* taken, events, refunds and mined transactions stay.                     *)
(***************************************************************************)
FundedPcs == SettlePcs \cup RefundPcs \cup
  {"writePaid", "afterPaid", "hookCaptured", "claimSettle", "claimRefund",
   "recReceipt", "recMempool", "recSettled", "recRequeue"}

PaidFor(o) == o \in captured \/ payRef[o] # Checkout

\* What p knows at the call it makes next.
Grounded(p) ==
  /\ pc[p] \in FundedPcs => PaidFor(ord[p])
  /\ pc[p] \in {"cryptoDup", "writeCrypto"} => loop[p].pay \in CryptoTxs
  /\ \A o \in loop[p].todo : PaidFor(o)
  /\ pc[p] \in {"hookRefunded", "writeHookRefunded"} => <<ord[p], "refunded">> \in events
  /\ pc[p] = "writeRefunded" => refunds[ord[p]] # {}
  /\ pc[p] = "mint" => mint[ord[p]][num[p]] = "none"
  /\ pc[p] \in {"recReceipt", "recSettled"} => num[p] \in Claims
  /\ pc[p] \in {"writeSettled", "recSettled"} => mint[ord[p]][num[p]] = "mined"
Grounds == \A p \in Procs : Grounded(p)

\* What a row says is so.
StatusIsPaid == \A o \in Orders : status[o] \in {"paid", "settling", "settled"} => PaidFor(o)
EventIsCapture == \A o \in Orders : <<o, "captured">> \in events => o \in captured
Recorded ==
  StatusIsPaid /\ EventIsCapture /\ SettledIsMinted /\ RefundedIsReturned /\ MintedIsPaidFor

OutcomeInv == Grounds /\ Recorded

-----------------------------------------------------------------------------
\* What was known of an order stays true.
Grows ==
  /\ captured \subseteq captured' /\ events \subseteq events'
  /\ \A o \in Orders : refunds[o] # {} => refunds'[o] # {}
  /\ \A o \in Orders : payRef[o] # Checkout => payRef'[o] # Checkout
  /\ \A o \in Orders, n \in Claims : mint[o][n] = "mined" => mint'[o][n] = "mined"

\* Nobody but p used a claim that another process is about to mint under.
Unused(p) == \A r \in Procs \ {p} : pc[r] = "mint" => mint'[ord[r]][num[r]] = "none"

\* Steps that change a status, an offering, a hash or a claim at most.
Calm == UNCHANGED <<payRef, mint, captured, refunds, events>>

LEMMA CalmGrows == ASSUME Grounds, Calm, NEW p PROVE Grows /\ Unused(p)
BY DEF Grounds, Grounded, Calm, Grows, Unused

LEMMA StaysPaid == ASSUME Grows, NEW o \in Orders, PaidFor(o) PROVE PaidFor(o)'
BY DEF Grows, PaidFor

LEMMA StaysGrounded ==
  ASSUME TInv, Grows, NEW r \in Procs, Grounded(r),
         pc'[r] = pc[r], ord'[r] = ord[r], num'[r] = num[r], loop'[r] = loop[r],
         pc[r] = "mint" => mint'[ord[r]][num[r]] = "none"
  PROVE  Grounded(r)'
<1>1. /\ pc[r] \in OrderPcs => ord[r] \in Orders
      /\ pc[r] \in OwnerPcs => num[r] \in Claims
      /\ loop[r].todo \subseteq Orders
  BY DEF TInv, FrameInv, FrameOK, OrderAtHand, Loops
<1>2. FundedPcs \subseteq OrderPcs /\ "writeSettled" \in OwnerPcs
      /\ {"hookRefunded", "writeHookRefunded", "writeRefunded", "writeSettled", "recSettled"} \subseteq OrderPcs
  BY DEF FundedPcs, OrderPcs, ClaimPcs, OwnerPcs, SettlePcs, RefundPcs
<1>3. pc[r] \in FundedPcs => PaidFor(ord[r])'
  <2> SUFFICES ASSUME pc[r] \in FundedPcs PROVE ord'[r] \in captured' \/ payRef'[ord'[r]] # Checkout
    BY DEF PaidFor
  <2> QED BY <1>1, <1>2 DEF Grounded, PaidFor, Grows
<1>4. \A o \in loop'[r].todo : PaidFor(o)'
  BY <1>1 DEF Grounded, PaidFor, Grows
<1> QED BY <1>1, <1>2, <1>3, <1>4 DEF Grounded, Grows

LEMMA OthersGrounded ==
  ASSUME TInv, Grounds, Grows, NEW p \in Procs, Unused(p), Grounded(p)',
         \A r \in Procs \ {p} : /\ pc'[r] = pc[r] /\ ord'[r] = ord[r]
                                /\ num'[r] = num[r] /\ loop'[r] = loop[r]
  PROVE  Grounds'
BY StaysGrounded DEF Grounds, Unused

\* The process goes on to its next call and knows what that asks for.
LEMMA GotoGrounds ==
  ASSUME TInv, Grounds, Grows, NEW p \in Procs, Unused(p), NEW next, Goto(p, next), next # "mint",
         next \in FundedPcs => ord[p] \in captured' \/ payRef'[ord[p]] # Checkout,
         next \in {"cryptoDup", "writeCrypto"} => loop[p].pay \in CryptoTxs,
         next \in {"hookRefunded", "writeHookRefunded"} => <<ord[p], "refunded">> \in events',
         next = "writeRefunded" => refunds'[ord[p]] # {},
         next \in {"recReceipt", "recSettled"} => num[p] \in Claims,
         next \in {"writeSettled", "recSettled"} => mint'[ord[p]][num[p]] = "mined"
  PROVE  Grounds'
<1>1. /\ pc' = [pc EXCEPT ![p] = next] /\ pc'[p] = next
      /\ ord' = ord /\ num' = num /\ loop' = loop
  BY DEF Goto, frame, TInv, FrameInv, FrameOK
<1>2. \A r \in Procs \ {p} : pc'[r] = pc[r]
  BY <1>1 DEF TInv, FrameInv, FrameOK
<1>3. \A o \in loop[p].todo : PaidFor(o)'
  <2>1. loop[p].todo \subseteq Orders
    BY DEF TInv, FrameInv, FrameOK, Loops
  <2> QED BY <2>1 DEF Grounds, Grounded, PaidFor, Grows
<1>4. Grounded(p)'
  BY <1>1, <1>3 DEF Grounded, PaidFor
<1> QED BY <1>1, <1>2, <1>4, OthersGrounded

LEMMA FreePcs ==
  ASSUME NEW here \in {"idle", "closeNext", "closeClaim", "closeScan", "expire", "recNext"}
  PROVE  /\ here \notin FundedPcs
         /\ here \notin {"cryptoDup", "writeCrypto", "hookRefunded", "writeHookRefunded"}
         /\ here \notin {"writeRefunded", "mint", "recReceipt", "recSettled", "writeSettled"}
BY DEF FundedPcs, SettlePcs, RefundPcs

\* At a call about no order, a process knows of the orders it has still to do.
LEMMA FreeGrounds ==
  ASSUME TInv, Grounds, Grows, NEW p \in Procs, Unused(p),
         NEW here \in {"idle", "closeNext", "closeClaim", "closeScan", "expire", "recNext"},
         pc'[p] = here, \A o \in loop'[p].todo : PaidFor(o)',
         \A r \in Procs \ {p} : /\ pc'[r] = pc[r] /\ ord'[r] = ord[r]
                                /\ num'[r] = num[r] /\ loop'[r] = loop[r]
  PROVE  Grounds'
<1>1. Grounded(p)'
  BY FreePcs DEF Grounded
<1> QED BY <1>1, OthersGrounded

LEMMA TodoStays ==
  ASSUME TInv, Grounds, Grows, NEW p \in Procs
  PROVE  \A o \in loop[p].todo : PaidFor(o)'
<1>1. loop[p].todo \subseteq Orders
  BY DEF TInv, FrameInv, FrameOK, Loops
<1> QED BY <1>1 DEF Grounds, Grounded, PaidFor, Grows

LEMMA FinishGrounds ==
  ASSUME TInv, Grounds, Grows, NEW p \in Procs, Unused(p), Finish(p)
  PROVE  Grounds'
<1>1. pc'[p] = "idle" /\ loop'[p].todo = {}
  BY DEF Finish, NoLoop, TInv, FrameInv, FrameOK
<1>2. \A r \in Procs \ {p} : /\ pc'[r] = pc[r] /\ ord'[r] = ord[r]
                             /\ num'[r] = num[r] /\ loop'[r] = loop[r]
  BY DEF Finish, TInv, FrameInv, FrameOK
<1> QED BY <1>1, <1>2, FreeGrounds

LEMMA ReturnGrounds ==
  ASSUME TInv, Grounds, Grows, NEW p \in Procs, Unused(p), Return(p)
  PROVE  Grounds'
<1>1. pc'[p] \in {"idle", "closeNext", "recNext"}
  BY DEF Return, TInv, FrameInv, FrameOK, Loops
<1>2. loop'[p].todo \subseteq loop[p].todo
  BY DEF Return, NoLoop, TInv, FrameInv, FrameOK
<1>3. \A o \in loop'[p].todo : PaidFor(o)'
  BY <1>2, TodoStays
<1>4. \A r \in Procs \ {p} : /\ pc'[r] = pc[r] /\ ord'[r] = ord[r]
                             /\ num'[r] = num[r] /\ loop'[r] = loop[r]
  BY DEF Return, TInv, FrameInv, FrameOK
<1> QED BY <1>1, <1>3, <1>4, FreeGrounds

\* On to a claim, for an order that is paid for.
LEMMA ClaimGrounds ==
  ASSUME TInv, Grounds, Grows, NEW p \in Procs, Unused(p), NEW here \in {"claimSettle", "claimRefund"},
         pc'[p] = here, PaidFor(ord[p])', loop'[p].todo \subseteq loop[p].todo,
         \A r \in Procs \ {p} : /\ pc'[r] = pc[r] /\ ord'[r] = ord[r]
                                /\ num'[r] = num[r] /\ loop'[r] = loop[r]
  PROVE  Grounds'
<1>1. \A o \in loop'[p].todo : PaidFor(o)'
  BY TodoStays
<1>2. Grounded(p)'
  BY <1>1 DEF Grounded
<1> QED BY <1>2, OthersGrounded

LEMMA NotSettledGrounds ==
  ASSUME TInv, Grounds, Grows, NEW p \in Procs, Unused(p), NotSettled(p),
         ord[p] \in Orders, PaidFor(ord[p])
  PROVE  Grounds'
<1>1. CASE loop[p].then = "closeNext"
  <2>1. /\ pc'[p] = "claimRefund" /\ ord' = ord /\ loop' = loop
        /\ \A r \in Procs \ {p} : pc'[r] = pc[r] /\ num'[r] = num[r]
    BY <1>1 DEF NotSettled, TInv, FrameInv, FrameOK
  <2>2. PaidFor(ord[p])'
    BY <2>1 DEF PaidFor, Grows
  <2> QED BY <2>1, <2>2, ClaimGrounds
<1> QED BY <1>1, ReturnGrounds DEF NotSettled


-----------------------------------------------------------------------------
\* A row that is not written says what it said.
LEMMA SameRecorded ==
  ASSUME TInv, Recorded, Grows, UNCHANGED status,
         \A o \in Orders : <<o, "captured">> \in events' => o \in captured',
         \A o \in Orders : Mints(o)' = Mints(o)
  PROVE  Recorded'
<1>1. StatusIsPaid' /\ EventIsCapture'
  BY DEF Recorded, StatusIsPaid, EventIsCapture, PaidFor, Grows
<1>2. SettledIsMinted' /\ RefundedIsReturned'
  BY DEF Recorded, SettledIsMinted, RefundedIsReturned, Grows
<1>3. MintedIsPaidFor'
  BY DEF Recorded, MintedIsPaidFor, PaidFor, Grows
<1> QED BY <1>1, <1>2, <1>3 DEF Recorded

LEMMA CalmRecorded == ASSUME TInv, Recorded, Calm, UNCHANGED status PROVE Recorded'
<1>1. Grows /\ \A o \in Orders : Mints(o)' = Mints(o)
  BY SameMints DEF Calm, Grows
<1> QED BY <1>1, SameRecorded DEF Calm, Recorded, EventIsCapture

\* A status that is written is true of the order.
LEMMA PutRecorded ==
  ASSUME TInv, Recorded, NEW o \in Orders, NEW s, status' = [status EXCEPT ![o] = s],
         UNCHANGED <<mint, captured, refunds, events>>,
         \A x \in Orders : payRef[x] # Checkout => payRef'[x] # Checkout,
         s \in {"paid", "settling", "settled"} => PaidFor(o)',
         s = "settled" => \E n \in Claims : mint[o][n] = "mined",
         s = "refunded" => refunds[o] # {} \/ <<o, "refunded">> \in events
  PROVE  Recorded'
<1>1. status'[o] = s /\ \A x \in Orders \ {o} : status'[x] = status[x]
  BY DEF TInv, RowsOK
<1>2. StatusIsPaid' /\ EventIsCapture'
  BY <1>1 DEF Recorded, StatusIsPaid, EventIsCapture, PaidFor
<1>3. SettledIsMinted' /\ RefundedIsReturned'
  BY <1>1 DEF Recorded, SettledIsMinted, RefundedIsReturned
<1>4. MintedIsPaidFor'
  BY DEF Recorded, MintedIsPaidFor, Mints
<1> QED BY <1>2, <1>3, <1>4 DEF Recorded

LEMMA CalmPut ==
  ASSUME TInv, Recorded, Calm, NEW o \in Orders, NEW s, status' = [status EXCEPT ![o] = s],
         s \in {"paid", "settling", "settled"} => PaidFor(o),
         s = "settled" => \E n \in Claims : mint[o][n] = "mined",
         s = "refunded" => refunds[o] # {} \/ <<o, "refunded">> \in events
  PROVE  Recorded'
<1>1. PaidFor(o)' <=> PaidFor(o)
  BY DEF PaidFor, Calm
<1> QED BY <1>1, PutRecorded DEF Calm


-----------------------------------------------------------------------------
(* One lemma per group of steps. *)

LEMMA HandleOutcome ==
  ASSUME TInv, OutcomeInv, NEW p \in Procs, Handle(p)
  PROVE  OutcomeInv'
<1> USE DEF OutcomeInv, rowVars, providerVars
<1>a. pc[p] \in OrderPcs => ord[p] \in Orders
  BY DEF TInv, FrameInv, OrderAtHand
<1>b. Grounded(p)
  BY DEF Grounds
<1>c. {"capture", "writePaid", "writeDeclined", "writeHookFailed", "afterPaid", "cryptoDup", "writeCrypto",
       "hookCaptured", "hookFailed", "hookRefunded", "writeHookRefunded"} \subseteq OrderPcs
  BY DEF OrderPcs
<1>d. /\ {"writePaid", "afterPaid", "hookCaptured", "claimSettle", "claimRefund"} \subseteq FundedPcs
      /\ \A s \in {"writeDeclined", "writeCrypto", "writeHookFailed", "writeHookRefunded"} : s \notin FundedPcs
  BY DEF FundedPcs, SettlePcs, RefundPcs
<1>e. "paid" # "settled" /\ "paid" # "refunded"
  OBVIOUS
<1>1. CASE Capture(p)
  <2>1. ord[p] \in Orders
    BY <1>1, <1>a, <1>c DEF Capture, At
  <2>2. Grows /\ Unused(p)
    BY <1>1 DEF Capture, Grows, Unused, Grounds, Grounded
  <2>3. Recorded'
    <3>1. \A o \in Orders : <<o, "captured">> \in events' => o \in captured'
      BY <1>1 DEF Capture, Recorded, EventIsCapture
    <3> QED BY <1>1, <2>2, <3>1, SameMints, SameRecorded DEF Capture
  <2>4. CASE ord[p] \in captured' /\ Goto(p, "writePaid")
    BY <2>2, <2>3, <2>4, GotoGrounds
  <2>5. CASE Goto(p, "writeDeclined")
    BY <2>2, <2>3, <2>5, <1>d, GotoGrounds
  <2> QED BY <1>1, <2>4, <2>5 DEF Capture
<1>2. CASE WritePaid(p)
  <2>1. ord[p] \in Orders /\ PaidFor(ord[p]) /\ Calm
    BY <1>2, <1>a, <1>b, <1>c, <1>d DEF WritePaid, At, Grounded, Calm
  <2>2. Recorded'
    BY <1>2, <2>1, <1>e, CalmPut DEF WritePaid, Put
  <2>3. Grounds'
    BY <1>2, <2>1, CalmGrows, GotoGrounds DEF WritePaid, PaidFor, Calm
  <2> QED BY <2>2, <2>3
<1>3. CASE WriteDeclined(p)
  <2>1. ord[p] \in Orders /\ Calm
    BY <1>3, <1>a, <1>c DEF WriteDeclined, Calm
  <2>2. Recorded'
    BY <1>3, <2>1, CalmPut DEF WriteDeclined, Put
  <2> QED BY <1>3, <2>1, <2>2, CalmGrows, FinishGrounds DEF WriteDeclined
<1>4. CASE AfterPaid(p)
  <2>1. Calm /\ Recorded' /\ PaidFor(ord[p])
    BY <1>4, <1>b, <1>d, CalmRecorded DEF AfterPaid, At, Calm, Grounded
  <2>2. Grounds'
    BY <1>4, <2>1, CalmGrows, GotoGrounds, FinishGrounds DEF AfterPaid, PaidFor, Calm
  <2> QED BY <2>1, <2>2
<1>5. CASE CryptoDup(p)
  <2>1. Calm /\ Recorded' /\ loop[p].pay \in CryptoTxs
    BY <1>5, <1>b, CalmRecorded DEF CryptoDup, At, Calm, Grounded
  <2>2. Grounds'
    BY <1>5, <2>1, <1>d, CalmGrows, GotoGrounds, FinishGrounds DEF CryptoDup
  <2> QED BY <2>1, <2>2
<1>6. CASE WriteCrypto(p)
  <2>1. ord[p] \in Orders /\ loop[p].pay \in CryptoTxs
    BY <1>6, <1>a, <1>b, <1>c DEF WriteCrypto, At, Grounded
  <2>2. /\ payRef'[ord[p]] # Checkout
        /\ \A x \in Orders : payRef[x] # Checkout => payRef'[x] # Checkout
        /\ UNCHANGED <<mint, captured, refunds, events>>
    BY <1>6, <2>1, CheckoutAssumption DEF WriteCrypto, TInv, RowsOK
  <2>3. Recorded'
    BY <1>6, <2>1, <2>2, <1>e, PutRecorded DEF WriteCrypto, Put, PaidFor
  <2>4. Grows /\ Unused(p)
    BY <2>2 DEF Grows, Unused, Grounds, Grounded
  <2>5. Grounded(p)'
    <3>1. pc'[p] = "afterPaid" /\ ord'[p] = ord[p] /\ loop'[p].todo = {}
      BY <1>6 DEF WriteCrypto, NoLoop, TInv, FrameInv, FrameOK
    <3> QED BY <3>1, <2>2 DEF Grounded, PaidFor
  <2>6. \A r \in Procs \ {p} : /\ pc'[r] = pc[r] /\ ord'[r] = ord[r]
                               /\ num'[r] = num[r] /\ loop'[r] = loop[r]
    BY <1>6 DEF WriteCrypto, TInv, FrameInv, FrameOK
  <2> QED BY <2>3, <2>4, <2>5, <2>6, OthersGrounded
<1>7. CASE HookRead(p)
  <2>1. Calm /\ Recorded'
    BY <1>7, CalmRecorded DEF HookRead, Calm
  <2>2. pc[p] = "hookCaptured" => PaidFor(ord[p])
    BY <1>b, <1>d DEF Grounded
  <2>3. pc[p] = "hookRefunded" => <<ord[p], "refunded">> \in events
    BY <1>b DEF Grounded
  <2>4. Grows /\ Unused(p)
    BY <2>1, CalmGrows
  <2>5. CASE At(p, "hookCaptured") /\ (Goto(p, "writePaid") \/ Goto(p, "afterPaid"))
    BY <2>1, <2>2, <2>4, <2>5, GotoGrounds DEF At, PaidFor, Calm
  <2>6. CASE Goto(p, "writeHookFailed")
    BY <2>1, <2>4, <2>6, <1>d, GotoGrounds
  <2>7. CASE At(p, "hookRefunded") /\ Goto(p, "writeHookRefunded")
    BY <2>1, <2>3, <2>4, <2>7, <1>d, GotoGrounds DEF At, Calm
  <2>8. CASE Finish(p)
    BY <2>1, <2>4, <2>8, FinishGrounds
  <2> QED BY <1>7, <2>5, <2>6, <2>7, <2>8 DEF HookRead
<1>8. CASE WriteHookRefunded(p)
  <2>1. ord[p] \in Orders /\ <<ord[p], "refunded">> \in events /\ Calm
    BY <1>8, <1>a, <1>b, <1>c DEF WriteHookRefunded, At, Grounded, Calm
  <2>2. Recorded'
    BY <1>8, <2>1, CalmPut DEF WriteHookRefunded, Put
  <2> QED BY <1>8, <2>1, <2>2, CalmGrows, FinishGrounds DEF WriteHookRefunded
<1> QED BY <1>1, <1>2, <1>3, <1>4, <1>5, <1>6, <1>7, <1>8 DEF Handle

\* A claim taken is one nothing was minted under, of an order that is paid for.
LEMMA TakeOutcome ==
  ASSUME TInv, ClaimInv, OutcomeInv, NEW p \in Procs, NEW from, NEW to \in {"settling", "refunding"},
         NEW next \in {"mint", "refund"}, ord[p] \in Orders, PaidFor(ord[p]), Take(p, from, to, next)
  PROVE  OutcomeInv'
<1> USE DEF OutcomeInv
<1>1. Calm /\ Recorded'
  <2>1. Calm
    BY DEF Take, Calm, providerVars
  <2> QED BY <2>1, CalmPut DEF Take
<1>2. /\ pc'[p] = next /\ ord'[p] = ord[p] /\ num'[p] = claims[ord[p]] + 1 /\ loop'[p] = loop[p]
      /\ \A r \in Procs \ {p} : /\ pc'[r] = pc[r] /\ ord'[r] = ord[r]
                                /\ num'[r] = num[r] /\ loop'[r] = loop[r]
  BY DEF Take, TInv, FrameInv, FrameOK
<1>3. mint[ord[p]][claims[ord[p]] + 1] = "none"
  <2>1. claims[ord[p]] \in Nat /\ claims[ord[p]] + 1 \in Claims
    BY MaxClaimsAssumption DEF Take, Claims, TInv, HistoryOK
  <2>2. Mints(ord[p]) \subseteq 1..claims[ord[p]]
    BY DEF ClaimInv, Spent
  <2> QED BY <2>1, <2>2 DEF Mints
<1>4. Grows /\ Unused(p)
  BY <1>1, CalmGrows
<1>5. \A o \in loop[p].todo : PaidFor(o)'
  BY <1>4, TodoStays
<1>6. Grounded(p)'
  BY <1>1, <1>2, <1>3, <1>5 DEF Grounded, Calm, PaidFor
<1> QED BY <1>1, <1>2, <1>4, <1>6, OthersGrounded

LEMMA SettleOutcome ==
  ASSUME TInv, ClaimInv, OutcomeInv, NEW p \in Procs, Settle(p)
  PROVE  OutcomeInv'
<1> USE DEF OutcomeInv, rowVars, providerVars
<1>a. ord[p] \in Orders /\ PaidFor(ord[p]) /\ Grounded(p)
  <2>1. pc[p] \in OrderPcs /\ pc[p] \in FundedPcs
    BY DEF Settle, ClaimSettle, Mint, Persist, Wait, WriteSettled, WriteUnsettled, At,
       OrderPcs, ClaimPcs, FundedPcs, SettlePcs
  <2> QED BY <2>1 DEF Grounds, Grounded, TInv, FrameInv, OrderAtHand
<1>b. pc[p] \in SettlePcs => num[p] \in Claims
  BY DEF TInv, FrameInv, OrderAtHand, OwnerPcs
<1>c. ASSUME Calm PROVE Grows /\ Unused(p)
  BY <1>c, CalmGrows
<1>d. \A o : PaidFor(o) => (o \in captured \/ payRef[o] # Checkout)
  BY DEF PaidFor
<1>1. CASE ClaimSettle(p)
  <2>1. CASE Take(p, {"paid"}, "settling", "mint")
    BY <2>1, <1>a, TakeOutcome
  <2>2. CASE NotSettled(p) /\ UNCHANGED <<rowVars, mint, providerVars, histVars>>
    <3>1. Calm
      BY <2>2 DEF Calm
    <3> QED BY <2>2, <3>1, <1>a, <1>c, CalmRecorded, NotSettledGrounds
  <2> QED BY <1>1, <2>1, <2>2 DEF ClaimSettle
<1>2. CASE Mint(p)
  <2>1. num[p] \in Claims /\ mint[ord[p]][num[p]] = "none" /\ pc[p] \in OwnerPcs
    BY <1>2, <1>a, <1>b DEF Mint, At, Grounded, SettlePcs, OwnerPcs
  <2>2. CASE UNCHANGED mint
    <3>1. Calm
      BY <1>2, <2>2 DEF Mint, Calm
    <3>2. Recorded'
      BY <1>2, <3>1, CalmRecorded DEF Mint
    <3>3. CASE NotSettled(p)
      BY <3>1, <3>2, <3>3, <1>a, <1>c, NotSettledGrounds
    <3>4. CASE Goto(p, "writeUnsettled") \/ Goto(p, "persist")
      BY <3>1, <3>2, <3>4, <1>a, <1>c, <1>d, GotoGrounds DEF Calm
    <3> QED BY <1>2, <3>3, <3>4 DEF Mint
  <2>3. CASE mint' = [mint EXCEPT ![ord[p]][num[p]] = "mempool"] /\ (Goto(p, "persist") \/ Goto(p, "writeUnsettled"))
    <3>1. \A o \in Orders, n \in Claims :
             mint'[o][n] = IF o = ord[p] /\ n = num[p] THEN "mempool" ELSE mint[o][n]
      BY <2>1, <2>3, <1>a DEF TInv, MintOK
    <3>2. Grows
      BY <1>2, <3>1, <2>1 DEF Mint, Grows
    <3>3. Unused(p)
      <4> SUFFICES ASSUME NEW r \in Procs \ {p}, pc[r] = "mint" PROVE mint'[ord[r]][num[r]] = "none"
        BY DEF Unused
      <4>1. /\ ord[r] \in Orders /\ num[r] \in Claims /\ mint[ord[r]][num[r]] = "none"
            /\ pc[r] \in OwnerPcs
        <5>1. "mint" \in OwnerPcs /\ "mint" \in OrderPcs
          BY DEF OwnerPcs, OrderPcs, SettlePcs
        <5> QED BY <5>1 DEF Grounds, Grounded, TInv, FrameInv, OrderAtHand
      <4>2. ord[r] = ord[p] => num[r] # num[p]
        BY <2>1, <4>1 DEF ClaimInv, Exclusive
      <4> QED BY <3>1, <4>1, <4>2
    <3>4. Grounds'
      BY <1>2, <2>3, <3>2, <3>3, <1>a, <1>d, GotoGrounds DEF Mint
    <3>5. Recorded'
      <4>1. StatusIsPaid' /\ EventIsCapture'
        BY <1>2 DEF Mint, Recorded, StatusIsPaid, EventIsCapture, PaidFor
      <4>2. SettledIsMinted' /\ RefundedIsReturned'
        BY <1>2, <3>2 DEF Mint, Recorded, SettledIsMinted, RefundedIsReturned, Grows
      <4>3. MintedIsPaidFor'
        <5> SUFFICES ASSUME NEW o \in Orders, Mints(o)' # {}
                     PROVE  o \in captured' \/ payRef'[o] # Checkout
          BY DEF MintedIsPaidFor
        <5>1. CASE o = ord[p]
          BY <1>2, <5>1, <1>a DEF Mint, PaidFor
        <5>2. CASE o # ord[p]
          <6>1. Mints(o)' = Mints(o)
            BY <3>1, <5>2 DEF Mints
          <6> QED BY <1>2, <6>1 DEF Mint, Recorded, MintedIsPaidFor
        <5> QED BY <5>1, <5>2
      <4> QED BY <4>1, <4>2, <4>3 DEF Recorded
    <3> QED BY <3>4, <3>5
  <2> QED BY <1>2, <2>2, <2>3 DEF Mint
<1>3. CASE Persist(p)
  <2>1. Calm /\ Recorded'
    BY <1>3, CalmRecorded DEF Persist, Calm
  <2> QED BY <1>3, <2>1, <1>a, <1>c, <1>d, GotoGrounds DEF Persist, Calm
<1>4. CASE Wait(p)
  <2>1. Calm /\ Recorded'
    BY <1>4, CalmRecorded DEF Wait, Calm
  <2>2. CASE mint[ord[p]][num[p]] = "mined" /\ Goto(p, "writeSettled")
    BY <2>1, <2>2, <1>a, <1>c, <1>d, GotoGrounds DEF Calm
  <2>3. CASE Goto(p, "writeUnsettled")
    BY <2>1, <2>3, <1>a, <1>c, <1>d, GotoGrounds DEF Calm
  <2> QED BY <1>4, <2>2, <2>3 DEF Wait
<1>5. CASE WriteSettled(p)
  <2>1. Calm /\ num[p] \in Claims /\ mint[ord[p]][num[p]] = "mined"
    BY <1>5, <1>a, <1>b DEF WriteSettled, At, Grounded, Calm, SettlePcs
  <2>2. CASE Put(ord[p], "settled") /\ Return(p)
    <3>1. Recorded'
      BY <2>1, <2>2, <1>a, CalmPut DEF Put
    <3> QED BY <2>1, <2>2, <3>1, <1>c, ReturnGrounds
  <2>3. CASE Goto(p, "writeUnsettled") /\ UNCHANGED status
    BY <2>1, <2>3, <1>a, <1>c, <1>d, CalmRecorded, GotoGrounds DEF Calm
  <2> QED BY <1>5, <2>2, <2>3 DEF WriteSettled
<1>6. CASE WriteUnsettled(p)
  <2>1. Calm
    BY <1>6 DEF WriteUnsettled, Calm
  <2>2. Grounds'
    BY <1>6, <2>1, <1>a, <1>c, NotSettledGrounds DEF WriteUnsettled
  <2>3. Recorded'
    BY <1>6, <2>1, <1>a, CalmPut, CalmRecorded DEF WriteUnsettled, Put
  <2> QED BY <2>2, <2>3
<1> QED BY <1>1, <1>2, <1>3, <1>4, <1>5, <1>6 DEF Settle


LEMMA RefundOutcome ==
  ASSUME TInv, ClaimInv, OutcomeInv, NEW p \in Procs, RefundOrder(p)
  PROVE  OutcomeInv'
<1> USE DEF OutcomeInv, rowVars, providerVars
<1>a. ord[p] \in Orders /\ PaidFor(ord[p]) /\ Grounded(p)
  <2>1. pc[p] \in OrderPcs /\ pc[p] \in FundedPcs
    BY DEF RefundOrder, ClaimRefund, Refund, WriteRefunded, WriteUnrefunded, At,
       OrderPcs, ClaimPcs, FundedPcs, RefundPcs
  <2> QED BY <2>1 DEF Grounds, Grounded, TInv, FrameInv, OrderAtHand
<1>b. ASSUME Calm PROVE Grows /\ Unused(p)
  BY <1>b, CalmGrows
<1>1. CASE ClaimRefund(p)
  <2>1. CASE Take(p, Claimable, "refunding", "refund")
    BY <2>1, <1>a, TakeOutcome
  <2>2. CASE Return(p) /\ UNCHANGED <<rowVars, mint, providerVars, histVars>>
    <3>1. Calm
      BY <2>2 DEF Calm
    <3> QED BY <2>2, <3>1, <1>b, CalmRecorded, ReturnGrounds
  <2> QED BY <1>1, <2>1, <2>2 DEF ClaimRefund
<1>2. CASE Refund(p)
  <2>1. refunds' = [refunds EXCEPT ![ord[p]] = @ \cup {num[p]}] \/ refunds' = refunds
    BY <1>2 DEF Refund
  <2>2. Grows /\ Unused(p)
    <3>1. \A o \in Orders : refunds[o] # {} => refunds'[o] # {}
      BY <2>1 DEF TInv, ProviderOK
    <3> QED BY <1>2, <3>1 DEF Refund, Grows, Unused, Grounds, Grounded
  <2>3. Recorded'
    BY <1>2, <2>2, SameMints, SameRecorded DEF Refund, Recorded, EventIsCapture
  <2>4. CASE refunds' = [refunds EXCEPT ![ord[p]] = @ \cup {num[p]}] /\ Goto(p, "writeRefunded")
    <3>1. refunds'[ord[p]] # {}
      BY <2>4, <1>a DEF TInv, ProviderOK
    <3> QED BY <1>2, <2>2, <2>3, <2>4, <3>1, <1>a, GotoGrounds DEF Refund, PaidFor
  <2>5. CASE Goto(p, "writeUnrefunded")
    BY <1>2, <2>2, <2>3, <2>5, <1>a, GotoGrounds DEF Refund, PaidFor
  <2> QED BY <1>2, <2>4, <2>5 DEF Refund
<1>3. CASE WriteRefunded(p)
  <2>1. Calm /\ refunds[ord[p]] # {}
    BY <1>3, <1>a DEF WriteRefunded, At, Calm, Grounded
  <2>2. Recorded'
    BY <1>3, <2>1, <1>a, CalmPut DEF WriteRefunded, Put
  <2> QED BY <1>3, <2>1, <2>2, <1>b, ReturnGrounds DEF WriteRefunded
<1>4. CASE WriteUnrefunded(p)
  <2>1. Calm
    BY <1>4 DEF WriteUnrefunded, Calm
  <2>2. Recorded'
    BY <1>4, <2>1, <1>a, CalmPut DEF WriteUnrefunded, Put
  <2> QED BY <1>4, <2>1, <2>2, <1>b, ReturnGrounds DEF WriteUnrefunded
<1> QED BY <1>1, <1>2, <1>3, <1>4 DEF RefundOrder

\* A close works on orders it read as paid.
LEMMA CloseOutcome ==
  ASSUME TInv, OutcomeInv, NEW p \in Procs, Close(p)
  PROVE  OutcomeInv'
<1> USE DEF OutcomeInv, rowVars, providerVars
<1>1. Calm /\ UNCHANGED status
  BY DEF Close, CloseScan, CloseClaim, CloseNext, Calm
<1>2. Recorded' /\ Grows /\ Unused(p)
  BY <1>1, CalmRecorded, CalmGrows
<1>3. \A o \in Orders : PaidFor(o) => PaidFor(o)'
  BY <1>1 DEF Calm, PaidFor
<1>4. CASE Finish(p)
  BY <1>2, <1>4, FinishGrounds
<1>5. CASE CloseScan(p) /\ ~Finish(p)
  <2>1. /\ pc'[p] \in {"closeNext", "closeClaim"} /\ loop'[p].todo = Escrowed
        /\ \A r \in Procs \ {p} : /\ pc'[r] = pc[r] /\ ord'[r] = ord[r]
                                  /\ num'[r] = num[r] /\ loop'[r] = loop[r]
    <3>1. /\ pc' = [pc EXCEPT ![p] = IF loop[p].closed THEN "closeNext" ELSE "closeClaim"]
          /\ ord' = ord /\ num' = num
          /\ loop' = [loop EXCEPT ![p] = [loop[p] EXCEPT
                        !.todo = Escrowed, !.then = "closeNext",
                        !.met = IF loop[p].closed THEN loop[p].met ELSE Met]]
      BY <1>5 DEF CloseScan
    <3>2. pc \in [Procs -> Pcs] /\ loop \in [Procs -> Loops]
      BY DEF TInv, FrameInv, FrameOK
    <3>3. loop'[p].todo = Escrowed
      BY <3>1, <3>2 DEF Loops
    <3> QED BY <3>1, <3>2, <3>3
  <2>2. \A o \in Escrowed : PaidFor(o)'
    BY <1>3 DEF Escrowed, Recorded, StatusIsPaid
  <2> QED BY <1>2, <2>1, <2>2, FreeGrounds
<1>6. CASE CloseClaim(p) /\ ~Finish(p)
  <2>1. Goto(p, "closeNext")
    BY <1>6 DEF CloseClaim
  <2> QED BY <1>2, <2>1, FreePcs, GotoGrounds
<1>7. CASE CloseNext(p) /\ ~Finish(p)
  <2> PICK o \in loop[p].todo :
          /\ pc' = [pc EXCEPT ![p] = IF loop[p].met THEN "claimSettle" ELSE "claimRefund"]
          /\ ord' = [ord EXCEPT ![p] = o]
          /\ loop' = [loop EXCEPT ![p].todo = @ \ {o}]
          /\ UNCHANGED num
    BY <1>7 DEF CloseNext
  <2>1. /\ pc'[p] \in {"claimSettle", "claimRefund"} /\ ord'[p] = o
        /\ loop'[p].todo \subseteq loop[p].todo
        /\ \A r \in Procs \ {p} : /\ pc'[r] = pc[r] /\ ord'[r] = ord[r]
                                  /\ num'[r] = num[r] /\ loop'[r] = loop[r]
    BY DEF TInv, FrameInv, FrameOK, Loops
  <2>2. PaidFor(o)'
    BY <1>2, TodoStays
  <2>3. Grounded(p)'
    <3>1. \A x \in loop'[p].todo : PaidFor(x)'
      BY <1>2, <2>1, TodoStays
    <3> QED BY <2>1, <2>2, <3>1 DEF Grounded, PaidFor
  <2> QED BY <1>2, <2>1, <2>3, OthersGrounded
<1> QED BY <1>4, <1>5, <1>6, <1>7 DEF Close

\* Recovery works on orders it read as settling, and records a mint it found
\* in a block.
LEMMA SweepOutcome ==
  ASSUME TInv, OutcomeInv, NEW p \in Procs, Sweep(p)
  PROVE  OutcomeInv'
<1> USE DEF OutcomeInv, rowVars, providerVars
<1>1. Calm
  BY DEF Sweep, RecoverScan, RecoverNext, RecoverReceipt, RecoverMempool, RecoverSettled,
     RecoverRequeue, Calm
<1>2. Grows /\ Unused(p) /\ Grounded(p)
  BY <1>1, CalmGrows DEF Grounds
<1>3. ASSUME UNCHANGED status PROVE Recorded'
  BY <1>1, <1>3, CalmRecorded
<1>4. pc[p] \in {"recReceipt", "recMempool", "recSettled", "recRequeue"} => ord[p] \in Orders /\ PaidFor(ord[p])
  BY <1>2 DEF TInv, FrameInv, OrderAtHand, OrderPcs, Grounded, FundedPcs
<1>5. CASE RecoverScan(p)
  <2>1. /\ pc'[p] = "recNext" /\ loop'[p].todo = {o \in Orders : Stale(o)}
        /\ \A r \in Procs \ {p} : /\ pc'[r] = pc[r] /\ ord'[r] = ord[r]
                                  /\ num'[r] = num[r] /\ loop'[r] = loop[r]
    BY <1>5 DEF RecoverScan, TInv, FrameInv, FrameOK, Loops
  <2>2. \A o \in {x \in Orders : Stale(x)} : PaidFor(o)'
    BY <1>1 DEF Stale, Recorded, StatusIsPaid, PaidFor, Calm
  <2> QED BY <1>2, <1>3, <1>5, <2>1, <2>2, FreeGrounds DEF RecoverScan
<1>6. CASE RecoverNext(p)
  <2>1. CASE Finish(p)
    BY <1>2, <1>3, <1>6, <2>1, FinishGrounds DEF RecoverNext
  <2>2. CASE ~Finish(p)
    <3> PICK o \in loop[p].todo :
            /\ pc' = [pc EXCEPT ![p] = IF loop[p].seen[o] = 0 THEN "recRequeue" ELSE "recReceipt"]
            /\ ord' = [ord EXCEPT ![p] = o]
            /\ num' = [num EXCEPT ![p] = loop[p].seen[o]]
            /\ loop' = [loop EXCEPT ![p].todo = @ \ {o}]
      BY <1>6, <2>2 DEF RecoverNext
    <3>1. /\ pc'[p] = IF loop[p].seen[o] = 0 THEN "recRequeue" ELSE "recReceipt"
          /\ ord'[p] = o /\ num'[p] = loop[p].seen[o] /\ loop'[p].todo \subseteq loop[p].todo
          /\ \A r \in Procs \ {p} : /\ pc'[r] = pc[r] /\ ord'[r] = ord[r]
                                    /\ num'[r] = num[r] /\ loop'[r] = loop[r]
      BY DEF TInv, FrameInv, FrameOK, Loops
    <3>2. loop[p].seen[o] # 0 => loop[p].seen[o] \in Claims
      BY MaxClaimsAssumption DEF TInv, FrameInv, FrameOK, Loops, Claims
    <3>3. PaidFor(o)' /\ \A x \in loop'[p].todo : PaidFor(x)'
      BY <1>2, <3>1, TodoStays
    <3>4. Grounded(p)'
      BY <3>1, <3>2, <3>3 DEF Grounded, PaidFor
    <3> QED BY <1>2, <1>3, <1>6, <3>1, <3>4, OthersGrounded DEF RecoverNext
  <2> QED BY <2>1, <2>2
<1>7. CASE RecoverReceipt(p)
  <2>1. Recorded' /\ ord[p] \in Orders /\ PaidFor(ord[p]) /\ num[p] \in Claims
    BY <1>2, <1>3, <1>4, <1>7 DEF RecoverReceipt, At, Grounded
  <2>2. ord[p] \in captured' \/ payRef'[ord[p]] # Checkout
    BY <1>1, <2>1 DEF PaidFor, Calm
  <2>3. CASE mint[ord[p]][num[p]] = "mined" /\ Goto(p, "recSettled")
    BY <1>1, <1>2, <2>1, <2>2, <2>3, GotoGrounds DEF Calm
  <2>4. CASE Goto(p, "recRequeue") \/ Goto(p, "recMempool")
    BY <1>2, <2>1, <2>2, <2>4, GotoGrounds
  <2>5. CASE Return(p)
    BY <1>2, <2>1, <2>5, ReturnGrounds
  <2> QED BY <1>7, <2>3, <2>4, <2>5 DEF RecoverReceipt
<1>8. CASE RecoverMempool(p)
  <2>1. Recorded' /\ (ord[p] \in captured' \/ payRef'[ord[p]] # Checkout)
    BY <1>1, <1>3, <1>4, <1>8 DEF RecoverMempool, At, PaidFor, Calm
  <2>2. CASE Goto(p, "recRequeue")
    BY <1>2, <2>1, <2>2, GotoGrounds
  <2>3. CASE Return(p)
    BY <1>2, <2>1, <2>3, ReturnGrounds
  <2> QED BY <1>8, <2>2, <2>3 DEF RecoverMempool
<1>9. CASE RecoverSettled(p)
  <2>1. num[p] \in Claims /\ mint[ord[p]][num[p]] = "mined"
    BY <1>2, <1>9 DEF RecoverSettled, At, Grounded
  <2>2. Recorded'
    BY <1>1, <1>4, <1>9, <2>1, CalmPut DEF RecoverSettled, At, Put
  <2> QED BY <1>2, <1>9, <2>2, ReturnGrounds DEF RecoverSettled
<1>10. CASE RecoverRequeue(p)
  <2>1. ord[p] \in Orders /\ PaidFor(ord[p])
    BY <1>4, <1>10 DEF RecoverRequeue, At
  <2>2. Recorded'
    <3>1. status' = [status EXCEPT ![ord[p]] = "paid"]
      BY <1>10 DEF RecoverRequeue, Put
    <3>2. Recorded
      OBVIOUS
    <3> QED BY <1>1, <2>1, <3>1, <3>2, CalmPut
  <2>3. CASE Return(p)
    BY <1>2, <2>2, <2>3, ReturnGrounds
  <2>4. CASE ~Return(p)
    <3>1. /\ pc'[p] = "claimSettle" /\ ord' = ord /\ loop' = loop
          /\ \A r \in Procs \ {p} : pc'[r] = pc[r] /\ num'[r] = num[r]
      BY <1>10, <2>4 DEF RecoverRequeue, TInv, FrameInv, FrameOK
    <3>2. PaidFor(ord[p])'
      BY <1>1, <2>1, <3>1 DEF PaidFor, Calm
    <3> QED BY <1>2, <2>2, <3>1, <3>2, ClaimGrounds
  <2> QED BY <2>3, <2>4
<1> QED BY <1>5, <1>6, <1>7, <1>8, <1>9, <1>10 DEF Sweep

\* An entry point starts from what the request and the provider's event say.
LEMMA CallOutcome ==
  ASSUME TInv, OutcomeInv, NEW p \in Procs, Call(p)
  PROVE  OutcomeInv'
<1> USE DEF OutcomeInv, rowVars, providerVars
<1>1. Calm /\ UNCHANGED status
  BY DEF Call, PayStart, CryptoStart, HookClaim, CloseStart, SweepStart, Calm
<1>2. Recorded' /\ Grows /\ Unused(p)
  BY <1>1, CalmRecorded, CalmGrows
<1>a. "capture" \notin FundedPcs /\ "cryptoDup" \notin FundedPcs /\ "hookFailed" \notin FundedPcs
      /\ "hookRefunded" \notin FundedPcs
  BY DEF FundedPcs, SettlePcs, RefundPcs
<1>b. \A o \in loop[p].todo : PaidFor(o)'
  BY <1>2, TodoStays
<1>3. ASSUME NEW o, NEW next, Begin(p, o, next)
      PROVE  /\ pc'[p] = next /\ ord'[p] = o /\ loop'[p] = loop[p]
             /\ \A r \in Procs \ {p} : /\ pc'[r] = pc[r] /\ ord'[r] = ord[r]
                                       /\ num'[r] = num[r] /\ loop'[r] = loop[r]
  BY <1>3 DEF Begin, TInv, FrameInv, FrameOK
<1>4. ASSUME NEW o \in Orders, PayStart(p, o) PROVE Grounds'
  <2>1. Begin(p, o, "capture")
    BY <1>4 DEF PayStart
  <2>2. Grounded(p)'
    BY <2>1, <1>3, <1>a, <1>b DEF Grounded
  <2> QED BY <1>2, <1>3, <2>1, <2>2, OthersGrounded
<1>5. ASSUME NEW o \in Orders, NEW t \in CryptoTxs, CryptoStart(p, o, t) PROVE Grounds'
  <2>1. /\ pc'[p] = "cryptoDup" /\ loop'[p].todo = loop[p].todo /\ loop'[p].pay = t
        /\ \A r \in Procs \ {p} : /\ pc'[r] = pc[r] /\ ord'[r] = ord[r]
                                  /\ num'[r] = num[r] /\ loop'[r] = loop[r]
    BY <1>5 DEF CryptoStart, TInv, FrameInv, FrameOK, Loops
  <2>2. Grounded(p)'
    BY <2>1, <1>a, <1>b DEF Grounded
  <2> QED BY <1>2, <2>1, <2>2, OthersGrounded
<1>6. ASSUME NEW o \in Orders, NEW type \in EventTypes, HookClaim(p, o, type) PROVE Grounds'
  <2>1. Begin(p, o, HookPc[type]) /\ <<o, type>> \in events
    BY <1>6 DEF HookClaim
  <2>2. HookPc[type] = "hookCaptured" => PaidFor(o)'
    BY <1>1, <2>1 DEF HookPc, EventTypes, Recorded, EventIsCapture, PaidFor, Calm
  <2>3. HookPc[type] = "hookRefunded" => <<o, "refunded">> \in events'
    BY <1>1, <2>1 DEF HookPc, EventTypes, Calm
  <2>4. HookPc[type] \in {"hookCaptured", "hookFailed", "hookRefunded"}
    BY DEF HookPc, EventTypes
  <2>5. Grounded(p)'
    BY <2>1, <2>2, <2>3, <2>4, <1>3, <1>a, <1>b DEF Grounded, PaidFor
  <2> QED BY <1>2, <1>3, <2>1, <2>5, OthersGrounded
<1>7. CASE CloseStart(p)
  <2>1. /\ pc'[p] = "closeScan" /\ loop'[p].todo = loop[p].todo
        /\ \A r \in Procs \ {p} : /\ pc'[r] = pc[r] /\ ord'[r] = ord[r]
                                  /\ num'[r] = num[r] /\ loop'[r] = loop[r]
    BY <1>7 DEF CloseStart, TInv, FrameInv, FrameOK, Loops
  <2> QED BY <1>2, <1>b, <2>1, FreeGrounds
<1>8. CASE SweepStart(p)
  <2>1. Goto(p, "expire")
    BY <1>8 DEF SweepStart
  <2> QED BY <1>2, <2>1, FreePcs, GotoGrounds
<1> QED BY <1>2, <1>4, <1>5, <1>6, <1>7, <1>8 DEF Call

\* The provider's events are of money it has; a transaction that is in a block
\* stays there.
LEMMA EnvironmentOutcome ==
  ASSUME TInv, OutcomeInv, Environment
  PROVE  OutcomeInv'
<1> USE DEF OutcomeInv, rowVars, providerVars, frame
<1>1. UNCHANGED <<status, payRef, refunds, pc, ord, num, loop>>
  BY DEF Environment, ProviderEvent, Include, SetStatus
<1>2. Grows /\ \A r \in Procs : pc[r] = "mint" => mint'[ord[r]][num[r]] = "none"
  <2>1. ASSUME NEW o \in Orders, NEW n \in Claims, Include(o, n)
        PROVE  /\ \A x \in Orders, k \in Claims : mint[x][k] \in {"none", "mined"} => mint'[x][k] = mint[x][k]
               /\ UNCHANGED <<captured, events>>
    BY <2>1 DEF Include, TInv, MintOK
  <2>2. \A r \in Procs : pc[r] = "mint" => /\ ord[r] \in Orders /\ num[r] \in Claims
                                           /\ mint[ord[r]][num[r]] = "none"
    <3>1. "mint" \in OwnerPcs /\ "mint" \in OrderPcs
      BY DEF OwnerPcs, OrderPcs, SettlePcs
    <3> QED BY <3>1 DEF Grounds, Grounded, TInv, FrameInv, OrderAtHand
  <2>3. CASE UNCHANGED mint /\ captured \subseteq captured' /\ events \subseteq events'
    BY <1>1, <2>2, <2>3 DEF Grows
  <2>4. ASSUME NEW o \in Orders, NEW n \in Claims, Include(o, n)
        PROVE  Grows /\ \A r \in Procs : pc[r] = "mint" => mint'[ord[r]][num[r]] = "none"
    BY <1>1, <2>1, <2>2, <2>4 DEF Grows
  <2> QED BY <2>3, <2>4 DEF Environment, ProviderEvent, SetStatus
<1>3. Grounds'
  BY <1>1, <1>2, StaysGrounded DEF Grounds
<1>4. \A o \in Orders : Mints(o)' = Mints(o)
  <2>1. ASSUME NEW o \in Orders, NEW n \in Claims, Include(o, n)
        PROVE  \A x \in Orders : Mints(x)' = Mints(x)
    <3>1. \A x \in Orders, k \in Claims : mint'[x][k] = "none" <=> mint[x][k] = "none"
      BY <2>1 DEF Include, TInv, MintOK
    <3> QED BY <3>1 DEF Mints
  <2> QED BY <2>1, SameMints DEF Environment, ProviderEvent, SetStatus
<1>5. \A o \in Orders : <<o, "captured">> \in events' => o \in captured'
  BY DEF Environment, ProviderEvent, Include, SetStatus, Recorded, EventIsCapture
<1> QED BY <1>1, <1>2, <1>3, <1>4, <1>5, SameRecorded

LEMMA InitOutcome == Init => OutcomeInv
<1> SUFFICES ASSUME Init PROVE OutcomeInv
  OBVIOUS
<1>1. Grounds
  BY DEF Init, Grounds, Grounded, FundedPcs, SettlePcs, RefundPcs, NoLoop
<1>2. Recorded
  BY DEF Init, Recorded, StatusIsPaid, EventIsCapture, SettledIsMinted, RefundedIsReturned,
     MintedIsPaidFor, Mints
<1> QED BY <1>1, <1>2 DEF OutcomeInv

LEMMA NextOutcome == TInv /\ ClaimInv /\ OutcomeInv /\ [Next]_vars => OutcomeInv'
<1> SUFFICES ASSUME TInv, ClaimInv, OutcomeInv, [Next]_vars PROVE OutcomeInv'
  OBVIOUS
<1>1. ASSUME NEW p \in Procs, Advance(p) PROVE OutcomeInv'
  BY <1>1, SettleOutcome, RefundOutcome, HandleOutcome, CloseOutcome, SweepOutcome DEF Advance
<1>2. ASSUME NEW p \in Procs, Call(p) PROVE OutcomeInv'
  BY <1>2, CallOutcome
<1>3. ASSUME NEW p \in Procs, Crash(p) PROVE OutcomeInv'
  <2>1. Calm /\ UNCHANGED status
    BY <1>3 DEF Crash, Calm, rowVars, providerVars
  <2> QED BY <1>3, <2>1, CalmGrows, CalmRecorded, FinishGrounds DEF Crash, OutcomeInv
<1>4. ASSUME NEW p \in Procs, NEW o \in Orders, Expire(p, o) PROVE OutcomeInv'
  <2>1. Calm /\ UNCHANGED <<pc, ord, num, loop>>
    BY <1>4 DEF Expire, Calm, providerVars, frame
  <2>2. Recorded'
    BY <1>4, <2>1, CalmPut DEF Expire, OutcomeInv
  <2>3. \A r \in Procs : pc[r] = "mint" => mint'[ord[r]][num[r]] = "none"
    BY <2>1 DEF OutcomeInv, Grounds, Grounded, Calm
  <2>4. Grounds'
    BY <2>1, <2>3, CalmGrows, StaysGrounded DEF OutcomeInv, Grounds
  <2> QED BY <2>2, <2>4 DEF OutcomeInv
<1>5. CASE Environment
  BY <1>5, EnvironmentOutcome
<1>6. CASE UNCHANGED vars
  <2>1. Calm /\ UNCHANGED <<status, pc, ord, num, loop>>
    BY <1>6 DEF vars, Calm, rowVars, providerVars, frame
  <2>2. \A r \in Procs : pc[r] = "mint" => mint'[ord[r]][num[r]] = "none"
    BY <2>1 DEF OutcomeInv, Grounds, Grounded, Calm
  <2>3. Grounds'
    BY <2>1, <2>2, CalmGrows, StaysGrounded DEF OutcomeInv, Grounds
  <2> QED BY <2>1, <2>3, CalmRecorded DEF OutcomeInv
<1> QED BY <1>1, <1>2, <1>3, <1>4, <1>5, <1>6 DEF Next

LEMMA AlwaysOutcome == Spec => []OutcomeInv
<1>1. Init => TInv /\ ClaimInv /\ OutcomeInv
  BY InitTyped, InitClaims, InitOutcome
<1>2. TInv /\ ClaimInv /\ OutcomeInv /\ [Next]_vars => (TInv /\ ClaimInv /\ OutcomeInv)'
  BY NextTyped, NextClaims, NextOutcome
<1> QED BY <1>1, <1>2, PTL DEF Spec

\* Whatever fails and is recovered, an order that reads settled has a mint in a
\* block.
THEOREM SettledMinted == Spec => []SettledIsMinted
<1>1. OutcomeInv => SettledIsMinted
  BY DEF OutcomeInv, Recorded
<1> QED BY <1>1, AlwaysOutcome, PTL

\* An order that reads refunded had its money returned, to our call or by the
\* provider.
THEOREM RefundedReturned == Spec => []RefundedIsReturned
<1>1. OutcomeInv => RefundedIsReturned
  BY DEF OutcomeInv, Recorded
<1> QED BY <1>1, AlwaysOutcome, PTL

\* Nothing is minted for an order nobody paid for.
THEOREM MintedPaidFor == Spec => []MintedIsPaidFor
<1>1. OutcomeInv => MintedIsPaidFor
  BY DEF OutcomeInv, Recorded
<1> QED BY <1>1, AlwaysOutcome, PTL
=============================================================================
