----------------------------- MODULE RaiseProofs -----------------------------
(***************************************************************************)
(* The close of a raise, and the outcome of each order: what holds as long *)
(* as nobody else writes the offering's status, and as long as a handler   *)
(* that goes on has not lost an answer or an update.                       *)
(***************************************************************************)
EXTENDS OrderSettlementProofs, FiniteSetTheorems

(***************************************************************************)
(* One verdict.  A close that works through the paid orders does so under  *)
(* the status of the offering, and no order is settled but by such a close.*)
(***************************************************************************)
Verdict(p) ==
  /\ Deciding(p) => offering = Outcome(p)
  /\ pc[p] = "closeScan" /\ loop[p].closed => offering = Outcome(p)
  /\ pc[p] \in {"closeClaim", "closeNext"} => loop[p].then = "closeNext"
  /\ Escrow /\ pc[p] \in SettlePcs \cup {"claimSettle"} => loop[p].then = "closeNext" /\ loop[p].met
VerdictInv == (\A p \in Procs : Verdict(p)) /\ EscrowHeld

\* A process that stays where it is keeps its verdict while the offering does.
LEMMA VerdictStays ==
  ASSUME NEW r \in Procs, Verdict(r), pc'[r] = pc[r], loop'[r] = loop[r], UNCHANGED offering
  PROVE  Verdict(r)'
BY DEF Verdict, Deciding, Outcome

LEMMA OthersVerdicts ==
  ASSUME VerdictInv, NEW p \in Procs, UNCHANGED offering, Verdict(p)',
         \A r \in Procs \ {p} : pc'[r] = pc[r] /\ loop'[r] = loop[r]
  PROVE  \A r \in Procs : Verdict(r)'
BY VerdictStays DEF VerdictInv

\* A step of one process that leaves its loop, and settles nothing new.
LEMMA GotoVerdict ==
  ASSUME TInv, VerdictInv, NEW p \in Procs, NEW next, UNCHANGED offering, Goto(p, next),
         next \notin {"closeScan", "closeClaim", "closeNext"}, pc[p] # "closeClaim",
         Escrow /\ next \in SettlePcs \cup {"claimSettle"} => pc[p] \in SettlePcs \cup {"claimSettle"}
  PROVE  \A r \in Procs : Verdict(r)'
<1>1. pc'[p] = next /\ loop' = loop /\ \A r \in Procs \ {p} : pc'[r] = pc[r]
  BY DEF Goto, frame, TInv, FrameInv, FrameOK
<1>2. Verdict(p)'
  BY <1>1 DEF VerdictInv, Verdict, Deciding, Outcome
<1> QED BY <1>1, <1>2, OthersVerdicts

LEMMA FinishVerdict ==
  ASSUME TInv, VerdictInv, NEW p \in Procs, UNCHANGED offering, Finish(p)
  PROVE  \A r \in Procs : Verdict(r)'
<1>1. /\ pc'[p] = "idle" /\ loop'[p].then = "idle"
      /\ \A r \in Procs \ {p} : pc'[r] = pc[r] /\ loop'[r] = loop[r]
  BY DEF Finish, NoLoop, TInv, FrameInv, FrameOK
<1>2. Verdict(p)'
  BY <1>1 DEF Verdict, Deciding, SettlePcs
<1> QED BY <1>1, <1>2, OthersVerdicts

LEMMA ReturnVerdict ==
  ASSUME TInv, VerdictInv, NEW p \in Procs, UNCHANGED offering, Return(p), pc[p] # "closeClaim"
  PROVE  \A r \in Procs : Verdict(r)'
<1>1. loop[p].then \in {"idle", "closeNext", "recNext"}
  BY DEF TInv, FrameInv, FrameOK, Loops
<1>2. /\ pc'[p] = loop[p].then /\ loop'[p].then = loop[p].then
      /\ loop[p].then = "closeNext" => loop'[p] = loop[p]
      /\ \A r \in Procs \ {p} : pc'[r] = pc[r] /\ loop'[r] = loop[r]
  BY <1>1 DEF Return, NoLoop, TInv, FrameInv, FrameOK
<1>3. Verdict(p)'
  BY <1>1, <1>2 DEF VerdictInv, Verdict, Deciding, Outcome, SettlePcs
<1> QED BY <1>2, <1>3, OthersVerdicts

LEMMA NotSettledVerdict ==
  ASSUME TInv, VerdictInv, NEW p \in Procs, UNCHANGED offering, NotSettled(p), pc[p] # "closeClaim"
  PROVE  \A r \in Procs : Verdict(r)'
<1>1. CASE loop[p].then = "closeNext"
  <2>1. pc'[p] = "claimRefund" /\ loop' = loop /\ \A r \in Procs \ {p} : pc'[r] = pc[r]
    BY <1>1 DEF NotSettled, TInv, FrameInv, FrameOK
  <2>2. Verdict(p)'
    BY <1>1, <2>1 DEF VerdictInv, Verdict, Deciding, Outcome, SettlePcs
  <2> QED BY <2>1, <2>2, OthersVerdicts
<1> QED BY <1>1, ReturnVerdict DEF NotSettled

\* What an escrowed order is minted under does not change.
LEMMA SameHeld == EscrowHeld /\ UNCHANGED <<mint, offering>> => EscrowHeld'
BY DEF EscrowHeld, Mints

LEMMA HandleVerdict ==
  ASSUME TInv, VerdictInv, NEW p \in Procs, Handle(p)
  PROVE  VerdictInv'
<1>1. UNCHANGED <<mint, offering>>
  BY DEF Handle, Capture, WritePaid, WriteDeclined, AfterPaid, CryptoDup, WriteCrypto, HookRead,
     WriteHookRefunded, rowVars
<1>2. pc[p] # "closeClaim"
  BY DEF Handle, Capture, WritePaid, WriteDeclined, AfterPaid, CryptoDup, WriteCrypto, HookRead,
     WriteHookRefunded, At
<1>3. CASE Finish(p)
  BY <1>1, <1>3, FinishVerdict, SameHeld DEF VerdictInv
<1>4. CASE WriteCrypto(p)
  <2>1. /\ pc'[p] = "afterPaid" /\ loop'[p].then = "idle"
        /\ \A r \in Procs \ {p} : pc'[r] = pc[r] /\ loop'[r] = loop[r]
    BY <1>4 DEF WriteCrypto, NoLoop, TInv, FrameInv, FrameOK
  <2>2. Verdict(p)'
    BY <2>1 DEF Verdict, Deciding, SettlePcs
  <2> QED BY <1>1, <2>1, <2>2, OthersVerdicts, SameHeld DEF VerdictInv
<1>5. CASE ~Finish(p) /\ ~WriteCrypto(p)
  <2>1. PICK next \in {"writePaid", "writeDeclined", "afterPaid", "claimSettle", "claimRefund",
                       "writeCrypto", "writeHookFailed", "writeHookRefunded"} :
          Goto(p, next) /\ (Escrow => next # "claimSettle")
    BY <1>5 DEF Handle, Capture, WritePaid, WriteDeclined, AfterPaid, CryptoDup, HookRead, WriteHookRefunded
  <2>2. Escrow => next \notin SettlePcs \cup {"claimSettle"}
    BY <2>1 DEF SettlePcs
  <2> QED BY <1>1, <1>2, <2>1, <2>2, GotoVerdict, SameHeld DEF VerdictInv
<1> QED BY <1>3, <1>4, <1>5

\* A claim is taken: the loop stays.
LEMMA TakeVerdict ==
  ASSUME TInv, VerdictInv, NEW p \in Procs, NEW from, NEW to, NEW next \in {"mint", "refund"},
         Take(p, from, to, next), pc[p] # "closeClaim",
         next = "mint" => pc[p] \in SettlePcs \cup {"claimSettle"}
  PROVE  VerdictInv'
<1>1. /\ UNCHANGED <<mint, offering, loop>> /\ pc'[p] = next
      /\ \A r \in Procs \ {p} : pc'[r] = pc[r]
  BY DEF Take, TInv, FrameInv, FrameOK
<1>2. Verdict(p)'
  BY <1>1 DEF VerdictInv, Verdict, Deciding, Outcome, SettlePcs
<1> QED BY <1>1, <1>2, OthersVerdicts, SameHeld DEF VerdictInv

LEMMA SettleVerdict ==
  ASSUME TInv, VerdictInv, NEW p \in Procs, Settle(p)
  PROVE  VerdictInv'
<1>1. UNCHANGED offering
  BY DEF Settle, ClaimSettle, Take, Mint, Persist, Wait, WriteSettled, WriteUnsettled, rowVars
<1>2. pc[p] \in SettlePcs \cup {"claimSettle"} /\ pc[p] # "closeClaim"
  BY DEF Settle, ClaimSettle, Mint, Persist, Wait, WriteSettled, WriteUnsettled, At, SettlePcs
<1>3. EscrowHeld'
  <2>1. CASE Mint(p)
    <3>1. Escrow => offering = "funded"
      BY <1>2 DEF VerdictInv, Verdict, Deciding, Outcome, SettlePcs
    <3> QED BY <1>1, <3>1 DEF EscrowHeld
  <2>2. CASE ~Mint(p)
    <3>1. UNCHANGED mint
      BY <2>2 DEF Settle, ClaimSettle, Take, Persist, Wait, WriteSettled, WriteUnsettled
    <3> QED BY <1>1, <3>1, SameHeld DEF VerdictInv
  <2> QED BY <2>1, <2>2
<1>4. CASE Take(p, {"paid"}, "settling", "mint")
  BY <1>2, <1>4, TakeVerdict
<1>5. CASE NotSettled(p)
  BY <1>1, <1>2, <1>3, <1>5, NotSettledVerdict DEF VerdictInv
<1>6. CASE Return(p)
  BY <1>1, <1>2, <1>3, <1>6, ReturnVerdict DEF VerdictInv
<1>7. CASE \E next \in SettlePcs : Goto(p, next)
  <2>1. SettlePcs \cap {"closeScan", "closeClaim", "closeNext"} = {}
    BY DEF SettlePcs
  <2> QED BY <1>1, <1>2, <1>3, <1>7, <2>1, GotoVerdict DEF VerdictInv
<1> QED BY <1>4, <1>5, <1>6, <1>7
    DEF Settle, ClaimSettle, Mint, Persist, Wait, WriteSettled, WriteUnsettled, SettlePcs

LEMMA RefundVerdict ==
  ASSUME TInv, VerdictInv, NEW p \in Procs, RefundOrder(p)
  PROVE  VerdictInv'
<1>1. UNCHANGED <<mint, offering>>
  BY DEF RefundOrder, ClaimRefund, Take, Refund, WriteRefunded, WriteUnrefunded, rowVars
<1>2. pc[p] # "closeClaim"
  BY DEF RefundOrder, ClaimRefund, Refund, WriteRefunded, WriteUnrefunded, At
<1>3. CASE Take(p, Claimable, "refunding", "refund")
  BY <1>2, <1>3, TakeVerdict
<1>4. CASE Return(p)
  BY <1>1, <1>2, <1>4, ReturnVerdict, SameHeld DEF VerdictInv
<1>5. CASE \E next \in {"writeRefunded", "writeUnrefunded"} : Goto(p, next)
  <2>1. {"writeRefunded", "writeUnrefunded"} \cap (SettlePcs \cup {"claimSettle", "closeScan", "closeClaim", "closeNext"}) = {}
    BY DEF SettlePcs
  <2> QED BY <1>1, <1>2, <1>5, <2>1, GotoVerdict, SameHeld DEF VerdictInv
<1> QED BY <1>3, <1>4, <1>5 DEF RefundOrder, ClaimRefund, Refund, WriteRefunded, WriteUnrefunded

LEMMA CloseVerdict ==
  ASSUME TInv, VerdictInv, NEW p \in Procs, Close(p)
  PROVE  VerdictInv'
<1>1. UNCHANGED mint
  BY DEF Close, CloseScan, CloseClaim, CloseNext, rowVars
<1>2. CASE Finish(p) /\ UNCHANGED offering
  BY <1>1, <1>2, FinishVerdict, SameHeld DEF VerdictInv
<1>3. CASE CloseScan(p) /\ ~Finish(p)
  <2> DEFINE met == IF loop[p].closed THEN loop[p].met ELSE Met
  <2>1. /\ pc' = [pc EXCEPT ![p] = IF loop[p].closed THEN "closeNext" ELSE "closeClaim"]
        /\ loop' = [loop EXCEPT ![p] = [loop[p] EXCEPT !.todo = Escrowed, !.then = "closeNext", !.met = met]]
        /\ UNCHANGED offering /\ pc[p] = "closeScan"
    BY <1>3 DEF CloseScan, rowVars, At
  <2> HIDE DEF met
  <2>2. /\ pc'[p] = (IF loop[p].closed THEN "closeNext" ELSE "closeClaim")
        /\ loop'[p].met = met /\ loop'[p].then = "closeNext"
        /\ \A r \in Procs \ {p} : pc'[r] = pc[r] /\ loop'[r] = loop[r]
    BY <2>1 DEF TInv, FrameInv, FrameOK, Loops
  <2>3. loop[p].closed => Outcome(p)' = Outcome(p)
    BY <2>2 DEF met, Outcome
  <2>4. Verdict(p)'
    BY <2>1, <2>2, <2>3 DEF VerdictInv, Verdict, Deciding, SettlePcs
  <2> QED BY <1>1, <2>1, <2>2, <2>4, OthersVerdicts, SameHeld DEF VerdictInv
<1>4. CASE CloseClaim(p) /\ offering \notin Closed
  <2>1. /\ offering' = Outcome(p) /\ pc[p] = "closeClaim" /\ pc'[p] = "closeNext" /\ loop' = loop
        /\ \A r \in Procs \ {p} : pc'[r] = pc[r]
    BY <1>4 DEF CloseClaim, At, Goto, frame, TInv, FrameInv, FrameOK
  <2>2. Outcome(p)' = Outcome(p)
    BY <2>1 DEF Outcome
  <2>3. Verdict(p)'
    BY <2>1, <2>2 DEF VerdictInv, Verdict, SettlePcs
  <2>4. ASSUME NEW r \in Procs \ {p} PROVE Verdict(r)'
    <3>1. Outcome(r) \in Closed
      BY DEF Outcome, Closed
    <3>2. ~Deciding(r) /\ ~(pc[r] = "closeScan" /\ loop[r].closed)
      BY <1>4, <3>1 DEF VerdictInv, Verdict
    <3> QED BY <2>1, <3>2 DEF VerdictInv, Verdict, Deciding
  <2>5. Escrow => \A o \in Orders : Mints(o) = {}
    BY <1>4 DEF VerdictInv, EscrowHeld, Closed
  <2>6. EscrowHeld'
    BY <1>1, <2>5 DEF EscrowHeld, Mints
  <2> QED BY <2>3, <2>4, <2>6 DEF VerdictInv
<1>5. CASE CloseNext(p) /\ ~Finish(p)
  <2>1. PICK o \in loop[p].todo :
          /\ pc' = [pc EXCEPT ![p] = IF loop[p].met THEN "claimSettle" ELSE "claimRefund"]
          /\ loop' = [loop EXCEPT ![p].todo = @ \ {o}]
    BY <1>5 DEF CloseNext
  <2>2. /\ pc'[p] = (IF loop[p].met THEN "claimSettle" ELSE "claimRefund")
        /\ loop'[p].met = loop[p].met /\ loop'[p].then = loop[p].then
        /\ pc[p] = "closeNext" /\ UNCHANGED offering
        /\ \A r \in Procs \ {p} : pc'[r] = pc[r] /\ loop'[r] = loop[r]
    BY <1>5, <2>1 DEF CloseNext, At, rowVars, TInv, FrameInv, FrameOK, Loops
  <2>3. Verdict(p)'
    BY <2>2 DEF VerdictInv, Verdict, Deciding, Outcome, SettlePcs
  <2> QED BY <1>1, <2>2, <2>3, OthersVerdicts, SameHeld DEF VerdictInv
<1> QED BY <1>2, <1>3, <1>4, <1>5 DEF Close, CloseScan, CloseClaim, CloseNext, rowVars

LEMMA SweepVerdict ==
  ASSUME TInv, VerdictInv, NEW p \in Procs, Sweep(p)
  PROVE  VerdictInv'
<1>1. UNCHANGED <<mint, offering>>
  BY DEF Sweep, RecoverScan, RecoverNext, RecoverReceipt, RecoverMempool, RecoverSettled, RecoverRequeue, rowVars
<1>2. pc[p] \notin {"closeClaim"}
  BY DEF Sweep, RecoverScan, RecoverNext, RecoverReceipt, RecoverMempool, RecoverSettled, RecoverRequeue, At
<1>3. CASE Finish(p)
  BY <1>1, <1>3, FinishVerdict, SameHeld DEF VerdictInv
<1>4. CASE Return(p)
  BY <1>1, <1>2, <1>4, ReturnVerdict, SameHeld DEF VerdictInv
<1>5. CASE \E next \in {"recSettled", "recRequeue", "recMempool"} : Goto(p, next)
  <2>1. {"recSettled", "recRequeue", "recMempool"}
          \cap (SettlePcs \cup {"claimSettle", "closeScan", "closeClaim", "closeNext"}) = {}
    BY DEF SettlePcs
  <2> QED BY <1>1, <1>2, <1>5, <2>1, GotoVerdict, SameHeld DEF VerdictInv
<1>6. CASE RecoverScan(p)
  <2> DEFINE todo == {o \in Orders : Stale(o)}
             seen == [o \in Orders |-> IF Stale(o) THEN txHash[o] ELSE 0]
  <2>1. /\ pc' = [pc EXCEPT ![p] = "recNext"]
        /\ loop' = [loop EXCEPT ![p] = [loop[p] EXCEPT !.todo = todo, !.then = "recNext", !.seen = seen]]
    BY <1>6 DEF RecoverScan
  <2> HIDE DEF todo, seen
  <2>2. /\ pc'[p] = "recNext" /\ loop'[p].then = "recNext"
        /\ \A r \in Procs \ {p} : pc'[r] = pc[r] /\ loop'[r] = loop[r]
    BY <2>1 DEF TInv, FrameInv, FrameOK, Loops
  <2>3. Verdict(p)'
    BY <2>2 DEF Verdict, Deciding, SettlePcs
  <2> QED BY <1>1, <2>2, <2>3, OthersVerdicts, SameHeld DEF VerdictInv
<1>7. CASE RecoverNext(p) /\ ~Finish(p)
  <2>1. PICK o \in loop[p].todo :
          /\ pc' = [pc EXCEPT ![p] = IF loop[p].seen[o] = 0 THEN "recRequeue" ELSE "recReceipt"]
          /\ loop' = [loop EXCEPT ![p].todo = @ \ {o}]
    BY <1>7 DEF RecoverNext
  <2>2. /\ pc'[p] \in {"recRequeue", "recReceipt"} /\ pc[p] = "recNext"
        /\ loop'[p].met = loop[p].met /\ loop'[p].then = loop[p].then
        /\ \A r \in Procs \ {p} : pc'[r] = pc[r] /\ loop'[r] = loop[r]
    BY <1>7, <2>1 DEF RecoverNext, At, TInv, FrameInv, FrameOK, Loops
  <2>3. Verdict(p)'
    BY <1>1, <2>2 DEF VerdictInv, Verdict, Deciding, Outcome, SettlePcs
  <2> QED BY <1>1, <2>2, <2>3, OthersVerdicts, SameHeld DEF VerdictInv
<1>8. CASE RecoverRequeue(p) /\ ~Escrow
  <2>1. /\ pc'[p] = "claimSettle" /\ pc[p] = "recRequeue" /\ loop' = loop
        /\ \A r \in Procs \ {p} : pc'[r] = pc[r]
    BY <1>8 DEF RecoverRequeue, At, TInv, FrameInv, FrameOK
  <2>2. Verdict(p)'
    BY <1>1, <1>8, <2>1 DEF VerdictInv, Verdict, Deciding, Outcome
  <2> QED BY <1>1, <2>1, <2>2, OthersVerdicts, SameHeld DEF VerdictInv
<1> QED BY <1>3, <1>4, <1>5, <1>6, <1>7, <1>8
    DEF Sweep, RecoverScan, RecoverNext, RecoverReceipt, RecoverMempool, RecoverSettled, RecoverRequeue

LEMMA CallVerdict ==
  ASSUME TInv, VerdictInv, NEW p \in Procs, Call(p)
  PROVE  VerdictInv'
<1>1. UNCHANGED <<mint, offering>>
  BY DEF Call, PayStart, CryptoStart, HookClaim, CloseStart, SweepStart, rowVars
<1>2. pc[p] = "idle"
  BY DEF Call, PayStart, CryptoStart, HookClaim, CloseStart, SweepStart, Begin, At
<1>3. CASE CloseStart(p)
  <2> DEFINE closed == offering \in Closed
             met == offering = "funded"
  <2>1. /\ pc' = [pc EXCEPT ![p] = "closeScan"]
        /\ loop' = [loop EXCEPT ![p] = [loop[p] EXCEPT !.closed = closed, !.met = met]]
    BY <1>3, Zenon DEF CloseStart
  <2>2. closed => offering = IF met THEN "funded" ELSE "cancelled"
    BY DEF Closed
  <2>3. Deciding(p) => closed
    BY DEF VerdictInv, Verdict, Outcome, Closed
  <2>4. closed \in BOOLEAN /\ met \in BOOLEAN
    OBVIOUS
  <2> HIDE DEF closed, met
  <2>5. /\ pc'[p] = "closeScan" /\ loop'[p].then = loop[p].then
        /\ loop'[p].closed = closed /\ loop'[p].met = met
        /\ \A r \in Procs \ {p} : pc'[r] = pc[r] /\ loop'[r] = loop[r]
    BY <2>1 DEF TInv, FrameInv, FrameOK, Loops
  <2>6. Verdict(p)'
    BY <1>1, <1>2, <2>2, <2>3, <2>5 DEF Verdict, Deciding, Outcome, SettlePcs
  <2> QED BY <1>1, <2>5, <2>6, OthersVerdicts, SameHeld DEF VerdictInv
<1>4. CASE ~CloseStart(p)
  <2> DEFINE nexts == {"capture", "cryptoDup", "hookCaptured", "hookFailed", "hookRefunded", "expire"}
  <2>a. \A type \in EventTypes : HookPc[type] \in nexts
    BY DEF HookPc, EventTypes
  <2>b. ASSUME NEW o \in Orders, NEW t \in CryptoTxs, CryptoStart(p, o, t)
        PROVE  loop' = [loop EXCEPT ![p] = [loop[p] EXCEPT !.pay = t]]
    BY <2>b, Zenon DEF CryptoStart
  <2>1. PICK next \in nexts : pc' = [pc EXCEPT ![p] = next]
    BY <1>4, <2>a DEF Call, PayStart, CryptoStart, HookClaim, SweepStart, Begin, Goto
  <2>2. /\ loop'[p].then = loop[p].then /\ loop'[p].met = loop[p].met
        /\ \A r \in Procs \ {p} : loop'[r] = loop[r]
    <3>1. CASE \E o \in Orders, t \in CryptoTxs : CryptoStart(p, o, t)
      BY <2>b, <3>1 DEF TInv, FrameInv, FrameOK, Loops
    <3>2. CASE UNCHANGED loop
      BY <3>2
    <3> QED BY <1>4, <3>1, <3>2 DEF Call, PayStart, HookClaim, SweepStart, Begin, Goto, frame
  <2>3. pc'[p] = next /\ \A r \in Procs \ {p} : pc'[r] = pc[r]
    BY <2>1 DEF TInv, FrameInv, FrameOK
  <2>4. Verdict(p)'
    BY <1>1, <1>2, <2>2, <2>3 DEF VerdictInv, Verdict, Deciding, Outcome, SettlePcs
  <2> QED BY <1>1, <2>2, <2>3, <2>4, OthersVerdicts, SameHeld DEF VerdictInv
<1> QED BY <1>3, <1>4

LEMMA NextVerdict ==
  ASSUME "setStatus" \notin Requests, TInv, VerdictInv, [Next]_vars
  PROVE  VerdictInv'
<1>1. ASSUME NEW p \in Procs, Advance(p) PROVE VerdictInv'
  BY <1>1, SettleVerdict, RefundVerdict, HandleVerdict, CloseVerdict, SweepVerdict DEF Advance
<1>2. ASSUME NEW p \in Procs, Call(p) PROVE VerdictInv'
  BY <1>2, CallVerdict
<1>3. ASSUME NEW p \in Procs, Crash(p) PROVE VerdictInv'
  BY <1>3, FinishVerdict, SameHeld DEF Crash, VerdictInv, rowVars
<1>4. ASSUME NEW p \in Procs, NEW o \in Orders, Expire(p, o) PROVE VerdictInv'
  BY <1>4, VerdictStays, SameHeld DEF Expire, VerdictInv, frame
<1>5. CASE Environment
  <2>1. UNCHANGED <<offering, pc, loop>>
    BY <1>5 DEF Environment, ProviderEvent, Include, SetStatus, rowVars, frame
  <2>2. \A o \in Orders : Mints(o)' = Mints(o)
    BY <1>5 DEF Environment, ProviderEvent, Include, SetStatus, Mints, TInv, MintOK
  <2> QED BY <2>1, <2>2, VerdictStays DEF VerdictInv, EscrowHeld
<1>6. CASE UNCHANGED vars
  BY <1>6, VerdictStays, SameHeld DEF vars, VerdictInv, rowVars, frame
<1> QED BY <1>1, <1>2, <1>3, <1>4, <1>5, <1>6 DEF Next

LEMMA AlwaysVerdict ==
  ASSUME "setStatus" \notin Requests
  PROVE  Spec => []VerdictInv
<1>1. Init => TInv /\ VerdictInv
  <2>1. Init => VerdictInv
    BY DEF Init, VerdictInv, Verdict, Deciding, EscrowHeld, Mints, NoLoop, SettlePcs
  <2> QED BY <2>1, InitTyped
<1>2. TInv /\ VerdictInv /\ [Next]_vars => (TInv /\ VerdictInv)'
  BY NextTyped, NextVerdict
<1> QED BY <1>1, <1>2, PTL DEF Spec

\* While only the close writes the offering's status, no escrowed order is minted
\* before its raise is declared funded, whoever crashes, retries or sweeps.
THEOREM MintsWaitForFunding ==
  ASSUME "setStatus" \notin Requests
  PROVE  Spec => []EscrowHeld
<1>1. VerdictInv => EscrowHeld
  BY DEF VerdictInv
<1> QED BY <1>1, AlwaysVerdict, PTL

\* While only the close writes the offering's status, two closes that work at
\* once settle or refund alike.
THEOREM ClosesAgree ==
  ASSUME "setStatus" \notin Requests
  PROVE  Spec => []OneVerdict
<1>1. TInv /\ VerdictInv => OneVerdict
  <2> SUFFICES ASSUME TInv, VerdictInv, NEW p \in Procs, NEW q \in Procs, Deciding(p), Deciding(q)
               PROVE  loop[p].met = loop[q].met
    BY DEF OneVerdict
  <2>1. Outcome(p) = Outcome(q)
    BY DEF VerdictInv, Verdict
  <2>2. loop[p].met \in BOOLEAN /\ loop[q].met \in BOOLEAN
    BY DEF TInv, FrameInv, FrameOK, Loops
  <2> QED BY <2>1, <2>2 DEF Outcome
<1>2. Spec => []TInv
  BY InitTyped, NextTyped, PTL DEF Spec
<1> QED BY <1>1, <1>2, AlwaysVerdict, PTL

-----------------------------------------------------------------------------
(***************************************************************************)
(* The verdict is drawn from the paid orders of one read and written in a  *)
(* later step.  Until it is written nobody settles or refunds an order of  *)
(* the raise, so the orders that were read are still paid.                 *)
(***************************************************************************)
NothingReturned == "setStatus" \notin Requests /\ Faults \cap {"decline", "chargeback"} = {}

\* The provider has only captures to tell.
CapturesOnly ==
  /\ \A o \in Orders : <<o, "failed">> \notin events /\ <<o, "refunded">> \notin events
  /\ \A p \in Procs : pc[p] \notin {"hookFailed", "hookRefunded", "writeDeclined",
                                   "writeHookFailed", "writeHookRefunded"}

WaitingPcs == {"idle", "capture", "writePaid", "afterPaid", "cryptoDup", "writeCrypto", "hookCaptured",
               "closeScan", "closeClaim", "expire", "recNext"}
ClosePcs == {"closeScan", "closeClaim"}
Raising == Escrow /\ offering \notin Closed

Waiting(p) ==
  /\ pc[p] \in WaitingPcs
  /\ pc[p] = "recNext" => loop[p].todo = {}
  /\ pc[p] = "closeClaim" => loop[p].todo \subseteq Escrowed
  /\ pc[p] = "closeClaim" /\ loop[p].met => Raised(loop[p].todo) >= MinimumRaise
UntilVerdict ==
  /\ \A o \in Orders : status[o] \in {"pending_payment", "paid", "expired"}
  /\ \A p \in Procs : Waiting(p)

RaiseInv ==
  /\ CapturesOnly
  /\ \A p \in Procs : pc[p] \in ClosePcs => Escrow
  /\ Raising => UntilVerdict

\* What is raised by some orders is raised by more of them.
LEMMA RaisedGrows ==
  ASSUME NEW S \in SUBSET Orders, NEW T \in SUBSET Orders, S \subseteq T
  PROVE  Raised(S) \in Nat /\ Raised(T) \in Nat /\ Raised(S) <= Raised(T)
<1> DEFINE Of(o) == {o} \X (1..Amount[o])
           Parts(X) == {Of(o) : o \in X}
<1>1. ASSUME NEW o \in Orders PROVE IsFiniteSet(Of(o))
  <2>1. Amount[o] \in Nat
    BY AmountAssumption
  <2>2. IsFiniteSet(1..Amount[o])
    BY <2>1, FS_Interval
  <2>3. IsFiniteSet({o})
    BY FS_Singleton
  <2> QED BY <2>2, <2>3, FS_Product
<1>2. ASSUME NEW X \in SUBSET Orders PROVE IsFiniteSet(UNION Parts(X))
  <2>1. [o \in X |-> Of(o)] \in Surjection(X, Parts(X))
    BY DEF Surjection
  <2>2. IsFiniteSet(X)
    BY OrdersAssumption, FS_Subset
  <2>3. IsFiniteSet(Parts(X))
    BY <2>1, <2>2, FS_Surjection
  <2>4. \A P \in Parts(X) : IsFiniteSet(P)
    BY <1>1
  <2> HIDE DEF Parts
  <2> QED BY <2>3, <2>4, FS_UNION
<1>3. UNION Parts(S) \in SUBSET UNION Parts(T)
  OBVIOUS
<1>4. Raised(S) = Cardinality(UNION Parts(S)) /\ Raised(T) = Cardinality(UNION Parts(T))
  BY DEF Raised
<1>5. IsFiniteSet(UNION Parts(S)) /\ IsFiniteSet(UNION Parts(T))
  BY <1>2
<1> HIDE DEF Parts
<1> QED BY <1>3, <1>4, <1>5, FS_Subset, FS_CardinalityType

\* Where a step of the sweeper goes on.
LEMMA SweepGoes ==
  ASSUME NEW p \in Procs, Sweep(p)
  PROVE  \/ Finish(p) \/ Return(p)
         \/ \E next \in {"recNext", "recRequeue", "recReceipt", "recSettled", "recMempool", "claimSettle"} :
              pc' = [pc EXCEPT ![p] = next]
<1>1. CASE RecoverScan(p) \/ RecoverReceipt(p) \/ RecoverMempool(p)
  BY <1>1 DEF RecoverScan, RecoverReceipt, RecoverMempool, Goto
<1>2. CASE RecoverNext(p)
  BY <1>2 DEF RecoverNext
<1>3. CASE RecoverSettled(p) \/ RecoverRequeue(p)
  BY <1>3 DEF RecoverSettled, RecoverRequeue
<1> QED BY <1>1, <1>2, <1>3 DEF Sweep

\* The provider declines nothing and returns nothing of its own.
LEMMA NextCaptures ==
  ASSUME Faults \cap {"decline", "chargeback"} = {}, TInv, CapturesOnly, [Next]_vars
  PROVE  CapturesOnly'
<1>a. ~Fault("decline") /\ ~Fault("chargeback")
  BY DEF Fault
<1> DEFINE Bad == {"hookFailed", "hookRefunded", "writeDeclined", "writeHookFailed", "writeHookRefunded"}
<1>b. ASSUME NEW p \in Procs, pc'[p] \notin Bad, \A r \in Procs \ {p} : pc'[r] = pc[r],
             \/ UNCHANGED events
             \/ \E o \in Orders : events' = events \cup {<<o, "captured">>}
      PROVE  CapturesOnly'
  <2>1. \A r \in Procs : pc'[r] \notin Bad
    BY <1>b DEF CapturesOnly
  <2>2. ASSUME NEW o \in Orders, NEW x \in Orders, NEW type \in {"failed", "refunded"},
               events' = events \cup {<<x, "captured">>}
        PROVE  <<o, type>> \notin events'
    BY <2>2 DEF CapturesOnly
  <2>3. \A o \in Orders : <<o, "failed">> \notin events' /\ <<o, "refunded">> \notin events'
    BY <1>b, <2>2 DEF CapturesOnly
  <2> QED BY <2>1, <2>3 DEF CapturesOnly
<1>c. ASSUME NEW p \in Procs, NEW next, next \notin Bad, pc' = [pc EXCEPT ![p] = next], UNCHANGED events
      PROVE  CapturesOnly'
  <2>1. pc'[p] = next /\ \A r \in Procs \ {p} : pc'[r] = pc[r]
    BY <1>c DEF TInv, FrameInv, FrameOK
  <2> QED BY <1>c, <2>1, <1>b
<1>d. ASSUME NEW p \in Procs, Finish(p) \/ Return(p) \/ NotSettled(p), UNCHANGED events
      PROVE  CapturesOnly'
  <2>1. loop[p].then \in {"idle", "closeNext", "recNext"}
    BY DEF TInv, FrameInv, FrameOK, Loops
  <2> QED BY <1>c, <1>d, <2>1 DEF Finish, Return, NotSettled
<1>1. ASSUME NEW p \in Procs, Settle(p) PROVE CapturesOnly'
  <2>1. UNCHANGED events
    BY <1>1 DEF Settle, ClaimSettle, Take, Mint, Persist, Wait, WriteSettled, WriteUnsettled, providerVars
  <2>2. CASE \E next \in SettlePcs : pc' = [pc EXCEPT ![p] = next]
    <3>1. SettlePcs \cap Bad = {}
      BY DEF SettlePcs
    <3> QED BY <2>1, <2>2, <3>1, <1>c
  <2> QED BY <1>1, <2>1, <2>2, <1>d
      DEF Settle, ClaimSettle, Take, Mint, Persist, Wait, WriteSettled, WriteUnsettled, SettlePcs, Goto
<1>2. ASSUME NEW p \in Procs, RefundOrder(p) PROVE CapturesOnly'
  <2>1. UNCHANGED events
    BY <1>2 DEF RefundOrder, ClaimRefund, Take, Refund, WriteRefunded, WriteUnrefunded, providerVars
  <2>2. CASE \E next \in RefundPcs : pc' = [pc EXCEPT ![p] = next]
    <3>1. RefundPcs \cap Bad = {}
      BY DEF RefundPcs
    <3> QED BY <2>1, <2>2, <3>1, <1>c
  <2> QED BY <1>2, <2>1, <2>2, <1>d
      DEF RefundOrder, ClaimRefund, Take, Refund, WriteRefunded, WriteUnrefunded, RefundPcs, Goto
<1>3. ASSUME NEW p \in Procs, Handle(p) PROVE CapturesOnly'
  <2>1. CASE Capture(p)
    <3>1. ord[p] \in Orders /\ events' = events \cup {<<ord[p], "captured">>} /\ Goto(p, "writePaid")
      BY <1>a, <2>1 DEF Capture, At, TInv, FrameInv, OrderAtHand, OrderPcs
    <3>2. pc'[p] = "writePaid" /\ \A r \in Procs \ {p} : pc'[r] = pc[r]
      BY <3>1 DEF Goto, TInv, FrameInv, FrameOK
    <3> QED BY <3>1, <3>2, <1>b
  <2>2. CASE ~Capture(p)
    <3>1. UNCHANGED events
      BY <1>3, <2>2 DEF Handle, WritePaid, WriteDeclined, AfterPaid, CryptoDup, WriteCrypto, HookRead,
         WriteHookRefunded, providerVars
    <3>2. CASE \E next \in {"afterPaid", "claimSettle", "claimRefund", "writePaid", "writeCrypto"} :
                 pc' = [pc EXCEPT ![p] = next]
      BY <3>1, <3>2, <1>c
    <3>3. pc[p] \notin Bad
      BY DEF CapturesOnly
    <3> QED BY <1>3, <2>2, <3>1, <3>2, <3>3, <1>d
        DEF Handle, WritePaid, WriteDeclined, AfterPaid, CryptoDup, WriteCrypto, HookRead,
            WriteHookRefunded, Goto, At
  <2> QED BY <2>1, <2>2
<1>4. ASSUME NEW p \in Procs, Close(p) PROVE CapturesOnly'
  <2>1. UNCHANGED events
    BY <1>4 DEF Close, CloseScan, CloseClaim, CloseNext, providerVars
  <2>2. CASE \E next \in {"closeNext", "closeClaim", "claimSettle", "claimRefund"} : pc' = [pc EXCEPT ![p] = next]
    BY <2>1, <2>2, <1>c
  <2> QED BY <1>4, <2>1, <2>2, <1>d DEF Close, CloseScan, CloseClaim, CloseNext, Goto
<1>5. ASSUME NEW p \in Procs, Sweep(p) PROVE CapturesOnly'
  <2>1. UNCHANGED events
    BY <1>5 DEF Sweep, RecoverScan, RecoverNext, RecoverReceipt, RecoverMempool, RecoverSettled,
       RecoverRequeue, providerVars
  <2>2. CASE \E next \in {"recNext", "recRequeue", "recReceipt", "recSettled", "recMempool", "claimSettle"} :
               pc' = [pc EXCEPT ![p] = next]
    BY <2>1, <2>2, <1>c
  <2> QED BY <1>5, <2>1, <2>2, <1>d, SweepGoes
<1>6. ASSUME NEW p \in Procs, Call(p) PROVE CapturesOnly'
  <2>1. UNCHANGED events
    BY <1>6 DEF Call, PayStart, CryptoStart, HookClaim, CloseStart, SweepStart, providerVars
  <2>2. ASSUME NEW o \in Orders, NEW type \in EventTypes, HookClaim(p, o, type)
        PROVE  type = "captured"
    BY <2>2 DEF HookClaim, EventTypes, CapturesOnly
  <2>3. HookPc["captured"] = "hookCaptured"
    BY DEF HookPc
  <2>4. \E next \in {"capture", "cryptoDup", "hookCaptured", "closeScan", "expire"} : pc' = [pc EXCEPT ![p] = next]
    BY <1>6, <2>2, <2>3 DEF Call, PayStart, CryptoStart, HookClaim, CloseStart, SweepStart, Begin, Goto
  <2> QED BY <2>1, <2>4, <1>c
<1>7. ASSUME NEW p \in Procs, Crash(p) PROVE CapturesOnly'
  BY <1>7, <1>d DEF Crash, providerVars
<1>8. CASE UNCHANGED <<events, pc>>
  BY <1>8 DEF CapturesOnly
<1>9. CASE Environment
  <2>1. UNCHANGED pc
    BY <1>9 DEF Environment, ProviderEvent, Include, SetStatus
  <2>2. UNCHANGED events \/ \E o \in Orders : events' = events \cup {<<o, "captured">>}
    BY <1>9, <1>a DEF Environment, ProviderEvent, Include, SetStatus, EventTypes, providerVars
  <2>3. ASSUME NEW o \in Orders, NEW x \in Orders, NEW type \in {"failed", "refunded"},
               events' = events \cup {<<x, "captured">>}
        PROVE  <<o, type>> \notin events'
    BY <2>3 DEF CapturesOnly
  <2> QED BY <2>1, <2>2, <2>3 DEF CapturesOnly
<1> QED BY <1>1, <1>2, <1>3, <1>4, <1>5, <1>6, <1>7, <1>8, <1>9
    DEF Next, Advance, Expire, providerVars, vars

\* Whoever stays where it is goes on waiting, while paid orders stay paid.
LEMMA OthersWait ==
  ASSUME UntilVerdict, NEW p \in Procs, Escrowed \subseteq Escrowed', Waiting(p)',
         \A o \in Orders : status'[o] \in {"pending_payment", "paid", "expired"},
         \A r \in Procs \ {p} : pc'[r] = pc[r] /\ loop'[r] = loop[r]
  PROVE  UntilVerdict'
<1>1. ASSUME NEW r \in Procs \ {p} PROVE Waiting(r)'
  <2>1. Waiting(r) /\ pc'[r] = pc[r] /\ loop'[r] = loop[r] /\ loop'[r].todo = loop[r].todo
    BY DEF UntilVerdict
  <2> QED BY <2>1 DEF Waiting
<1> QED BY <1>1 DEF UntilVerdict

\* A process that goes on to a call with nothing to know of the raise.
LEMMA GoesOn ==
  ASSUME TInv, UntilVerdict, NEW p \in Procs, Escrowed \subseteq Escrowed',
         NEW next \in WaitingPcs \ {"recNext", "closeClaim"}, pc' = [pc EXCEPT ![p] = next],
         \A o \in Orders : status'[o] \in {"pending_payment", "paid", "expired"},
         \A r \in Procs \ {p} : loop'[r] = loop[r]
  PROVE  UntilVerdict'
<1>1. pc'[p] = next /\ \A r \in Procs \ {p} : pc'[r] = pc[r]
  BY DEF TInv, FrameInv, FrameOK
<1>2. Waiting(p)'
  BY <1>1 DEF Waiting
<1> QED BY <1>1, <1>2, OthersWait

LEMMA StatusStays ==
  ASSUME UntilVerdict, UNCHANGED status
  PROVE  /\ Escrowed' = Escrowed
         /\ \A o \in Orders : status'[o] \in {"pending_payment", "paid", "expired"}
BY DEF UntilVerdict, Escrowed

LEMMA NextUntilVerdict ==
  ASSUME TInv, VerdictInv, CapturesOnly, UntilVerdict, Raising, Raising', [Next]_vars,
         ~Fault("decline")
  PROVE  UntilVerdict'
<1>p. \A p \in Procs : pc[p] \in WaitingPcs
  BY DEF UntilVerdict, Waiting
<1>f. "idle" \in WaitingPcs \ {"recNext", "closeClaim"}
  BY DEF WaitingPcs
<1>g. ASSUME NEW p \in Procs, Finish(p), UNCHANGED status PROVE UntilVerdict'
  <2>1. /\ pc' = [pc EXCEPT ![p] = "idle"] /\ \A r \in Procs \ {p} : loop'[r] = loop[r]
    BY <1>g DEF Finish, TInv, FrameInv, FrameOK
  <2> QED BY <1>f, <1>g, <2>1, GoesOn, StatusStays
<1>h. ASSUME NEW p \in Procs, NEW next \in {"writePaid", "afterPaid", "writeCrypto", "expire"}, Goto(p, next), UNCHANGED status
      PROVE  UntilVerdict'
  <2>1. next \in WaitingPcs \ {"recNext", "closeClaim"}
    BY DEF WaitingPcs
  <2> QED BY <1>h, <2>1, GoesOn, StatusStays DEF Goto, frame
<1>i. ASSUME NEW o \in Orders, status' = [status EXCEPT ![o] = "paid"]
      PROVE  /\ Escrowed \subseteq Escrowed'
             /\ \A x \in Orders : status'[x] \in {"pending_payment", "paid", "expired"}
  BY <1>i DEF UntilVerdict, Escrowed, TInv, RowsOK
<1>1. ASSUME NEW p \in Procs, Settle(p) \/ RefundOrder(p) PROVE FALSE
  BY <1>1, <1>p DEF Settle, ClaimSettle, Mint, Persist, Wait, WriteSettled, WriteUnsettled,
     RefundOrder, ClaimRefund, Refund, WriteRefunded, WriteUnrefunded, At, WaitingPcs
<1>2. ASSUME NEW p \in Procs, Handle(p) PROVE UntilVerdict'
  <2>1. CASE Capture(p) \/ AfterPaid(p) \/ CryptoDup(p) \/ HookRead(p)
    <3>1. UNCHANGED status
      BY <2>1 DEF Capture, AfterPaid, CryptoDup, HookRead, rowVars
    <3>2. Finish(p) \/ \E next \in {"writePaid", "afterPaid", "writeCrypto"} : Goto(p, next)
      BY <2>1, <1>p DEF Capture, AfterPaid, CryptoDup, HookRead, Raising, At, WaitingPcs
    <3> QED BY <3>1, <3>2, <1>g, <1>h
  <2>2. CASE WritePaid(p)
    <3>1. ord[p] \in Orders
      BY <2>2 DEF WritePaid, At, TInv, FrameInv, OrderAtHand, OrderPcs
    <3>2. "afterPaid" \in WaitingPcs \ {"recNext", "closeClaim"}
      BY DEF WaitingPcs
    <3> QED BY <2>2, <3>1, <3>2, <1>i, GoesOn DEF WritePaid, Put, Goto, frame
  <2>3. CASE WriteCrypto(p)
    <3>1. ord[p] \in Orders
      BY <2>3 DEF WriteCrypto, At, TInv, FrameInv, OrderAtHand, OrderPcs
    <3>2. "afterPaid" \in WaitingPcs \ {"recNext", "closeClaim"}
      BY DEF WaitingPcs
    <3>3. \A r \in Procs \ {p} : loop'[r] = loop[r]
      BY <2>3 DEF WriteCrypto, TInv, FrameInv, FrameOK
    <3> QED BY <2>3, <3>1, <3>2, <3>3, <1>i, GoesOn DEF WriteCrypto, Put
  <2>4. ~WriteDeclined(p) /\ ~WriteHookRefunded(p)
    BY <1>p DEF WriteDeclined, WriteHookRefunded, At, WaitingPcs
  <2> QED BY <1>2, <2>1, <2>2, <2>3, <2>4 DEF Handle
<1>3. ASSUME NEW p \in Procs, Close(p) PROVE UntilVerdict'
  <2>1. UNCHANGED status
    BY <1>3 DEF Close, CloseScan, CloseClaim, CloseNext, rowVars
  <2>2. CASE Finish(p)
    BY <2>1, <2>2, <1>g
  <2>3. CASE CloseScan(p) /\ ~Finish(p)
    <3>1. ~loop[p].closed
      <4>1. Outcome(p) \in Closed
        BY DEF Outcome, Closed
      <4> QED BY <2>3, <4>1 DEF CloseScan, At, VerdictInv, Verdict, Raising
    <3> DEFINE met == Met
    <3>2. /\ pc' = [pc EXCEPT ![p] = "closeClaim"]
          /\ loop' = [loop EXCEPT ![p] = [loop[p] EXCEPT !.todo = Escrowed, !.then = "closeNext", !.met = met]]
      BY <2>3, <3>1 DEF CloseScan
    <3>3. met => Raised(Escrowed) >= MinimumRaise
      BY DEF Met
    <3> HIDE DEF met
    <3>4. /\ pc'[p] = "closeClaim" /\ loop'[p].todo = Escrowed /\ loop'[p].met = met
          /\ \A r \in Procs \ {p} : pc'[r] = pc[r] /\ loop'[r] = loop[r]
      BY <3>2 DEF TInv, FrameInv, FrameOK, Loops
    <3>5. Waiting(p)'
      <4>1. loop'[p].met => Raised(loop'[p].todo) >= MinimumRaise
        BY <3>3, <3>4
      <4> QED BY <2>1, <3>4, <4>1, StatusStays DEF Waiting, WaitingPcs, Raised
    <3> QED BY <2>1, <3>4, <3>5, OthersWait, StatusStays
  <2>4. ~CloseNext(p)
    BY <1>p DEF CloseNext, At, WaitingPcs
  <2>5. CASE CloseClaim(p) /\ ~Finish(p)
    <3>1. offering' \in Closed
      BY <2>5 DEF CloseClaim, Outcome, Closed
    <3> QED BY <3>1 DEF Raising
  <2> QED BY <1>3, <2>2, <2>3, <2>4, <2>5 DEF Close
<1>4. ASSUME NEW p \in Procs, Sweep(p) PROVE UntilVerdict'
  <2>1. UNCHANGED status
    BY <1>4, <1>p DEF Sweep, RecoverScan, RecoverNext, RecoverReceipt, RecoverMempool, RecoverSettled,
       RecoverRequeue, rowVars, At, WaitingPcs
  <2>2. CASE RecoverScan(p)
    <3> DEFINE todo == {o \in Orders : Stale(o)}
               seen == [o \in Orders |-> IF Stale(o) THEN txHash[o] ELSE 0]
    <3>1. /\ pc' = [pc EXCEPT ![p] = "recNext"]
          /\ loop' = [loop EXCEPT ![p] = [loop[p] EXCEPT !.todo = todo, !.then = "recNext", !.seen = seen]]
      BY <2>2 DEF RecoverScan
    <3>2. todo = {}
      BY DEF Stale, UntilVerdict
    <3> HIDE DEF todo, seen
    <3>3. /\ pc'[p] = "recNext" /\ loop'[p].todo = {}
          /\ \A r \in Procs \ {p} : pc'[r] = pc[r] /\ loop'[r] = loop[r]
      BY <3>1, <3>2 DEF TInv, FrameInv, FrameOK, Loops
    <3>4. Waiting(p)'
      BY <3>3 DEF Waiting, WaitingPcs
    <3> QED BY <2>1, <3>3, <3>4, OthersWait, StatusStays
  <2>3. CASE RecoverNext(p)
    <3>1. loop[p].todo = {}
      BY <2>3 DEF RecoverNext, At, UntilVerdict, Waiting
    <3> QED BY <2>1, <2>3, <3>1, <1>g DEF RecoverNext
  <2> QED BY <1>4, <2>2, <2>3, <1>p
      DEF Sweep, RecoverReceipt, RecoverMempool, RecoverSettled, RecoverRequeue, At, WaitingPcs
<1>5. ASSUME NEW p \in Procs, Call(p) PROVE UntilVerdict'
  <2>1. UNCHANGED status
    BY <1>5 DEF Call, PayStart, CryptoStart, HookClaim, CloseStart, SweepStart, rowVars
  <2>2. ASSUME NEW o \in Orders, NEW type \in EventTypes, HookClaim(p, o, type)
        PROVE  HookPc[type] = "hookCaptured"
    <3>1. type = "captured"
      BY <2>2 DEF HookClaim, EventTypes, CapturesOnly
    <3> QED BY <3>1 DEF HookPc
  <2>3. PICK next \in {"capture", "cryptoDup", "hookCaptured", "closeScan", "expire"} : pc' = [pc EXCEPT ![p] = next]
    BY <1>5, <2>2 DEF Call, PayStart, CryptoStart, HookClaim, CloseStart, SweepStart, Begin, Goto
  <2>4. \A r \in Procs \ {p} : loop'[r] = loop[r]
    BY <1>5 DEF Call, PayStart, CryptoStart, HookClaim, CloseStart, SweepStart, Begin, Goto, frame,
       TInv, FrameInv, FrameOK
  <2>5. next \in WaitingPcs \ {"recNext", "closeClaim"}
    BY DEF WaitingPcs
  <2> QED BY <2>1, <2>3, <2>4, <2>5, GoesOn, StatusStays
<1>6. ASSUME NEW p \in Procs, Crash(p) PROVE UntilVerdict'
  BY <1>6, <1>g DEF Crash, rowVars
<1>7. ASSUME NEW p \in Procs, NEW o \in Orders, Expire(p, o) PROVE UntilVerdict'
  <2>1. /\ Escrowed' = Escrowed
        /\ \A x \in Orders : status'[x] \in {"pending_payment", "paid", "expired"}
    BY <1>7 DEF Expire, UntilVerdict, Escrowed, TInv, RowsOK
  <2>2. UNCHANGED <<pc, loop>>
    BY <1>7 DEF Expire, frame
  <2>3. Waiting(p)'
    BY <2>1, <2>2 DEF UntilVerdict, Waiting, Raised
  <2> QED BY <2>1, <2>2, <2>3, OthersWait
<1>8. CASE Environment \/ UNCHANGED vars
  <2>1. UNCHANGED <<status, pc, loop>>
    BY <1>8 DEF Environment, ProviderEvent, Include, SetStatus, vars, rowVars, frame
  <2> QED BY <2>1, StatusStays DEF UntilVerdict, Waiting, Raised
<1> QED BY <1>1, <1>2, <1>3, <1>4, <1>5, <1>6, <1>7, <1>8 DEF Next, Advance

\* Only an escrowed offering is closed.
LEMMA NextCloses ==
  ASSUME TInv, \A p \in Procs : pc[p] \in ClosePcs => Escrow, [Next]_vars
  PROVE  \A p \in Procs : pc'[p] \in ClosePcs => Escrow
<1> SUFFICES ASSUME NEW q \in Procs, pc'[q] \in ClosePcs, ~Escrow
             PROVE  FALSE
  OBVIOUS
<1>a. pc[q] \notin ClosePcs
  OBVIOUS
<1>1. ASSUME NEW p \in Procs, NEW next, pc' = [pc EXCEPT ![p] = next], next \notin ClosePcs
      PROVE  FALSE
  <2>1. pc'[q] = next \/ pc'[q] = pc[q]
    BY <1>1 DEF TInv, FrameInv, FrameOK
  <2> QED BY <1>1, <1>a, <2>1
<1>2. ASSUME UNCHANGED pc PROVE FALSE
  BY <1>2, <1>a
<1>3. ASSUME NEW p \in Procs, Finish(p) \/ Return(p) \/ NotSettled(p) PROVE FALSE
  <2>1. loop[p].then \in {"idle", "closeNext", "recNext"}
    BY DEF TInv, FrameInv, FrameOK, Loops
  <2>2. \E next \in {"idle", "closeNext", "recNext", "claimRefund"} : pc' = [pc EXCEPT ![p] = next]
    BY <1>3, <2>1 DEF Finish, Return, NotSettled
  <2> QED BY <2>2, <1>1 DEF ClosePcs
<1>4. ASSUME NEW p \in Procs, Settle(p) \/ RefundOrder(p) PROVE FALSE
  <2>1. CASE \E next \in SettlePcs \cup RefundPcs : pc' = [pc EXCEPT ![p] = next]
    BY <2>1, <1>1 DEF SettlePcs, RefundPcs, ClosePcs
  <2> QED BY <1>3, <1>4, <2>1
      DEF Settle, ClaimSettle, Take, Mint, Persist, Wait, WriteSettled, WriteUnsettled, SettlePcs, Goto,
          RefundOrder, ClaimRefund, Refund, WriteRefunded, WriteUnrefunded, RefundPcs
<1>5. ASSUME NEW p \in Procs, Handle(p) PROVE FALSE
  <2>1. CASE \E next \in {"afterPaid", "writePaid", "writeDeclined", "claimSettle", "claimRefund", "writeCrypto",
                          "writeHookFailed", "writeHookRefunded"} : pc' = [pc EXCEPT ![p] = next]
    BY <2>1, <1>1 DEF ClosePcs
  <2> QED BY <1>3, <1>5, <2>1
      DEF Handle, Capture, WritePaid, WriteDeclined, AfterPaid, CryptoDup, WriteCrypto, HookRead,
          WriteHookRefunded, Goto
<1>6. ASSUME NEW p \in Procs, Close(p) PROVE FALSE
  <2>1. CASE CloseScan(p)
    BY <2>1, <1>a DEF CloseScan, At, ClosePcs
  <2>2. CASE CloseClaim(p)
    BY <2>2, <1>a DEF CloseClaim, At, ClosePcs
  <2>3. CASE CloseNext(p)
    <3>1. CASE \E next \in {"claimSettle", "claimRefund"} : pc' = [pc EXCEPT ![p] = next]
      BY <3>1, <1>1 DEF ClosePcs
    <3> QED BY <2>3, <3>1, <1>3 DEF CloseNext
  <2> QED BY <1>6, <2>1, <2>2, <2>3 DEF Close
<1>7. ASSUME NEW p \in Procs, Sweep(p) PROVE FALSE
  <2>1. CASE \E next \in {"recNext", "recRequeue", "recReceipt", "recSettled", "recMempool", "claimSettle"} :
               pc' = [pc EXCEPT ![p] = next]
    BY <2>1, <1>1 DEF ClosePcs
  <2> QED BY <1>7, <1>3, <2>1, SweepGoes
<1>8. ASSUME NEW p \in Procs, Call(p) PROVE FALSE
  <2>1. \A type \in EventTypes : HookPc[type] \in {"hookCaptured", "hookFailed", "hookRefunded"}
    BY DEF HookPc, EventTypes
  <2>2. \E next \in {"capture", "cryptoDup", "hookCaptured", "hookFailed", "hookRefunded", "expire"} :
          pc' = [pc EXCEPT ![p] = next]
    BY <1>8, <2>1 DEF Call, PayStart, CryptoStart, HookClaim, CloseStart, SweepStart, Begin, Goto
  <2> QED BY <2>2, <1>1 DEF ClosePcs
<1>9. CASE UNCHANGED vars \/ Environment \/ \E p \in Procs, o \in Orders : Expire(p, o)
  BY <1>9, <1>2 DEF Environment, ProviderEvent, Include, SetStatus, Expire, vars
<1> QED BY <1>3, <1>4, <1>5, <1>6, <1>7, <1>8, <1>9 DEF Next, Advance, Crash

\* Only the close writes the offering's status, unless the issuer does.
LEMMA WhoCloses ==
  ASSUME "setStatus" \notin Requests, [Next]_vars
  PROVE  offering' = offering \/ \E p \in Procs : CloseClaim(p)
<1>1. ASSUME NEW p \in Procs, Settle(p) \/ RefundOrder(p) PROVE offering' = offering
  BY <1>1 DEF Settle, ClaimSettle, Take, Mint, Persist, Wait, WriteSettled, WriteUnsettled, RefundOrder,
     ClaimRefund, Refund, WriteRefunded, WriteUnrefunded, rowVars
<1>2. ASSUME NEW p \in Procs, Handle(p) PROVE offering' = offering
  BY <1>2 DEF Handle, Capture, WritePaid, WriteDeclined, AfterPaid, CryptoDup, WriteCrypto, HookRead,
     WriteHookRefunded, rowVars
<1>3. ASSUME NEW p \in Procs, Close(p), ~CloseClaim(p) PROVE offering' = offering
  BY <1>3 DEF Close, CloseScan, CloseNext, rowVars
<1>4. ASSUME NEW p \in Procs, Sweep(p) PROVE offering' = offering
  BY <1>4 DEF Sweep, RecoverScan, RecoverNext, RecoverReceipt, RecoverMempool, RecoverSettled,
     RecoverRequeue, rowVars
<1>5. ASSUME NEW p \in Procs, Call(p) \/ Crash(p) PROVE offering' = offering
  BY <1>5 DEF Call, PayStart, CryptoStart, HookClaim, CloseStart, SweepStart, Crash, rowVars
<1>6. CASE UNCHANGED vars \/ Environment \/ \E p \in Procs, o \in Orders : Expire(p, o)
  BY <1>6 DEF Environment, ProviderEvent, Include, SetStatus, Expire, vars, rowVars
<1> QED BY <1>1, <1>2, <1>3, <1>4, <1>5, <1>6 DEF Next, Advance

\* No step but the issuer's opens a closed raise again.
LEMMA StaysClosed ==
  ASSUME "setStatus" \notin Requests, [Next]_vars, Raising'
  PROVE  Raising
<1>1. CASE \E p \in Procs : CloseClaim(p)
  BY <1>1 DEF CloseClaim, Raising
<1> QED BY <1>1, WhoCloses DEF Raising

LEMMA AlwaysRaise ==
  ASSUME NothingReturned
  PROVE  Spec => [](TInv /\ VerdictInv /\ RaiseInv)
<1>1. Init => RaiseInv
  <2> SUFFICES ASSUME Init PROVE RaiseInv
    OBVIOUS
  <2>1. CapturesOnly
    BY DEF Init, CapturesOnly
  <2>2. UntilVerdict
    BY DEF Init, UntilVerdict, Waiting, WaitingPcs
  <2> QED BY <2>1, <2>2 DEF Init, RaiseInv, ClosePcs
<1>2. TInv /\ VerdictInv /\ RaiseInv /\ [Next]_vars => RaiseInv'
  <2> SUFFICES ASSUME TInv, VerdictInv, RaiseInv, [Next]_vars PROVE RaiseInv'
    OBVIOUS
  <2>1. CapturesOnly'
    BY NextCaptures DEF NothingReturned, RaiseInv
  <2>2. \A p \in Procs : pc'[p] \in ClosePcs => Escrow
    BY NextCloses DEF RaiseInv
  <2>3. Raising' => UntilVerdict'
    BY StaysClosed, NextUntilVerdict DEF NothingReturned, RaiseInv, Fault
  <2> QED BY <2>1, <2>2, <2>3 DEF RaiseInv
<1>3. Spec => []TInv /\ []VerdictInv
  <2>1. Spec => []TInv
    BY InitTyped, NextTyped, PTL DEF Spec
  <2> QED BY <2>1, AlwaysVerdict DEF NothingReturned
<1> QED BY <1>1, <1>2, <1>3, PTL DEF Spec

\* A raise that is declared funded has met its minimum with the orders that are
\* paid at that moment, though the verdict was drawn from an earlier read: as long
\* as nobody else writes the offering and the provider takes no payment back.
THEOREM FundedOnlyWhenMet ==
  ASSUME NothingReturned
  PROVE  Spec => FundedIsMet
<1>1. TInv /\ RaiseInv /\ [Next]_vars => [offering # "funded" /\ offering' = "funded" => Met]_vars
  <2> SUFFICES ASSUME TInv, RaiseInv, Next, offering # "funded", offering' = "funded"
               PROVE  Met
    OBVIOUS
  <2>1. PICK p \in Procs : CloseClaim(p)
    BY WhoCloses DEF NothingReturned
  <2>2. At(p, "closeClaim") /\ offering \notin Closed /\ loop[p].met
    BY <2>1 DEF CloseClaim, Outcome, Closed
  <2>3. Waiting(p)
    BY <2>2 DEF RaiseInv, UntilVerdict, Raising, ClosePcs, At
  <2>4. loop[p].todo \subseteq Escrowed /\ Raised(loop[p].todo) >= MinimumRaise
    BY <2>2, <2>3 DEF Waiting, At
  <2>5. loop[p].todo \in SUBSET Orders /\ Escrowed \in SUBSET Orders
    BY DEF TInv, FrameInv, FrameOK, Loops, Escrowed
  <2>6. Raised(Escrowed) >= Raised(loop[p].todo) /\ Raised(Escrowed) \in Nat /\ Raised(loop[p].todo) \in Nat
    BY <2>4, <2>5, RaisedGrows
  <2> QED BY <2>4, <2>6, AmountAssumption DEF Met
<1> QED BY <1>1, AlwaysRaise, PTL DEF Spec, FundedIsMet

-----------------------------------------------------------------------------
(***************************************************************************)
(* One outcome of each order.  At any moment at most one process holds an  *)
(* order: it is writing the payment, settling, refunding, or recovering it *)
(* from a settlement nobody works at any more.  What the holder relies on  *)
(* is therefore still true when it writes.                                 *)
(***************************************************************************)

\* The payments come by the webhook, and a handler that goes on has lost neither
\* an update nor an answer of the provider or of the chain; the sweeper has its
\* lease for itself, and no handler dies between its mint and the hash.
Undisturbed ==
  /\ Faults \cap {"decline", "chargeback", "db", "lostReply", "wait", "rpcTx", "slow", "leaseLapse"} = {}
  /\ Requests \cap {"pay", "crypto"} = {}
  /\ "persist" \notin CrashPoints

PayPcs == {"capture", "cryptoDup", "writeCrypto"}
HookPcs == {"hookCaptured", "writePaid"}
RecPcs == {"recReceipt", "recMempool", "recSettled", "recRequeue"}

Unpaid(o) == status[o] \in {"pending_payment", "expired"}
Working(p) == pc[p] \in SettlePcs /\ ~Hung(p)
Abandoned(o) == status[o] = "settling" /\ ~Live(o)
Holds(p, o) == ord[p] = o /\ (Working(p) \/ pc[p] \in RefundPcs \cup HookPcs)

\* What the row of an order says of its mints and refunds.
Told(o) ==
  /\ status[o] \notin {"failed", "cancelled"}
  /\ Unpaid(o) \/ status[o] = "paid" => Issued(o) = {} /\ refunds[o] = {}
  /\ status[o] \in {"settling", "settled"} => refunds[o] = {}
  /\ status[o] \in {"refunding", "refunded"} => Issued(o) = {}
  /\ status[o] = "settling" =>
       \A n \in Issued(o) : n = txHash[o] \/ \E p \in Procs : pc[p] = "persist" /\ ord[p] = o
  /\ \A n, m \in Issued(o) : n = m
  /\ \A n, m \in refunds[o] : n = m
  /\ <<o, "captured">> \in ledger \/ Unpaid(o)

\* What a process knows of the order it holds, or is to recover.
Pays(p) == pc[p] \in HookPcs => Unpaid(ord[p]) /\ <<ord[p], "captured">> \in ledger
Settles(p) ==
  /\ Working(p) => status[ord[p]] = "settling"
  /\ pc[p] \in {"mint", "writeUnsettled"} => Issued(ord[p]) = {}
  /\ pc[p] = "persist" => Issued(ord[p]) \subseteq {num[p]}
  /\ Working(p) /\ pc[p] \in {"wait", "writeSettled"} => txHash[ord[p]] = num[p]
Refunds(p) ==
  /\ pc[p] \in RefundPcs => status[ord[p]] = "refunding"
  /\ pc[p] \in {"refund", "writeUnrefunded"} => refunds[ord[p]] = {}
Recovers(p) ==
  /\ loop[p].then = "recNext" => \A o \in loop[p].todo : Abandoned(o) /\ loop[p].seen[o] = txHash[o]
  /\ pc[p] \in SweepPcs \ {"expire"} => loop[p].then = "recNext"
  /\ pc[p] \in RecPcs => Abandoned(ord[p]) /\ num[p] = txHash[ord[p]] /\ ord[p] \notin loop[p].todo
  /\ pc[p] = "recRequeue" => Issued(ord[p]) = {}
Sound(p) == pc[p] \notin PayPcs /\ Pays(p) /\ Settles(p) /\ Refunds(p) /\ Recovers(p)

OneHolder == \A o \in Orders, p, q \in Procs : Holds(p, o) /\ Holds(q, o) => p = q
OneSweep == \A p, q \in Procs : Sweeping(p) /\ Sweeping(q) => p = q

HoldInv == (\A o \in Orders : Told(o)) /\ (\A p \in Procs : Sound(p)) /\ OneHolder /\ OneSweep

-----------------------------------------------------------------------------
(* A step of one process: the rows and the processes it leaves alone. *)

Same(o) ==
  /\ status'[o] = status[o] /\ txHash'[o] = txHash[o]
  /\ mint'[o] = mint[o] /\ refunds'[o] = refunds[o]
  /\ <<o, "captured">> \in ledger' <=> <<o, "captured">> \in ledger
Stays(r) == pc'[r] = pc[r] /\ ord'[r] = ord[r] /\ num'[r] = num[r] /\ loop'[r] = loop[r]

\* The orders whose rows a process relies on.
Concerns(p, o) ==
  \/ Holds(p, o)
  \/ pc[p] \in RecPcs /\ ord[p] = o
  \/ loop[p].then = "recNext" /\ o \in loop[p].todo

\* A dropped mint is never mined.
Drops == \A o \in Orders, n \in Claims : mint[o][n] = "dropped" => mint'[o][n] = "dropped"

LEMMA NumIsClaim ==
  ASSUME TInv, ClaimInv, NEW p \in Procs, pc[p] \in OwnerPcs
  PROVE  num[p] \in Claims /\ ord[p] \in Orders
<1>1. ord[p] \in Orders
  BY DEF TInv, FrameInv, OrderAtHand, OrderPcs, OwnerPcs
<1>2. num[p] \in 1..claims[ord[p]] /\ claims[ord[p]] \in 0..MaxClaims
  BY <1>1 DEF ClaimInv, Held, TInv, HistoryOK
<1> QED BY <1>1, <1>2, MaxClaimsAssumption DEF Claims

LEMMA StaysWorking ==
  ASSUME TInv, ClaimInv, Drops, NEW r \in Procs, Stays(r), Working(r)'
  PROVE  Working(r)
<1> SUFFICES ASSUME Hung(r) PROVE FALSE
  BY DEF Working, Stays
<1>1. pc[r] = "wait" /\ mint[ord[r]][num[r]] = "dropped"
  BY DEF Hung
<1>2. num[r] \in Claims /\ ord[r] \in Orders
  BY <1>1, NumIsClaim DEF OwnerPcs, SettlePcs
<1>3. mint'[ord[r]][num[r]] = "dropped"
  BY <1>1, <1>2 DEF Drops
<1> QED BY <1>1, <1>3 DEF Stays, Working, Hung

\* Whoever stays where it is still knows what it knew.
LEMMA StaysSound ==
  ASSUME TInv, ClaimInv, Drops, NEW r \in Procs, Sound(r), Stays(r),
         \A o \in Orders : Concerns(r, o) => Same(o),
         \A o \in Orders : Concerns(r, o) /\ Abandoned(o) => Abandoned(o)'
  PROVE  Sound(r)'
<1>1. Working(r)' => Working(r)
  BY StaysWorking
<1>2. pc[r] \in OrderPcs => ord[r] \in Orders
  BY DEF TInv, FrameInv, OrderAtHand
<1>3. ASSUME NEW o \in Orders, Same(o) PROVE Issued(o)' = Issued(o)
  BY <1>3 DEF Same, Issued
<1>4. pc'[r] \notin PayPcs
  BY DEF Sound, Stays
<1>5. Pays(r)'
  <2> SUFFICES ASSUME pc[r] \in HookPcs PROVE Unpaid(ord[r])' /\ <<ord[r], "captured">> \in ledger'
    BY DEF Pays, Stays
  <2>1. ord[r] \in Orders
    BY <1>2 DEF HookPcs, OrderPcs
  <2>2. Same(ord[r])
    BY <2>1 DEF Concerns, Holds
  <2> QED BY <2>2 DEF Same, Sound, Pays, Unpaid, Stays
<1>6. Settles(r)'
  <2> SUFFICES ASSUME Working(r)' PROVE Settles(r)'
    BY DEF Settles, Working, Hung, SettlePcs
  <2>1. ord[r] \in Orders /\ Holds(r, ord[r])
    BY <1>1, <1>2 DEF Working, OrderPcs, Holds
  <2>2. Same(ord[r])
    BY <2>1 DEF Concerns
  <2>3. Issued(ord[r])' = Issued(ord[r])
    BY <2>2 DEF Same, Issued, Stays
  <2> QED BY <1>1, <2>2, <2>3 DEF Same, Sound, Settles, Stays
<1>7. Refunds(r)'
  <2> SUFFICES ASSUME pc[r] \in RefundPcs PROVE Refunds(r)'
    BY DEF Refunds, Stays, RefundPcs
  <2>1. ord[r] \in Orders
    BY <1>2 DEF OrderPcs
  <2>2. Same(ord[r])
    BY <2>1 DEF Concerns, Holds
  <2> QED BY <2>2 DEF Same, Sound, Refunds, Stays
<1>8. Recovers(r)'
  <2>1. ASSUME loop[r].then = "recNext", NEW o \in loop[r].todo
        PROVE  Abandoned(o)' /\ loop[r].seen[o] = txHash'[o]
    <3>1. o \in Orders
      BY <2>1 DEF TInv, FrameInv, FrameOK, Loops
    <3>2. Same(o) /\ Abandoned(o) /\ loop[r].seen[o] = txHash[o]
      BY <2>1, <3>1 DEF Concerns, Sound, Recovers
    <3> QED BY <2>1, <3>1, <3>2 DEF Concerns, Same
  <2>2. ASSUME pc[r] \in RecPcs
        PROVE  /\ Abandoned(ord[r])' /\ num[r] = txHash'[ord[r]] /\ ord[r] \notin loop[r].todo
               /\ Issued(ord[r])' = Issued(ord[r])
    <3>1. ord[r] \in Orders
      BY <1>2, <2>2 DEF RecPcs, OrderPcs
    <3>2. Same(ord[r]) /\ Abandoned(ord[r]) /\ num[r] = txHash[ord[r]] /\ ord[r] \notin loop[r].todo
      BY <2>2, <3>1 DEF Concerns, Sound, Recovers
    <3>3. Issued(ord[r])' = Issued(ord[r])
      BY <3>2 DEF Same, Issued, Stays
    <3>4. Abandoned(ord[r])'
      BY <2>2, <3>1, <3>2 DEF Concerns, Stays, Abandoned, Live
    <3> QED BY <3>2, <3>3, <3>4 DEF Same, Stays
  <2> QED BY <2>1, <2>2 DEF Stays, Sound, Recovers, RecPcs
<1> QED BY <1>4, <1>5, <1>6, <1>7, <1>8 DEF Sound

\* Nobody else relies on the row of an order that waits for a claim or for its
\* webhook event, or that a process holds or recovers.
LEMMA Alone ==
  ASSUME HoldInv, NEW p \in Procs, NEW o \in Orders,
         \/ status[o] = "paid"
         \/ Unpaid(o) /\ <<o, "captured">> \notin ledger
         \/ Holds(p, o)
         \/ pc[p] \in RecPcs /\ ord[p] = o
  PROVE  \A r \in Procs \ {p} : ~Concerns(r, o)
<1> SUFFICES ASSUME NEW r \in Procs \ {p}, Concerns(r, o) PROVE FALSE
  OBVIOUS
<1>1. Sound(p) /\ Sound(r)
  BY DEF HoldInv
<1>2. ASSUME NEW q \in Procs, Sound(q), Holds(q, o)
      PROVE  \/ Unpaid(o) /\ <<o, "captured">> \in ledger
             \/ status[o] = "settling" /\ Live(o)
             \/ status[o] = "refunding"
  <2>1. CASE Working(q)
    BY <1>2, <2>1 DEF Holds, Sound, Settles, Working, Live
  <2>2. CASE pc[q] \in RefundPcs
    BY <1>2, <2>2 DEF Holds, Sound, Refunds
  <2>3. CASE pc[q] \in HookPcs
    BY <1>2, <2>3 DEF Holds, Sound, Pays
  <2> QED BY <1>2, <2>1, <2>2, <2>3 DEF Holds
<1>3. ASSUME NEW q \in Procs, Sound(q), Concerns(q, o), ~Holds(q, o)
      PROVE  status[o] = "settling" /\ ~Live(o) /\ Sweeping(q)
  BY <1>3 DEF Concerns, Sound, Recovers, Abandoned, RecPcs, Sweeping, SweepPcs
<1>4. Holds(p, o) \/ (pc[p] \in RecPcs /\ ord[p] = o /\ Concerns(p, o))
  <2>1. ~(status[o] = "paid" \/ (Unpaid(o) /\ <<o, "captured">> \notin ledger))
    BY <1>1, <1>2, <1>3 DEF Unpaid
  <2> QED BY <2>1 DEF Concerns
<1>5. CASE Holds(r, o) /\ Holds(p, o)
  BY <1>5 DEF HoldInv, OneHolder
<1>6. CASE ~Holds(r, o) /\ ~Holds(p, o)
  BY <1>1, <1>3, <1>4, <1>6 DEF HoldInv, OneSweep
<1> QED BY <1>1, <1>2, <1>3, <1>4, <1>5, <1>6 DEF Unpaid

\* One process writes the row of an order that no other relies on.
LEMMA Writes ==
  ASSUME TInv, ClaimInv, HoldInv, Drops, NEW p \in Procs, NEW o \in Orders,
         \A x \in Orders \ {o} : Same(x),
         \A r \in Procs \ {p} : Stays(r) /\ ~Concerns(r, o),
         pc[p] = "persist" => ord[p] = o,
         \A x \in Orders \ {o} : ~Holds(p, x)',
         Working(p)' => ord'[p] \in Orders,
         Sweeping(p)' => Sweeping(p),
         Told(o)',
         (\A x \in Orders \ {o} : Abandoned(x) => Abandoned(x)') => Sound(p)'
  PROVE  HoldInv'
<1>1. ASSUME NEW r \in Procs \ {p} PROVE Working(r)' => Working(r)
  BY StaysWorking
<1>2. ASSUME NEW x \in Orders \ {o}, Abandoned(x) PROVE Abandoned(x)'
  <2>1. ASSUME NEW q \in Procs, Working(q)', ord'[q] = x PROVE Working(q) /\ ord[q] = x
    <3>1. q # p
      BY <2>1, <1>2 DEF Holds
    <3> QED BY <2>1, <3>1, <1>1 DEF Stays
  <2>2. Live(x)' => Live(x)
    BY <2>1 DEF Live, Working
  <2> QED BY <1>2, <2>2 DEF Abandoned, Same
<1>3. ASSUME NEW r \in Procs \ {p} PROVE Sound(r)'
  <2>1. \A x \in Orders : Concerns(r, x) => x # o
    OBVIOUS
  <2> QED BY <1>2, <2>1, StaysSound DEF HoldInv
<1>4. ASSUME NEW x \in Orders \ {o} PROVE Told(x)'
  <2>1. Told(x) /\ Same(x)
    BY DEF HoldInv
  <2>2. Issued(x)' = Issued(x)
    BY <2>1 DEF Same, Issued
  <2>3. ASSUME NEW q \in Procs, pc[q] = "persist", ord[q] = x PROVE pc'[q] = "persist" /\ ord'[q] = x
    BY <2>3 DEF Stays
  <2>4. Unpaid(x)' <=> Unpaid(x)
    BY <2>1 DEF Same, Unpaid
  <2> QED BY <2>1, <2>2, <2>3, <2>4 DEF Told, Same
<1>5. OneHolder'
  <2> SUFFICES ASSUME NEW x \in Orders, NEW q \in Procs, NEW r \in Procs, Holds(q, x)', Holds(r, x)'
               PROVE  q = r
    BY DEF OneHolder
  <2>1. ASSUME NEW s \in Procs \ {p}, Holds(s, x)' PROVE Holds(s, x)
    BY <2>1, <1>1 DEF Holds, Stays
  <2>2. CASE q # p /\ r # p
    BY <2>1, <2>2 DEF HoldInv, OneHolder
  <2>3. ASSUME Holds(p, x)' PROVE x = o /\ \A s \in Procs \ {p} : ~Holds(s, x)'
    BY <2>1, <2>3 DEF Concerns
  <2> QED BY <2>2, <2>3
<1>6. OneSweep'
  BY DEF HoldInv, OneSweep, Sweeping, Stays
<1>7. Sound(p)'
  BY <1>2
<1> QED BY <1>3, <1>4, <1>5, <1>6, <1>7 DEF HoldInv

\* One process goes on, and no row changes.
LEMMA MovesAbandon ==
  ASSUME TInv, ClaimInv, Drops, NEW p \in Procs,
         \A x \in Orders : Same(x),
         \A r \in Procs \ {p} : Stays(r),
         Working(p)' => Working(p) /\ ord'[p] = ord[p],
         NEW x \in Orders, Abandoned(x)
  PROVE  Abandoned(x)'
<1>1. ASSUME NEW q \in Procs, Working(q)', ord'[q] = x PROVE Working(q) /\ ord[q] = x
  BY <1>1, StaysWorking DEF Stays
<1>2. Live(x)' => Live(x)
  BY <1>1 DEF Live, Working
<1> QED BY <1>2 DEF Abandoned, Same

LEMMA Moves ==
  ASSUME TInv, ClaimInv, HoldInv, Drops, NEW p \in Procs,
         \A x \in Orders : Same(x),
         \A r \in Procs \ {p} : Stays(r),
         pc[p] # "persist",
         Working(p)' => Working(p) /\ ord'[p] = ord[p],
         \A x \in Orders : Holds(p, x)' => Holds(p, x),
         Sweeping(p)' => Sweeping(p) \/ \A q \in Procs : ~Sweeping(q),
         Sound(p)'
  PROVE  HoldInv'
<1>1. ASSUME NEW r \in Procs \ {p} PROVE Sound(r)'
  BY StaysSound, MovesAbandon DEF HoldInv
<1>2. ASSUME NEW x \in Orders PROVE Told(x)'
  <2>1. Told(x) /\ Same(x)
    BY DEF HoldInv
  <2>2. Issued(x)' = Issued(x)
    BY <2>1 DEF Same, Issued
  <2>3. ASSUME NEW q \in Procs, pc[q] = "persist", ord[q] = x PROVE pc'[q] = "persist" /\ ord'[q] = x
    BY <2>3 DEF Stays
  <2>4. Unpaid(x)' <=> Unpaid(x)
    BY <2>1 DEF Same, Unpaid
  <2> QED BY <2>1, <2>2, <2>3, <2>4 DEF Told, Same
<1>3. OneHolder'
  <2>1. ASSUME NEW x \in Orders, NEW s \in Procs, Holds(s, x)' PROVE Holds(s, x)
    BY <2>1, StaysWorking DEF Holds, Stays
  <2> QED BY <2>1 DEF HoldInv, OneHolder
<1>4. OneSweep'
  BY DEF HoldInv, OneSweep, Sweeping, Stays
<1> QED BY <1>1, <1>2, <1>3, <1>4 DEF HoldInv

\* No process moves; a reservation may expire, a mint be mined, reverted or dropped.
LEMMA Fades ==
  ASSUME TInv, ClaimInv, HoldInv, Drops,
         \A r \in Procs : Stays(r),
         UNCHANGED <<txHash, refunds, ledger>>,
         \A x \in Orders : status'[x] = status[x] \/ (Unpaid(x) /\ Unpaid(x)'),
         \A x \in Orders : Issued(x)' \subseteq Issued(x)
  PROVE  HoldInv'
<1>1. ASSUME NEW q \in Procs, NEW x \in Orders, Working(q)', ord'[q] = x PROVE Working(q) /\ ord[q] = x
  BY <1>1, StaysWorking DEF Stays
<1>2. ASSUME NEW x \in Orders, Abandoned(x) PROVE Abandoned(x)'
  <2>1. Live(x)' => Live(x)
    BY <1>1 DEF Live, Working
  <2> QED BY <1>2, <2>1 DEF Abandoned, Unpaid
<1>3. ASSUME NEW x \in Orders PROVE Told(x)'
  <2>1. Told(x)
    BY DEF HoldInv
  <2>2. ASSUME NEW q \in Procs, pc[q] = "persist", ord[q] = x PROVE pc'[q] = "persist" /\ ord'[q] = x
    BY <2>2 DEF Stays
  <2>3. CASE status'[x] = status[x]
    BY <2>1, <2>2, <2>3 DEF Told, Unpaid
  <2>4. CASE Unpaid(x) /\ Unpaid(x)'
    BY <2>1, <2>4 DEF Told, Unpaid
  <2> QED BY <2>3, <2>4
<1>4. ASSUME NEW r \in Procs PROVE Sound(r)'
  <2>1. Sound(r) /\ Stays(r)
    BY DEF HoldInv
  <2>2. pc[r] \in OrderPcs => ord[r] \in Orders
    BY DEF TInv, FrameInv, OrderAtHand
  <2>3. Pays(r)'
    BY <2>1, <2>2 DEF Sound, Pays, Stays, HookPcs, OrderPcs, Unpaid
  <2>4. Settles(r)'
    <3> SUFFICES ASSUME Working(r)' PROVE Settles(r)'
      BY DEF Settles, Working, Hung, SettlePcs
    <3>1. Working(r) /\ ord[r] \in Orders
      BY <2>1, <2>2, StaysWorking DEF Working, OrderPcs
    <3>2. status'[ord[r]] = status[ord[r]]
      BY <2>1, <3>1 DEF Sound, Settles, Unpaid
    <3>3. Issued(ord[r])' \subseteq Issued(ord[r])
      BY <2>1, <3>1 DEF Stays, Issued
    <3> QED BY <2>1, <3>1, <3>2, <3>3 DEF Sound, Settles, Stays
  <2>5. Refunds(r)'
    BY <2>1, <2>2 DEF Sound, Refunds, Stays, RefundPcs, OrderPcs, Unpaid
  <2>6. Recovers(r)'
    <3>1. loop[r].todo \subseteq Orders
      BY DEF TInv, FrameInv, FrameOK, Loops
    <3>2. ASSUME pc[r] \in RecPcs
          PROVE  Abandoned(ord[r])' /\ Issued(ord[r])' \subseteq Issued(ord[r])
      <4>1. ord[r] \in Orders /\ Abandoned(ord[r])
        BY <2>1, <2>2, <3>2 DEF RecPcs, OrderPcs, Sound, Recovers
      <4> QED BY <1>2, <2>1, <4>1 DEF Stays, Abandoned, Live, Issued
    <3> QED BY <1>2, <2>1, <3>1, <3>2 DEF Sound, Recovers, Stays, RecPcs
  <2> QED BY <2>1, <2>3, <2>4, <2>5, <2>6 DEF Sound, Stays
<1>5. OneHolder'
  <2>1. ASSUME NEW x \in Orders, NEW s \in Procs, Holds(s, x)' PROVE Holds(s, x)
    BY <2>1, StaysWorking DEF Holds, Stays
  <2> QED BY <2>1 DEF HoldInv, OneHolder
<1>6. OneSweep'
  BY DEF HoldInv, OneSweep, Sweeping, Stays
<1> QED BY <1>3, <1>4, <1>5, <1>6 DEF HoldInv

RestPcs == {"idle", "afterPaid", "claimSettle", "claimRefund", "closeScan", "closeClaim", "closeNext", "expire"}

\* What goes on to a step that holds nothing needs only its scan to be true.
LEMMA FreeSound ==
  ASSUME NEW p \in Procs, pc'[p] \in RestPcs \cup {"recNext"},
         pc'[p] = "recNext" => loop'[p].then = "recNext",
         loop'[p].then = "recNext" =>
           \A o \in loop'[p].todo : Abandoned(o)' /\ loop'[p].seen[o] = txHash'[o]
  PROVE  Sound(p)' /\ ~Working(p)' /\ \A o \in Orders : ~Holds(p, o)'
<1>1. /\ pc'[p] \notin PayPcs \cup HookPcs \cup SettlePcs \cup RefundPcs \cup RecPcs
      /\ pc'[p] \in SweepPcs \ {"expire"} => pc'[p] = "recNext"
  BY DEF RestPcs, PayPcs, HookPcs, SettlePcs, RefundPcs, RecPcs, SweepPcs
<1>2. Pays(p)' /\ Settles(p)' /\ Refunds(p)' /\ ~Working(p)'
  BY <1>1 DEF Pays, Settles, Refunds, Working, SettlePcs, RefundPcs
<1>3. Recovers(p)'
  BY <1>1 DEF Recovers, RecPcs
<1> QED BY <1>1, <1>2, <1>3 DEF Sound, Holds

\* A scan that is not begun anew.
Narrows(p) ==
  /\ loop'[p].then = "recNext" =>
       loop[p].then = "recNext" /\ loop'[p].todo \subseteq loop[p].todo /\ loop'[p].seen = loop[p].seen
  /\ pc'[p] = "recNext" => loop'[p].then = "recNext"

LEMMA ScanStays ==
  ASSUME TInv, HoldInv, NEW p \in Procs, NEW o, Narrows(p), loop'[p].then = "recNext",
         o \notin loop[p].todo, \A x \in Orders \ {o} : Same(x) /\ (Abandoned(x) => Abandoned(x)'),
         NEW x \in loop'[p].todo
  PROVE  Abandoned(x)' /\ loop'[p].seen[x] = txHash'[x]
<1>1. x \in loop[p].todo /\ x \in Orders \ {o}
  BY DEF Narrows, TInv, FrameInv, FrameOK, Loops
<1>2. Abandoned(x) /\ loop[p].seen[x] = txHash[x]
  BY <1>1 DEF Narrows, HoldInv, Sound, Recovers
<1> QED BY <1>1, <1>2 DEF Narrows, Same

\* Goes on without a write, to a step that holds nothing.
LEMMA Frees ==
  ASSUME TInv, ClaimInv, HoldInv, Drops, NEW p \in Procs,
         \A x \in Orders : Same(x),
         \A r \in Procs \ {p} : Stays(r),
         pc[p] # "persist", Narrows(p),
         pc'[p] \in RestPcs \cup {"recNext"},
         pc'[p] = "expire" => \A q \in Procs : ~Sweeping(q)
  PROVE  HoldInv'
<1>1. ~Working(p)'
  BY DEF Working, RestPcs, SettlePcs
<1>2. \A x \in Orders : Abandoned(x) => Abandoned(x)'
  BY <1>1, MovesAbandon
<1>3. PICK o : o \notin Orders
  BY NoOrderAssumption
<1>4. o \notin loop[p].todo
  BY <1>3 DEF TInv, FrameInv, FrameOK, Loops
<1>5. loop'[p].then = "recNext" =>
        \A x \in loop'[p].todo : Abandoned(x)' /\ loop'[p].seen[x] = txHash'[x]
  BY <1>2, <1>4, ScanStays
<1>6. Sound(p)' /\ \A x \in Orders : ~Holds(p, x)'
  BY <1>5, FreeSound DEF Narrows
<1>7. Sweeping(p)' => Sweeping(p) \/ \A q \in Procs : ~Sweeping(q)
  BY DEF Sweeping, Narrows, RestPcs, SweepPcs
<1> QED BY <1>1, <1>6, <1>7, Moves

\* What a process holds or recovers is not left for it to recover.
LEMMA HolderScans ==
  ASSUME HoldInv, NEW p \in Procs, NEW o \in Orders, Holds(p, o) \/ (pc[p] \in RecPcs /\ ord[p] = o)
  PROVE  o \notin loop[p].todo \/ loop[p].then # "recNext"
<1>1. Sound(p)
  BY DEF HoldInv
<1>2. CASE pc[p] \in RecPcs /\ ord[p] = o
  BY <1>1, <1>2 DEF Sound, Recovers
<1>3. CASE Working(p) /\ ord[p] = o
  <2>1. Live(o)
    BY <1>3 DEF Live, Working
  <2> QED BY <1>1, <2>1 DEF Sound, Recovers, Abandoned
<1>4. CASE pc[p] \in RefundPcs /\ ord[p] = o
  BY <1>1, <1>4 DEF Sound, Refunds, Recovers, Abandoned
<1>5. CASE pc[p] \in HookPcs /\ ord[p] = o
  BY <1>1, <1>5 DEF Sound, Pays, Recovers, Abandoned, Unpaid
<1> QED BY <1>2, <1>3, <1>4, <1>5 DEF Holds

\* Writes the row of the order it holds or recovers, and holds it no longer.
LEMMA FreesWriting ==
  ASSUME TInv, ClaimInv, HoldInv, NEW p \in Procs, NEW o \in Orders,
         ord[p] = o /\ (Holds(p, o) \/ pc[p] \in RecPcs),
         \A x \in Orders \ {o} : Same(x), mint' = mint,
         \A r \in Procs \ {p} : Stays(r),
         Narrows(p), pc'[p] \in (RestPcs \ {"expire"}) \cup {"recNext"},
         Told(o)'
  PROVE  HoldInv'
<1>1. \A r \in Procs \ {p} : ~Concerns(r, o)
  BY Alone
<1>2. Drops
  BY DEF Drops
<1>3. o \notin loop[p].todo \/ loop[p].then # "recNext"
  BY HolderScans
<1>4. ~Working(p)' /\ \A x \in Orders : ~Holds(p, x)'
  BY DEF Working, Holds, RestPcs, SettlePcs, RefundPcs, HookPcs
<1>5. ASSUME \A x \in Orders \ {o} : Abandoned(x) => Abandoned(x)' PROVE Sound(p)'
  <2>1. loop'[p].then = "recNext" =>
          \A x \in loop'[p].todo : Abandoned(x)' /\ loop'[p].seen[x] = txHash'[x]
    BY <1>3, <1>5, ScanStays DEF Narrows
  <2> QED BY <2>1, FreeSound DEF Narrows
<1>6. Sweeping(p)' => Sweeping(p)
  BY DEF Sweeping, Narrows, RestPcs, SweepPcs
<1> QED BY <1>1, <1>2, <1>4, <1>5, <1>6, Writes

\* Where a process stands after each of the ways to go on.
LEMMA GotoGoes ==
  ASSUME TInv, NEW p \in Procs, NEW next, Goto(p, next)
  PROVE  /\ pc'[p] = next /\ ord' = ord /\ num' = num /\ loop' = loop
         /\ \A r \in Procs \ {p} : Stays(r)
BY DEF Goto, frame, Stays, TInv, FrameInv, FrameOK

LEMMA FinishGoes ==
  ASSUME TInv, NEW p \in Procs, Finish(p)
  PROVE  /\ pc'[p] = "idle" /\ Narrows(p)
         /\ \A r \in Procs \ {p} : Stays(r)
<1>1. pc'[p] = "idle" /\ loop'[p] = NoLoop /\ \A r \in Procs \ {p} : Stays(r)
  BY DEF Finish, Stays, TInv, FrameInv, FrameOK
<1> QED BY <1>1 DEF Narrows, NoLoop

LEMMA ReturnGoes ==
  ASSUME TInv, NEW p \in Procs, Return(p)
  PROVE  /\ pc'[p] \in {"idle", "closeNext", "recNext"} /\ Narrows(p)
         /\ \A r \in Procs \ {p} : Stays(r)
<1>1. loop[p].then \in {"idle", "closeNext", "recNext"}
  BY DEF TInv, FrameInv, FrameOK, Loops
<1>2. /\ pc'[p] = loop[p].then
      /\ IF loop[p].then = "idle" THEN loop'[p] = NoLoop ELSE loop'[p] = loop[p]
      /\ \A r \in Procs \ {p} : Stays(r)
  BY DEF Return, Stays, TInv, FrameInv, FrameOK
<1> QED BY <1>1, <1>2 DEF Narrows, NoLoop

LEMMA NotSettledGoes ==
  ASSUME TInv, NEW p \in Procs, NotSettled(p)
  PROVE  /\ pc'[p] \in {"idle", "closeNext", "recNext", "claimRefund"} /\ Narrows(p)
         /\ \A r \in Procs \ {p} : Stays(r)
<1>1. CASE loop[p].then = "closeNext"
  <2>1. pc'[p] = "claimRefund" /\ loop'[p] = loop[p] /\ \A r \in Procs \ {p} : Stays(r)
    BY <1>1 DEF NotSettled, Stays, TInv, FrameInv, FrameOK
  <2> QED BY <1>1, <2>1 DEF Narrows
<1>2. CASE loop[p].then # "closeNext"
  BY <1>2, ReturnGoes DEF NotSettled
<1> QED BY <1>1, <1>2

LEMMA PutRow ==
  ASSUME TInv, NEW o \in Orders, NEW s, Put(o, s), UNCHANGED <<mint, refunds, ledger>>,
         \A x \in Orders \ {o} : txHash'[x] = txHash[x]
  PROVE  status'[o] = s /\ \A x \in Orders \ {o} : Same(x)
BY DEF Put, Same, TInv, RowsOK

-----------------------------------------------------------------------------
(* The steps, one by one. *)

LEMMA NoFaults ==
  ASSUME Undisturbed
  PROVE  /\ ~Fault("decline") /\ ~Fault("db") /\ ~Fault("lostReply") /\ ~Fault("wait")
         /\ ~Fault("rpcTx") /\ ~Fault("slow") /\ ~Fault("leaseLapse")
BY DEF Undisturbed, Fault

LEMMA RowsStay ==
  ASSUME UNCHANGED <<status, txHash, mint, refunds, ledger>>
  PROVE  Drops /\ \A x \in Orders : Same(x)
BY DEF Drops, Same

LEMMA QuietGoes ==
  ASSUME TInv, ClaimInv, HoldInv, NEW p \in Procs, pc[p] # "persist",
         UNCHANGED <<status, txHash, mint, refunds, ledger>>,
         \/ Finish(p) \/ Return(p) \/ NotSettled(p)
         \/ \E next \in RestPcs \ {"expire"} : Goto(p, next)
  PROVE  HoldInv'
<1>1. Drops /\ \A x \in Orders : Same(x)
  BY RowsStay
<1>2. /\ pc'[p] \in (RestPcs \ {"expire"}) \cup {"recNext"} /\ Narrows(p)
      /\ \A r \in Procs \ {p} : Stays(r)
  <2>1. CASE Finish(p)
    BY <2>1, FinishGoes DEF RestPcs
  <2>2. CASE Return(p)
    BY <2>2, ReturnGoes DEF RestPcs
  <2>3. CASE NotSettled(p)
    BY <2>3, NotSettledGoes DEF RestPcs
  <2>4. CASE \E next \in RestPcs \ {"expire"} : Goto(p, next)
    <3>1. PICK next \in RestPcs \ {"expire"} : Goto(p, next)
      BY <2>4
    <3> QED BY <3>1, GotoGoes DEF Narrows, RestPcs
  <2> QED BY <2>1, <2>2, <2>3, <2>4
<1> QED BY <1>1, <1>2, Frees

\* A claim takes a paid order: nobody relies on its row.
LEMMA TakeHolds ==
  ASSUME TInv, ClaimInv, HoldInv, NEW p \in Procs, ord[p] \in Orders, pc[p] \in {"claimSettle", "claimRefund"},
         NEW to, NEW next, <<to, next>> \in {<<"settling", "mint">>, <<"refunding", "refund">>},
         status[ord[p]] = "paid", Take(p, {"paid", "failed"}, to, next)
  PROVE  HoldInv'
<1> PICK o \in Orders : o = ord[p]
  OBVIOUS
<1>1. /\ status' = [status EXCEPT ![o] = to] /\ pc' = [pc EXCEPT ![p] = next]
      /\ num' = [num EXCEPT ![p] = claims[o] + 1]
      /\ UNCHANGED <<ord, loop, txHash, mint, refunds, ledger>>
  BY DEF Take, providerVars
<1>2. Told(o) /\ Sound(p)
  BY DEF HoldInv
<1>3. o \in Orders /\ ord[p] = o /\ status[o] = "paid"
  OBVIOUS
<1>4. status'[o] = to /\ \A x \in Orders \ {o} : Same(x)
  BY <1>1, <1>3 DEF Same, TInv, RowsOK
<1>5. /\ pc'[p] = next /\ ord'[p] = o /\ loop'[p] = loop[p]
      /\ \A r \in Procs \ {p} : Stays(r)
  BY <1>1, <1>3 DEF Stays, TInv, FrameInv, FrameOK
<1>6. \A r \in Procs \ {p} : ~Concerns(r, o)
  BY <1>3, Alone
<1>7. Drops
  BY <1>1 DEF Drops
<1>8. Issued(o) = {} /\ refunds[o] = {} /\ Issued(o)' = Issued(o) /\ refunds'[o] = refunds[o]
  BY <1>1, <1>2, <1>3 DEF Told, Issued
<1>9. Told(o)'
  BY <1>1, <1>2, <1>3, <1>4, <1>8 DEF Told, Unpaid
<1>10. \A x \in Orders \ {o} : ~Holds(p, x)'
  BY <1>5 DEF Holds
<1>11. ASSUME \A x \in Orders \ {o} : Abandoned(x) => Abandoned(x)' PROVE Sound(p)'
  <2>1. pc'[p] \in {"mint", "refund"}
    BY <1>5
  <2>2. Pays(p)' /\ pc'[p] \notin PayPcs
    BY <2>1 DEF Pays, HookPcs, PayPcs
  <2>3. Settles(p)'
    <3>1. CASE next = "mint"
      <4>1. Issued(ord[p])' = {}
        BY <1>1, <1>3, <1>8 DEF Issued
      <4> QED BY <1>4, <1>5, <3>1, <4>1 DEF Settles
    <3>2. CASE next = "refund"
      BY <1>5, <3>2 DEF Settles, Working, SettlePcs
    <3> QED BY <3>1, <3>2
  <2>4. Refunds(p)'
    BY <1>4, <1>5, <1>8, <2>1 DEF Refunds, RefundPcs
  <2>5. Recovers(p)'
    <3>1. loop[p].then = "recNext" => o \notin loop[p].todo
      BY <1>2, <1>3 DEF Sound, Recovers, Abandoned
    <3>2. Narrows(p)
      BY <1>5, <2>1 DEF Narrows
    <3>3. loop'[p].then = "recNext" =>
            \A x \in loop'[p].todo : Abandoned(x)' /\ loop'[p].seen[x] = txHash'[x]
      BY <1>4, <1>5, <1>11, <3>1, <3>2, ScanStays
    <3> QED BY <2>1, <3>3 DEF Recovers, RecPcs, SweepPcs
  <2> QED BY <2>2, <2>3, <2>4, <2>5 DEF Sound
<1>12. Sweeping(p)' => Sweeping(p)
  BY <1>5 DEF Sweeping, SweepPcs
<1> QED BY <1>3, <1>4, <1>5, <1>6, <1>7, <1>9, <1>10, <1>11, <1>12, Writes

LEMMA ClaimsHold ==
  ASSUME TInv, ClaimInv, HoldInv, NEW p \in Procs, ClaimSettle(p) \/ ClaimRefund(p)
  PROVE  HoldInv'
<1>1. ord[p] \in Orders /\ pc[p] \in {"claimSettle", "claimRefund"}
  BY DEF ClaimSettle, ClaimRefund, At, TInv, FrameInv, OrderAtHand, OrderPcs, ClaimPcs
<1>2. status[ord[p]] # "failed"
  BY <1>1 DEF HoldInv, Told
<1>3. CASE Take(p, {"paid"}, "settling", "mint")
  <2>1. status[ord[p]] = "paid" /\ Take(p, {"paid", "failed"}, "settling", "mint")
    BY <1>3 DEF Take
  <2> QED BY <1>1, <1>3, <2>1, TakeHolds
<1>4. CASE Take(p, Claimable, "refunding", "refund")
  <2>1. status[ord[p]] = "paid" /\ Take(p, {"paid", "failed"}, "refunding", "refund")
    BY <1>2, <1>4 DEF Take, Claimable
  <2> QED BY <1>1, <1>4, <2>1, TakeHolds
<1>5. CASE (NotSettled(p) \/ Return(p)) /\ UNCHANGED <<rowVars, mint, providerVars, histVars>>
  BY <1>1, <1>5, QuietGoes DEF rowVars, providerVars
<1> QED BY <1>3, <1>4, <1>5 DEF ClaimSettle, ClaimRefund

LEMMA HolderRecovers ==
  ASSUME TInv, HoldInv, NEW p \in Procs, NEW o \in Orders, Holds(p, o), NEW next, Goto(p, next),
         next \notin SweepPcs,
         \A x \in Orders \ {o} : Same(x) /\ (Abandoned(x) => Abandoned(x)')
  PROVE  Recovers(p)'
<1>1. pc'[p] = next /\ loop' = loop
  BY GotoGoes
<1>2. Narrows(p)
  BY <1>1 DEF Narrows, SweepPcs
<1>3. loop'[p].then = "recNext" =>
        \A x \in loop'[p].todo : Abandoned(x)' /\ loop'[p].seen[x] = txHash'[x]
  BY <1>1, <1>2, HolderScans, ScanStays
<1> QED BY <1>1, <1>3 DEF Recovers, RecPcs, SweepPcs

LEMMA MintHolds ==
  ASSUME Undisturbed, TInv, ClaimInv, OutcomeInv, HoldInv, NEW p \in Procs, Mint(p)
  PROVE  HoldInv'
<1>1. pc[p] = "mint" /\ ord[p] \in Orders /\ num[p] \in Claims
  BY NumIsClaim DEF Mint, At, OwnerPcs, SettlePcs
<1> PICK o \in Orders : o = ord[p]
  BY <1>1
<1>2. Told(o) /\ Sound(p)
  BY DEF HoldInv
<1>3. Working(p) /\ Holds(p, o) /\ status[o] = "settling" /\ Issued(o) = {} /\ refunds[o] = {}
  BY <1>1, <1>2 DEF Working, Hung, SettlePcs, Holds, Sound, Settles, Told
<1>4. CASE Goto(p, "writeUnsettled") /\ UNCHANGED mint
  <2>1. Drops /\ \A x \in Orders : Same(x)
    BY <1>4, RowsStay DEF Mint, rowVars, providerVars
  <2>2. /\ pc'[p] = "writeUnsettled" /\ ord' = ord /\ num' = num /\ loop' = loop
        /\ \A r \in Procs \ {p} : Stays(r)
    BY <1>4, GotoGoes
  <2>3. \A x \in Orders : Abandoned(x) => Abandoned(x)'
    BY <1>3, <2>1, <2>2, MovesAbandon
  <2>4. Recovers(p)'
    BY <1>3, <1>4, <2>1, <2>3, HolderRecovers DEF SweepPcs
  <2>5. Issued(ord[p])' = {}
    BY <1>3, <2>1, <2>2 DEF Same, Issued
  <2>6. Sound(p)'
    BY <1>3, <2>1, <2>2, <2>4, <2>5 DEF Sound, Pays, Settles, Refunds, PayPcs, HookPcs, RefundPcs, Same
  <2> QED BY <1>1, <1>3, <2>1, <2>2, <2>6, Moves DEF Holds, Sweeping, SweepPcs
<1>5. CASE mint' = [mint EXCEPT ![ord[p]][num[p]] = "mempool"] /\ Goto(p, "persist")
  <2>1. UNCHANGED <<status, txHash, refunds, ledger>>
    BY DEF Mint, rowVars, providerVars
  <2>2. /\ pc'[p] = "persist" /\ ord' = ord /\ num' = num /\ loop' = loop
        /\ \A r \in Procs \ {p} : Stays(r)
    BY <1>5, GotoGoes
  <2>3. /\ \A n \in Claims : mint'[o][n] = IF n = num[p] THEN "mempool" ELSE mint[o][n]
        /\ \A x \in Orders \ {o} : mint'[x] = mint[x]
    BY <1>1, <1>5 DEF TInv, MintOK
  <2>4. mint[o][num[p]] = "none"
    BY <1>1 DEF OutcomeInv, Grounds, Grounded
  <2>5. Drops
    BY <2>3, <2>4 DEF Drops
  <2>6. \A x \in Orders \ {o} : Same(x)
    BY <2>1, <2>3 DEF Same
  <2>7. Issued(o)' \subseteq {num[p]}
    BY <1>3, <2>3 DEF Issued
  <2>8. Told(o)'
    BY <1>2, <1>3, <2>1, <2>2, <2>7 DEF Told, Unpaid
  <2>9. ASSUME \A x \in Orders \ {o} : Abandoned(x) => Abandoned(x)' PROVE Sound(p)'
    <3>1. Recovers(p)'
      BY <1>3, <1>5, <2>6, <2>9, HolderRecovers DEF SweepPcs
    <3>2. Issued(ord[p])' \subseteq {num'[p]}
      BY <2>2, <2>7 DEF Issued
    <3> QED BY <1>3, <2>1, <2>2, <3>1, <3>2 DEF Sound, Pays, Settles, Refunds, PayPcs, HookPcs, RefundPcs
  <2>10. \A r \in Procs \ {p} : ~Concerns(r, o)
    BY <1>3, Alone
  <2>11. \A x \in Orders \ {o} : ~Holds(p, x)'
    BY <2>2 DEF Holds
  <2>12. Sweeping(p)' => Sweeping(p)
    BY <2>2 DEF Sweeping, SweepPcs
  <2> QED BY <1>1, <2>2, <2>5, <2>6, <2>8, <2>9, <2>10, <2>11, <2>12, Writes
<1> QED BY <1>4, <1>5, NoFaults DEF Mint

LEMMA PersistHolds ==
  ASSUME Undisturbed, TInv, ClaimInv, HoldInv, NEW p \in Procs, Persist(p)
  PROVE  HoldInv'
<1>1. pc[p] = "persist" /\ ord[p] \in Orders /\ num[p] \in Claims
  BY NumIsClaim DEF Persist, At, OwnerPcs, SettlePcs
<1> PICK o \in Orders : o = ord[p]
  BY <1>1
<1>2. Told(o) /\ Sound(p)
  BY DEF HoldInv
<1>3. Working(p) /\ Holds(p, o) /\ status[o] = "settling" /\ Issued(o) \subseteq {num[p]}
  BY <1>1, <1>2 DEF Working, Hung, SettlePcs, Holds, Sound, Settles
<1>4. /\ txHash' = [txHash EXCEPT ![ord[p]] = num[p]] /\ Goto(p, "wait")
      /\ UNCHANGED <<status, mint, refunds, ledger>>
  BY NoFaults DEF Persist, providerVars
<1>5. /\ pc'[p] = "wait" /\ ord' = ord /\ num' = num /\ loop' = loop
      /\ \A r \in Procs \ {p} : Stays(r)
  BY <1>4, GotoGoes
<1>6. txHash'[o] = num[p] /\ \A x \in Orders \ {o} : Same(x)
  BY <1>4 DEF Same, TInv, RowsOK
<1>7. Drops
  BY <1>4 DEF Drops
<1>8. Told(o)'
  <2>1. Issued(o)' = Issued(o)
    BY <1>4 DEF Issued
  <2> QED BY <1>2, <1>3, <1>4, <1>6, <2>1 DEF Told, Unpaid
<1>9. ASSUME \A x \in Orders \ {o} : Abandoned(x) => Abandoned(x)' PROVE Sound(p)'
  <2>1. Recovers(p)'
    BY <1>3, <1>4, <1>6, <1>9, HolderRecovers DEF SweepPcs
  <2> QED BY <1>3, <1>4, <1>5, <1>6, <2>1 DEF Sound, Pays, Settles, Refunds, PayPcs, HookPcs, RefundPcs
<1>10. \A r \in Procs \ {p} : ~Concerns(r, o)
  BY <1>3, Alone
<1>11. \A x \in Orders \ {o} : ~Holds(p, x)'
  BY <1>5 DEF Holds
<1>12. Sweeping(p)' => Sweeping(p)
  BY <1>5 DEF Sweeping, SweepPcs
<1> QED BY <1>1, <1>5, <1>6, <1>7, <1>8, <1>9, <1>10, <1>11, <1>12, Writes

LEMMA WaitHolds ==
  ASSUME Undisturbed, TInv, ClaimInv, HoldInv, NEW p \in Procs, Wait(p)
  PROVE  HoldInv'
<1>1. pc[p] = "wait" /\ ord[p] \in Orders /\ num[p] \in Claims
  BY NumIsClaim DEF Wait, At, OwnerPcs, SettlePcs
<1> PICK o \in Orders : o = ord[p]
  BY <1>1
<1>2. Told(o) /\ Sound(p)
  BY DEF HoldInv
<1>3. PICK next \in {"writeSettled", "writeUnsettled"} :
         Goto(p, next) /\ mint[o][num[p]] = (IF next = "writeSettled" THEN "mined" ELSE "reverted")
  BY NoFaults DEF Wait
<1>4. Working(p) /\ Holds(p, o) /\ status[o] = "settling" /\ txHash[o] = num[p]
  BY <1>1, <1>2, <1>3 DEF Working, Hung, SettlePcs, Holds, Sound, Settles
<1>5. next = "writeUnsettled" => Issued(o) = {}
  <2> SUFFICES ASSUME next = "writeUnsettled", NEW n \in Issued(o) PROVE FALSE
    OBVIOUS
  <2>1. n # txHash[o]
    BY <1>3, <1>4 DEF Issued
  <2>2. PICK q \in Procs : pc[q] = "persist" /\ ord[q] = o
    BY <1>2, <1>4, <2>1 DEF Told
  <2>3. Holds(q, o)
    BY <2>2 DEF Holds, Working, Hung, SettlePcs
  <2> QED BY <1>1, <1>4, <2>2, <2>3 DEF HoldInv, OneHolder
<1>6. Drops /\ \A x \in Orders : Same(x)
  BY RowsStay DEF Wait, rowVars, providerVars
<1>7. /\ pc'[p] = next /\ ord' = ord /\ num' = num /\ loop' = loop
      /\ \A r \in Procs \ {p} : Stays(r)
  BY <1>3, GotoGoes
<1>8. \A x \in Orders : Abandoned(x) => Abandoned(x)'
  BY <1>4, <1>6, <1>7, MovesAbandon
<1>9. Recovers(p)'
  BY <1>3, <1>4, <1>6, <1>8, HolderRecovers DEF SweepPcs
<1>10. next = "writeUnsettled" => Issued(ord[p])' = {}
  BY <1>5, <1>6, <1>7 DEF Same, Issued
<1>11. Sound(p)'
  BY <1>4, <1>6, <1>7, <1>9, <1>10 DEF Sound, Pays, Settles, Refunds, PayPcs, HookPcs, RefundPcs, Same
<1> QED BY <1>1, <1>4, <1>6, <1>7, <1>11, Moves DEF Holds, Sweeping, SweepPcs

LEMMA SettleHolds ==
  ASSUME Undisturbed, TInv, ClaimInv, OutcomeInv, HoldInv, NEW p \in Procs, Settle(p)
  PROVE  HoldInv'
<1>1. CASE WriteSettled(p) \/ WriteUnsettled(p)
  <2>1. ord[p] \in Orders /\ pc[p] \in {"writeSettled", "writeUnsettled"}
    BY <1>1, NumIsClaim DEF WriteSettled, WriteUnsettled, At, OwnerPcs, SettlePcs
  <2> PICK o \in Orders : o = ord[p]
    BY <2>1
  <2>2. Told(o) /\ Sound(p)
    BY DEF HoldInv
  <2>3. Holds(p, o) /\ status[o] = "settling" /\ (pc[p] = "writeUnsettled" => Issued(o) = {})
    BY <2>1, <2>2 DEF Working, Hung, SettlePcs, Holds, Sound, Settles
  <2>4. /\ mint' = mint /\ refunds' = refunds /\ ledger' = ledger
        /\ \A x \in Orders \ {o} : txHash'[x] = txHash[x]
    BY <1>1, NoFaults DEF WriteSettled, WriteUnsettled, providerVars, TInv, RowsOK
  <2>5. /\ pc'[p] \in (RestPcs \ {"expire"}) \cup {"recNext"} /\ Narrows(p)
        /\ \A r \in Procs \ {p} : Stays(r)
    BY <1>1, NoFaults, ReturnGoes, NotSettledGoes DEF WriteSettled, WriteUnsettled, RestPcs
  <2>6. PICK s \in {"settled", "paid"} : Put(o, s) /\ (s = "paid" => pc[p] = "writeUnsettled")
    BY <1>1, NoFaults DEF WriteSettled, WriteUnsettled, At
  <2>7. status'[o] = s /\ \A x \in Orders \ {o} : Same(x)
    BY <2>4, <2>6, PutRow
  <2>8. Told(o)'
    <3>1. Issued(o)' = Issued(o) /\ refunds'[o] = refunds[o]
      BY <2>4 DEF Issued
    <3> QED BY <2>2, <2>3, <2>4, <2>6, <2>7, <3>1 DEF Told, Unpaid
  <2> QED BY <2>3, <2>4, <2>5, <2>7, <2>8, FreesWriting DEF Holds
<1> QED BY <1>1, ClaimsHold, MintHolds, PersistHolds, WaitHolds DEF Settle

LEMMA RefundHolds ==
  ASSUME Undisturbed, TInv, ClaimInv, HoldInv, NEW p \in Procs, RefundOrder(p)
  PROVE  HoldInv'
<1>1. CASE ClaimRefund(p)
  BY <1>1, ClaimsHold
<1>2. ASSUME ~ClaimRefund(p)
      PROVE  /\ ord[p] \in Orders /\ pc[p] \in RefundPcs
             /\ pc[p] # "refund" => WriteRefunded(p) \/ WriteUnrefunded(p)
             /\ pc[p] = "refund" => Refund(p)
  <2>1. pc[p] \in RefundPcs
    BY <1>2 DEF RefundOrder, Refund, WriteRefunded, WriteUnrefunded, At, RefundPcs
  <2>2. ord[p] \in Orders
    BY <2>1, NumIsClaim DEF OwnerPcs
  <2> QED BY <1>2, <2>1, <2>2 DEF RefundOrder, Refund, WriteRefunded, WriteUnrefunded, At
<1>3. CASE ~ClaimRefund(p) /\ pc[p] = "refund"
  <2> PICK o \in Orders : o = ord[p]
    BY <1>2, <1>3
  <2>1. Told(o) /\ Sound(p)
    BY DEF HoldInv
  <2>2. Holds(p, o) /\ status[o] = "refunding" /\ refunds[o] = {}
    BY <1>3, <2>1 DEF Holds, RefundPcs, Sound, Refunds
  <2>3. PICK next \in {"writeRefunded", "writeUnrefunded"} :
          /\ Goto(p, next) /\ UNCHANGED <<status, txHash, mint, ledger>>
          /\ next = "writeRefunded" => refunds' = [refunds EXCEPT ![o] = @ \cup {num[p]}]
          /\ next = "writeUnrefunded" => refunds' = refunds
    BY <1>2, <1>3, NoFaults DEF Refund, rowVars
  <2>4. /\ pc'[p] = next /\ ord' = ord /\ num' = num /\ loop' = loop
        /\ \A r \in Procs \ {p} : Stays(r)
    BY <2>3, GotoGoes
  <2>5. \A x \in Orders \ {o} : Same(x)
    BY <2>3 DEF Same, TInv, ProviderOK
  <2>6. /\ refunds'[o] = IF next = "writeRefunded" THEN {num[p]} ELSE {}
        /\ Issued(o)' = Issued(o)
    BY <2>2, <2>3 DEF Issued, TInv, ProviderOK
  <2>7. Told(o)'
    BY <2>1, <2>2, <2>3, <2>6 DEF Told, Unpaid
  <2>8. ASSUME \A x \in Orders \ {o} : Abandoned(x) => Abandoned(x)' PROVE Sound(p)'
    <3>1. Recovers(p)'
      BY <2>2, <2>3, <2>5, <2>8, HolderRecovers DEF SweepPcs
    <3> QED BY <2>2, <2>3, <2>4, <2>6, <3>1
        DEF Sound, Pays, Settles, Refunds, PayPcs, HookPcs, RefundPcs, SettlePcs, Working
  <2>9. \A r \in Procs \ {p} : ~Concerns(r, o)
    BY <2>2, Alone
  <2>10. \A x \in Orders \ {o} : ~Holds(p, x)'
    BY <2>4 DEF Holds
  <2>11. Sweeping(p)' => Sweeping(p)
    BY <2>4 DEF Sweeping, SweepPcs
  <2>12. Drops
    BY <2>3 DEF Drops
  <2> QED BY <1>3, <2>4, <2>5, <2>7, <2>8, <2>9, <2>10, <2>11, <2>12, Writes
<1>4. CASE ~ClaimRefund(p) /\ pc[p] # "refund"
  <2> PICK o \in Orders : o = ord[p]
    BY <1>2, <1>4
  <2>1. Told(o) /\ Sound(p) /\ pc[p] \in RefundPcs
    BY <1>2, <1>4 DEF HoldInv
  <2>2. Holds(p, o) /\ status[o] = "refunding" /\ (pc[p] = "writeUnrefunded" => refunds[o] = {})
    BY <2>1 DEF Holds, Sound, Refunds
  <2>3. PICK s \in {"refunded", "paid"} : Put(o, s) /\ (s = "paid" => pc[p] = "writeUnrefunded")
    BY <1>2, <1>4 DEF WriteRefunded, WriteUnrefunded, At
  <2>4. Return(p) /\ UNCHANGED <<txHash, mint, refunds, ledger>>
    BY <1>2, <1>4 DEF WriteRefunded, WriteUnrefunded, providerVars
  <2>5. /\ pc'[p] \in (RestPcs \ {"expire"}) \cup {"recNext"} /\ Narrows(p)
        /\ \A r \in Procs \ {p} : Stays(r)
    BY <2>4, ReturnGoes DEF RestPcs
  <2>6. status'[o] = s /\ \A x \in Orders \ {o} : Same(x)
    BY <2>3, <2>4, PutRow
  <2>7. Told(o)'
    <3>1. Issued(o)' = Issued(o) /\ refunds'[o] = refunds[o]
      BY <2>4 DEF Issued
    <3> QED BY <2>1, <2>2, <2>3, <2>4, <2>6, <3>1 DEF Told, Unpaid
  <2> QED BY <2>2, <2>4, <2>5, <2>6, <2>7, FreesWriting DEF Holds
<1> QED BY <1>1, <1>3, <1>4

LEMMA HandleHolds ==
  ASSUME Undisturbed, TInv, ClaimInv, CapturesOnly, HoldInv, NEW p \in Procs, Handle(p)
  PROVE  HoldInv'
<1>s. Sound(p)
  BY DEF HoldInv
<1>1. AfterPaid(p) \/ HookRead(p) \/ WritePaid(p)
  BY <1>s DEF Handle, Capture, WriteDeclined, CryptoDup, WriteCrypto, WriteHookRefunded, At,
     CapturesOnly, Sound, PayPcs
<1>2. CASE AfterPaid(p)
  <2>1. UNCHANGED <<status, txHash, mint, refunds, ledger>>
    BY <1>2 DEF AfterPaid, rowVars, providerVars
  <2>2. Finish(p) \/ \E next \in RestPcs \ {"expire"} : Goto(p, next)
    BY <1>2 DEF AfterPaid, RestPcs
  <2> QED BY <1>2, <2>1, <2>2, QuietGoes DEF AfterPaid, At
<1>3. CASE HookRead(p)
  <2>1. pc[p] = "hookCaptured" /\ ord[p] \in Orders
    BY <1>3 DEF HookRead, At, CapturesOnly, TInv, FrameInv, OrderAtHand, OrderPcs
  <2>2. UNCHANGED <<status, txHash, mint, refunds, ledger>>
    BY <1>3 DEF HookRead, rowVars, providerVars
  <2>3. CASE Finish(p) \/ \E next \in RestPcs \ {"expire"} : Goto(p, next)
    BY <2>1, <2>2, <2>3, QuietGoes
  <2>4. CASE Goto(p, "writePaid")
    <3>1. Drops /\ \A x \in Orders : Same(x)
      BY <2>2, RowsStay
    <3>2. /\ pc'[p] = "writePaid" /\ ord' = ord /\ num' = num /\ loop' = loop
          /\ \A r \in Procs \ {p} : Stays(r)
      BY <2>4, GotoGoes
    <3>3. ~Working(p)'
      BY <3>2 DEF Working, SettlePcs
    <3>4. \A x \in Orders : Abandoned(x) => Abandoned(x)'
      BY <3>1, <3>2, <3>3, MovesAbandon
    <3>5. Holds(p, ord[p])
      BY <2>1 DEF Holds, HookPcs
    <3>6. Recovers(p)'
      BY <2>1, <2>4, <3>1, <3>4, <3>5, HolderRecovers DEF SweepPcs
    <3>7. Pays(p)'
      BY <1>s, <2>1, <3>1, <3>2 DEF Sound, Pays, HookPcs, Same, Unpaid
    <3>8. Sound(p)'
      BY <3>2, <3>3, <3>6, <3>7 DEF Sound, Settles, Refunds, PayPcs, RefundPcs
    <3>9. \A x \in Orders : Holds(p, x)' => Holds(p, x)
      BY <3>2, <3>5 DEF Holds
    <3> QED BY <2>1, <3>1, <3>2, <3>3, <3>8, <3>9, Moves DEF Sweeping, SweepPcs
  <2> QED BY <1>3, <2>1, <2>3, <2>4 DEF HookRead, At, RestPcs
<1>4. CASE WritePaid(p)
  <2>1. pc[p] = "writePaid" /\ ord[p] \in Orders
    BY <1>4 DEF WritePaid, At, TInv, FrameInv, OrderAtHand, OrderPcs
  <2> PICK o \in Orders : o = ord[p]
    BY <2>1
  <2>2. Holds(p, o) /\ Unpaid(o) /\ <<o, "captured">> \in ledger /\ Told(o)
    BY <1>s, <2>1 DEF Holds, Sound, Pays, HookPcs, HoldInv
  <2>3. Put(o, "paid") /\ Goto(p, "afterPaid") /\ UNCHANGED <<txHash, mint, refunds, ledger>>
    BY <1>4 DEF WritePaid, providerVars
  <2>4. /\ pc'[p] = "afterPaid" /\ ord' = ord /\ num' = num /\ loop' = loop
        /\ \A r \in Procs \ {p} : Stays(r)
    BY <2>3, GotoGoes
  <2>5. status'[o] = "paid" /\ \A x \in Orders \ {o} : Same(x)
    BY <2>3, PutRow
  <2>6. Told(o)'
    <3>1. Issued(o)' = Issued(o) /\ refunds'[o] = refunds[o]
      BY <2>3 DEF Issued
    <3> QED BY <2>2, <2>3, <2>5, <3>1 DEF Told, Unpaid
  <2> QED BY <2>2, <2>3, <2>4, <2>5, <2>6, FreesWriting DEF Holds, Narrows, RestPcs
<1> QED BY <1>1, <1>2, <1>3, <1>4

LEMMA CloseHolds ==
  ASSUME TInv, ClaimInv, HoldInv, NEW p \in Procs, Close(p)
  PROVE  HoldInv'
<1>1. UNCHANGED <<status, txHash, mint, refunds, ledger>> /\ pc[p] # "persist"
  BY DEF Close, CloseScan, CloseClaim, CloseNext, rowVars, providerVars, At
<1>2. CASE Finish(p) \/ \E next \in RestPcs \ {"expire"} : Goto(p, next)
  BY <1>1, <1>2, QuietGoes
<1>3. Drops /\ \A x \in Orders : Same(x)
  BY <1>1, RowsStay
<1>4. CASE CloseScan(p) /\ ~Finish(p)
  <2> DEFINE closes == Escrowed
             met == IF loop[p].closed THEN loop[p].met ELSE Met
  <2>1. /\ pc' = [pc EXCEPT ![p] = IF loop[p].closed THEN "closeNext" ELSE "closeClaim"]
        /\ loop' = [loop EXCEPT ![p] = [loop[p] EXCEPT !.todo = closes, !.then = "closeNext", !.met = met]]
        /\ UNCHANGED <<ord, num>>
    BY <1>4 DEF CloseScan
  <2> HIDE DEF closes, met
  <2>2. /\ pc'[p] \in {"closeNext", "closeClaim"} /\ loop'[p].then = "closeNext"
        /\ \A r \in Procs \ {p} : Stays(r)
    BY <2>1 DEF Stays, TInv, FrameInv, FrameOK, Loops
  <2> QED BY <1>1, <1>3, <2>2, Frees DEF Narrows, RestPcs
<1>5. CASE CloseNext(p) /\ ~Finish(p)
  <2>1. PICK o \in loop[p].todo :
          /\ pc' = [pc EXCEPT ![p] = IF loop[p].met THEN "claimSettle" ELSE "claimRefund"]
          /\ ord' = [ord EXCEPT ![p] = o]
          /\ loop' = [loop EXCEPT ![p].todo = @ \ {o}]
          /\ UNCHANGED num
    BY <1>5 DEF CloseNext
  <2>2. /\ pc'[p] \in {"claimSettle", "claimRefund"}
        /\ loop'[p].then = loop[p].then /\ loop'[p].seen = loop[p].seen /\ loop'[p].todo \subseteq loop[p].todo
        /\ \A r \in Procs \ {p} : Stays(r)
    BY <2>1 DEF Stays, TInv, FrameInv, FrameOK, Loops
  <2> QED BY <1>1, <1>3, <2>2, Frees DEF Narrows, RestPcs
<1>6. CASE CloseClaim(p)
  BY <1>2, <1>6 DEF CloseClaim, RestPcs
<1> QED BY <1>2, <1>4, <1>5, <1>6 DEF Close

\* The sweeper goes on with the order it recovers; its mint cannot change sides.
LEMMA RecoverGoes ==
  ASSUME TInv, ClaimInv, HoldInv, NEW p \in Procs, pc[p] \in {"recReceipt", "recMempool"},
         NEW next \in RecPcs, Goto(p, next), UNCHANGED <<status, txHash, mint, refunds, ledger>>,
         next = "recRequeue" => mint[ord[p]][num[p]] \in {"reverted", "dropped"}
  PROVE  HoldInv'
<1>1. ord[p] \in Orders
  BY DEF TInv, FrameInv, OrderAtHand, OrderPcs
<1> PICK o \in Orders : o = ord[p]
  BY <1>1
<1>2. Told(o) /\ Sound(p)
  BY DEF HoldInv
<1>3. /\ Abandoned(o) /\ num[p] = txHash[o] /\ o \notin loop[p].todo /\ loop[p].then = "recNext"
  BY <1>2 DEF Sound, Recovers, RecPcs, SweepPcs
<1>4. next = "recRequeue" => Issued(o) = {}
  BY <1>2, <1>3 DEF Told, Issued, Abandoned, Live, Hung, SettlePcs
<1>5. Drops /\ \A x \in Orders : Same(x)
  BY RowsStay
<1>6. /\ pc'[p] = next /\ ord' = ord /\ num' = num /\ loop' = loop
      /\ \A r \in Procs \ {p} : Stays(r)
  BY GotoGoes
<1>7. next \notin SettlePcs \cup RefundPcs \cup HookPcs \cup PayPcs
  BY DEF RecPcs, SettlePcs, RefundPcs, HookPcs, PayPcs
<1>8. \A x \in Orders : Abandoned(x) => Abandoned(x)'
  BY <1>5, <1>6, <1>7, MovesAbandon DEF Working
<1>9. Recovers(p)'
  <2>1. \A x \in loop[p].todo : Abandoned(x)' /\ loop[p].seen[x] = txHash'[x]
    <3>1. loop[p].todo \subseteq Orders
      BY DEF TInv, FrameInv, FrameOK, Loops
    <3> QED BY <1>2, <1>3, <1>5, <1>8, <3>1 DEF Sound, Recovers, Same
  <2>2. Abandoned(ord[p])' /\ (next = "recRequeue" => Issued(ord[p])' = {})
    BY <1>3, <1>4, <1>5, <1>6, <1>8 DEF Abandoned, Live, Issued, Same
  <2> QED BY <1>3, <1>5, <1>6, <2>1, <2>2 DEF Recovers, Same
<1>10. Sound(p)'
  BY <1>6, <1>7, <1>9 DEF Sound, Pays, Settles, Refunds, Working, SettlePcs, RefundPcs
<1> QED BY <1>3, <1>5, <1>6, <1>7, <1>10, Moves DEF Holds, Working, Sweeping

LEMMA ScanHolds ==
  ASSUME Undisturbed, TInv, ClaimInv, HoldInv, NEW p \in Procs, RecoverScan(p)
  PROVE  HoldInv'
<1> DEFINE todo == {o \in Orders : Stale(o)}
           seen == [o \in Orders |-> IF Stale(o) THEN txHash[o] ELSE 0]
<1>1. /\ pc[p] = "expire"
      /\ pc' = [pc EXCEPT ![p] = "recNext"]
      /\ loop' = [loop EXCEPT ![p] = [loop[p] EXCEPT !.todo = todo, !.then = "recNext", !.seen = seen]]
      /\ UNCHANGED <<ord, num, status, txHash, mint, refunds, ledger>>
  BY DEF RecoverScan, At, rowVars, providerVars
<1>2. \A o \in todo : o \in Orders /\ Abandoned(o) /\ seen[o] = txHash[o]
  BY NoFaults DEF Stale, Abandoned
<1> HIDE DEF todo, seen
<1>3. /\ pc'[p] = "recNext" /\ loop'[p].then = "recNext" /\ loop'[p].todo = todo /\ loop'[p].seen = seen
      /\ \A r \in Procs \ {p} : Stays(r)
  BY <1>1 DEF Stays, TInv, FrameInv, FrameOK, Loops
<1>4. Drops /\ \A x \in Orders : Same(x)
  BY <1>1, RowsStay
<1>5. ~Working(p)'
  BY <1>3 DEF Working, SettlePcs
<1>6. \A x \in Orders : Abandoned(x) => Abandoned(x)'
  BY <1>3, <1>4, <1>5, MovesAbandon
<1>7. \A o \in loop'[p].todo : Abandoned(o)' /\ loop'[p].seen[o] = txHash'[o]
  BY <1>1, <1>2, <1>3, <1>6
<1>8. Sound(p)' /\ \A x \in Orders : ~Holds(p, x)'
  BY <1>3, <1>7, FreeSound
<1> QED BY <1>1, <1>3, <1>4, <1>5, <1>8, Moves DEF Sweeping, SweepPcs

LEMMA RecoverNextHolds ==
  ASSUME TInv, ClaimInv, HoldInv, NEW p \in Procs, RecoverNext(p)
  PROVE  HoldInv'
<1>1. pc[p] = "recNext" /\ UNCHANGED <<status, txHash, mint, refunds, ledger>>
  BY DEF RecoverNext, At, rowVars, providerVars
<1>2. CASE Finish(p)
  BY <1>1, <1>2, QuietGoes
<1>3. CASE ~Finish(p)
  <2>1. PICK o \in loop[p].todo :
          /\ pc' = [pc EXCEPT ![p] = IF loop[p].seen[o] = 0 THEN "recRequeue" ELSE "recReceipt"]
          /\ ord' = [ord EXCEPT ![p] = o]
          /\ num' = [num EXCEPT ![p] = loop[p].seen[o]]
          /\ loop' = [loop EXCEPT ![p].todo = @ \ {o}]
    BY <1>3 DEF RecoverNext
  <2>2. Sound(p) /\ loop[p].todo \subseteq Orders
    BY DEF HoldInv, TInv, FrameInv, FrameOK, Loops
  <2>3. /\ loop[p].then = "recNext" /\ Abandoned(o) /\ loop[p].seen[o] = txHash[o] /\ Told(o)
        /\ \A x \in loop[p].todo : Abandoned(x) /\ loop[p].seen[x] = txHash[x]
    BY <1>1, <2>2 DEF Sound, Recovers, SweepPcs, HoldInv
  <2>4. /\ pc'[p] = (IF loop[p].seen[o] = 0 THEN "recRequeue" ELSE "recReceipt")
        /\ ord'[p] = o /\ num'[p] = loop[p].seen[o] /\ loop'[p].then = loop[p].then
        /\ loop'[p].todo = loop[p].todo \ {o} /\ loop'[p].seen = loop[p].seen
        /\ \A r \in Procs \ {p} : Stays(r)
    BY <2>1 DEF Stays, TInv, FrameInv, FrameOK, Loops
  <2>5. Drops /\ \A x \in Orders : Same(x)
    BY <1>1, RowsStay
  <2>6. pc'[p] \notin SettlePcs \cup RefundPcs \cup HookPcs \cup PayPcs
    BY <2>4 DEF SettlePcs, RefundPcs, HookPcs, PayPcs
  <2>7. \A x \in Orders : Abandoned(x) => Abandoned(x)'
    BY <2>4, <2>5, <2>6, MovesAbandon DEF Working
  <2>8. loop[p].seen[o] = 0 => Issued(o) = {}
    <3> SUFFICES ASSUME txHash[o] = 0, NEW n \in Issued(o) PROVE FALSE
      BY <2>3
    <3>1. n # txHash[o]
      BY DEF Issued, Claims
    <3>2. PICK q \in Procs : pc[q] = "persist" /\ ord[q] = o
      BY <2>3, <3>1 DEF Told, Abandoned
    <3> QED BY <2>3, <3>2 DEF Abandoned, Live, Hung, SettlePcs
  <2>9. Recovers(p)'
    <3>1. \A x \in loop'[p].todo : Abandoned(x)' /\ loop'[p].seen[x] = txHash'[x]
      BY <1>1, <2>2, <2>3, <2>4, <2>7
    <3>2. Abandoned(ord[p])'
      BY <2>2, <2>3, <2>4, <2>7 DEF Abandoned, Live
    <3>3. pc'[p] = "recRequeue" => Issued(ord[p])' = {}
      BY <1>1, <2>4, <2>8 DEF Issued
    <3> QED BY <1>1, <2>3, <2>4, <3>1, <3>2, <3>3 DEF Recovers
  <2>10. Sound(p)'
    BY <2>6, <2>9 DEF Sound, Pays, Settles, Refunds, Working, SettlePcs, RefundPcs
  <2> QED BY <1>1, <2>4, <2>5, <2>6, <2>10, Moves DEF Holds, Working, Sweeping, SweepPcs
<1> QED BY <1>2, <1>3

LEMMA SweepHolds ==
  ASSUME Undisturbed, TInv, ClaimInv, HoldInv, NEW p \in Procs, Sweep(p)
  PROVE  HoldInv'
<1>1. CASE RecoverReceipt(p) \/ RecoverMempool(p)
  <2>1. pc[p] \in {"recReceipt", "recMempool"} /\ UNCHANGED <<status, txHash, mint, refunds, ledger>>
    BY <1>1 DEF RecoverReceipt, RecoverMempool, At, rowVars, providerVars
  <2>2. CASE Return(p)
    BY <2>1, <2>2, QuietGoes
  <2>3. CASE ~Return(p)
    <3>1. PICK next \in RecPcs :
            Goto(p, next) /\ (next = "recRequeue" => mint[ord[p]][num[p]] \in {"reverted", "dropped"})
      BY <1>1, <2>3, NoFaults DEF RecoverReceipt, RecoverMempool, RecPcs
    <3> QED BY <2>1, <3>1, RecoverGoes
  <2> QED BY <2>2, <2>3
<1>2. CASE RecoverSettled(p) \/ RecoverRequeue(p)
  <2>1. ord[p] \in Orders /\ pc[p] \in {"recSettled", "recRequeue"}
    BY <1>2 DEF RecoverSettled, RecoverRequeue, At, TInv, FrameInv, OrderAtHand, OrderPcs
  <2> PICK o \in Orders : o = ord[p]
    BY <2>1
  <2>2. Told(o) /\ Sound(p)
    BY DEF HoldInv
  <2>3. status[o] = "settling" /\ (pc[p] = "recRequeue" => Issued(o) = {})
    BY <2>1, <2>2 DEF Sound, Recovers, RecPcs, Abandoned
  <2>4. PICK s \in {"settled", "paid"} : Put(o, s) /\ (s = "paid" => pc[p] = "recRequeue")
    BY <1>2 DEF RecoverSettled, RecoverRequeue, At
  <2>5. UNCHANGED <<txHash, mint, refunds, ledger>>
    BY <1>2 DEF RecoverSettled, RecoverRequeue, providerVars
  <2>6. /\ pc'[p] \in (RestPcs \ {"expire"}) \cup {"recNext"} /\ Narrows(p)
        /\ \A r \in Procs \ {p} : Stays(r)
    <3>1. CASE Return(p)
      BY <3>1, ReturnGoes DEF RestPcs
    <3>2. CASE ~Return(p)
      <4>1. pc' = [pc EXCEPT ![p] = "claimSettle"] /\ num' = [num EXCEPT ![p] = 0] /\ UNCHANGED <<ord, loop>>
        BY <1>2, <3>2 DEF RecoverSettled, RecoverRequeue
      <4>2. pc'[p] = "claimSettle" /\ loop' = loop /\ \A r \in Procs \ {p} : Stays(r)
        BY <4>1 DEF Stays, TInv, FrameInv, FrameOK
      <4> QED BY <4>2 DEF RestPcs, Narrows
    <3> QED BY <3>1, <3>2
  <2>7. status'[o] = s /\ \A x \in Orders \ {o} : Same(x)
    BY <2>4, <2>5, PutRow
  <2>8. Told(o)'
    <3>1. Issued(o)' = Issued(o) /\ refunds'[o] = refunds[o]
      BY <2>5 DEF Issued
    <3> QED BY <2>2, <2>3, <2>4, <2>5, <2>7, <3>1 DEF Told, Unpaid
  <2> QED BY <2>1, <2>5, <2>6, <2>7, <2>8, FreesWriting DEF RecPcs
<1> QED BY <1>1, <1>2, ScanHolds, RecoverNextHolds DEF Sweep

\* The event of a capture is claimed once, and its order is not paid by then.
LEMMA HookHolds ==
  ASSUME TInv, ClaimInv, CapturesOnly, HoldInv, NEW p \in Procs, NEW o \in Orders, NEW type \in EventTypes,
         HookClaim(p, o, type)
  PROVE  HoldInv'
<1>1. type = "captured"
  BY DEF HookClaim, EventTypes, CapturesOnly
<1>2. /\ pc[p] = "idle" /\ <<o, "captured">> \notin ledger
      /\ ledger' = ledger \cup {<<o, "captured">>}
      /\ pc' = [pc EXCEPT ![p] = "hookCaptured"]
      /\ ord' = [ord EXCEPT ![p] = o]
      /\ UNCHANGED <<num, loop, status, txHash, mint, refunds>>
  BY <1>1 DEF HookClaim, Begin, HookPc, rowVars
<1>3. Told(o) /\ Sound(p)
  BY DEF HoldInv
<1>4. Unpaid(o)
  BY <1>2, <1>3 DEF Told
<1>5. /\ pc'[p] = "hookCaptured" /\ ord'[p] = o /\ loop'[p] = loop[p]
      /\ \A r \in Procs \ {p} : Stays(r)
  BY <1>2 DEF Stays, TInv, FrameInv, FrameOK
<1>6. Drops /\ \A x \in Orders \ {o} : Same(x)
  BY <1>2 DEF Same, Drops
<1>7. \A r \in Procs \ {p} : ~Concerns(r, o)
  BY <1>2, <1>4, Alone
<1>8. Told(o)'
  <2>1. Issued(o)' = Issued(o)
    BY <1>2 DEF Issued
  <2> QED BY <1>2, <1>3, <1>4, <2>1 DEF Told, Unpaid
<1>9. ASSUME \A x \in Orders \ {o} : Abandoned(x) => Abandoned(x)' PROVE Sound(p)'
  <2>1. Narrows(p)
    BY <1>5 DEF Narrows
  <2>2. loop[p].then = "recNext" => o \notin loop[p].todo
    BY <1>3, <1>4 DEF Sound, Recovers, Abandoned, Unpaid
  <2>3. loop'[p].then = "recNext" =>
          \A x \in loop'[p].todo : Abandoned(x)' /\ loop'[p].seen[x] = txHash'[x]
    BY <1>5, <1>6, <1>9, <2>1, <2>2, ScanStays
  <2>4. Recovers(p)'
    BY <1>5, <2>3 DEF Recovers, RecPcs, SweepPcs
  <2>5. Pays(p)'
    BY <1>2, <1>4, <1>5 DEF Pays, Unpaid
  <2> QED BY <1>5, <2>4, <2>5 DEF Sound, Settles, Refunds, PayPcs, RefundPcs, Working, SettlePcs
<1>10. \A x \in Orders \ {o} : ~Holds(p, x)'
  BY <1>5 DEF Holds
<1>11. Sweeping(p)' => Sweeping(p)
  BY <1>5 DEF Sweeping, SweepPcs
<1> QED BY <1>2, <1>5, <1>6, <1>7, <1>8, <1>9, <1>10, <1>11, Writes

LEMMA CallHolds ==
  ASSUME Undisturbed, TInv, ClaimInv, CapturesOnly, HoldInv, NEW p \in Procs, Call(p)
  PROVE  HoldInv'
<1>1. ~(\E o \in Orders : PayStart(p, o)) /\ ~(\E o \in Orders, t \in CryptoTxs : CryptoStart(p, o, t))
  BY DEF PayStart, CryptoStart, Undisturbed
<1>2. CASE CloseStart(p)
  <2> DEFINE closed == offering \in Closed
             met == offering = "funded"
  <2>1. /\ pc[p] = "idle" /\ pc' = [pc EXCEPT ![p] = "closeScan"]
        /\ loop' = [loop EXCEPT ![p] = [loop[p] EXCEPT !.closed = closed, !.met = met]]
        /\ UNCHANGED <<ord, num, status, txHash, mint, refunds, ledger>>
    BY <1>2 DEF CloseStart, At, rowVars, providerVars
  <2> HIDE DEF closed, met
  <2>2. /\ pc'[p] = "closeScan" /\ loop'[p].then = loop[p].then /\ loop'[p].todo = loop[p].todo
        /\ loop'[p].seen = loop[p].seen
        /\ \A r \in Procs \ {p} : Stays(r)
    BY <2>1 DEF Stays, TInv, FrameInv, FrameOK, Loops
  <2>3. Drops /\ \A x \in Orders : Same(x)
    BY <2>1, RowsStay
  <2> QED BY <2>1, <2>2, <2>3, Frees DEF Narrows, RestPcs
<1>3. CASE SweepStart(p)
  <2>1. /\ pc[p] = "idle" /\ Goto(p, "expire") /\ \A q \in Procs : ~Sweeping(q)
        /\ UNCHANGED <<status, txHash, mint, refunds, ledger>>
    BY <1>3, NoFaults DEF SweepStart, At, rowVars, providerVars
  <2>2. pc'[p] = "expire" /\ loop' = loop /\ \A r \in Procs \ {p} : Stays(r)
    BY <2>1, GotoGoes
  <2>3. Drops /\ \A x \in Orders : Same(x)
    BY <2>1, RowsStay
  <2> QED BY <2>1, <2>2, <2>3, Frees DEF Narrows, RestPcs
<1> QED BY <1>1, <1>2, <1>3, HookHolds DEF Call

LEMMA RestHolds ==
  ASSUME TInv, ClaimInv, HoldInv,
         \/ \E p \in Procs, o \in Orders : Expire(p, o)
         \/ Environment \/ UNCHANGED vars
  PROVE  HoldInv'
<1>1. UNCHANGED <<txHash, refunds, ledger, pc, ord, num, loop>>
  BY DEF Expire, Environment, ProviderEvent, Include, SetStatus, vars, rowVars, providerVars, frame
<1>2. UNCHANGED <<txHash, refunds, ledger>> /\ \A r \in Procs : Stays(r)
  BY <1>1 DEF Stays
<1>3. \A x \in Orders : status'[x] = status[x] \/ (Unpaid(x) /\ Unpaid(x)')
  <2> TAKE x \in Orders
  <2>1. ASSUME NEW p \in Procs, NEW o \in Orders, Expire(p, o)
        PROVE  status'[x] = status[x] \/ (Unpaid(x) /\ Unpaid(x)')
    <3>1. status[o] = "pending_payment" /\ status' = [status EXCEPT ![o] = "expired"]
      BY <2>1 DEF Expire
    <3>2. status'[x] = IF x = o THEN "expired" ELSE status[x]
      BY <3>1 DEF TInv, RowsOK
    <3> QED BY <3>1, <3>2 DEF Unpaid
  <2>2. CASE Environment \/ UNCHANGED vars
    BY <2>2 DEF Environment, ProviderEvent, Include, SetStatus, vars, rowVars
  <2> QED BY <2>1, <2>2
<1>4. CASE UNCHANGED mint
  <2>1. Drops /\ \A x \in Orders : Issued(x)' \subseteq Issued(x)
    BY <1>4 DEF Drops, Issued
  <2> QED BY <1>2, <1>3, <2>1, Fades
<1>5. ASSUME NEW o \in Orders, NEW n \in Claims, Include(o, n) PROVE HoldInv'
  <2>1. PICK m \in {"mined", "reverted", "dropped"} : mint' = [mint EXCEPT ![o][n] = m]
    BY <1>5 DEF Include
  <2>2. \A x \in Orders, k \in Claims : mint'[x][k] = IF x = o /\ k = n THEN m ELSE mint[x][k]
    BY <2>1 DEF TInv, MintOK
  <2>3. mint[o][n] = "mempool"
    BY <1>5 DEF Include
  <2>4. Drops
    BY <2>2, <2>3 DEF Drops
  <2>5. ASSUME NEW x \in Orders, NEW k \in Claims, mint'[x][k] \in {"mempool", "mined"}
        PROVE  mint[x][k] \in {"mempool", "mined"}
    BY <2>2, <2>3, <2>5
  <2>6. \A x \in Orders : Issued(x)' \subseteq Issued(x)
    BY <2>5 DEF Issued
  <2> QED BY <1>2, <1>3, <2>4, <2>6, Fades
<1> QED BY <1>4, <1>5 DEF Expire, Environment, ProviderEvent, SetStatus, vars

LEMMA NextHolds ==
  ASSUME Undisturbed, TInv, ClaimInv, OutcomeInv, CapturesOnly, HoldInv, [Next]_vars
  PROVE  HoldInv'
<1>1. ASSUME NEW p \in Procs, Advance(p) PROVE HoldInv'
  BY <1>1, SettleHolds, RefundHolds, HandleHolds, CloseHolds, SweepHolds DEF Advance
<1>2. ASSUME NEW p \in Procs, Crash(p) PROVE HoldInv'
  <2>1. pc[p] # "persist" /\ Finish(p) /\ UNCHANGED <<status, txHash, mint, refunds, ledger>>
    BY <1>2 DEF Crash, Undisturbed, rowVars, providerVars
  <2> QED BY <2>1, QuietGoes
<1> QED BY <1>1, <1>2, CallHolds, RestHolds DEF Next

LEMMA InitHolds == Init => HoldInv
<1> SUFFICES ASSUME Init PROVE HoldInv
  OBVIOUS
<1>1. ASSUME NEW o \in Orders PROVE Told(o)
  BY DEF Init, Told, Unpaid, Issued
<1>2. ASSUME NEW p \in Procs PROVE Sound(p) /\ ~Sweeping(p) /\ \A o \in Orders : ~Holds(p, o)
  BY DEF Init, Sound, Pays, Settles, Refunds, Recovers, NoLoop, Sweeping, Holds, Working,
     PayPcs, HookPcs, RecPcs, SettlePcs, RefundPcs, SweepPcs
<1> QED BY <1>1, <1>2 DEF HoldInv, OneHolder, OneSweep

\* Every order has one outcome: at most one mint that landed or may still land, or
\* one return of its money, for any number of orders and of overlapping handlers,
\* retries, closes and sweeps, whichever of them die, as long as the payments come
\* by the webhook and no answer of the provider or the chain and no update is lost.
THEOREM OrderHasOneOutcome ==
  ASSUME Undisturbed
  PROVE  Spec => []OneOutcome
<1>1. Init => CapturesOnly
  BY DEF Init, CapturesOnly
<1>2. Faults \cap {"decline", "chargeback"} = {}
  BY DEF Undisturbed
<1>3. TInv /\ HoldInv => OneOutcome
  <2> SUFFICES ASSUME TInv, HoldInv, NEW o \in Orders
               PROVE  Cardinality(Issued(o)) + Cardinality(refunds[o]) <= 1
    BY DEF OneOutcome
  <2>1. Told(o)
    BY DEF HoldInv
  <2>2. ASSUME NEW S, \A n, m \in S : n = m
        PROVE  Cardinality(S) = 0 \/ Cardinality(S) = 1
    <3>1. CASE S = {}
      BY <3>1, FS_EmptySet
    <3>2. CASE S # {}
      <4>1. PICK n \in S : S = {n}
        BY <2>2, <3>2
      <4> QED BY <4>1, FS_Singleton
    <3> QED BY <3>1, <3>2
  <2>3. Issued(o) = {} \/ refunds[o] = {}
    BY <2>1 DEF Told, Unpaid, TInv, RowsOK, Statuses
  <2> QED BY <2>1, <2>2, <2>3, FS_EmptySet DEF Told
<1>4. Spec => [](TInv /\ ClaimInv /\ OutcomeInv /\ CapturesOnly /\ HoldInv)
  BY <1>1, <1>2, InitTyped, NextTyped, InitClaims, NextClaims, InitOutcome, NextOutcome, NextCaptures,
     InitHolds, NextHolds, PTL DEF Spec
<1> QED BY <1>3, <1>4, PTL

=============================================================================
