-------------------------- MODULE OrderReservation --------------------------
(***************************************************************************)
(* createOrder: how an allocation is reserved.  The balances on the chain  *)
(* are read first; then one transaction locks the offering, reads what is  *)
(* reserved and issued again, decides and inserts the order; the checkout  *)
(* is opened after the commit.  Around it orders are paid, settled,        *)
(* expired and indexed.                                                    *)
(*                                                                         *)
(* The transaction runs on the connection of the investor's request.       *)
(* Role says what that connection is: "owner" bypasses the row policies,   *)
(* as the pool does before migration 042; "app_tenant" is bound by them.   *)
(* An order o \in Orders is one call of createOrder and the row it leaves. *)
(***************************************************************************)
EXTENDS Integers, FiniteSets

CONSTANTS
  Orders,      \* calls of createOrder for one offering
  Wallets,     \* the investors' wallets
  WalletOf,    \* WalletOf[o]: the wallet of the session that calls
  PersonOf,    \* PersonOf[w]: the person whose account links w
  Want,        \* Want[o]: tokens wanted, one at least
  TokensTotal, \* target raise / price, a natural number
  Cap,         \* Cap[person]: the limit of the person's tier, or NoCap
  NoCap, NoOrder,
  Role,        \* "owner" or "app_tenant"
  Faults       \* what may fail

Customers == {PersonOf[w] : w \in Wallets}
Reserving == {"pending_payment", "paid", "settling"}
Rows == Reserving \cup
  {"none", "settled", "refunding", "refunded", "failed", "expired", "cancelled"}

VARIABLES
  open,    \* offerings.status is open
  row,     \* subscriptions.status of the order's row, "none" before the insert
  lock,    \* the call that holds the offering row FOR UPDATE
  pc,      \* what the call does next
  unread,  \* wallets of the person whose balance it has not read
  read,    \* what it has read: held, reservedAll, tokensIssued, reservedByPerson
  paying,  \* orders whose capture is under way, read while pending_payment
  minted,  \* chain: orders whose mint is in a block
  indexed  \* balances: minted orders the indexer has applied

vars == <<open, row, lock, pc, unread, read, paying, minted, indexed>>
callVars == <<open, lock, pc, unread, read>>
lifeVars == <<paying, minted, indexed>>

\* The tokens of the orders S: counting them, told apart, adds them up.
Tokens(S) == Cardinality(UNION {{o} \X (1..Want[o]) : o \in S})
Person(o) == PersonOf[WalletOf[o]]
WalletsOf(o) == {w \in Wallets : PersonOf[w] = Person(o)}
Open(S) == {o \in S : row[o] \in Reserving}
ByPerson(x, S) == {o \in S : Person(o) = x}
NoRead == [held |-> 0, reservedAll |-> 0, tokensIssued |-> 0, reservedByPerson |-> 0]

\* Every variable has its type; the indexer applies only what was mined.
TypeOK ==
  /\ open \in BOOLEAN
  /\ row \in [Orders -> Rows]
  /\ lock \in Orders \cup {NoOrder}
  /\ pc \in [Orders -> {"start", "held", "lock", "reserved", "issued", "person",
                        "decide", "checkout", "done"}]
  /\ unread \in [Orders -> SUBSET Wallets]
  /\ \A o \in Orders : DOMAIN read[o] = DOMAIN NoRead /\ \A f \in DOMAIN NoRead : read[o][f] \in Nat
  /\ paying \in SUBSET Orders
  /\ indexed \in SUBSET minted /\ minted \in SUBSET Orders

Init ==
  /\ open = TRUE
  /\ row = [o \in Orders |-> "none"]
  /\ lock = NoOrder
  /\ pc = [o \in Orders |-> "start"]
  /\ unread = [o \in Orders |-> {}]
  /\ read = [o \in Orders |-> NoRead]
  /\ paying = {} /\ minted = {} /\ indexed = {}

-----------------------------------------------------------------------------
(* The checks and reads before the transaction. *)

At(o, here) == pc[o] = here
Goto(o, next) == pc' = [pc EXCEPT ![o] = next]
Learn(o, field, n) == read' = [read EXCEPT ![o][field] = n]

\* The offering is open and the gates passed, the person resolved; without a cap no balance is read.
Start(o) ==
  /\ At(o, "start") /\ open
  /\ IF Cap[Person(o)] = NoCap
     THEN Goto(o, "lock") /\ UNCHANGED unread
     ELSE Goto(o, "held") /\ unread' = [unread EXCEPT ![o] = WalletsOf(o)]
  /\ UNCHANGED <<open, row, lock, read, lifeVars>>

\* balanceOf, wallet by wallet.
ReadHeld(o) ==
  /\ At(o, "held")
  /\ \/ \E w \in unread[o] :
          /\ Learn(o, "held", read[o].held + Tokens({x \in minted : WalletOf[x] = w}))
          /\ unread' = [unread EXCEPT ![o] = @ \ {w}]
          /\ UNCHANGED pc
     \/ unread[o] = {} /\ Goto(o, "lock") /\ UNCHANGED <<unread, read>>
  /\ UNCHANGED <<open, row, lock, lifeVars>>

-----------------------------------------------------------------------------
(* createOrderAtomic. *)

\* Rows of other investors are hidden from a connection the policies bind.
Visible(o, S) == {x \in S : Role = "owner" \/ WalletOf[x] = WalletOf[o]}

\* Mutant: the offering is read without FOR UPDATE.
TakeNoLock(o) ==
  /\ At(o, "lock") /\ Goto(o, "reserved")
  /\ UNCHANGED <<open, row, lock, unread, read, lifeVars>>

\* SELECT ... FOR UPDATE waits for the holder.  The update policy of offerings
\* admits the platform and the issuer only, so for an investor's connection the
\* statement finds no row and locks nothing.
TakeLock(o) ==
  /\ At(o, "lock")
  /\ \/ Role = "owner" /\ lock = NoOrder /\ lock' = o
     \/ Role = "app_tenant" /\ UNCHANGED lock
  /\ Goto(o, "reserved")
  /\ UNCHANGED <<open, row, unread, read, lifeVars>>

\* Each statement of the transaction sees what was committed when it starts.
ReadReserved(o) ==
  /\ At(o, "reserved")
  /\ Learn(o, "reservedAll", Tokens(Visible(o, Open(Orders))))
  /\ Goto(o, "issued")
  /\ UNCHANGED <<open, row, lock, unread, lifeVars>>

ReadIssued(o) ==
  /\ At(o, "issued")
  /\ Learn(o, "tokensIssued", Tokens(Visible(o, indexed)))
  /\ Goto(o, "person")
  /\ UNCHANGED <<open, row, lock, unread, lifeVars>>

\* Mutant: only the wallet of the session is looked at.
ReadPersonWallet(o) ==
  /\ At(o, "person")
  /\ Learn(o, "reservedByPerson", Tokens({x \in Open(Orders) : WalletOf[x] = WalletOf[o]}))
  /\ Goto(o, "decide")
  /\ UNCHANGED <<open, row, lock, unread, lifeVars>>

ReadPerson(o) ==
  /\ At(o, "person")
  /\ IF Cap[Person(o)] = NoCap
     THEN UNCHANGED read
     ELSE Learn(o, "reservedByPerson", Tokens(Visible(o, ByPerson(Person(o), Open(Orders)))))
  /\ Goto(o, "decide")
  /\ UNCHANGED <<open, row, lock, unread, lifeVars>>

\* checkOrderLimits: supply first, then the cap of the person.
SupplyLeft(r) == TokensTotal - r.tokensIssued - r.reservedAll
WithinCap(r, want, cap) == cap # NoCap => r.held + r.reservedByPerson + want <= cap
Fits(o) ==
  /\ Want[o] <= SupplyLeft(read[o])
  /\ WithinCap(read[o], Want[o], Cap[Person(o)])

Commit(o) == lock' = IF lock = o THEN NoOrder ELSE lock

\* The insert becomes visible, and the lock free, at the commit; a refused order
\* rolls back.
Decide(o) ==
  /\ At(o, "decide")
  /\ \/ Fits(o) /\ row' = [row EXCEPT ![o] = "pending_payment"] /\ Goto(o, "checkout")
     \/ ~Fits(o) /\ UNCHANGED row /\ Goto(o, "done")
  /\ Commit(o)
  /\ UNCHANGED <<open, unread, read, lifeVars>>

\* Any statement may fail and roll the transaction back.
Rollback(o) ==
  /\ "db" \in Faults
  /\ pc[o] \in {"reserved", "issued", "person", "decide"}
  /\ Goto(o, "done")
  /\ Commit(o)
  /\ UNCHANGED <<open, row, unread, read, lifeVars>>

-----------------------------------------------------------------------------
(* After the commit, and what becomes of the order. *)

\* The reservation of an order whose checkout cannot be opened is released,
\* whatever the order's status is by then.
Checkout(o) ==
  /\ At(o, "checkout")
  /\ \/ UNCHANGED row
     \/ "checkout" \in Faults /\ row' = [row EXCEPT ![o] = "cancelled"]
  /\ Goto(o, "done")
  /\ UNCHANGED <<open, lock, unread, read, lifeVars>>

\* A capture reads the order unpaid and writes what the provider answered,
\* whatever the order's status is by then.  The answer of createOrder tells the
\* reference to pay; with "earlyPay" the investor takes it from the list before.
Pay(o) ==
  /\ row[o] = "pending_payment"
  /\ At(o, "done") \/ "earlyPay" \in Faults
  /\ paying' = paying \cup {o}
  /\ UNCHANGED <<row, callVars, minted, indexed>>

Paid(o) ==
  /\ o \in paying
  /\ \/ row' = [row EXCEPT ![o] = "paid"]
     \/ "decline" \in Faults /\ row' = [row EXCEPT ![o] = "failed"]
  /\ paying' = paying \ {o}
  /\ UNCHANGED <<callVars, minted, indexed>>

Move(o, from, to) ==
  /\ row[o] = from
  /\ row' = [row EXCEPT ![o] = to]
  /\ UNCHANGED <<callVars, lifeVars>>

\* The sweeper; only with "slowCapture" is a capture still under way after the
\* time an order may stay unpaid.
Expire(o) ==
  /\ "slowCapture" \in Faults \/ o \notin paying
  /\ Move(o, "pending_payment", "expired")

ClaimSettle(o) == Move(o, "paid", "settling")

\* The offering is closed, and orders it does not settle are refunded; a refusal
\* makes the order paid again.  Only with "slowCreate" is a call that found the
\* offering open still deciding when the refunds begin.
Close == open /\ open' = FALSE /\ UNCHANGED <<row, lock, pc, unread, read, lifeVars>>
Refund(o) ==
  \/ /\ ~open
     /\ "slowCreate" \in Faults \/ \A x \in Orders : pc[x] \in {"start", "checkout", "done"}
     /\ Move(o, "paid", "refunding")
  \/ Move(o, "refunding", "refunded")
  \/ "refund" \in Faults /\ Move(o, "refunding", "paid")

Mint(o) ==
  /\ row[o] = "settling" /\ o \notin minted
  /\ minted' = minted \cup {o}
  /\ UNCHANGED <<row, callVars, paying, indexed>>

Unsettle(o) == "send" \in Faults /\ o \notin minted /\ Move(o, "settling", "paid")
Settled(o) == o \in minted /\ Move(o, "settling", "settled")

\* The indexer follows the chain at its own pace.
Index(o) ==
  /\ o \in minted \ indexed
  /\ indexed' = indexed \cup {o}
  /\ UNCHANGED <<row, callVars, paying, minted>>

-----------------------------------------------------------------------------
Create(o) == \/ Start(o) \/ ReadHeld(o) \/ TakeLock(o) \/ ReadReserved(o) \/ ReadIssued(o)
             \/ ReadPerson(o) \/ Decide(o) \/ Rollback(o) \/ Checkout(o)
Live(o) == \/ Pay(o) \/ Paid(o) \/ Expire(o) \/ ClaimSettle(o) \/ Refund(o)
           \/ Mint(o) \/ Unsettle(o) \/ Settled(o) \/ Index(o)

Next == Close \/ \E o \in Orders : Create(o) \/ Live(o)
Spec == Init /\ [][Next]_vars

-----------------------------------------------------------------------------
(* Properties. *)

\* However calls of createOrder interleave with each other and with orders that
\* are settled, refunded or expired, the orders not yet settled never reserve
\* more than the offering has.
ReservedFits == Tokens(Open(Orders)) <= TokensTotal

\* Nor do those of one person, over all wallets, exceed the person's cap.
PersonReservedFits ==
  \A x \in Customers : Cap[x] # NoCap => Tokens(ByPerson(x, Open(Orders))) <= Cap[x]

\* The offering is not sold twice: what is reserved and what is minted fit the
\* supply together.
NeverOversold == Tokens(Open(Orders) \cup minted) <= TokensTotal

\* Concurrent orders keep to both limits, the offering's and each person's.
ReservationsFit == ReservedFits /\ PersonReservedFits
=============================================================================
