------------------------------- MODULE Buyback -------------------------------
(***************************************************************************)
(* The standing bid of an issuer for its own token, and the investors who  *)
(* sell to it: they transfer tokens from their own wallets first and then  *)
(* tell the server, which reads the receipt and books the sale.            *)
(*                                                                         *)
(* A process is one sell-back call.                                        *)
(***************************************************************************)
EXTENDS Integers, FiniteSets

CONSTANTS
  Txs,      \* transfers of the token that reach the chain
  From, To, Size, \* what the log of a transfer says; Size[x] is a natural number
  NoTx,
  Wallets,  \* wallets of investors
  Sellers,  \* wallets a bid may name as the one to send to
  Terms,    \* the terms a bid may have: price, seller wallet, max_tokens
  NoLimit,
  Procs,
  Role,     \* the role of the connection: "owner" or "app_tenant"
  MaxTerms  \* bound: times the bid is opened

Tokens == {Size[x] : x \in Txs}

Statuses == {"none", "open", "closed"}
TxStates == {"sent", "mined", "failed"}

VARIABLES
  status,    \* buyback_offers.status; "none" where there is no row
  terms,     \* price_per_token, seller_wallet, max_tokens
  bought,    \* tokens_bought
  sales,     \* buyback_sales, by transaction
  chain,     \* what became of a transfer
  published, \* the terms that were ever opened
  opened,    \* how often
  pc,
  claim,     \* what the call says it sold: transaction, wallet, tokens
  bid        \* the terms the call has read

bidVars == <<status, terms, bought>>
vars == <<bidVars, sales, chain, published, opened, pc, claim, bid>>

NoTerms == [price |-> 0, seller |-> NoTx, limit |-> NoLimit]
NoClaim == [tx |-> NoTx, wallet |-> NoTx, tokens |-> 0]
NoSale == [tokens |-> 0, wallet |-> NoTx, price |-> 0]
Claims == [tx : Txs, wallet : Wallets, tokens : Tokens]
Sold == {x \in Txs : sales[x] # NoSale}

\* Every variable has its type.
TypeOK ==
  /\ status \in Statuses
  /\ terms \in Terms \cup {NoTerms}
  /\ bought \in Nat
  /\ sales \in [Txs -> [tokens : Nat, wallet : Wallets, price : Nat] \cup {NoSale}]
  /\ chain \in [Txs -> TxStates]
  /\ published \in SUBSET Terms
  /\ opened \in 0..MaxTerms
  /\ pc \in [Procs -> {"idle", "verify", "record"}]
  /\ claim \in [Procs -> Claims \cup {NoClaim}]
  /\ bid \in [Procs -> Terms \cup {NoTerms}]

Init ==
  /\ status = "none" /\ terms = NoTerms /\ bought = 0
  /\ sales = [x \in Txs |-> NoSale]
  /\ chain = [x \in Txs |-> "sent"]
  /\ published = {} /\ opened = 0
  /\ pc = [p \in Procs |-> "idle"]
  /\ claim = [p \in Procs |-> NoClaim]
  /\ bid = [p \in Procs |-> NoTerms]

At(p, here) == pc[p] = here
Goto(p, next) == pc' = [pc EXCEPT ![p] = next]

Finish(p) ==
  /\ Goto(p, "idle")
  /\ claim' = [claim EXCEPT ![p] = NoClaim]
  /\ bid' = [bid EXCEPT ![p] = NoTerms]

-----------------------------------------------------------------------------
(* The issuer *)

\* Mutant: a new bid starts to count afresh while the sales stay.
UpsertAfresh(t) == status' = "open" /\ terms' = t /\ bought' = 0

\* One bid per offering: opening replaces its terms and keeps what it has bought.
Upsert(t) == status' = "open" /\ terms' = t /\ UNCHANGED bought

OpenBuyback(t) ==
  /\ opened < MaxTerms /\ opened' = opened + 1
  /\ Upsert(t)
  /\ published' = published \cup {t}
  /\ UNCHANGED <<sales, chain, pc, claim, bid>>

\* Mutant: a status that no reader knows.
WithdrawBuyback ==
  /\ status = "open" /\ status' = "withdrawn"
  /\ UNCHANGED <<terms, bought, sales, chain, published, opened, pc, claim, bid>>

\* The row stays; without an open bid nothing is written.
CloseBuyback ==
  /\ status = "open" /\ status' = "closed"
  /\ UNCHANGED <<terms, bought, sales, chain, published, opened, pc, claim, bid>>

-----------------------------------------------------------------------------
(* sellBack *)

\* Anything may be claimed; without an open bid the call ends here.
SellBack(p, c) ==
  /\ At(p, "idle")
  /\ status = "open"
  /\ claim' = [claim EXCEPT ![p] = c]
  /\ bid' = [bid EXCEPT ![p] = terms]
  /\ Goto(p, "verify")
  /\ UNCHANGED <<bidVars, sales, chain, published, opened>>

\* Mutant: any mined transfer to the seller will do, whatever its size.
MatchesLoosely(c, seller) ==
  chain[c.tx] = "mined" /\ From[c.tx] = c.wallet /\ To[c.tx] = seller

\* The receipt holds the transfer that is claimed: this amount, from the
\* connected wallet, to the wallet of the bid that was read.
Matches(c, seller) ==
  /\ chain[c.tx] = "mined"
  /\ From[c.tx] = c.wallet /\ To[c.tx] = seller /\ Size[c.tx] = c.tokens

\* TX_NOT_CONFIRMED, TX_FAILED, TX_DOES_NOT_MATCH, or on to the booking.
VerifyTransfer(p) ==
  /\ At(p, "verify")
  /\ \/ ~Matches(claim[p], bid[p].seller) /\ Finish(p)
     \/ Matches(claim[p], bid[p].seller) /\ Goto(p, "record") /\ UNCHANGED <<claim, bid>>
  /\ UNCHANGED <<bidVars, sales, chain, published, opened>>

\* An investor's session may not update a bid, so that as app_tenant
\* SELECT ... FOR UPDATE returns no row.
Locks == Role = "owner" /\ status = "open"

\* Mutant: what remains is the limit as the call read it, before the lock.
FitsAsRead(p) == bid[p].limit # NoLimit => bought + claim[p].tokens <= bid[p].limit

Fits(p) == terms.limit # NoLimit => bought + claim[p].tokens <= terms.limit

\* Mutant: the price is the one of the bid that is locked.
BookAtLockedPrice(p) ==
  /\ bought' = bought + claim[p].tokens
  /\ sales' = [sales EXCEPT ![claim[p].tx] =
                 [tokens |-> claim[p].tokens, wallet |-> claim[p].wallet,
                  price |-> terms.price]]

\* The count and the sale, at the price that was read before the lock.
Book(p) ==
  /\ bought' = bought + claim[p].tokens
  /\ sales' = [sales EXCEPT ![claim[p].tx] =
                 [tokens |-> claim[p].tokens, wallet |-> claim[p].wallet,
                  price |-> bid[p].price]]

\* Mutant: a transfer may be booked again.
NeverDuplicate(p) == FALSE

\* One transfer backs one sale; a unique index says so too.
Duplicate(p) == claim[p].tx \in Sold

\* recordSale: everything under the lock on the bid, which every writer of the
\* bid and of its sales takes.
RecordSale(p) ==
  /\ At(p, "record")
  /\ IF Locks /\ ~Duplicate(p) /\ Fits(p) THEN Book(p) ELSE UNCHANGED <<bought, sales>>
  /\ Finish(p)
  /\ UNCHANGED <<status, terms, chain, published, opened>>

-----------------------------------------------------------------------------
\* The chain: an investor's transfer is mined or fails.
Include(x) ==
  /\ chain[x] = "sent"
  /\ \E s \in {"mined", "failed"} : chain' = [chain EXCEPT ![x] = s]
  /\ UNCHANGED <<bidVars, sales, published, opened, pc, claim, bid>>

Manage == CloseBuyback \/ \E t \in Terms : OpenBuyback(t)

Next ==
  \/ Manage
  \/ \E p \in Procs : VerifyTransfer(p) \/ RecordSale(p) \/ \E c \in Claims : SellBack(p, c)
  \/ \E x \in Txs : Include(x)

Spec == Init /\ [][Next]_vars

-----------------------------------------------------------------------------
(* Properties. *)

\* What a bid says it has bought is what its sales add up to, over every change
\* of its terms.
BoughtIsSold == bought = Cardinality(UNION {{x} \X (1..sales[x].tokens) : x \in Txs})

\* A sale is booked for a transfer that was mined, of exactly its tokens, from
\* the seller's own wallet; so two sales never rest on one transfer.
SaleIsBacked ==
  \A x \in Sold :
    /\ chain[x] = "mined"
    /\ sales[x].tokens = Size[x] /\ sales[x].wallet = From[x]

\* A seller is paid the price that went with the wallet the tokens were sent to,
\* even if the issuer changed the bid during the call.
PaidAsPublished ==
  \A x \in Sold : \E t \in published : t.price = sales[x].price /\ t.seller = To[x]

\* Concurrent sellers never take more than the issuer offers when the sale is
\* booked.
WithinLimit == [][bought' > bought => (terms.limit # NoLimit => bought' <= terms.limit)]_vars

\* However sellers and the issuer overlap, a bid has bought what its sales say,
\* each of them paid for with tokens of its own, at the price that was asked
\* for, and within the limit.
SalesAreSound == [](BoughtIsSold /\ SaleIsBacked /\ PaidAsPublished) /\ WithinLimit
=============================================================================
