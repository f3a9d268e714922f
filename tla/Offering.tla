------------------------------- MODULE Offering -------------------------------
(***************************************************************************)
(* An offering: its distributions (this module extends them), the bid that *)
(* buys tokens back, the votes of its holders, and the reservation of its  *)
(* tokens by orders.  They share no variable, so each is an instance with  *)
(* its own; what is promised of them together is named here.               *)
(***************************************************************************)
EXTENDS Distributions

CONSTANTS
  Role,                                        \* of the connection: Buyback, OrderReservation
  Txs, From, To, Size, NoTx, BidWallets, Sellers, Terms, NoLimit, MaxTerms,   \* Buyback
  Proposals, Managers, NoManager, Names, Shares, CrashPoints, MaxTrades,        \* Governance
  Orders, WalletOf, PersonOf, Want, TokensTotal, Cap, NoCap, NoOrder,
  OrderFaults                                                                 \* OrderReservation

VARIABLES
  bidStatus, terms, bought, sales, chain, published, opened, bidPc, claim, bid,
  voteStatus, ended, votes, manager, held, trades, installs, votePc, call,
  open, orderRow, lock, orderPc, unread, read, paying, minted, indexed

Bid == INSTANCE Buyback WITH Wallets <- BidWallets, status <- bidStatus, pc <- bidPc

Governed == INSTANCE Governance WITH
  Issued <- Shares, status <- voteStatus, balance <- held, pc <- votePc

Reserve == INSTANCE OrderReservation WITH Faults <- OrderFaults, row <- orderRow, pc <- orderPc

-----------------------------------------------------------------------------
(* What the constants of the parts are. *)

\* A transfer moves whole tokens, and a bid names its price and its limit in them.
BidAssumed ==
  /\ IsFiniteSet(Txs) /\ Size \in [Txs -> Nat]
  /\ Terms \subseteq [price : Nat, seller : Sellers, limit : Nat \cup {NoLimit}]
  /\ MaxTerms \in Nat

\* A proposal names a manager there is.
VoteAssumed ==
  /\ Names \in [Proposals -> Managers] /\ Shares \in [Wallets -> Nat] /\ MaxTrades \in Nat

\* An order asks for a token at least.
OrderAssumed ==
  /\ IsFiniteSet(Orders) /\ NoOrder \notin Orders
  /\ WalletOf \in [Orders -> Wallets] /\ Want \in [Orders -> Nat \ {0}] /\ TokensTotal \in Nat
  /\ Cap \in [Reserve!Customers -> Nat \cup {NoCap}]

ASSUME OfferingAssumption == BidAssumed /\ VoteAssumed /\ OrderAssumed

-----------------------------------------------------------------------------
(* The properties of the instances, stated where they are defined. *)

\* Every variable has its type (Distributions, Buyback, Governance, OrderReservation).
AllTyped == TypeOK /\ Bid!TypeOK /\ Governed!TypeOK /\ Reserve!TypeOK

\* The sales of a bid rest on transfers, prices and offers that were there (Buyback).
SalesAreSound == Bid!SalesAreSound

\* A vote has one outcome, which its votes say (Governance).
VoteCounts == Governed!VoteCounts

\* A proposal that passed is applied in the end (Governance).
PassedIsApplied == Governed!PassedIsApplied

\* Orders not yet settled fit the offering and the person's cap (OrderReservation).
ReservationsFit == Reserve!ReservationsFit
=============================================================================
