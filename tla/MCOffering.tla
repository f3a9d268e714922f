----------------------------- MODULE MCOffering -----------------------------
(***************************************************************************)
(* The four components of an offering in one instance: the initial state   *)
(* picks the one that moves, so that the state space is the sum of theirs. *)
(***************************************************************************)
EXTENDS Offering, TLC

CONSTANTS ann, bob, w1, w2, w3, m1, x1, x2, s1, s2, o1, o2, o3

VARIABLE part

MCOwner == (w1 :> ann) @@ (w2 :> ann) @@ (w3 :> bob)
MCPrimary == (ann :> w1) @@ (bob :> w3)
MCIssued == {[w \in Wallets |-> 0], (w1 :> 1) @@ (w2 :> 0) @@ (w3 :> 2)}
MCFrom == (x1 :> w1) @@ (x2 :> w3)
MCTo == (x1 :> s1) @@ (x2 :> s1)
MCSize == (x1 :> 1) @@ (x2 :> 2)
MCTerms ==
  {[price |-> 1, seller |-> s1, limit |-> 2], [price |-> 2, seller |-> s1, limit |-> NoLimit],
   [price |-> 2, seller |-> s2, limit |-> 3]}
MCNames == <<m1>>
MCShares == (w1 :> 1) @@ (w2 :> 0) @@ (w3 :> 1)
MCWalletOf == (o1 :> w1) @@ (o2 :> w2) @@ (o3 :> w3)
MCWant == (o1 :> 2) @@ (o2 :> 2) @@ (o3 :> 3)
MCCap == (ann :> 3) @@ (bob :> NoCap)

bidAll == <<bidStatus, terms, bought, sales, chain, published, opened, bidPc, claim, bid>>
voteAll == <<voteStatus, ended, votes, manager, held, trades, installs, votePc, call>>
orderAll == <<open, orderRow, lock, orderPc, unread, read, paying, minted, indexed>>

MCInit ==
  /\ part \in {"pay", "bid", "vote", "order"}
  /\ Init /\ Bid!Init /\ Governed!Init /\ Reserve!Init
  /\ part # "pay" => balance = Zero

MCNext ==
  \/ part = "pay" /\ Next /\ UNCHANGED <<part, bidAll, voteAll, orderAll>>
  \/ part = "bid" /\ Bid!Next /\ UNCHANGED <<part, vars, voteAll, orderAll>>
  \/ part = "vote" /\ Governed!Next /\ UNCHANGED <<part, vars, bidAll, orderAll>>
  \/ part = "order" /\ Reserve!Next /\ UNCHANGED <<part, vars, bidAll, voteAll>>

MCSpec ==
  /\ MCInit /\ [][MCNext]_<<part, vars, bidAll, voteAll, orderAll>>
  /\ Governed!Fairness
=============================================================================
