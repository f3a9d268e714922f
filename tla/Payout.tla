------------------------------- MODULE Payout -------------------------------
(***************************************************************************)
(* What a distribution promises its holders: a pot is declared together    *)
(* with every share of it, the shares never change, and each is handed out *)
(* at most once, whole.                                                    *)
(***************************************************************************)
EXTENDS Integers

CONSTANTS
  Pots,
  Wallets

VARIABLES
  declared, \* the pots declared so far
  owed,     \* owed[d][w]: the share of w in d
  paid      \* paid[d][w]: what was handed out of it

payoutVars == <<declared, owed, paid>>

Nothing == [d \in Pots |-> [w \in Wallets |-> 0]]

PayoutInit == declared = {} /\ owed = Nothing /\ paid = Nothing

DeclarePot(d) ==
  /\ d \notin declared
  /\ declared' = declared \cup {d}
  /\ owed'[d] \in [Wallets -> Nat]
  /\ owed' = [owed EXCEPT ![d] = owed'[d]]
  /\ UNCHANGED paid

HandOut(shares) ==
  /\ \A s \in shares : s[1] \in declared /\ paid[s[1]][s[2]] = 0
  /\ paid' = [d \in Pots |-> [w \in Wallets |->
                IF <<d, w>> \in shares THEN owed[d][w] ELSE paid[d][w]]]
  /\ UNCHANGED <<declared, owed>>

PayoutNext ==
  \/ \E d \in Pots : DeclarePot(d)
  \/ \E shares \in SUBSET (Pots \X Wallets) : HandOut(shares)

PayoutSpec == PayoutInit /\ [][PayoutNext]_payoutVars
=============================================================================
