---------------------------- MODULE MCBackOffice ----------------------------
(***************************************************************************)
(* The five parts of the back office in one instance: the initial state    *)
(* picks the one that moves.                                               *)
(***************************************************************************)
EXTENDS BackOffice, TLC

CONSTANTS
  a1, a2, a3, a4, o1, o2, o3, i1, i2, w1, w2, w3, ann, bob, n1, n2

VARIABLE part

MCEntitled == [r \in Requests |-> Admins \ {a4}]
MCIssuer == (o1 :> i1) @@ (o2 :> i2) @@ (o3 :> i1)
MCOwner == (w1 :> ann) @@ (w2 :> Nobody) @@ (w3 :> bob)
MCHome == ("p1" :> n1) @@ ("p2" :> n1) @@ ("p3" :> n2)

staffAll == <<admins, managers, spvStatus, operator, staffPc, request, saw, calls, crossed, made, active, torn>>
deployAll == <<kyb, listing, planned, symbol, tokens, suite, paused, deployPc, offering, wanted, opens, tries,
               approved, doubled, removed, refused>>
caseAll == <<matter, person, registered, frozen, balance, transfers, casePc, job, amount, recoveries,
             thawed, shared, stuck>>
keyAll == <<mined, pool, asked, answer, cache, sendPc, role, ticket, sends>>

MCInit ==
  /\ part \in {"approve", "staff", "deploy", "recover", "sign"}
  /\ Init /\ Team!Init /\ Deploy!Init /\ Recovery!Init /\ Keys!Init

MCNext ==
  \/ part = "approve" /\ Next /\ UNCHANGED <<part, staffAll, deployAll, caseAll, keyAll>>
  \/ part = "staff" /\ Team!Next /\ UNCHANGED <<part, vars, deployAll, caseAll, keyAll>>
  \/ part = "deploy" /\ Deploy!Next /\ UNCHANGED <<part, vars, staffAll, caseAll, keyAll>>
  \/ part = "recover" /\ Recovery!Next /\ UNCHANGED <<part, vars, staffAll, deployAll, keyAll>>
  \/ part = "sign" /\ Keys!Next /\ UNCHANGED <<part, vars, staffAll, deployAll, caseAll>>

MCSpec == MCInit /\ [][MCNext]_<<part, vars, staffAll, deployAll, caseAll, keyAll>> /\ Fairness
=============================================================================
