------------------------------ MODULE MCPeople ------------------------------
(***************************************************************************)
(* The five sides of an investor's life in one instance: the initial state *)
(* picks the one that moves, so that the state space is the sum of theirs. *)
(* The chain was reset under the person's record exactly when the token    *)
(* does not trust the platform's claim issuer yet.                         *)
(***************************************************************************)
EXTENDS People, TLC

CONSTANTS w1, w2, w3, ann, bob, e1, e2

VARIABLE part

MCChainWallets == {w1, w2}
MCPrimary == (w1 :> w1) @@ (w2 :> w1)
MCScreenWallets == {w1, w2, w3}
MCHome == (ann :> w1) @@ (bob :> w2)
MCVerdict == (e1 :> "completed") @@ (e2 :> "rejected")

onboardAll == <<kyc, accredited, onchainid, confirmed, factory, salts, signed, claims, revoked, registry,
                trusted, onboardPc, wallet, identity, todo, found, grants, late, failed, proven>>
screenAll == <<holder, link, latest, aml, screenPc, screened, asked, toScreen, worst, screens, fresh, missed, passed>>
reviewAll == <<kycStatus, version, mirror, linked, acceptance, claimed, reviewPc, op, known, pinned, event,
               submits, decisions, read, applied, overlapped, episodes>>
paperAll == <<home, encrypted, disk, sealed, env, booted, filePc, doc, file, sealing, toMove, rowRead, reads,
              audited, unaudited, delivered>>

MCInit ==
  /\ part \in {"account", "onboard", "screen", "review", "papers"}
  /\ Init /\ Onboard!Init /\ Screens!Init /\ Reviewed!Init /\ Papers!Init
  /\ part # "onboard" => trusted
  /\ \A w \in Onboard!Rows : onchainid[w] = IF trusted THEN None ELSE Gone
  /\ \A w \in Onboard!Rows : confirmed[w] = ~trusted
  /\ part # "papers" => env

MCNext ==
  \/ part = "account" /\ Next /\ UNCHANGED <<part, onboardAll, screenAll, reviewAll, paperAll>>
  \/ part = "onboard" /\ Onboard!Next /\ UNCHANGED <<part, vars, screenAll, reviewAll, paperAll>>
  \/ part = "screen" /\ Screens!Next /\ UNCHANGED <<part, vars, onboardAll, reviewAll, paperAll>>
  \/ part = "review" /\ Reviewed!Next /\ UNCHANGED <<part, vars, onboardAll, screenAll, paperAll>>
  \/ part = "papers" /\ Papers!Next /\ UNCHANGED <<part, vars, onboardAll, screenAll, reviewAll>>

MCSpec == MCInit /\ [][MCNext]_<<part, vars, onboardAll, screenAll, reviewAll, paperAll>>
=============================================================================
