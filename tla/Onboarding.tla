----------------------------- MODULE Onboarding -----------------------------
(***************************************************************************)
(* Onboarding of one person for a token that wants two claims. The server  *)
(* makes the identity and signs the claims, the investor's wallet puts     *)
(* them on the identity, and the server registers the wallet. A rejected   *)
(* accreditation revokes the signature that is found on the identity.      *)
(*                                                                         *)
(* A process is one request: prepare, confirm, or a decision on the        *)
(* accreditation. Every step awaits the chain or the database. An identity *)
(* goes by the name of the wallet it was created for.                      *)
(***************************************************************************)
EXTENDS Naturals, Sequences, FiniteSets

CONSTANTS
  Wallets,
  Primary,     \* the primary wallet a wallet resolves to
  None,
  Gone,        \* a recorded identity that has no code: the chain was reset
  Procs,
  Faults,      \* subset of {"rpc", "linkedFirst"}
  CrashPoints, \* subset of {"created"}
  MaxSigned,   \* bound: claims that are signed
  MaxGrants    \* bound: accreditations that are granted

Topics == {"KYC", "ACCREDITED"}
Rows == {w \in Wallets : Primary[w] = w} \* the wallets with a row in investors
Signatures == 1..MaxSigned
Unsigned == 0

VARIABLES
  kyc,        \* the person's verification is completed
  accredited, \* accounts.accreditation_status is accredited
  onchainid,  \* investors.onchainid of a primary wallet
  verified,   \* investors.verified of a primary wallet
  factory,    \* IdFactory: the wallets with an identity
  salts,      \* IdFactory: the salts that are taken
  signed,     \* the claims that were signed: identity and topic, by signature
  claims,     \* Identity: the signature on it for a topic
  revoked,    \* ClaimIssuer: the revoked signatures
  registry,   \* IdentityRegistry: the identity of a registered wallet
  trusted,    \* the token trusts the platform's claim issuer
  pc,
  wallet,     \* the wallet of the request
  identity,   \* the identity it works on
  todo,       \* topics to sign, or wallets to revoke for
  found,      \* what it has read: a signature, or that the wallet is verified
  grants,     \* counter of the bound
  late,       \* history: claims attached since the last rejection was recorded
  failed,     \* history: the last rejection could not revoke
  proven      \* history: primary wallets the registry has called verified

chain == <<factory, salts, claims, revoked, registry, trusted>>
person == <<kyc, accredited, onchainid, verified>>
local == <<pc, wallet, identity, todo, found>>
vars == <<chain, person, signed, local, grants, late, failed, proven>>

Live(id, topic) ==
  /\ claims[id][topic] # Unsigned
  /\ claims[id][topic] \notin revoked

\* The token's view of a wallet.
IsVerified(w) ==
  /\ registry[w] # None /\ trusted
  /\ \A t \in Topics : Live(registry[w], t)

\* Every variable has its type.
TypeOK ==
  /\ kyc \in BOOLEAN /\ accredited \in BOOLEAN /\ trusted \in BOOLEAN /\ failed \in BOOLEAN
  /\ onchainid \in [Rows -> Wallets \cup {None, Gone}]
  /\ verified \in [Rows -> BOOLEAN]
  /\ factory \in SUBSET Wallets /\ salts \in SUBSET Wallets /\ proven \in SUBSET Wallets
  /\ signed \in Seq([id : Wallets, topic : Topics]) /\ Len(signed) <= MaxSigned
  /\ claims \in [Wallets -> [Topics -> Signatures \cup {Unsigned}]]
  /\ revoked \in SUBSET Signatures
  /\ registry \in [Wallets -> Wallets \cup {None}]
  /\ pc \in [Procs -> {"idle", "accredited", "stored", "factory", "create", "store", "sign",
                       "claims", "contains", "register", "check", "trust", "again", "save",
                       "reject", "revoke", "submit", "revokeKyc"}]
  /\ wallet \in [Procs -> Wallets \cup {None}]
  /\ identity \in [Procs -> Wallets \cup {None}]
  /\ todo \in [Procs -> SUBSET (Topics \cup Wallets)]
  /\ found \in [Procs -> Nat]
  /\ grants \in 0..MaxGrants /\ late \in SUBSET Signatures

\* A row that is older than the chain may record an identity, and that it was
\* verified, on the one before.
Init ==
  /\ kyc = FALSE /\ accredited = FALSE
  /\ onchainid \in [Rows -> {None, Gone}] /\ verified \in [Rows -> BOOLEAN]
  /\ \A w \in Rows : verified[w] => onchainid[w] = Gone
  /\ proven = {w \in Rows : verified[w]}
  /\ factory = {} /\ salts = {}
  /\ signed = <<>>
  /\ claims = [w \in Wallets |-> [t \in Topics |-> Unsigned]]
  /\ revoked = {}
  /\ registry = [w \in Wallets |-> None]
  /\ trusted \in BOOLEAN
  /\ pc = [p \in Procs |-> "idle"]
  /\ wallet = [p \in Procs |-> None] /\ identity = [p \in Procs |-> None]
  /\ todo = [p \in Procs |-> {}] /\ found = [p \in Procs |-> 0]
  /\ grants = 0 /\ late = {} /\ failed = FALSE

At(p, here) == pc[p] = here
Goto(p, next) == pc' = [pc EXCEPT ![p] = next]
Keep == UNCHANGED <<wallet, identity, todo, found>>

\* The request ends, with an answer or with an error.
Finish(p) ==
  /\ Goto(p, "idle")
  /\ wallet' = [wallet EXCEPT ![p] = None]
  /\ identity' = [identity EXCEPT ![p] = None]
  /\ todo' = [todo EXCEPT ![p] = {}]
  /\ found' = [found EXCEPT ![p] = 0]

Continue(p, next) == Goto(p, next) /\ Keep

-----------------------------------------------------------------------------
(* prepare *)

\* Under the fault "linkedFirst" a linked wallet may be the first to come.
Prepare(p, w) ==
  /\ At(p, "idle") /\ kyc
  /\ "linkedFirst" \in Faults \/ Primary[w] = w \/ onchainid[Primary[w]] \in Wallets
  /\ wallet' = [wallet EXCEPT ![p] = w]
  /\ Goto(p, "accredited")
  /\ UNCHANGED <<chain, person, signed, identity, todo, found, grants, late, failed, proven>>

\* ACCREDITATION_REQUIRED otherwise.
CheckAccredited(p) ==
  /\ At(p, "accredited")
  /\ IF accredited THEN Continue(p, "stored") ELSE Finish(p)
  /\ UNCHANGED <<chain, person, signed, grants, late, failed, proven>>

Sign(p, id) ==
  /\ identity' = [identity EXCEPT ![p] = id]
  /\ todo' = [todo EXCEPT ![p] = Topics]
  /\ Goto(p, "sign") /\ UNCHANGED <<wallet, found>>

\* ensureIdentity: an identity that is recorded, and has code, is used whoever asks.
ReadStored(p) ==
  /\ At(p, "stored")
  /\ LET id == onchainid[Primary[wallet[p]]] IN
     IF id \in Wallets THEN Sign(p, id) ELSE Continue(p, "factory")
  /\ UNCHANGED <<chain, person, signed, grants, late, failed, proven>>

\* An identity that the factory knows, after a crash, is adopted.
GetIdentity(p) ==
  /\ At(p, "factory")
  /\ Continue(p, IF wallet[p] \in factory THEN "store" ELSE "create")
  /\ UNCHANGED <<chain, person, signed, grants, late, failed, proven>>

\* Mutant: the salt is the wallet's own.
SaltOfWallet(w) == w

\* The salt is made from the primary wallet.
Salt(w) == Primary[w]

\* The factory refuses a wallet that has an identity, and a salt it has seen.
CreateIdentity(p) ==
  /\ At(p, "create")
  /\ LET w == wallet[p] IN
     IF w \in factory \/ Salt(w) \in salts
     THEN Finish(p) /\ UNCHANGED <<factory, salts>>
     ELSE factory' = factory \cup {w} /\ salts' = salts \cup {Salt(w)} /\ Continue(p, "store")
  /\ UNCHANGED <<claims, revoked, registry, trusted, person, signed, grants, late, failed, proven>>

CreateFails(p) ==
  /\ "rpc" \in Faults /\ At(p, "create")
  /\ Finish(p)
  /\ UNCHANGED <<chain, person, signed, grants, late, failed, proven>>

\* The process dies after the identity is created and before it is recorded.
Crash(p) ==
  /\ "created" \in CrashPoints /\ At(p, "store")
  /\ Finish(p)
  /\ UNCHANGED <<chain, person, signed, grants, late, failed, proven>>

SetOnchainId(p) ==
  /\ At(p, "store")
  /\ onchainid' = [onchainid EXCEPT ![Primary[wallet[p]]] = wallet[p]]
  /\ Sign(p, wallet[p])
  /\ UNCHANGED <<chain, kyc, accredited, verified, signed, grants, late, failed, proven>>

\* hasLiveClaim: attached and not revoked.
HasLiveClaim(id, t) == Live(id, t)

\* A topic that has no live claim is signed; the payload goes to the investor.
SignClaim(p, t) ==
  /\ At(p, "sign") /\ t \in todo[p]
  /\ IF HasLiveClaim(identity[p], t) THEN UNCHANGED signed
     ELSE Len(signed) < MaxSigned /\ signed' = Append(signed, [id |-> identity[p], topic |-> t])
  /\ IF todo[p] = {t} THEN Finish(p)
     ELSE todo' = [todo EXCEPT ![p] = @ \ {t}] /\ UNCHANGED <<pc, wallet, identity, found>>
  /\ UNCHANGED <<chain, person, grants, late, failed, proven>>

\* The investor submits a payload, when and if they like: neither the server nor the
\* identity asks whether the person is still accredited.
AddClaim(s) ==
  /\ s <= Len(signed) /\ s \notin revoked
  /\ claims[signed[s].id][signed[s].topic] # s
  /\ claims' = [claims EXCEPT ![signed[s].id][signed[s].topic] = s]
  /\ late' = IF accredited THEN late ELSE late \cup {s}
  /\ UNCHANGED <<factory, salts, revoked, registry, trusted, person, signed, local, grants, failed, proven>>

-----------------------------------------------------------------------------
(* confirm *)

\* NO_IDENTITY otherwise.
Confirm(p, w) ==
  /\ At(p, "idle")
  /\ onchainid[Primary[w]] \in Wallets
  /\ wallet' = [wallet EXCEPT ![p] = w]
  /\ identity' = [identity EXCEPT ![p] = onchainid[Primary[w]]]
  /\ todo' = [todo EXCEPT ![p] = Topics]
  /\ Goto(p, "claims")
  /\ UNCHANGED <<chain, person, signed, found, grants, late, failed, proven>>

\* CLAIMS_NOT_SUBMITTED where one is missing.
CheckClaim(p, t) ==
  /\ At(p, "claims") /\ t \in todo[p]
  /\ IF ~HasLiveClaim(identity[p], t) THEN Finish(p)
     ELSE /\ todo' = [todo EXCEPT ![p] = @ \ {t}]
          /\ IF todo[p] = {t} THEN Goto(p, "contains") ELSE UNCHANGED pc
          /\ UNCHANGED <<wallet, identity, found>>
  /\ UNCHANGED <<chain, person, signed, grants, late, failed, proven>>

Contains(p) ==
  /\ At(p, "contains")
  /\ Continue(p, IF registry[wallet[p]] # None THEN "check" ELSE "register")
  /\ UNCHANGED <<chain, person, signed, grants, late, failed, proven>>

\* Mutant: the wallet that asks is taken for the identity.
OwnIdentity(p) == wallet[p]

RegisteredAs(p) == identity[p]

\* The registry refuses a wallet that another request has registered meanwhile.
RegisterIdentity(p) ==
  /\ At(p, "register")
  /\ IF registry[wallet[p]] # None THEN Finish(p) /\ UNCHANGED registry
     ELSE /\ registry' = [registry EXCEPT ![wallet[p]] = RegisteredAs(p)]
          /\ Continue(p, "check")
  /\ UNCHANGED <<factory, salts, claims, revoked, trusted, person, signed, grants, late, failed, proven>>

Check(p) ==
  /\ At(p, "check")
  /\ Continue(p, IF IsVerified(wallet[p]) THEN "again" ELSE "trust")
  /\ UNCHANGED <<chain, person, signed, grants, late, failed, proven>>

\* A token deployed before the claim issuer was set is taught to trust it, unless its
\* registry is not the deployer's, CLAIM_ISSUER_NOT_TRUSTED, or the call fails.
EnsureTrusted(p) ==
  /\ At(p, "trust")
  /\ \/ trusted' = TRUE /\ Continue(p, "again")
     \/ ~trusted /\ UNCHANGED trusted /\ Finish(p)
  /\ UNCHANGED <<factory, salts, claims, revoked, registry, person, signed, grants, late, failed, proven>>

CheckAgain(p) ==
  /\ At(p, "again")
  /\ found' = [found EXCEPT ![p] = IF IsVerified(wallet[p]) THEN 1 ELSE 0]
  /\ proven' = IF IsVerified(wallet[p]) THEN proven \cup {Primary[wallet[p]]} ELSE proven
  /\ Goto(p, "save")
  /\ UNCHANGED <<chain, person, signed, wallet, identity, todo, grants, late, failed>>

\* Mutant: what is registered counts as verified.
Assumed(p) == TRUE

Seen(p) == found[p] = 1

\* Written for the primary wallet; NOT_VERIFIED_ON_CHAIN follows a FALSE.
SetVerified(p) ==
  /\ At(p, "save")
  /\ verified' = [verified EXCEPT ![Primary[wallet[p]]] = Seen(p)]
  /\ Finish(p)
  /\ UNCHANGED <<chain, kyc, accredited, onchainid, signed, grants, late, failed, proven>>

-----------------------------------------------------------------------------
(* The platform: the verification, and AccreditationService.decide *)

Approve ==
  /\ ~kyc /\ kyc' = TRUE
  /\ UNCHANGED <<chain, accredited, onchainid, verified, signed, local, grants, late, failed, proven>>

Grant ==
  /\ kyc /\ ~accredited /\ grants < MaxGrants
  /\ accredited' = TRUE /\ grants' = grants + 1
  /\ UNCHANGED <<chain, kyc, onchainid, verified, signed, local, late, failed, proven>>

\* The decision is recorded first, whatever the chain will say; it may be taken again.
Reject(p) ==
  /\ At(p, "idle")
  /\ accredited' = FALSE /\ late' = {} /\ failed' = FALSE
  /\ todo' = [todo EXCEPT ![p] = Rows]
  /\ Goto(p, "revoke")
  /\ UNCHANGED <<chain, kyc, onchainid, verified, signed, wallet, identity, found, grants, proven>>

\* revokeOnChain: the identity is the one the factory knows for the wallet of a
\* row; a wallet without one, or without a live signature, is passed over.
FindSignature(p, w) ==
  /\ At(p, "revoke") /\ w \in todo[p]
  /\ todo' = [todo EXCEPT ![p] = @ \ {w}]
  /\ LET s == IF w \in factory THEN claims[w]["ACCREDITED"] ELSE Unsigned IN
     IF s # Unsigned /\ s \notin revoked
     THEN found' = [found EXCEPT ![p] = s] /\ Goto(p, "submit")
     ELSE UNCHANGED <<found, pc>>
  /\ UNCHANGED <<chain, person, signed, wallet, identity, grants, late, failed, proven>>

\* Mutant: the outcome of the transaction is not waited for, and it is lost.
ForgetRevoke(p) == UNCHANGED revoked

SubmitRevoke(p) == revoked' = revoked \cup {found[p]}

Revoke(p) ==
  /\ At(p, "submit") /\ found[p] \notin revoked
  /\ SubmitRevoke(p)
  /\ Goto(p, "revoke")
  /\ UNCHANGED <<factory, salts, claims, registry, trusted, person, signed, wallet, identity, todo, found, grants, late, failed, proven>>

\* A failure is noted and the loop goes on.  The issuer refuses to revoke a signature
\* twice: another request may have been first.
RevokeFails(p) ==
  /\ At(p, "submit") /\ ("rpc" \in Faults \/ found[p] \in revoked)
  /\ failed' = TRUE
  /\ Goto(p, "revoke")
  /\ UNCHANGED <<chain, person, signed, wallet, identity, todo, found, grants, late, proven>>

Revoked(p) ==
  /\ At(p, "revoke") /\ todo[p] = {}
  /\ Finish(p)
  /\ UNCHANGED <<chain, person, signed, grants, late, failed, proven>>

-----------------------------------------------------------------------------
(* TokenOperationsService.revokeKyc: of one identity, with no row written. *)

\* NO_CLAIM where nothing is attached; whether it was revoked is not asked.
RevokeKyc(p, w) ==
  /\ At(p, "idle") /\ w \in factory
  /\ claims[w]["KYC"] # Unsigned
  /\ found' = [found EXCEPT ![p] = claims[w]["KYC"]]
  /\ Goto(p, "revokeKyc")
  /\ UNCHANGED <<chain, person, signed, wallet, identity, todo, grants, late, failed, proven>>

\* The issuer refuses to revoke a signature twice.
SubmitRevokeKyc(p) ==
  /\ At(p, "revokeKyc")
  /\ \/ SubmitRevoke(p)
     \/ "rpc" \in Faults /\ UNCHANGED revoked
  /\ Finish(p)
  /\ UNCHANGED <<factory, salts, claims, registry, trusted, person, signed, grants, late, failed, proven>>

-----------------------------------------------------------------------------
Advance(p) ==
  \/ CheckAccredited(p) \/ ReadStored(p) \/ GetIdentity(p) \/ CreateIdentity(p)
  \/ CreateFails(p) \/ SetOnchainId(p) \/ Crash(p)
  \/ \E t \in Topics : SignClaim(p, t) \/ CheckClaim(p, t)
  \/ Contains(p) \/ RegisterIdentity(p) \/ Check(p) \/ EnsureTrusted(p) \/ CheckAgain(p)
  \/ SetVerified(p)
  \/ \E w \in Rows : FindSignature(p, w)
  \/ Revoke(p) \/ RevokeFails(p) \/ Revoked(p) \/ SubmitRevokeKyc(p)

Onboard(p) == \E w \in Wallets : Prepare(p, w) \/ Confirm(p, w)

Accredit(p) == Grant \/ Reject(p)

Next ==
  \/ Approve
  \/ \E p \in Procs : Onboard(p) \/ Accredit(p) \/ Advance(p) \/ \E w \in Wallets : RevokeKyc(p, w)
  \/ \E s \in Signatures : AddClaim(s)

Spec == Init /\ [][Next]_vars

-----------------------------------------------------------------------------
(* Properties. *)

\* Concurrent preparations of a person's wallets, and one that died half way,
\* leave the person with one identity.
OneIdentity == \A v, w \in factory : Primary[v] = Primary[w] => v = w

\* A wallet is registered under the identity that its person's row records,
\* whichever of the person's wallets asked and whoever asked at the same time.
RegisteredIsRecorded ==
  \A w \in Wallets : registry[w] # None => registry[w] = onchainid[Primary[w]]

\* The row says verified only where the registry has said so.
VerifiedWasProven == \A w \in Rows : verified[w] => w \in proven

Rejecting == \E p \in Procs : pc[p] \in {"revoke", "submit"}

\* What a rejection that reported no failure leaves alive on one of the identities.
LeavesNone(ids) ==
  (~accredited /\ ~Rejecting /\ ~failed) =>
    \A id \in ids : Live(id, "ACCREDITED") => claims[id]["ACCREDITED"] \in late

\* A rejection that reports no failure has revoked whatever was attached when it was
\* recorded to an identity that was created for a wallet with a row, and a rejection
\* that is run again what was attached since.  A payload that was signed before and is
\* attached after the last of them stays alive: nothing revokes it.
RevocationReaches == LeavesNone(factory \cap Rows)

\* The comment at revokeOnChain: every wallet the person controls; an identity
\* that was created for a linked wallet counts as well.
RevokesEveryWallet == LeavesNone(factory)

\* The factory, the registry and the rows agree about who a person is on the
\* chain, wherever a request dies and whoever else is at it.
IdentitiesAgree == OneIdentity /\ RegisteredIsRecorded /\ VerifiedWasProven
=============================================================================
