-------------------------------- MODULE People --------------------------------
(***************************************************************************)
(* An investor's life: the account (this module extends it), the claims on *)
(* the chain, the screening of wallets, the verification of the person and *)
(* the documents.  They share no variable, so each is an instance with its *)
(* own; what is promised of them together is named here.                   *)
(***************************************************************************)
EXTENDS Account

CONSTANTS
  None, Gone,
  ChainWallets, Primary, ChainFaults, ChainCrashPoints, MaxSigned, MaxGrants,       \* Onboarding
  Persons, ScreenWallets, Home, MaxScreens,                                         \* Screening
  Issuers, Events, Verdict, NoEvent, ReviewCrashPoints, MaxSubmits, MaxDecisions,   \* Verification
  Docs, OldDocs, Unowned, Files, FileFaults, MaxReads                               \* Documents

VARIABLES
  kyc, accredited, onchainid, confirmed, factory, salts, signed, claims, revoked, registry, trusted,
  onboardPc, wallet, identity, todo, found, grants, late, failed, proven,
  holder, link, latest, aml, screenPc, screened, asked, toScreen, worst, screens, fresh, missed, passed,
  kycStatus, version, mirror, linked, acceptance, claimed, reviewPc, op, known, pinned, event,
  submits, decisions, read, applied, overlapped, episodes,
  home, encrypted, disk, sealed, env, booted, filePc, doc, file, sealing, toMove, rowRead, reads,
  audited, unaudited, delivered

Onboard == INSTANCE Onboarding WITH
  Wallets <- ChainWallets, Faults <- ChainFaults, CrashPoints <- ChainCrashPoints,
  verified <- confirmed, pc <- onboardPc

Screens == INSTANCE Screening WITH
  Wallets <- ScreenWallets,
  row <- holder, pc <- screenPc, who <- screened, target <- asked, todo <- toScreen

Reviewed == INSTANCE Verification WITH
  CrashPoints <- ReviewCrashPoints, kyc <- kycStatus, pc <- reviewPc, seen <- known

Papers == INSTANCE Documents WITH
  Legacy <- OldDocs, Faults <- FileFaults, pc <- filePc, todo <- toMove, read <- rowRead

-----------------------------------------------------------------------------
(* What the constants of the parts are. *)

\* Names are no markers, bounds are numbers; a legacy row is about a wallet.
AccountAssumed == MaxCodes \in Nat /\ MaxNonces \in Nat /\ Nobody \notin Emails /\ Legacy \subseteq Wallets

\* The first wallet of a person stands for them in the chain's records.
OnboardAssumed ==
  /\ Primary \in [ChainWallets -> ChainWallets]
  /\ \A w \in ChainWallets : Primary[Primary[w]] = Primary[w]
  /\ None \notin ChainWallets /\ Gone \notin ChainWallets /\ Gone # None
  /\ MaxSigned \in Nat /\ MaxGrants \in Nat

ScreenAssumed == Nobody \notin Persons /\ MaxScreens \in Nat

\* A message of the provider carries a decision.
ReviewAssumed ==
  /\ IsFiniteSet(Procs) /\ IsFiniteSet(Events) /\ NoEvent \notin Events
  /\ Verdict \in [Events -> Reviewed!Decided]
  /\ MaxSubmits \in Nat /\ MaxDecisions \in Nat

\* What stands for no file is not the name of one.
PapersAssumed == "absent" \notin Files /\ "inline" \notin Files /\ IsFiniteSet(Procs)

ASSUME PeopleAssumption ==
  AccountAssumed /\ OnboardAssumed /\ ScreenAssumed /\ ReviewAssumed /\ PapersAssumed

-----------------------------------------------------------------------------
(* The properties of the instances, stated where they are defined. *)

\* Every variable has its type (Account, Onboarding, Screening, Verification, Documents).
AllTyped == TypeOK /\ Onboard!TypeOK /\ Screens!TypeOK /\ Reviewed!TypeOK /\ Papers!TypeOK

\* A person has one identity on the chain, and the records agree with it (Onboarding).
IdentitiesAgree == Onboard!IdentitiesAgree

\* A rejected accreditation leaves alive only what is attached after it (Onboarding).
RevocationReaches == Onboard!RevocationReaches

\* The comment in accreditation.service.ts: every wallet is revoked (Onboarding).
RevokesEveryWallet == Onboard!RevokesEveryWallet

\* A person's status is as bad as the worst screening it was made from, and a linked
\* wallet has passed its own and stays (Screening).
ScreeningCounts == Screens!ScreeningCounts

\* A fresh acceptance has read the present version (Verification).
FreshWasRead == Reviewed!FreshWasRead

\* Decisions on a person count once, in the person's record and in the rows of
\* the wallets (Verification).
DecisionsCount == Reviewed!DecisionsCount

\* A document keeps its bytes, and a reviewer's read its audit row (Documents).
DocumentsAreKept == Papers!DocumentsAreKept
=============================================================================
