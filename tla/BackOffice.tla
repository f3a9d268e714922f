------------------------------ MODULE BackOffice ------------------------------
(***************************************************************************)
(* The back office: the approval queue (this module extends it), the       *)
(* staff, the offerings with their tokens, the recovery of wallets, and    *)
(* the nonces of the keys they all sign with.  They share no variable, so  *)
(* each is an instance with its own; what is promised of them together is  *)
(* named here.                                                             *)
(***************************************************************************)
EXTENDS Approvals

CONSTANTS
  TeamAdmins, Spare, Managers, SpvManagers, NoEmail, NoManager, NoSpv,
  TeamProcs, StaffCrashPoints, MaxStaffCalls,                                \* Staff
  Offerings, Issuer, Symbols, NoSymbol, NoIssuer, NoOffering,
  DeployProcs, DeployCrashPoints, MaxDeployCalls,                            \* Deployment
  Cases, Wallets, Owner, Nobody, NoCase, NoWallet,
  CaseProcs, CaseCrashPoints, MaxHeld, MaxRecoveries,                        \* Cases
  Roles, Instances, Home, Senders, SendFaults, MaxSends, None                \* Signer

VARIABLES
  admins, managers, spvStatus, operator, staffPc, request, saw, calls, crossed, made, active, torn,
  kyb, listing, planned, symbol, tokens, suite, paused, deployPc, offering, wanted, opens, tries,
  approved, doubled, removed, refused,
  matter, person, registered, frozen, balance, transfers, casePc, job, amount, recoveries,
  thawed, shared, stuck,
  mined, pool, asked, answer, cache, sendPc, role, ticket, sends

Team == INSTANCE Staff WITH
  Admins <- TeamAdmins, Procs <- TeamProcs,
  CrashPoints <- StaffCrashPoints, MaxCalls <- MaxStaffCalls, pc <- staffPc, req <- request

Deploy == INSTANCE Deployment WITH
  Procs <- DeployProcs, CrashPoints <- DeployCrashPoints, MaxCalls <- MaxDeployCalls,
  status <- listing, pc <- deployPc, calls <- tries

Recovery == INSTANCE Cases WITH
  Procs <- CaseProcs, CrashPoints <- CaseCrashPoints, MaxCalls <- MaxRecoveries,
  status <- matter, pc <- casePc, calls <- recoveries, crossed <- shared, refused <- stuck

Keys == INSTANCE Signer WITH Procs <- Senders, Faults <- SendFaults, pc <- sendPc

-----------------------------------------------------------------------------
(* What the constants of the parts are. *)

\* The markers are no names, and an email is no manager.
StaffAssumed ==
  /\ MaxStaffCalls \in Nat /\ TeamAdmins # {}
  /\ Team!Emails \cap Managers = {} /\ "team" \notin Team!Emails \cup Managers \cup {NoEmail, NoManager}
  /\ NoEmail \notin Team!Emails \cup Managers /\ NoManager \notin Team!Emails \cup Managers
  /\ NoSpv \notin SpvManagers

DeployAssumed == NoSymbol \notin Symbols /\ NoIssuer \notin Deploy!Issuers /\ MaxDeployCalls \in Nat

CasesAssumed == DOMAIN Owner = Wallets /\ NoWallet \notin Wallets /\ MaxRecoveries \in Nat

KeysAssumed ==
  /\ Home \in [Senders -> Instances] /\ IsFiniteSet(Senders)
  /\ MaxSends \in Nat /\ None \notin Roles /\ None \notin Nat

ASSUME BackOfficeAssumption == StaffAssumed /\ DeployAssumed /\ CasesAssumed /\ KeysAssumed

-----------------------------------------------------------------------------
(* The properties of the instances, stated where they are defined. *)

\* Every variable has its type (Approvals, Staff, Deployment, Cases, Signer).
AllTyped == TypeOK /\ Team!TypeOK /\ Deploy!TypeOK /\ Recovery!TypeOK /\ Keys!TypeOK

\* The issuer keeps an admin, logins follow profiles, and managers move in order (Staff).
StaffIsKept == Team!StaffIsKept

\* Listings, tokens and suites agree (Deployment).
ListingsAgree == Deploy!ListingsAgree

\* The comment in offerings.service.ts: a deployment is safe to retry (Deployment).
RetryIsAccepted == Deploy!RetryIsAccepted

\* A recovery submits what stays, for one person, and can be run again (Cases).
RecoveryHolds == Recovery!RecoveryHolds

\* A failed send does not wedge the sends that follow (Signer).
NeverWedged == Keys!NeverWedged
=============================================================================
