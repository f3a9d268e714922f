---------------------------- MODULE Verification ----------------------------
(***************************************************************************)
(* The verification of one person: the person submits, a reviewer or the   *)
(* provider decides, an approval lets the person connect a wallet, and     *)
(* each issuer decides whether to rely on the verification.                *)
(*                                                                         *)
(* A process is one request. What it read stays in "seen" while it awaits  *)
(* the database, and no statement looks again.                             *)
(***************************************************************************)
EXTENDS Integers, FiniteSets

CONSTANTS
  Procs,
  Issuers,
  Events,      \* ids of the provider's messages
  Verdict,     \* what each message says: "completed" or "rejected"
  NoEvent,
  CrashPoints, \* subset of {"claimed"}: where the process may die
  MaxSubmits,  \* bound: submissions
  MaxDecisions \* bound: decisions of reviewers that are started

Statuses == {"none", "applied", "verifying", "completed", "rejected"}
ReviewStatuses == {"applied", "verifying"}
Decided == {"completed", "rejected"}

VARIABLES
  kyc,        \* accounts.kyc_status
  version,    \* accounts.kyc_version
  mirror,     \* investors.kyc_status of the wallet; "none" where there is no row
  linked,     \* the wallet's row belongs to the person
  acceptance, \* issuer_investor_acceptance; status "none" where there is no row
  claimed,    \* webhook_events
  pc,
  op,         \* what the request is for: a status to write, an issuer, ...
  seen,       \* the status the request has read
  pinned,     \* the version an issuer's request has read, 0 before
  event,
  submits, decisions, \* counters of the bounds
  read,       \* history: the version an acceptance has read, for each issuer
  applied,    \* history: how often each message was applied
  overlapped, \* history: a status was written over one the writer had not read
  episodes    \* history: times the person became verified

record == <<kyc, version, mirror, linked>>
local == <<pc, op, seen, pinned, event>>
history == <<read, applied, overlapped, episodes>>
vars == <<record, acceptance, claimed, local, submits, decisions, history>>

NoAcceptance == [status |-> "none", version |-> 0]
Answers == {"accepted", "rejected", "pending_review"}
Ops == Statuses \cup Issuers \cup Answers \cup {"link"}

\* Every variable has its type.
TypeOK ==
  /\ kyc \in Statuses /\ mirror \in Statuses
  /\ version \in 1..(1 + MaxDecisions + Cardinality(Events))
  /\ linked \in BOOLEAN
  /\ acceptance \in [Issuers -> [status : Answers, version : Nat] \cup {NoAcceptance}]
  /\ claimed \in SUBSET Events
  /\ pc \in [Procs -> {"idle", "submit", "decide", "claim", "match", "attach", "insert", "pin", "save"}]
  /\ op \in [Procs -> Ops]
  /\ seen \in [Procs -> Statuses] /\ pinned \in [Procs -> Nat]
  /\ event \in [Procs -> Events \cup {NoEvent}]
  /\ submits \in 0..MaxSubmits /\ decisions \in 0..MaxDecisions
  /\ read \in [Issuers -> Nat] /\ applied \in [Events -> Nat]
  /\ overlapped \in BOOLEAN /\ episodes \in Nat

Init ==
  /\ kyc = "none" /\ version = 1 /\ mirror = "none" /\ linked = FALSE
  /\ acceptance = [i \in Issuers |-> NoAcceptance]
  /\ claimed = {}
  /\ pc = [p \in Procs |-> "idle"]
  /\ op = [p \in Procs |-> "none"]
  /\ seen = [p \in Procs |-> "none"] /\ pinned = [p \in Procs |-> 0]
  /\ event = [p \in Procs |-> NoEvent]
  /\ submits = 0 /\ decisions = 0
  /\ read = [i \in Issuers |-> 0] /\ applied = [e \in Events |-> 0]
  /\ overlapped = FALSE /\ episodes = 0

At(p, here) == pc[p] = here

Goto(p, next, what, saw) ==
  /\ pc' = [pc EXCEPT ![p] = next]
  /\ op' = [op EXCEPT ![p] = what]
  /\ seen' = [seen EXCEPT ![p] = saw]

Finish(p) ==
  /\ Goto(p, "idle", "none", "none")
  /\ pinned' = [pinned EXCEPT ![p] = 0]
  /\ event' = [event EXCEPT ![p] = NoEvent]

\* A write that follows a read of another status than it replaces.
Note(p) == overlapped' = (overlapped \/ seen[p] # kyc)

-----------------------------------------------------------------------------
(* The person: submitKyc *)

\* KYC_ALREADY_APPROVED and KYC_UNDER_REVIEW end the request.
Submit(p) ==
  /\ At(p, "idle") /\ submits < MaxSubmits
  /\ kyc \notin ReviewStatuses \cup {"completed"}
  /\ submits' = submits + 1
  /\ Goto(p, "submit", "applied", kyc)
  /\ UNCHANGED <<record, acceptance, claimed, pinned, event, decisions, history>>

\* Mutant: the rows of the wallets keep what they said.
PersonOnly(status) == kyc' = status /\ UNCHANGED mirror

\* One transaction: the person, and every row of theirs for the old readers.
Mirrored(status) ==
  /\ kyc' = status
  /\ mirror' = IF linked THEN status ELSE mirror

WriteSubmission(p) ==
  /\ At(p, "submit")
  /\ Mirrored("applied")
  /\ Note(p)
  /\ Finish(p)
  /\ UNCHANGED <<version, linked, acceptance, claimed, submits, decisions, read, applied, episodes>>

-----------------------------------------------------------------------------
(* The reviewer: startVerifying, decide *)

\* Mutant: the status has a name that nothing else knows.
StartReview(p) ==
  /\ At(p, "idle") /\ decisions < MaxDecisions
  /\ kyc \in ReviewStatuses
  /\ decisions' = decisions + 1
  /\ Goto(p, "decide", "in_review", kyc)
  /\ UNCHANGED <<record, acceptance, claimed, pinned, event, submits, history>>

StartVerifying(p) ==
  /\ At(p, "idle") /\ decisions < MaxDecisions
  /\ kyc \in ReviewStatuses
  /\ decisions' = decisions + 1
  /\ Goto(p, "decide", "verifying", kyc)
  /\ UNCHANGED <<record, acceptance, claimed, pinned, event, submits, history>>

\* Mutant: a second approval is a decision too.
NeverTold(status) == FALSE

\* The decision is already there: nothing is written, the version stays.
AlreadyTold(status) == kyc = status

Decide(p, status) ==
  /\ At(p, "idle") /\ decisions < MaxDecisions
  /\ ~AlreadyTold(status)
  /\ decisions' = decisions + 1
  /\ Goto(p, "decide", status, kyc)
  /\ UNCHANGED <<record, acceptance, claimed, pinned, event, submits, history>>

\* An approval, and nothing else, is a new version for every issuer to confirm.
Bump(status) == version' = IF status = "completed" THEN version + 1 ELSE version

WriteDecision(p) ==
  /\ At(p, "decide")
  /\ Mirrored(op[p])
  /\ Bump(op[p])
  /\ Note(p)
  /\ episodes' = episodes + (IF op[p] = "completed" /\ kyc # "completed" THEN 1 ELSE 0)
  /\ applied' = IF event[p] = NoEvent THEN applied
                ELSE [applied EXCEPT ![event[p]] = @ + 1]
  /\ Finish(p)
  /\ UNCHANGED <<linked, acceptance, claimed, submits, decisions, read>>

-----------------------------------------------------------------------------
(* The provider: a signed message, delivered any number of times *)

Receive(p, e) ==
  /\ At(p, "idle")
  /\ Goto(p, "claim", "none", "none")
  /\ event' = [event EXCEPT ![p] = e]
  /\ UNCHANGED <<record, acceptance, claimed, pinned, submits, decisions, history>>

\* Mutant: whether the message is new is not asked.
FreshAnyway(e) == TRUE

Fresh(e) == e \notin claimed

\* INSERT ... ON CONFLICT DO NOTHING: one delivery wins the id.
ClaimEvent(p) ==
  /\ At(p, "claim")
  /\ IF Fresh(event[p])
     THEN Goto(p, "match", "none", "none") /\ claimed' = claimed \cup {event[p]} /\ UNCHANGED <<pinned, event>>
     ELSE Finish(p) /\ UNCHANGED claimed
  /\ UNCHANGED <<record, acceptance, submits, decisions, history>>

\* The reference leads to the person through the row of a wallet; without one
\* the message is recorded and nothing else happens.
ApplyProviderDecision(p) ==
  /\ At(p, "match")
  /\ LET status == Verdict[event[p]] IN
     IF linked /\ ~AlreadyTold(status)
     THEN Goto(p, "decide", status, kyc) /\ UNCHANGED <<pinned, event>>
     ELSE Finish(p)
  /\ UNCHANGED <<record, acceptance, claimed, submits, decisions, history>>

\* The process dies between the claim and the decision.
Crash(p) ==
  /\ "claimed" \in CrashPoints /\ At(p, "match")
  /\ Finish(p)
  /\ UNCHANGED <<record, acceptance, claimed, submits, decisions, history>>

-----------------------------------------------------------------------------
(* The wallet: connectWallet, and the one transaction of linkWallet *)

\* Mutant: a submission is enough to connect a wallet.
MayConnectEarly == kyc # "none"

\* KYC_NOT_APPROVED otherwise.
MayConnect == kyc = "completed"

ConnectWallet(p) ==
  /\ At(p, "idle") /\ ~linked
  /\ MayConnect
  /\ Goto(p, "attach", "link", kyc)
  /\ UNCHANGED <<record, acceptance, claimed, pinned, event, submits, decisions, history>>

\* SELECT the row of the wallet and the account: no lock is taken.
ReadAccount(p) ==
  /\ At(p, "attach")
  /\ Goto(p, "insert", "link", kyc)
  /\ UNCHANGED <<record, acceptance, claimed, pinned, event, submits, decisions, history>>

\* The row takes the status that was read.
InsertWallet(p) ==
  /\ At(p, "insert")
  /\ IF linked THEN UNCHANGED <<mirror, linked>> ELSE mirror' = seen[p] /\ linked' = TRUE
  /\ Note(p)
  /\ Finish(p)
  /\ UNCHANGED <<kyc, version, acceptance, claimed, submits, decisions, read, applied, episodes>>

-----------------------------------------------------------------------------
(* The issuer: decideAcceptance *)

\* A wallet with an account, found among the issuer's own investors.
DecideAcceptance(p, i) ==
  /\ At(p, "idle") /\ linked
  /\ Goto(p, "pin", i, "none")
  /\ UNCHANGED <<record, acceptance, claimed, pinned, event, submits, decisions, history>>

ReadVersion(p) ==
  /\ At(p, "pin")
  /\ Goto(p, "save", op[p], "none")
  /\ pinned' = [pinned EXCEPT ![p] = version]
  /\ UNCHANGED <<record, acceptance, claimed, event, submits, decisions, history>>

\* Mutant: the version is the one at the time of the write.
PinLatest(p) == version

\* The acceptance pins the version of the person that the call has read.
Pinned(p) == pinned[p]

UpsertAcceptance(p, answer) ==
  /\ At(p, "save")
  /\ acceptance' = [acceptance EXCEPT ![op[p]] = [status |-> answer, version |-> Pinned(p)]]
  /\ read' = [read EXCEPT ![op[p]] = pinned[p]]
  /\ Finish(p)
  /\ UNCHANGED <<record, claimed, submits, decisions, applied, overlapped, episodes>>

\* acceptanceView: an older version than the person's shows as stale.
Stale(i) == acceptance[i].version < version

-----------------------------------------------------------------------------
Advance(p) ==
  \/ WriteSubmission(p) \/ WriteDecision(p) \/ ClaimEvent(p) \/ ApplyProviderDecision(p)
  \/ ReadAccount(p) \/ InsertWallet(p) \/ ReadVersion(p)
  \/ \E answer \in Answers : UpsertAcceptance(p, answer)

Call(p) ==
  \/ Submit(p) \/ StartVerifying(p) \/ ConnectWallet(p)
  \/ \E status \in Decided : Decide(p, status)
  \/ \E e \in Events : Receive(p, e)
  \/ \E i \in Issuers : DecideAcceptance(p, i)

Next == \E p \in Procs : Call(p) \/ Advance(p) \/ Crash(p)

Spec == Init /\ [][Next]_vars

-----------------------------------------------------------------------------
(* Properties. *)

\* An acceptance that does not show as stale was decided by a call that read the
\* present version: an approval that lands while an issuer decides is seen.
FreshWasRead ==
  \A i \in Issuers :
    (acceptance[i] # NoAcceptance /\ ~Stale(i)) => read[i] = version

\* A verification that is told twice, by the provider and by a reviewer or by
\* the same reviewer again, stales the acceptances once; only two decisions
\* that overlap may do so twice.
OneVersionEach == ~overlapped => version = 1 + episodes

\* The rows of the wallets say what the person's record says, unless two
\* requests overlapped.
MirrorAgrees == (linked /\ ~overlapped) => mirror = kyc

\* However often a message is delivered, and to however many processes, its
\* verdict is applied once at most.
AppliedOnce == \A e \in Events : applied[e] <= 1

\* A wallet is linked only to a person who was verified, though perhaps no more
\* when the row is written.
LinkedWasVerified == linked => version > 1

\* A decision about a person, by a reviewer or by the provider, is taken over
\* once, by the row of the wallet too, and no wallet comes without one.
DecisionsCount == OneVersionEach /\ MirrorAgrees /\ AppliedOnce /\ LinkedWasVerified
=============================================================================
