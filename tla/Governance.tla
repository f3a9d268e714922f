----------------------------- MODULE Governance -----------------------------
(***************************************************************************)
(* The holders of an asset vote on who manages it: proposals, votes that   *)
(* weigh what their wallets hold on the chain, and the close of a vote     *)
(* that installs the manager it names.                                     *)
(*                                                                         *)
(* A process is one HTTP call; time is the event that a vote ends.         *)
(***************************************************************************)
EXTENDS Integers, FiniteSets

CONSTANTS
  Proposals,
  Managers, NoManager,
  Names,       \* Names[v]: the manager that proposal v names
  Wallets,
  Persons, NoPerson,
  Owner,       \* Owner[w]: the person w is linked to
  Issued,      \* Issued[w]: what w holds at first
  Procs,
  Faults,
  CrashPoints, \* the calls a process may die before
  MaxTrades    \* bound: transfers between holders

Nobody == [choice |-> "none", weight |-> 0]
Votes == [choice : {"for", "against"}, weight : Nat]
Statuses == {"none", "open", "passed", "rejected"}
ClosePcs == {"tally", "close", "install"}
Pcs == ClosePcs \cup {"idle", "weigh", "vote"}
NoCall == [person |-> NoPerson, proposal |-> 0, choice |-> "none", todo |-> {}, weight |-> 0,
           passed |-> FALSE]

VARIABLES
  status,   \* manager_proposals.status; "none" where there is no row
  ended,    \* the proposals whose closes_at has passed
  votes,    \* manager_votes, by proposal and person
  manager,  \* offerings.manager_id
  balance,  \* what a wallet holds on the chain
  trades,
  installs, \* how often the outcome of a proposal was applied
  pc, call  \* a process's next step and its locals

rowVars == <<status, ended, votes>>
chainVars == <<balance, trades>>
vars == <<rowVars, manager, chainVars, installs, pc, call>>

\* Every variable has its type.
TypeOK ==
  /\ status \in [Proposals -> Statuses]
  /\ ended \in SUBSET Proposals
  /\ votes \in [Proposals -> [Persons -> Votes \cup {Nobody}]]
  /\ manager \in Managers \cup {NoManager}
  /\ balance \in [Wallets -> Nat] /\ trades \in 0..MaxTrades
  /\ installs \in [Proposals -> Nat]
  /\ pc \in [Procs -> Pcs]
  /\ \A p \in Procs : call[p].todo \subseteq Wallets /\ call[p].weight \in Nat

Init ==
  /\ status = [v \in Proposals |-> "none"] /\ ended = {}
  /\ votes = [v \in Proposals |-> [x \in Persons |-> Nobody]]
  /\ manager = NoManager
  /\ balance = Issued /\ trades = 0
  /\ installs = [v \in Proposals |-> 0]
  /\ pc = [p \in Procs |-> "idle"] /\ call = [p \in Procs |-> NoCall]

At(p, here) == pc[p] = here
Goto(p, next) == pc' = [pc EXCEPT ![p] = next]
Finish(p) == Goto(p, "idle") /\ call' = [call EXCEPT ![p] = NoCall]
Fault(f) == f \in Faults

-----------------------------------------------------------------------------
(* proposeManager: whether the manager is active is asked of Staff. *)

ProposeManager(v) ==
  /\ status[v] = "none"
  /\ status' = [status EXCEPT ![v] = "open"]
  /\ UNCHANGED <<ended, votes, manager, chainVars, installs, pc, call>>

-----------------------------------------------------------------------------
(* vote *)

Vote(p, x, v, c) ==
  /\ At(p, "idle")
  /\ status[v] = "open" /\ v \notin ended
  /\ call' = [call EXCEPT ![p] = [NoCall EXCEPT !.person = x, !.proposal = v, !.choice = c,
                                    !.todo = {w \in Wallets : Owner[w] = x}]]
  /\ Goto(p, "weigh")
  /\ UNCHANGED <<rowVars, manager, chainVars, installs>>

\* Mutant: the connected wallet is counted by itself and in the list.
WeighTwice(p) ==
  /\ At(p, "weigh")
  /\ \E w \in call[p].todo :
       call' = [call EXCEPT ![p].todo = @ \ {w},
                  ![p].weight = IF @ = 0 THEN 2 * balance[w] ELSE @ + balance[w]]
  /\ IF call'[p].todo = {} THEN Goto(p, "vote") ELSE UNCHANGED pc
  /\ UNCHANGED <<rowVars, manager, chainVars, installs>>

\* voteWeight asks the chain wallet by wallet.
Weigh(p) ==
  /\ At(p, "weigh")
  /\ \E w \in call[p].todo :
       call' = [call EXCEPT ![p].todo = @ \ {w}, ![p].weight = @ + balance[w]]
  /\ IF call'[p].todo = {} THEN Goto(p, "vote") ELSE UNCHANGED pc
  /\ UNCHANGED <<rowVars, manager, chainVars, installs>>

\* The row is keyed by proposal and person: a vote replaces the one before.
UpsertVote(c) ==
  votes' = [votes EXCEPT ![c.proposal][c.person] = [choice |-> c.choice, weight |-> c.weight]]

\* Who holds nothing is refused.  Nobody asks again whether the vote is open.
WriteVote(p) ==
  /\ At(p, "vote")
  /\ \/ call[p].weight = 0 /\ UNCHANGED votes
     \/ call[p].weight > 0 /\ UpsertVote(call[p])
  /\ Finish(p)
  /\ UNCHANGED <<status, ended, manager, chainVars, installs>>

-----------------------------------------------------------------------------
(* closeProposal *)

\* What a choice weighs: its tokens, told apart, are counted.
Voters(v, c) == {x \in Persons : votes[v][x].choice = c}
Sum(v, c) == Cardinality(UNION {{x} \X (1..votes[v][x].weight) : x \in Voters(v, c)})

Carried(v) == Sum(v, "for") > Sum(v, "against")

\* Mutant: a vote may be closed before its time.
CloseEarly(p, v) ==
  /\ At(p, "idle")
  /\ status[v] = "open"
  /\ call' = [call EXCEPT ![p].proposal = v]
  /\ Goto(p, "tally")
  /\ UNCHANGED <<rowVars, manager, chainVars, installs>>

CloseProposal(p, v) ==
  /\ At(p, "idle")
  /\ status[v] = "open" /\ v \in ended
  /\ call' = [call EXCEPT ![p].proposal = v]
  /\ Goto(p, "tally")
  /\ UNCHANGED <<rowVars, manager, chainVars, installs>>

\* A vote that began in time is written before the tally, unless it is slow.
Tally(p) ==
  LET v == call[p].proposal IN
  /\ At(p, "tally")
  /\ Fault("slowVote") \/ \A q \in Procs : At(q, "weigh") \/ At(q, "vote") => call[q].proposal # v
  /\ call' = [call EXCEPT ![p].passed = Carried(v)]
  /\ Goto(p, "close")
  /\ UNCHANGED <<rowVars, manager, chainVars, installs>>

\* Mutant: the close does not look at the status.
CloseAnyway(p) ==
  LET v == call[p].proposal IN
  /\ At(p, "close")
  /\ status' = [status EXCEPT ![v] = IF call[p].passed THEN "passed" ELSE "rejected"]
  /\ IF call[p].passed THEN Goto(p, "install") /\ UNCHANGED call ELSE Finish(p)
  /\ UNCHANGED <<ended, votes, manager, chainVars, installs>>

\* The claim on the status admits one of several closes.
WriteClose(p) ==
  LET v == call[p].proposal IN
  /\ At(p, "close")
  /\ \/ status[v] # "open" /\ Finish(p) /\ UNCHANGED status
     \/ /\ status[v] = "open"
        /\ status' = [status EXCEPT ![v] = IF call[p].passed THEN "passed" ELSE "rejected"]
        /\ IF call[p].passed THEN Goto(p, "install") /\ UNCHANGED call ELSE Finish(p)
  /\ UNCHANGED <<ended, votes, manager, chainVars, installs>>

\* Mutant: the outcome is recorded and nobody is installed.
InstallNobody(p) ==
  /\ At(p, "install")
  /\ Finish(p)
  /\ UNCHANGED <<rowVars, manager, chainVars, installs>>

Install(p) ==
  LET v == call[p].proposal IN
  /\ At(p, "install")
  /\ manager' = Names[v]
  /\ installs' = [installs EXCEPT ![v] = @ + 1]
  /\ Finish(p)
  /\ UNCHANGED <<rowVars, chainVars>>

\* The issuer appoints or removes a manager without a vote, also during one.
AssignManager(m) ==
  /\ manager # m
  /\ manager' = m
  /\ UNCHANGED <<rowVars, chainVars, installs, pc, call>>

-----------------------------------------------------------------------------
(* Elsewhere: time, the chain, deaths. *)

VoteEnds(v) ==
  /\ status[v] = "open" /\ v \notin ended
  /\ ended' = ended \cup {v}
  /\ UNCHANGED <<status, votes, manager, chainVars, installs, pc, call>>

\* A token moves; not while a voter is being weighed, unless that is admitted.
Trade(v, w) ==
  /\ trades < MaxTrades /\ balance[v] > 0 /\ v # w
  /\ Fault("midTrade") \/ \A p \in Procs : ~At(p, "weigh")
  /\ balance' = [balance EXCEPT ![v] = @ - 1, ![w] = @ + 1]
  /\ trades' = trades + 1
  /\ UNCHANGED <<rowVars, manager, installs, pc, call>>

Crash(p) ==
  /\ pc[p] \in CrashPoints
  /\ Finish(p)
  /\ UNCHANGED <<rowVars, manager, chainVars, installs>>

-----------------------------------------------------------------------------
Advance(p) ==
  \/ Weigh(p) \/ WriteVote(p)
  \/ Tally(p) \/ WriteClose(p) \/ Install(p)

Call(p) ==
  \/ \E x \in Persons, v \in Proposals, c \in {"for", "against"} : Vote(p, x, v, c)
  \/ \E v \in Proposals : CloseProposal(p, v)

Elsewhere ==
  \/ \E v \in Proposals : ProposeManager(v) \/ VoteEnds(v)
  \/ \E m \in Managers \cup {NoManager} : AssignManager(m)
  \/ \E v, w \in Wallets : Trade(v, w)

Next == (\E p \in Procs : Advance(p) \/ Call(p) \/ Crash(p)) \/ Elsewhere

Spec == Init /\ [][Next]_vars

\* A call that was begun is answered.
Fairness == \A p \in Procs : WF_vars(Advance(p))
LiveSpec == Spec /\ Fairness

-----------------------------------------------------------------------------
(* Properties. *)

\* However many admins close a vote at once, its outcome is applied at most
\* once, and only if it passed.
AppliedOnce ==
  \A v \in Proposals : installs[v] <= IF status[v] = "passed" THEN 1 ELSE 0

\* The recorded outcome is what the recorded votes say, to the tie.
OutcomeIsTally ==
  \A v \in Proposals : status[v] \in {"passed", "rejected"} =>
    (status[v] = "passed" <=> Carried(v))

Supply == Cardinality(UNION {{w} \X (1..Issued[w]) : w \in Wallets})

\* Nobody's vote weighs more than all tokens there are, over revisions and
\* trades between them, as long as no token moves while its voter is weighed.
WeightExists ==
  \A v \in Proposals, x \in Persons : votes[v][x].weight <= Supply

\* A proposal that passed gets its manager installed.
PassedIsApplied ==
  \A v \in Proposals : status[v] = "passed" ~> installs[v] > 0

\* However votes, closes and trades overlap, the outcome of a vote is what its
\* votes say, none of which weighs more than there is, and is applied once.
VoteCounts == AppliedOnce /\ OutcomeIsTally /\ WeightExists
=============================================================================
