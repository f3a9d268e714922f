------------------------------ MODULE Screening ------------------------------
(***************************************************************************)
(* Sanctions screening. A screening is of a wallet and is never changed;   *)
(* the status is of a person, the worst of the latest screenings of the    *)
(* wallets in the person's rows. Two tables say whose a wallet is: a row   *)
(* in investors, made when a person connects the wallet to the account,    *)
(* and one in wallets, made when a wallet is linked to the primary one.    *)
(*                                                                         *)
(* A process is one request; any number of them are for one person at once.*)
(***************************************************************************)
EXTENDS Naturals, FiniteSets

CONSTANTS
  Persons, Wallets,
  Home,      \* the primary wallet of a person
  Nobody, NoWallet,
  Procs,
  MaxScreens \* bound: screenings

Decisions == {"clear", "review", "blocked"}
AmlStatuses == Decisions \cup {"unscreened"}

VARIABLES
  row,     \* investors.account_id of a wallet
  link,    \* the person of wallets.primary_wallet, for a linked wallet
  latest,  \* the decision of the latest row of aml_screenings; "unscreened" if none
  aml,     \* accounts.aml_status
  pc,
  who,     \* the person the request is for
  target,  \* the wallet it wants to link
  todo,    \* the wallets the loop has still to visit
  worst,   \* the status the loop has gathered
  screens, \* counter of the bound
  fresh,   \* history: rows a loop has missed, being screened or made behind it
  missed,  \* history: rows the person's status does not rest on
  passed   \* history: the screening a link rested on

local == <<pc, who, target, todo, worst>>
history == <<fresh, missed>>
vars == <<row, link, latest, aml, local, screens, history, passed>>

\* Every variable has its type.
TypeOK ==
  /\ row \in [Wallets -> Persons \cup {Nobody}]
  /\ link \in [Wallets -> Persons \cup {Nobody}]
  /\ latest \in [Wallets -> AmlStatuses]
  /\ aml \in [Persons -> AmlStatuses]
  /\ pc \in [Procs -> {"idle", "screen", "gather", "set", "try", "unlinked", "stranger", "insert"}]
  /\ who \in [Procs -> Persons \cup {Nobody}]
  /\ target \in [Procs -> Wallets \cup {NoWallet}]
  /\ todo \in [Procs -> SUBSET Wallets]
  /\ worst \in [Procs -> AmlStatuses]
  /\ screens \in 0..MaxScreens
  /\ fresh \in [Procs -> SUBSET Wallets] /\ missed \in [Persons -> SUBSET Wallets]
  /\ passed \in [Wallets -> AmlStatuses]

Init ==
  /\ row = [w \in Wallets |-> IF \E p \in Persons : Home[p] = w
                              THEN CHOOSE p \in Persons : Home[p] = w ELSE Nobody]
  /\ link = [w \in Wallets |-> Nobody]
  /\ latest = [w \in Wallets |-> "unscreened"]
  /\ aml = [p \in Persons |-> "unscreened"]
  /\ pc = [q \in Procs |-> "idle"]
  /\ who = [q \in Procs |-> Nobody]
  /\ target = [q \in Procs |-> NoWallet]
  /\ todo = [q \in Procs |-> {}]
  /\ worst = [q \in Procs |-> "unscreened"]
  /\ screens = 0
  /\ fresh = [q \in Procs |-> {}] /\ missed = [p \in Persons |-> {}]
  /\ passed = [w \in Wallets |-> "unscreened"]

At(q, here) == pc[q] = here
Goto(q, next) == pc' = [pc EXCEPT ![q] = next]

Begin(q, p, next) ==
  /\ At(q, "idle")
  /\ who' = [who EXCEPT ![q] = p]
  /\ Goto(q, next)

Finish(q) ==
  /\ Goto(q, "idle")
  /\ who' = [who EXCEPT ![q] = Nobody]
  /\ target' = [target EXCEPT ![q] = NoWallet]
  /\ todo' = [todo EXCEPT ![q] = {}]
  /\ worst' = [worst EXCEPT ![q] = "unscreened"]

\* walletsForAccount, and the wallets of a person as onboarding sees them.
WalletsForAccount(p) == {w \in Wallets : row[w] = p}
WalletsForPerson(p) == {w \in Wallets : link[w] = p} \cup {Home[p]}

Severity(s) ==
  CASE s = "unscreened" -> 0 [] s = "clear" -> 1 [] s = "review" -> 2 [] s = "blocked" -> 3

\* Mutant: the latest result wins.
Newer(a, b) == b

Worse(a, b) == IF Severity(a) >= Severity(b) THEN a ELSE b

\* A row of p is new, or newly screened: no status rests on it before it is read.
Note(w, p) ==
  /\ missed' = [x \in Persons |-> missed[x] \cup {v \in {w} : x = p}]
  /\ fresh' = [q \in Procs |-> fresh[q] \cup {v \in {w} \ todo[q] : At(q, "gather") /\ who[q] = p}]

\* screenAndRecord: the provider's result is a result, whatever it is.
Record(w, decision) ==
  /\ screens < MaxScreens /\ screens' = screens + 1
  /\ latest' = [latest EXCEPT ![w] = decision]

-----------------------------------------------------------------------------
(* rescreen: every wallet of the person, then the aggregate *)

Rescreen(q, p) ==
  /\ Begin(q, p, "screen")
  /\ todo' = [todo EXCEPT ![q] = WalletsForAccount(p)]
  /\ UNCHANGED <<row, link, latest, aml, target, worst, screens, history, passed>>

ScreenOne(q, w, decision) ==
  /\ At(q, "screen") /\ w \in todo[q]
  /\ Record(w, decision)
  /\ todo' = [todo EXCEPT ![q] = @ \ {w}]
  /\ Note(w, row[w])
  /\ UNCHANGED <<row, link, aml, pc, who, target, worst, passed>>

\* recomputeStatus reads the wallets again, and starts from "unscreened".
Recompute(q) ==
  /\ At(q, "screen") /\ todo[q] = {}
  /\ todo' = [todo EXCEPT ![q] = WalletsForAccount(who[q])]
  /\ Goto(q, "gather")
  /\ UNCHANGED <<row, link, latest, aml, who, target, worst, screens, history, passed>>

ReadLatest(q, w) ==
  /\ At(q, "gather") /\ w \in todo[q]
  /\ worst' = [worst EXCEPT ![q] = IF latest[w] = "unscreened" THEN @ ELSE Worse(@, latest[w])]
  /\ todo' = [todo EXCEPT ![q] = @ \ {w}]
  /\ UNCHANGED <<row, link, latest, aml, pc, who, target, screens, history, passed>>

SetAmlStatus(q) ==
  /\ At(q, "gather") /\ todo[q] = {}
  /\ aml' = [aml EXCEPT ![who[q]] = worst[q]]
  /\ missed' = [missed EXCEPT ![who[q]] = fresh[q]]
  /\ fresh' = [fresh EXCEPT ![q] = {}]
  /\ Finish(q)
  /\ UNCHANGED <<row, link, latest, screens, passed>>

-----------------------------------------------------------------------------
(* linkWallet: a wallet that has signed joins the primary one *)

\* ALREADY_PRIMARY and ALREADY_LINKED end the request.
LinkWallet(q, p, w) ==
  /\ Begin(q, p, "try")
  /\ w \notin WalletsForPerson(p)
  /\ target' = [target EXCEPT ![q] = w]
  /\ UNCHANGED <<row, link, latest, aml, todo, worst, screens, history, passed>>

\* Mutant: only the record is made.
RefusesNothing(decision) == FALSE

Refuses(decision) == decision = "blocked"

\* The attempt is recorded either way; a blocked wallet goes no further.
ScreenForLink(q, decision) ==
  /\ At(q, "try")
  /\ Record(target[q], decision)
  /\ Note(target[q], row[target[q]])
  /\ IF Refuses(decision)
     THEN Finish(q) /\ UNCHANGED passed
     ELSE /\ Goto(q, "unlinked") /\ UNCHANGED <<who, target, todo, worst>>
          /\ passed' = IF link[target[q]] = Nobody THEN [passed EXCEPT ![target[q]] = decision]
                       ELSE passed
  /\ UNCHANGED <<row, link, aml>>

\* WALLET_LINKED and WALLET_IS_INVESTOR: two reads, before the insert.
CheckLink(q) ==
  /\ At(q, "unlinked")
  /\ IF link[target[q]] # Nobody THEN Finish(q)
     ELSE Goto(q, "stranger") /\ UNCHANGED <<who, target, todo, worst>>
  /\ UNCHANGED <<row, link, latest, aml, screens, history, passed>>

CheckInvestor(q) ==
  /\ At(q, "stranger")
  /\ IF row[target[q]] # Nobody THEN Finish(q)
     ELSE Goto(q, "insert") /\ UNCHANGED <<who, target, todo, worst>>
  /\ UNCHANGED <<row, link, latest, aml, screens, history, passed>>

\* Mutant: the last link wins.
Attach(q) == link' = [link EXCEPT ![target[q]] = who[q]]

\* The address is the key of the table: a second insert fails.
Insert(q) == link[target[q]] = Nobody /\ link' = [link EXCEPT ![target[q]] = who[q]]

\* A link that is made is followed by recomputeStatus.
InsertLink(q) ==
  /\ At(q, "insert")
  /\ \/ Insert(q) /\ Goto(q, "screen") /\ UNCHANGED <<who, target, todo, worst>>
     \/ link[target[q]] # Nobody /\ Finish(q) /\ UNCHANGED link
  /\ UNCHANGED <<row, latest, aml, screens, history, passed>>

-----------------------------------------------------------------------------
\* A verified person connects a wallet to the account; nobody screens it. The
\* wallet is the key of the table.
Connect(p, w) ==
  /\ row[w] = Nobody
  /\ row' = [row EXCEPT ![w] = p]
  /\ Note(w, p)
  /\ UNCHANGED <<link, latest, aml, local, screens, passed>>

Advance(q) ==
  \/ \E w \in Wallets, d \in Decisions : ScreenOne(q, w, d)
  \/ \E d \in Decisions : ScreenForLink(q, d)
  \/ Recompute(q) \/ \E w \in Wallets : ReadLatest(q, w)
  \/ SetAmlStatus(q)
  \/ CheckLink(q) \/ CheckInvestor(q) \/ InsertLink(q)

Call(q) == \E p \in Persons : Rescreen(q, p) \/ \E w \in Wallets : LinkWallet(q, p, w)

Next ==
  \/ \E q \in Procs : Call(q) \/ Advance(q)
  \/ \E p \in Persons, w \in Wallets : Connect(p, w)

Spec == Init /\ [][Next]_vars

-----------------------------------------------------------------------------
(* Properties. *)

Counted(p) == WalletsForAccount(p) \ missed[p]

\* One bad wallet among good ones makes a person bad, in whatever order they are
\* screened and read and whoever screens and aggregates at the same time: the status is
\* as bad as the latest screening of each row the aggregate that wrote it has seen, and
\* it is the screening of one.  Nothing else is promised: an aggregate that began before
\* another may be written after it and take back what that one saw, and a wallet that is
\* linked but has no row of its own never counts.
WorstDecides ==
  \A p \in Persons :
    /\ \A w \in Counted(p) : Severity(aml[p]) >= Severity(latest[w])
    /\ \/ aml[p] = "unscreened"
       \/ \E w \in WalletsForAccount(p) : aml[p] = latest[w] \/ w \in missed[p]

\* A wallet that failed its screening is not linked by the call that screened
\* it, nor by another that screened it before.
LinkedHasPassed == \A w \in Wallets : link[w] # Nobody => passed[w] \in {"clear", "review"}

\* Whoever has linked a wallet keeps it, though two persons try at once and both
\* have found it free.
LinkStays == [][\A w \in Wallets : link[w] # Nobody => link'[w] = link[w]]_vars

\* A bad screening counts once it is aggregated, against the person whose row it is
\* about, and at once against the link of its wallet; and a link is for good.
ScreeningCounts == [](WorstDecides /\ LinkedHasPassed) /\ LinkStays
=============================================================================
