----------------------------- MODULE Deployment -----------------------------
(***************************************************************************)
(* Offerings and the token suites behind them. The factory keeps one suite *)
(* for a symbol and hands it out PAUSED; the records of the platform come  *)
(* after it, one statement at a time, so that a deployment that dies leaves*)
(* a suite that the next one has to adopt.                                 *)
(*                                                                         *)
(* A process is one request. An issuer's owner wallet is the issuer. The   *)
(* row policies are those of the owner of the tables (see Role in          *)
(* OrderReservation).                                                      *)
(***************************************************************************)
EXTENDS FiniteSets, Naturals

CONSTANTS
  Offerings,
  Issuer,      \* the issuer of an offering
  Symbols,
  NoSymbol, NoIssuer, NoOffering,
  Procs,
  CrashPoints, \* subset of {"created", "live", "recorded"}: what is done before the process dies
  MaxCalls     \* bound: requests

Issuers == {Issuer[o] : o \in Offerings}
Statuses == {"coming_soon", "open", "closed"}

VARIABLES
  kyb,     \* issuers.kyb_status
  status,  \* offerings.status; "none" where there is no row
  planned, \* token_plan.intendedStatus of the offering is open
  symbol,  \* offerings.token_symbol
  tokens,  \* the tokens table: the issuer of a symbol
  suite,   \* TREXFactory: the owner of the suite of a symbol
  paused,  \* Token: suites that are paused
  pc,
  offering, wanted, \* what the request is for: an offering; a symbol or a status
  opens,   \* what it has read: the listing is to open once its token is there
  calls,   \* counter of the bound
  approved, \* history: issuers that were approved once
  doubled,  \* history: offerings, and symbols, that two open deployments wanted
  removed,  \* history: offerings that were removed while a request was open
  refused   \* history: symbols refused to the issuer whose suite it is

chain == <<suite, paused>>
records == <<kyb, status, planned, symbol, tokens>>
local == <<pc, offering, wanted, opens, calls>>
history == <<approved, doubled, removed, refused>>
vars == <<chain, records, local, history>>

\* Every variable has its type.
TypeOK ==
  /\ kyb \in [Issuers -> {"pending_review", "approved", "rejected"}]
  /\ status \in [Offerings -> Statuses \cup {"none"}]
  /\ planned \in [Offerings -> BOOLEAN]
  /\ symbol \in [Offerings -> Symbols \cup {NoSymbol}]
  /\ tokens \in [Symbols -> Issuers \cup {NoIssuer}]
  /\ suite \in [Symbols -> Issuers \cup {NoIssuer}]
  /\ paused \in SUBSET Symbols
  /\ pc \in [Procs -> {"idle", "exists", "insert", "status", "remove", "inUse", "kyb", "getToken",
                       "adopt", "submit", "unpause", "record", "symbol", "open"}]
  /\ offering \in [Procs -> Offerings \cup {NoOffering}]
  /\ wanted \in [Procs -> Symbols \cup {NoSymbol} \cup Statuses]
  /\ opens \in [Procs -> BOOLEAN] /\ calls \in 0..MaxCalls
  /\ approved \in SUBSET Issuers
  /\ doubled \in SUBSET (Offerings \cup Symbols)
  /\ removed \in SUBSET Offerings
  /\ refused \in SUBSET Symbols

Init ==
  /\ kyb = [i \in Issuers |-> "pending_review"]
  /\ status = [o \in Offerings |-> "none"] /\ planned = [o \in Offerings |-> FALSE]
  /\ symbol = [o \in Offerings |-> NoSymbol]
  /\ tokens = [s \in Symbols |-> NoIssuer]
  /\ suite = [s \in Symbols |-> NoIssuer] /\ paused = {}
  /\ pc = [p \in Procs |-> "idle"] /\ offering = [p \in Procs |-> NoOffering]
  /\ wanted = [p \in Procs |-> NoSymbol] /\ opens = [p \in Procs |-> FALSE] /\ calls = 0
  /\ approved = {} /\ doubled = {} /\ removed = {} /\ refused = {}

At(p, here) == pc[p] = here
Goto(p, next) == pc' = [pc EXCEPT ![p] = next]
Continue(p, next) == Goto(p, next) /\ UNCHANGED <<offering, wanted, opens, calls>>

Begin(p, o, what, next) ==
  /\ At(p, "idle") /\ Goto(p, next)
  /\ calls < MaxCalls /\ calls' = calls + 1
  /\ offering' = [offering EXCEPT ![p] = o]
  /\ wanted' = [wanted EXCEPT ![p] = what]
  /\ opens' = [opens EXCEPT ![p] = planned[o] /\ status[o] = "coming_soon"]

Finish(p) ==
  /\ Goto(p, "idle")
  /\ offering' = [offering EXCEPT ![p] = NoOffering]
  /\ wanted' = [wanted EXCEPT ![p] = NoSymbol]
  /\ opens' = [opens EXCEPT ![p] = FALSE]
  /\ UNCHANGED calls

Mine(p) == Issuer[offering[p]]

-----------------------------------------------------------------------------
(* IssuersService.decideKyb *)

\* Read and written by the platform; the same answer again writes nothing.
DecideKyb(i, answer) ==
  /\ kyb[i] # answer /\ calls < MaxCalls
  /\ calls' = calls + 1
  /\ kyb' = [kyb EXCEPT ![i] = answer]
  /\ approved' = IF answer = "approved" THEN approved \cup {i} ELSE approved
  /\ UNCHANGED <<chain, status, planned, symbol, tokens, pc, offering, wanted, opens, doubled, removed, refused>>

-----------------------------------------------------------------------------
(* OfferingsService.create and createAsset, setStatus, remove *)

\* Mutant: any issuer lists.
AnyKyb(i) == TRUE

\* KYB_NOT_APPROVED otherwise.
MayList(i) == kyb[i] = "approved"

\* createAsset records a plan, and that the listing was meant to be live.
Create(p, o) ==
  /\ MayList(Issuer[o])
  /\ Begin(p, o, NoSymbol, "exists")
  /\ UNCHANGED <<chain, records, history>>

\* OFFERING_EXISTS otherwise.
CheckExists(p) ==
  /\ At(p, "exists")
  /\ IF status[offering[p]] = "none" THEN Continue(p, "insert") ELSE Finish(p)
  /\ UNCHANGED <<chain, records, history>>

\* The id is the key of the table: the second insert fails.
InsertOffering(p, live) ==
  /\ At(p, "insert")
  /\ LET o == offering[p] IN
     IF status[o] # "none" THEN UNCHANGED <<status, planned>>
     ELSE status' = [status EXCEPT ![o] = "coming_soon"] /\ planned' = [planned EXCEPT ![o] = live]
  /\ Finish(p)
  /\ UNCHANGED <<chain, kyb, symbol, tokens, history>>

\* Mutant: an offering opens before its token is there.
OpensEarly(o, to) == TRUE

\* NO_TOKEN otherwise.
MayBecome(o, to) == to = "open" => symbol[o] # NoSymbol

SetStatus(p, o, to) ==
  /\ status[o] # "none" /\ MayBecome(o, to)
  /\ Begin(p, o, to, "status")
  /\ UNCHANGED <<chain, records, history>>

Update(o, to) == status' = IF status[o] = "none" THEN status ELSE [status EXCEPT ![o] = to]

WriteStatus(p) ==
  /\ At(p, "status")
  /\ Update(offering[p], wanted[p])
  /\ Finish(p)
  /\ UNCHANGED <<chain, kyb, planned, symbol, tokens, history>>

\* TOKEN_DEPLOYED otherwise.
Remove(p, o) ==
  /\ status[o] # "none" /\ symbol[o] = NoSymbol
  /\ Begin(p, o, NoSymbol, "remove")
  /\ UNCHANGED <<chain, records, history>>

\* Mutant: the row is removed as it was read.
RemovableAsRead(o) == TRUE

\* The statement asks again whether there is a token.
Removable(o) == symbol[o] = NoSymbol

DeleteOffering(p) ==
  /\ At(p, "remove")
  /\ LET o == offering[p] IN
     IF status[o] # "none" /\ Removable(o)
     THEN /\ status' = [status EXCEPT ![o] = "none"]
          /\ planned' = [planned EXCEPT ![o] = FALSE]
          /\ symbol' = [symbol EXCEPT ![o] = NoSymbol]
          /\ removed' = IF \E q \in Procs \ {p} : offering[q] = o THEN removed \cup {o} ELSE removed
     ELSE UNCHANGED <<status, planned, symbol, removed>>
  /\ Finish(p)
  /\ UNCHANGED <<chain, kyb, tokens, approved, doubled, refused>>

-----------------------------------------------------------------------------
(* OfferingsService.deployToken, DeployService.deploySuite *)

\* ALREADY_DEPLOYED otherwise.
DeployToken(p, o, s) ==
  /\ status[o] # "none" /\ symbol[o] = NoSymbol
  /\ Begin(p, o, s, "inUse")
  /\ doubled' = doubled \cup {x \in {o, s} : \E q \in Procs :
                                wanted[q] \in Symbols /\ x \in {offering[q], wanted[q]}}
  /\ UNCHANGED <<chain, records, approved, removed, refused>>

Orphan(s) == suite[s] # NoIssuer /\ \A o \in Offerings : symbol[o] # s

\* Mutant: a symbol is free until the factory says otherwise.
NoRow(s) == TRUE

Unrecorded(s) == tokens[s] = NoIssuer

\* TOKEN_SYMBOL_EXISTS where the symbol has a row, whoever's and however it came.
TokenSymbolInUse(p) ==
  /\ At(p, "inUse")
  /\ LET s == wanted[p] IN
     IF Unrecorded(s) THEN Continue(p, "kyb") /\ UNCHANGED refused
     ELSE /\ Finish(p)
          /\ refused' = IF Orphan(s) /\ tokens[s] = Mine(p)
                           /\ \A q \in Procs \ {p} : wanted[q] # s
                        THEN refused \cup {s} ELSE refused
  /\ UNCHANGED <<chain, records, approved, doubled, removed>>

CheckKyb(p) ==
  /\ At(p, "kyb")
  /\ IF MayList(Mine(p)) THEN Continue(p, "getToken") ELSE Finish(p)
  /\ UNCHANGED <<chain, records, history>>

GetToken(p) ==
  /\ At(p, "getToken")
  /\ Continue(p, IF suite[wanted[p]] = NoIssuer THEN "submit" ELSE "adopt")
  /\ UNCHANGED <<chain, records, history>>

\* Mutant: a suite that is there is a suite to use.
AdoptsAny(p) == TRUE

\* SYMBOL_OWNED_ELSEWHERE otherwise.
MayAdopt(p) == suite[wanted[p]] = Mine(p)

Adopt(p) ==
  /\ At(p, "adopt")
  /\ IF MayAdopt(p) THEN Continue(p, "unpause") ELSE Finish(p)
  /\ UNCHANGED <<chain, records, history>>

\* The factory refuses a salt it knows, and a transaction may fail.
DeploySuite(p) ==
  /\ At(p, "submit")
  /\ LET s == wanted[p] IN
     \/ /\ suite[s] = NoIssuer
        /\ suite' = [suite EXCEPT ![s] = Mine(p)] /\ paused' = paused \cup {s}
        /\ Continue(p, "unpause")
     \/ Finish(p) /\ UNCHANGED chain
  /\ UNCHANGED <<records, history>>

\* Mutant: it is left as the factory made it.
LeavePaused(s) == UNCHANGED paused

Unpause(s) == paused' = paused \ {s}

\* Both paths end here, so that what died before is made good.
UnpauseIfNeeded(p) ==
  /\ At(p, "unpause")
  /\ Unpause(wanted[p])
  /\ Continue(p, "record")
  /\ UNCHANGED <<suite, records, history>>

\* ON CONFLICT DO NOTHING.
RecordToken(p) ==
  /\ At(p, "record")
  /\ tokens' = [tokens EXCEPT ![wanted[p]] = IF @ = NoIssuer THEN Mine(p) ELSE @]
  /\ Continue(p, "symbol")
  /\ UNCHANGED <<chain, kyb, status, planned, symbol, history>>

SetTokenSymbol(p) ==
  /\ At(p, "symbol")
  /\ LET o == offering[p] IN
     /\ symbol' = IF status[o] = "none" THEN symbol ELSE [symbol EXCEPT ![o] = wanted[p]]
     /\ IF opens[p] THEN Continue(p, "open") ELSE Finish(p)
  /\ UNCHANGED <<chain, kyb, status, planned, tokens, history>>

\* The listing that was meant to be live is: the plan and the status that were read
\* with the offering decide, though another row may stand there by now.
OpenPlanned(p) ==
  /\ At(p, "open")
  /\ Update(offering[p], "open")
  /\ Finish(p)
  /\ UNCHANGED <<chain, kyb, planned, symbol, tokens, history>>

Crash(p) ==
  /\ \/ "created" \in CrashPoints /\ At(p, "unpause")
     \/ "live" \in CrashPoints /\ At(p, "record")
     \/ "recorded" \in CrashPoints /\ At(p, "symbol")
  /\ Finish(p)
  /\ UNCHANGED <<chain, records, history>>

-----------------------------------------------------------------------------
Advance(p) ==
  \/ CheckExists(p) \/ WriteStatus(p) \/ DeleteOffering(p)
  \/ \E live \in BOOLEAN : InsertOffering(p, live)
  \/ TokenSymbolInUse(p) \/ CheckKyb(p) \/ GetToken(p) \/ Adopt(p) \/ DeploySuite(p)
  \/ UnpauseIfNeeded(p) \/ RecordToken(p) \/ SetTokenSymbol(p) \/ OpenPlanned(p)

Call(p) ==
  \E o \in Offerings :
    \/ Create(p, o) \/ Remove(p, o)
    \/ \E to \in Statuses : SetStatus(p, o, to)
    \/ \E s \in Symbols : DeployToken(p, o, s)

Next ==
  \/ \E p \in Procs : Call(p) \/ Advance(p) \/ Crash(p)
  \/ \E i \in Issuers, answer \in {"approved", "rejected"} : DecideKyb(i, answer)

Spec == Init /\ [][Next]_vars

-----------------------------------------------------------------------------
(* Properties. *)

\* The token of an offering is the issuer's own: on the chain, whatever was
\* adopted after a crash, and in the records.
TokenIsOwn ==
  \A o \in Offerings : symbol[o] # NoSymbol =>
    suite[symbol[o]] = Issuer[o] /\ tokens[symbol[o]] = Issuer[o]

\* A token that a listing names can be minted: a deployment that died before it
\* was unpaused is finished by the one that adopts the suite.
ListedIsLive == \A o \in Offerings : symbol[o] # NoSymbol => symbol[o] \notin paused

\* An offering takes money only with a token, unless it was removed under a
\* deployment and made again.
OpenHasToken == \A o \in Offerings \ removed : status[o] = "open" => symbol[o] # NoSymbol

\* A token never loses its listing: a removal that has found no token yet does
\* not take the row away; only two deployments of one offering at the same time
\* replace a token by another.
KeepsToken ==
  [][\A o \in Offerings \ doubled : symbol[o] # NoSymbol => symbol'[o] = symbol[o]]_vars

\* A suite stands for one offering, unless two asked for the symbol at once.
OneListing ==
  \A o, r \in Offerings :
    (o # r /\ symbol[o] # NoSymbol /\ symbol[o] = symbol[r]) => symbol[o] \in doubled

\* What is listed or deployed belongs to an issuer that was approved.
ListedWasApproved ==
  /\ \A o \in Offerings : status[o] # "none" => Issuer[o] \in approved
  /\ \A s \in Symbols : suite[s] # NoIssuer => suite[s] \in approved

\* The comment in offerings.service.ts: a deployment is retryable, and adoption
\* recovers one that was interrupted.
RetryIsAccepted == refused = {}

\* However deployments, removals and status changes overlap and wherever they
\* die, the listings, the records and the factory agree about the tokens.
ListingsAgree ==
  /\ [](TokenIsOwn /\ ListedIsLive /\ OpenHasToken /\ OneListing /\ ListedWasApproved)
  /\ KeepsToken
=============================================================================
