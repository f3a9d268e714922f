--------------------------- MODULE DeploymentProofs ---------------------------
(***************************************************************************)
(* An offering is open only with a token, and its token is the issuer's    *)
(* own, alone its, live and kept, for any number of offerings, symbols and *)
(* requests, wherever a deployment dies.                                   *)
(*                                                                         *)
(* The records say nothing of a deployment that is under way.  Two facts   *)
(* carry the proof: a request knows more about its suite the further it    *)
(* is (RequestOk), because a suite never changes its owner and is never    *)
(* paused again; and two requests for one offering or one symbol know of   *)
(* each other in the history (Pairs).                                      *)
(***************************************************************************)
EXTENDS Deployment, TLAPS

Assumed == NoSymbol \notin Symbols /\ NoIssuer \notin Issuers /\ MaxCalls \in Nat

Checked == {"kyb", "getToken", "adopt", "submit", "unpause", "record", "symbol"}
Deploying == Checked \cup {"inUse"}

\* What a request may rely on at each point.
RequestOk(p) ==
  /\ pc[p] # "idle" => offering[p] \in Offerings
  /\ pc[p] \in Deploying =>
       /\ wanted[p] \in Symbols
       /\ status[offering[p]] # "none" \/ offering[p] \in removed
       /\ symbol[offering[p]] = NoSymbol \/ offering[p] \in doubled
  /\ pc[p] = "status" => wanted[p] \in Statuses
  /\ pc[p] \in Checked => \A o \in Offerings : symbol[o] = wanted[p] => wanted[p] \in doubled
  /\ pc[p] \in {"exists", "insert"} \cup (Checked \ {"kyb"}) => Mine(p) \in approved
  /\ pc[p] \in {"unpause", "record", "symbol"} => suite[wanted[p]] = Mine(p)
  /\ pc[p] \in {"record", "symbol"} => wanted[p] \notin paused
  /\ pc[p] = "symbol" => tokens[wanted[p]] = Mine(p)
  /\ (pc[p] = "open" \/ (pc[p] = "status" /\ wanted[p] = "open")) =>
       offering[p] \in removed \/ symbol[offering[p]] # NoSymbol

Requests == \A p \in Procs : RequestOk(p)

Pairs ==
  \A p, q \in Procs : (p # q /\ pc[p] \in Deploying /\ pc[q] \in Deploying) =>
    /\ offering[p] = offering[q] => offering[p] \in doubled
    /\ wanted[p] = wanted[q] => wanted[p] \in doubled

Tables ==
  /\ \A i \in Issuers : kyb[i] = "approved" => i \in approved
  /\ \A s \in Symbols : tokens[s] # NoIssuer => tokens[s] = suite[s]
  /\ TokenIsOwn /\ ListedIsLive /\ OpenHasToken /\ OneListing /\ ListedWasApproved

Inv == TypeOK /\ Requests /\ Pairs /\ Tables

LEMMA InitInv == ASSUME Assumed, Init PROVE Inv
<1>1. TypeOK
  BY DEF Init, TypeOK, Statuses, Assumed
<1>2. Requests /\ Pairs
  <2>1. \A p \in Procs : pc[p] = "idle"
    BY DEF Init
  <2> QED BY <2>1 DEF Requests, RequestOk, Pairs, Deploying, Checked
<1>3. \A o \in Offerings : symbol[o] = NoSymbol /\ status[o] = "none"
  BY DEF Init
<1>4. \A s \in Symbols : tokens[s] = NoIssuer /\ suite[s] = NoIssuer
  BY DEF Init
<1>5. \A i \in Issuers : kyb[i] # "approved"
  BY DEF Init
<1>6. TokenIsOwn /\ ListedIsLive /\ OneListing
  BY <1>3 DEF TokenIsOwn, ListedIsLive, OneListing
<1>7. OpenHasToken /\ ListedWasApproved
  BY <1>3, <1>4 DEF OpenHasToken, ListedWasApproved
<1>8. Tables
  BY <1>4, <1>5, <1>6, <1>7 DEF Tables
<1> QED BY <1>1, <1>2, <1>8 DEF Inv

-----------------------------------------------------------------------------
(* What no step disturbs. *)

\* A suite keeps its owner and is not paused again, tokens and statuses stay
\* unless a row is removed under its readers, and the history grows.
Forward(p) ==
  /\ approved \subseteq approved' /\ doubled \subseteq doubled' /\ removed \subseteq removed'
  /\ \A s \in Symbols : suite[s] # NoIssuer => suite'[s] = suite[s] /\ (s \in paused' => s \in paused)
  /\ \A s \in Symbols : tokens[s] # NoIssuer => tokens'[s] = tokens[s]
  /\ \A q \in Procs \ {p}, o \in Offerings :
       (offering[q] = o /\ status[o] # "none") => status'[o] # "none" \/ o \in removed'

\* Only p moves.
Alone(p) ==
  \A q \in Procs \ {p} : pc'[q] = pc[q] /\ offering'[q] = offering[q] /\ wanted'[q] = wanted[q]

\* A token that comes to an offering finds no other request about either.
ListsKnown(p) ==
  \A o \in Offerings :
    \/ symbol'[o] = symbol[o]
    \/ /\ symbol'[o] \in Symbols
       /\ \A q \in Procs \ {p} : pc[q] \in Deploying =>
            /\ offering[q] = o => o \in doubled
            /\ wanted[q] = symbol'[o] => wanted[q] \in doubled

LEMMA OthersKeep ==
  ASSUME Assumed, Inv, NEW p \in Procs, Forward(p), Alone(p), ListsKnown(p), RequestOk(p)'
  PROVE  Requests'
<1> USE DEF Inv
<1> SUFFICES ASSUME NEW q \in Procs, q # p PROVE RequestOk(q)'
  BY DEF Requests
<1>1. RequestOk(q) /\ pc'[q] = pc[q] /\ offering'[q] = offering[q] /\ wanted'[q] = wanted[q]
  BY DEF Requests, Alone
<1>2. pc[q] # "idle" => offering[q] \in Offerings /\ Issuer[offering[q]] \in Issuers
  BY <1>1 DEF RequestOk, Issuers
<1>3. pc[q] \in Deploying =>
        /\ wanted[q] \in Symbols
        /\ status'[offering[q]] # "none" \/ offering[q] \in removed'
        /\ symbol'[offering[q]] = NoSymbol \/ offering[q] \in doubled'
  <2> HAVE pc[q] \in Deploying
  <2>1. /\ wanted[q] \in Symbols /\ offering[q] \in Offerings
        /\ status[offering[q]] # "none" \/ offering[q] \in removed
        /\ symbol[offering[q]] = NoSymbol \/ offering[q] \in doubled
    BY <1>1 DEF RequestOk, Deploying, Checked
  <2> QED BY <2>1 DEF Forward, ListsKnown
<1>4. pc[q] \in Checked => \A o \in Offerings : symbol'[o] = wanted[q] => wanted[q] \in doubled'
  <2> SUFFICES ASSUME pc[q] \in Checked, NEW o \in Offerings, symbol'[o] = wanted[q]
               PROVE  wanted[q] \in doubled'
    OBVIOUS
  <2>1. pc[q] \in Deploying /\ (symbol[o] = wanted[q] => wanted[q] \in doubled)
    BY <1>1 DEF RequestOk, Deploying
  <2> QED BY <2>1 DEF Forward, ListsKnown
<1>5. pc[q] \in {"exists", "insert"} \cup (Checked \ {"kyb"}) => Mine(q)' \in approved'
  BY <1>1 DEF RequestOk, Mine, Forward
<1>6. pc[q] \in {"unpause", "record", "symbol"} =>
        /\ suite'[wanted[q]] = Mine(q)'
        /\ wanted[q] \in paused' => wanted[q] \in paused
  <2> HAVE pc[q] \in {"unpause", "record", "symbol"}
  <2>1. suite[wanted[q]] = Mine(q) /\ wanted[q] \in Symbols /\ Mine(q) # NoIssuer
    BY <1>1, <1>2 DEF RequestOk, Deploying, Checked, Mine, Assumed
  <2> QED BY <2>1, <1>1 DEF Forward, Mine
<1>7. pc[q] = "symbol" => tokens'[wanted[q]] = Mine(q)'
  <2> HAVE pc[q] = "symbol"
  <2>1. tokens[wanted[q]] = Mine(q) /\ wanted[q] \in Symbols /\ Mine(q) # NoIssuer
    BY <1>1, <1>2 DEF RequestOk, Deploying, Checked, Mine, Assumed
  <2> QED BY <2>1, <1>1 DEF Forward, Mine
<1>8. (pc[q] = "open" \/ (pc[q] = "status" /\ wanted[q] = "open")) =>
        offering[q] \in removed' \/ symbol'[offering[q]] # NoSymbol
  BY <1>1, <1>2 DEF RequestOk, Forward, ListsKnown, Assumed
<1>9. pc[q] \in {"record", "symbol"} => wanted[q] \notin paused'
  BY <1>1, <1>6 DEF RequestOk
<1> QED BY <1>1, <1>2, <1>3, <1>4, <1>5, <1>6, <1>7, <1>8, <1>9 DEF RequestOk

\* Where nobody starts to deploy, no new pair appears.
LEMMA PairsKeep ==
  ASSUME Pairs, NEW p \in Procs, Alone(p), doubled \subseteq doubled',
         \/ pc'[p] \notin Deploying
         \/ pc[p] \in Deploying /\ offering'[p] = offering[p] /\ wanted'[p] = wanted[p]
  PROVE  Pairs'
<1>1. \A q \in Procs : pc'[q] \in Deploying =>
        pc[q] \in Deploying /\ offering'[q] = offering[q] /\ wanted'[q] = wanted[q]
  BY DEF Alone
<1> QED BY <1>1 DEF Pairs

LEMMA TablesKeep ==
  ASSUME Tables, UNCHANGED <<chain, records>>,
         approved \subseteq approved', doubled \subseteq doubled', removed \subseteq removed'
  PROVE  Tables'
BY DEF Tables, TokenIsOwn, ListedIsLive, OpenHasToken, OneListing, ListedWasApproved, chain, records

LEMMA ForwardKeep ==
  ASSUME NEW p \in Procs, UNCHANGED <<chain, records>>,
         approved \subseteq approved', doubled \subseteq doubled', removed \subseteq removed'
  PROVE  Forward(p) /\ ListsKnown(p)
BY DEF Forward, ListsKnown, chain, records

\* How the memory of a request changes.
LEMMA Continues ==
  ASSUME TypeOK, NEW p \in Procs, NEW next, Continue(p, next)
  PROVE  /\ Alone(p) /\ pc'[p] = next /\ offering'[p] = offering[p] /\ wanted'[p] = wanted[p]
         /\ opens'[p] = opens[p] /\ calls' = calls
BY DEF Continue, Goto, Alone, TypeOK

LEMMA Finishes ==
  ASSUME TypeOK, NEW p \in Procs, Finish(p)
  PROVE  Alone(p) /\ pc'[p] = "idle" /\ RequestOk(p)'
<1>1. Alone(p) /\ pc'[p] = "idle"
  BY DEF Finish, Goto, Alone, TypeOK
<1> QED BY <1>1 DEF RequestOk, Deploying, Checked

LEMMA Begins ==
  ASSUME TypeOK, NEW p \in Procs, NEW o, NEW what, NEW next, Begin(p, o, what, next)
  PROVE  Alone(p) /\ pc[p] = "idle" /\ pc'[p] = next /\ offering'[p] = o /\ wanted'[p] = what
BY DEF Begin, At, Goto, Alone, TypeOK

-----------------------------------------------------------------------------
(* Types. *)

Points == {"idle", "exists", "insert", "status", "remove", "inUse", "kyb", "getToken",
           "adopt", "submit", "unpause", "record", "symbol", "open"}

LEMMA TypeContinue ==
  ASSUME TypeOK, NEW p \in Procs, NEW next \in Points, Continue(p, next)
  PROVE  /\ pc' \in [Procs -> Points] /\ UNCHANGED <<offering, wanted, opens, calls>>
BY DEF TypeOK, Continue, Goto, Points

LEMMA TypeFinish ==
  ASSUME TypeOK, NEW p \in Procs, Finish(p)
  PROVE  /\ pc' \in [Procs -> Points] /\ offering' \in [Procs -> Offerings \cup {NoOffering}]
         /\ wanted' \in [Procs -> Symbols \cup {NoSymbol} \cup Statuses]
         /\ opens' \in [Procs -> BOOLEAN] /\ UNCHANGED calls
BY DEF TypeOK, Finish, Goto, Points

LEMMA TypeBegin ==
  ASSUME TypeOK, NEW p \in Procs, NEW o \in Offerings,
         NEW what \in Symbols \cup {NoSymbol} \cup Statuses, NEW next \in Points,
         Begin(p, o, what, next), MaxCalls \in Nat
  PROVE  /\ pc' \in [Procs -> Points] /\ offering' \in [Procs -> Offerings \cup {NoOffering}]
         /\ wanted' \in [Procs -> Symbols \cup {NoSymbol} \cup Statuses]
         /\ opens' \in [Procs -> BOOLEAN] /\ calls' \in 0..MaxCalls
BY DEF TypeOK, Begin, Goto, Points

LEMMA TypeCall ==
  ASSUME TypeOK, MaxCalls \in Nat, NEW p \in Procs, Call(p) PROVE TypeOK'
<1>1. PICK o \in Offerings :
        \/ Create(p, o) \/ Remove(p, o) \/ (\E to \in Statuses : SetStatus(p, o, to))
        \/ (\E s \in Symbols : DeployToken(p, o, s))
  BY DEF Call
<1>2. CASE Create(p, o) \/ Remove(p, o)
  <2>1. PICK next \in {"exists", "remove"} : Begin(p, o, NoSymbol, next)
    BY <1>2 DEF Create, Remove
  <2>2. UNCHANGED <<chain, records, history>>
    BY <1>2 DEF Create, Remove
  <2>3. next \in Points
    BY DEF Points
  <2> QED BY <2>1, <2>2, <2>3, TypeBegin DEF TypeOK, Points, chain, records, history
<1>3. CASE \E to \in Statuses : SetStatus(p, o, to)
  <2>1. PICK to \in Statuses : Begin(p, o, to, "status") /\ UNCHANGED <<chain, records, history>>
    BY <1>3 DEF SetStatus
  <2> QED BY <2>1, TypeBegin DEF TypeOK, Points, chain, records, history
<1>4. CASE \E s \in Symbols : DeployToken(p, o, s)
  <2>1. PICK s \in Symbols :
          /\ Begin(p, o, s, "inUse") /\ UNCHANGED <<chain, records, approved, removed, refused>>
          /\ doubled' \subseteq doubled \cup {o, s}
    BY <1>4 DEF DeployToken
  <2>2. doubled' \in SUBSET (Offerings \cup Symbols)
    BY <2>1 DEF TypeOK
  <2> QED BY <2>1, <2>2, TypeBegin DEF TypeOK, Points, chain, records
<1> QED BY <1>1, <1>2, <1>3, <1>4

\* Each step writes at most one of the tables.
LEMMA TypeAdvance ==
  ASSUME Inv, NEW p \in Procs, Advance(p) \/ Crash(p) PROVE TypeOK'
<1> USE DEF Inv
<1>1. /\ pc' \in [Procs -> Points] /\ offering' \in [Procs -> Offerings \cup {NoOffering}]
      /\ wanted' \in [Procs -> Symbols \cup {NoSymbol} \cup Statuses]
      /\ opens' \in [Procs -> BOOLEAN] /\ UNCHANGED calls
  <2>1. (\E next \in Points : Continue(p, next)) \/ Finish(p)
    BY DEF Advance, Crash, CheckExists, WriteStatus, DeleteOffering, InsertOffering, TokenSymbolInUse,
           CheckKyb, GetToken, Adopt, DeploySuite, UnpauseIfNeeded, RecordToken, SetTokenSymbol,
           OpenPlanned, Points
  <2> QED BY <2>1, TypeContinue, TypeFinish DEF TypeOK
<1>2. pc[p] # "idle" /\ RequestOk(p)
  BY DEF Advance, Crash, CheckExists, WriteStatus, DeleteOffering, InsertOffering, TokenSymbolInUse,
         CheckKyb, GetToken, Adopt, DeploySuite, UnpauseIfNeeded, RecordToken, SetTokenSymbol,
         OpenPlanned, At, Requests
<1>3. offering[p] \in Offerings /\ Mine(p) \in Issuers
  BY <1>2 DEF RequestOk, Mine, Issuers
<1>4. CASE UNCHANGED <<chain, records, history>>
  BY <1>1, <1>4 DEF TypeOK, Points, chain, records, history
<1>5. CASE (\E live \in BOOLEAN : InsertOffering(p, live)) \/ WriteStatus(p) \/ OpenPlanned(p)
  <2>1. UNCHANGED <<chain, kyb, symbol, tokens, history>>
    BY <1>5 DEF InsertOffering, WriteStatus, OpenPlanned
  <2>2. status' \in [Offerings -> Statuses \cup {"none"}] /\ planned' \in [Offerings -> BOOLEAN]
    <3>1. CASE \E live \in BOOLEAN : InsertOffering(p, live)
      BY <3>1, <1>3 DEF InsertOffering, TypeOK, Statuses
    <3>2. CASE WriteStatus(p)
      BY <3>2, <1>2, <1>3 DEF WriteStatus, At, RequestOk, Update, TypeOK
    <3>3. CASE OpenPlanned(p)
      BY <3>3, <1>3 DEF OpenPlanned, Update, TypeOK, Statuses
    <3> QED BY <1>5, <3>1, <3>2, <3>3
  <2> QED BY <2>1, <2>2, <1>1 DEF TypeOK, Points, chain, history
<1>6. CASE DeleteOffering(p)
  <2>1. UNCHANGED <<chain, kyb, tokens, approved, doubled, refused>>
    BY <1>6 DEF DeleteOffering
  <2>2. status' \in [Offerings -> Statuses \cup {"none"}] /\ planned' \in [Offerings -> BOOLEAN]
    BY <1>6, <1>3 DEF DeleteOffering, TypeOK
  <2>3. symbol' \in [Offerings -> Symbols \cup {NoSymbol}] /\ removed' \in SUBSET Offerings
    BY <1>6, <1>3 DEF DeleteOffering, TypeOK
  <2> QED BY <2>1, <2>2, <2>3, <1>1 DEF TypeOK, Points, chain
<1>7. CASE TokenSymbolInUse(p)
  <2>1. UNCHANGED <<chain, records, approved, doubled, removed>>
    BY <1>7 DEF TokenSymbolInUse
  <2>2. refused' \in SUBSET Symbols
    BY <1>7, <1>2 DEF TokenSymbolInUse, At, RequestOk, Deploying, TypeOK
  <2> QED BY <2>1, <2>2, <1>1 DEF TypeOK, Points, chain, records
<1>8. CASE DeploySuite(p) \/ UnpauseIfNeeded(p)
  <2>1. UNCHANGED <<records, history>>
    BY <1>8 DEF DeploySuite, UnpauseIfNeeded
  <2>2. suite' \in [Symbols -> Issuers \cup {NoIssuer}] /\ paused' \in SUBSET Symbols
    <3>1. wanted[p] \in Symbols
      BY <1>8, <1>2 DEF DeploySuite, UnpauseIfNeeded, At, RequestOk, Deploying, Checked
    <3>2. CASE DeploySuite(p)
      BY <3>1, <3>2, <1>3 DEF DeploySuite, TypeOK, chain
    <3>3. CASE UnpauseIfNeeded(p)
      BY <3>1, <3>3 DEF UnpauseIfNeeded, Unpause, TypeOK
    <3> QED BY <1>8, <3>2, <3>3
  <2> QED BY <2>1, <2>2, <1>1 DEF TypeOK, Points, records, history
<1>9. CASE RecordToken(p)
  <2>1. UNCHANGED <<chain, kyb, status, planned, symbol, history>>
    BY <1>9 DEF RecordToken
  <2>2. tokens' \in [Symbols -> Issuers \cup {NoIssuer}]
    BY <1>9, <1>3 DEF RecordToken, TypeOK
  <2> QED BY <2>1, <2>2, <1>1 DEF TypeOK, Points, chain, history
<1>10. CASE SetTokenSymbol(p)
  <2>1. UNCHANGED <<chain, kyb, status, planned, tokens, history>>
    BY <1>10 DEF SetTokenSymbol
  <2>2. symbol' \in [Offerings -> Symbols \cup {NoSymbol}]
    BY <1>10, <1>2, <1>3 DEF SetTokenSymbol, At, RequestOk, Deploying, Checked, TypeOK
  <2> QED BY <2>1, <2>2, <1>1 DEF TypeOK, Points, chain, history
<1>11. \/ UNCHANGED <<chain, records, history>>
       \/ (\E live \in BOOLEAN : InsertOffering(p, live)) \/ WriteStatus(p) \/ OpenPlanned(p)
       \/ DeleteOffering(p) \/ TokenSymbolInUse(p) \/ DeploySuite(p) \/ UnpauseIfNeeded(p)
       \/ RecordToken(p) \/ SetTokenSymbol(p)
  BY DEF Advance, Crash, CheckExists, CheckKyb, GetToken, Adopt
<1> QED BY <1>4, <1>5, <1>6, <1>7, <1>8, <1>9, <1>10, <1>11

-----------------------------------------------------------------------------
(* The steps that leave every table as it is. *)

LEMMA CallStep == ASSUME Assumed, Inv, NEW p \in Procs, Call(p) PROVE Inv'
<1> USE DEF Inv
<1>1. PICK o \in Offerings :
        \/ Create(p, o) \/ Remove(p, o) \/ (\E to \in Statuses : SetStatus(p, o, to))
        \/ (\E s \in Symbols : DeployToken(p, o, s))
  BY DEF Call
<1>2. UNCHANGED <<chain, records>> /\ approved \subseteq approved' /\ doubled \subseteq doubled' /\ removed \subseteq removed'
  BY <1>1 DEF Create, Remove, SetStatus, DeployToken, history
<1>3. TypeOK'
  BY TypeCall DEF Assumed
<1>4. Issuer[o] \in Issuers
  BY DEF Issuers
<1>5. Alone(p) /\ RequestOk(p)' /\ Pairs'
  <2>1. CASE Create(p, o)
    <3>1. Begin(p, o, NoSymbol, "exists") /\ Issuer[o] \in approved
      BY <2>1, <1>4 DEF Create, MayList, Tables
    <3>2. Alone(p) /\ pc'[p] = "exists" /\ offering'[p] = o
      BY <3>1, Begins
    <3>3. RequestOk(p)'
      BY <3>1, <3>2, <1>2 DEF RequestOk, Deploying, Checked, Mine
    <3> QED BY <3>2, <3>3, <1>2, PairsKeep DEF Deploying, Checked
  <2>2. CASE Remove(p, o)
    <3>1. Alone(p) /\ pc'[p] = "remove" /\ offering'[p] = o
      BY <2>2, Begins DEF Remove
    <3>2. RequestOk(p)'
      BY <3>1 DEF RequestOk, Deploying, Checked
    <3> QED BY <3>1, <3>2, <1>2, PairsKeep DEF Deploying, Checked
  <2>3. CASE \E to \in Statuses : SetStatus(p, o, to)
    <3>1. PICK to \in Statuses : Begin(p, o, to, "status") /\ MayBecome(o, to)
      BY <2>3 DEF SetStatus
    <3>2. Alone(p) /\ pc'[p] = "status" /\ offering'[p] = o /\ wanted'[p] = to
      BY <3>1, Begins
    <3>3. to = "open" => symbol'[o] # NoSymbol
      BY <3>1, <1>2 DEF MayBecome, records
    <3>4. RequestOk(p)'
      BY <3>2, <3>3 DEF RequestOk, Deploying, Checked
    <3> QED BY <3>2, <3>4, <1>2, PairsKeep DEF Deploying, Checked
  <2>4. CASE \E s \in Symbols : DeployToken(p, o, s)
    <3>1. PICK s \in Symbols : DeployToken(p, o, s)
      BY <2>4
    <3>2. Alone(p) /\ pc'[p] = "inUse" /\ offering'[p] = o /\ wanted'[p] = s
      BY <3>1, Begins DEF DeployToken
    <3>3. status'[o] # "none" /\ symbol'[o] = NoSymbol
      BY <3>1 DEF DeployToken, records
    <3>4. RequestOk(p)'
      BY <3>2, <3>3 DEF RequestOk, Deploying, Checked
    <3>5. \A q \in Procs \ {p} : pc[q] \in Deploying =>
            (offering[q] = o => o \in doubled') /\ (wanted[q] = s => s \in doubled')
      <4>1. \A q \in Procs : pc[q] \in Deploying => wanted[q] \in Symbols
        BY DEF Requests, RequestOk
      <4>2. doubled' = doubled \cup {x \in {o, s} : \E q \in Procs :
                         wanted[q] \in Symbols /\ x \in {offering[q], wanted[q]}}
        BY <3>1 DEF DeployToken
      <4> QED BY <4>1, <4>2
    <3>6. Pairs'
      <4> SUFFICES ASSUME NEW q \in Procs, NEW r \in Procs, q # r, pc'[q] \in Deploying, pc'[r] \in Deploying
                   PROVE  /\ offering'[q] = offering'[r] => offering'[q] \in doubled'
                          /\ wanted'[q] = wanted'[r] => wanted'[q] \in doubled'
        BY DEF Pairs
      <4>1. CASE q # p /\ r # p
        BY <4>1, <3>2, <1>2 DEF Pairs, Alone
      <4>2. CASE q = p
        BY <4>2, <3>2, <3>5 DEF Alone
      <4>3. CASE r = p
        BY <4>3, <3>2, <3>5 DEF Alone
      <4> QED BY <4>1, <4>2, <4>3
    <3> QED BY <3>2, <3>4, <3>6
  <2> QED BY <1>1, <2>1, <2>2, <2>3, <2>4
<1>6. Requests'
  BY <1>2, <1>5, ForwardKeep, OthersKeep
<1> QED BY <1>2, <1>3, <1>5, <1>6, TablesKeep

\* A request that ends where no table is written.
LEMMA EndStep ==
  ASSUME Assumed, Inv, TypeOK', NEW p \in Procs, Finish(p), UNCHANGED <<chain, records>>,
         UNCHANGED <<approved, doubled, removed>>
  PROVE  Inv'
<1> USE DEF Inv
<1>1. Alone(p) /\ pc'[p] = "idle" /\ RequestOk(p)'
  BY Finishes
<1>2. Requests'
  BY <1>1, ForwardKeep, OthersKeep
<1>3. Pairs'
  BY <1>1, PairsKeep DEF Deploying, Checked
<1> QED BY <1>2, <1>3, TablesKeep

\* A request that goes on and writes no table.
LEMMA ReadStep ==
  ASSUME Assumed, Inv, TypeOK', NEW p \in Procs, NEW next, Continue(p, next),
         UNCHANGED <<chain, records, approved, doubled, removed>>,
         next \notin Deploying \/ pc[p] \in Deploying,
         RequestOk(p)'
  PROVE  Inv'
<1> USE DEF Inv
<1>1. Alone(p) /\ pc'[p] = next /\ offering'[p] = offering[p] /\ wanted'[p] = wanted[p]
  BY Continues
<1>2. Requests'
  BY <1>1, ForwardKeep, OthersKeep
<1>3. Pairs'
  BY <1>1, PairsKeep
<1> QED BY <1>2, <1>3, TablesKeep

LEMMA ReadingSteps ==
  ASSUME Assumed, Inv, NEW p \in Procs,
         CheckExists(p) \/ TokenSymbolInUse(p) \/ CheckKyb(p) \/ GetToken(p) \/ Adopt(p) \/ Crash(p)
  PROVE  Inv'
<1> USE DEF Inv
<1>1. UNCHANGED <<chain, records, approved, doubled, removed>>
  BY DEF CheckExists, TokenSymbolInUse, CheckKyb, GetToken, Adopt, Crash, history
<1>2. TypeOK'
  BY TypeAdvance DEF Advance
<1>3. CASE Finish(p)
  BY <1>1, <1>2, <1>3, EndStep
<1>4. RequestOk(p)
  BY DEF Requests
<1>5. \A next : Continue(p, next) =>
        pc'[p] = next /\ offering'[p] = offering[p] /\ wanted'[p] = wanted[p] /\ Mine(p)' = Mine(p)
  BY Continues DEF Mine
<1>6. CASE CheckExists(p) /\ Continue(p, "insert")
  <2>1. pc[p] = "exists"
    BY <1>6 DEF CheckExists, At
  <2>2. RequestOk(p)'
    BY <1>1, <1>4, <1>5, <1>6, <2>1 DEF RequestOk, Deploying, Checked
  <2> QED BY <1>1, <1>2, <1>6, <2>2, ReadStep DEF Deploying, Checked
<1>7. CASE TokenSymbolInUse(p) /\ Continue(p, "kyb")
  <2>1. pc[p] = "inUse" /\ wanted[p] \in Symbols
    BY <1>4, <1>7 DEF TokenSymbolInUse, At, RequestOk, Deploying
  <2>2. tokens[wanted[p]] = NoIssuer
    <3>1. pc'[p] = "kyb"
      BY <1>5, <1>7
    <3>2. ~Finish(p)
      BY <3>1 DEF Finish, Goto, TypeOK
    <3> QED BY <1>7, <3>2 DEF TokenSymbolInUse, Unrecorded
  <2>3. \A o \in Offerings : symbol[o] # wanted[p]
    BY <2>1, <2>2 DEF Tables, TokenIsOwn, Issuers, Assumed
  <2>4. RequestOk(p)'
    BY <1>1, <1>4, <1>5, <1>7, <2>1, <2>3 DEF RequestOk, Deploying, Checked, records
  <2> QED BY <1>1, <1>2, <1>7, <2>1, <2>4, ReadStep DEF Deploying
<1>8. CASE CheckKyb(p) /\ Continue(p, "getToken")
  <2>1. pc[p] = "kyb" /\ offering[p] \in Offerings
    BY <1>4, <1>8 DEF CheckKyb, At, RequestOk
  <2>2. Mine(p) \in approved
    <3>1. pc'[p] = "getToken"
      BY <1>5, <1>8
    <3>2. ~Finish(p)
      BY <3>1 DEF Finish, Goto, TypeOK
    <3>3. MayList(Mine(p))
      BY <1>8, <3>2 DEF CheckKyb
    <3> QED BY <2>1, <3>3 DEF MayList, Tables, Mine, Issuers
  <2>3. RequestOk(p)'
    BY <1>1, <1>4, <1>5, <1>8, <2>1, <2>2 DEF RequestOk, Deploying, Checked, records
  <2> QED BY <1>1, <1>2, <1>8, <2>1, <2>3, ReadStep DEF Deploying, Checked
<1>9. CASE GetToken(p)
  <2>1. PICK next \in {"submit", "adopt"} : Continue(p, next)
    BY <1>9 DEF GetToken
  <2>2. pc[p] = "getToken"
    BY <1>9 DEF GetToken, At
  <2>3. RequestOk(p)'
    BY <1>1, <1>4, <1>5, <2>1, <2>2 DEF RequestOk, Deploying, Checked, records
  <2> QED BY <1>1, <1>2, <2>1, <2>2, <2>3, ReadStep DEF Deploying, Checked
<1>10. CASE Adopt(p) /\ Continue(p, "unpause")
  <2>1. pc[p] = "adopt"
    BY <1>10 DEF Adopt, At
  <2>2. suite[wanted[p]] = Mine(p)
    <3>1. pc'[p] = "unpause"
      BY <1>5, <1>10
    <3>2. ~Finish(p)
      BY <3>1 DEF Finish, Goto, TypeOK
    <3> QED BY <1>10, <3>2 DEF Adopt, MayAdopt
  <2>3. RequestOk(p)'
    BY <1>1, <1>4, <1>5, <1>10, <2>1, <2>2 DEF RequestOk, Deploying, Checked, records, chain
  <2> QED BY <1>1, <1>2, <1>10, <2>1, <2>3, ReadStep DEF Deploying, Checked
<1> QED BY <1>3, <1>6, <1>7, <1>8, <1>9, <1>10
        DEF CheckExists, TokenSymbolInUse, CheckKyb, Adopt, Crash

-----------------------------------------------------------------------------
(* The steps that write. *)

LEMMA DecideKybStep ==
  ASSUME Assumed, Inv, NEW i \in Issuers, NEW answer \in {"approved", "rejected"}, DecideKyb(i, answer)
  PROVE  Inv'
<1> USE DEF Inv
<1>1. /\ kyb' = [kyb EXCEPT ![i] = answer] /\ calls' = calls + 1 /\ calls < MaxCalls
      /\ approved' = IF answer = "approved" THEN approved \cup {i} ELSE approved
      /\ UNCHANGED <<chain, status, planned, symbol, tokens, pc, offering, wanted, opens, doubled, removed, refused>>
  BY DEF DecideKyb
<1>2. TypeOK'
  <2>1. kyb' \in [Issuers -> {"pending_review", "approved", "rejected"}] /\ approved' \in SUBSET Issuers
    BY <1>1 DEF TypeOK
  <2>2. calls' \in 0..MaxCalls
    BY <1>1 DEF TypeOK, Assumed
  <2> QED BY <1>1, <2>1, <2>2 DEF TypeOK, chain
<1>3. \A j \in Issuers : kyb'[j] = "approved" => j \in approved'
  BY <1>1 DEF TypeOK, Tables
<1>4. approved \subseteq approved'
  BY <1>1
<1>5. Requests'
  BY <1>1, <1>4 DEF Requests, RequestOk, Mine, chain
<1>6. Pairs'
  BY <1>1 DEF Pairs
<1>7. Tables'
  BY <1>1, <1>3, <1>4 DEF Tables, TokenIsOwn, ListedIsLive, OpenHasToken, OneListing, ListedWasApproved, chain
<1> QED BY <1>2, <1>5, <1>6, <1>7

LEMMA StatusSteps ==
  ASSUME Assumed, Inv, NEW p \in Procs,
         (\E live \in BOOLEAN : InsertOffering(p, live)) \/ WriteStatus(p) \/ OpenPlanned(p)
  PROVE  Inv'
<1> USE DEF Inv
<1>1. Finish(p) /\ UNCHANGED <<chain, kyb, symbol, tokens, history>>
  BY DEF InsertOffering, WriteStatus, OpenPlanned
<1>2. TypeOK'
  BY TypeAdvance DEF Advance
<1>3. Alone(p) /\ pc'[p] = "idle" /\ RequestOk(p)'
  BY <1>1, Finishes
<1>4. offering[p] \in Offerings /\ RequestOk(p)
  BY DEF InsertOffering, WriteStatus, OpenPlanned, At, Requests, RequestOk
<1>5. PICK to \in Statuses :
        /\ status' = status \/ status' = [status EXCEPT ![offering[p]] = to]
        /\ to = "open" => offering[p] \in removed \/ symbol[offering[p]] # NoSymbol
        /\ (status' # status /\ status[offering[p]] = "none") => Issuer[offering[p]] \in approved
  <2>1. CASE \E live \in BOOLEAN : InsertOffering(p, live)
    <3>1. pc[p] = "insert" /\ (status' = status \/ status' = [status EXCEPT ![offering[p]] = "coming_soon"])
      BY <2>1 DEF InsertOffering, At
    <3>2. Issuer[offering[p]] \in approved
      BY <3>1, <1>4 DEF RequestOk, Mine
    <3> QED BY <3>1, <3>2 DEF Statuses
  <2>2. CASE WriteStatus(p)
    <3>1. pc[p] = "status" /\ Update(offering[p], wanted[p])
      BY <2>2 DEF WriteStatus, At
    <3>2. wanted[p] \in Statuses
      BY <3>1, <1>4 DEF RequestOk
    <3>3. wanted[p] = "open" => offering[p] \in removed \/ symbol[offering[p]] # NoSymbol
      BY <3>1, <1>4 DEF RequestOk
    <3> QED BY <3>1, <3>2, <3>3 DEF Update
  <2>3. CASE OpenPlanned(p)
    <3>1. pc[p] = "open" /\ Update(offering[p], "open")
      BY <2>3 DEF OpenPlanned, At
    <3>2. offering[p] \in removed \/ symbol[offering[p]] # NoSymbol
      BY <3>1, <1>4 DEF RequestOk
    <3> QED BY <3>1, <3>2 DEF Update, Statuses
  <2> QED BY <2>1, <2>2, <2>3
<1>6. \A o \in Offerings : status'[o] = status[o] \/ (o = offering[p] /\ status'[o] = to)
  BY <1>5, <1>4 DEF TypeOK
<1>7. to # "none"
  BY DEF Statuses
<1>8. Forward(p) /\ ListsKnown(p)
  BY <1>1, <1>6, <1>7 DEF Forward, ListsKnown, chain, history
<1>9. Requests' /\ Pairs'
  BY <1>1, <1>3, <1>8, OthersKeep, PairsKeep DEF Deploying, Checked, history
<1>10. OpenHasToken'
  BY <1>1, <1>5, <1>6 DEF Tables, OpenHasToken, history
<1>11. ListedWasApproved'
  <2>1. \A o \in Offerings : status'[o] # "none" => Issuer[o] \in approved
    BY <1>5, <1>6 DEF Tables, ListedWasApproved
  <2> QED BY <2>1, <1>1 DEF Tables, ListedWasApproved, chain, history
<1> QED BY <1>1, <1>2, <1>9, <1>10, <1>11 DEF Tables, TokenIsOwn, ListedIsLive, OneListing, chain, history

LEMMA DeleteStep == ASSUME Assumed, Inv, NEW p \in Procs, DeleteOffering(p) PROVE Inv'
<1> USE DEF Inv
<1>1. Finish(p) /\ UNCHANGED <<chain, kyb, tokens, approved, doubled, refused>> /\ pc[p] = "remove"
  BY DEF DeleteOffering, At
<1>2. TypeOK'
  BY TypeAdvance DEF Advance
<1>3. Alone(p) /\ pc'[p] = "idle" /\ RequestOk(p)'
  BY <1>1, Finishes
<1>4. offering[p] \in Offerings
  BY <1>1 DEF Requests, RequestOk
<1>5. symbol' = symbol
  <2>1. CASE symbol' = [symbol EXCEPT ![offering[p]] = NoSymbol] /\ Removable(offering[p])
    BY <2>1, <1>4 DEF Removable, TypeOK
  <2> QED BY <2>1 DEF DeleteOffering
<1>6. removed \subseteq removed' /\ \A o \in Offerings : status'[o] = status[o] \/ status'[o] = "none"
  BY <1>4 DEF DeleteOffering, TypeOK
<1>7. \A q \in Procs \ {p}, o \in Offerings :
        offering[q] = o => status'[o] = status[o] \/ o \in removed'
  BY <1>4 DEF DeleteOffering, TypeOK
<1>8. Forward(p) /\ ListsKnown(p)
  BY <1>1, <1>5, <1>6, <1>7 DEF Forward, ListsKnown, chain
<1>9. Requests' /\ Pairs'
  BY <1>1, <1>3, <1>8, OthersKeep, PairsKeep DEF Deploying, Checked
<1>10. OpenHasToken' /\ ListedWasApproved'
  BY <1>1, <1>5, <1>6 DEF Tables, OpenHasToken, ListedWasApproved, chain
<1> QED BY <1>1, <1>2, <1>5, <1>9, <1>10 DEF Tables, TokenIsOwn, ListedIsLive, OneListing, chain

LEMMA DeploySuiteStep == ASSUME Assumed, Inv, NEW p \in Procs, DeploySuite(p) PROVE Inv'
<1> USE DEF Inv
<1> DEFINE s == wanted[p]
<1>1. UNCHANGED <<records, history>> /\ pc[p] = "submit"
  BY DEF DeploySuite, At
<1>2. TypeOK' /\ RequestOk(p)
  BY TypeAdvance DEF Advance, Requests
<1>3. CASE Finish(p) /\ UNCHANGED chain
  BY <1>1, <1>2, <1>3, EndStep DEF history
<1>4. CASE /\ suite[s] = NoIssuer
           /\ suite' = [suite EXCEPT ![s] = Mine(p)] /\ paused' = paused \cup {s}
           /\ Continue(p, "unpause")
  <2>1. Alone(p) /\ pc'[p] = "unpause" /\ offering'[p] = offering[p] /\ wanted'[p] = s
    BY <1>4, Continues
  <2>2. s \in Symbols /\ offering[p] \in Offerings /\ Mine(p) \in approved
    BY <1>1, <1>2 DEF RequestOk, Deploying, Checked
  <2>3. suite'[s] = Mine(p) /\ \A r \in Symbols \ {s} : suite'[r] = suite[r]
    BY <1>4, <2>2 DEF TypeOK
  <2>4. RequestOk(p)'
    BY <1>1, <1>2, <2>1, <2>2, <2>3 DEF RequestOk, Deploying, Checked, Mine, records, history
  <2>5. Forward(p) /\ ListsKnown(p)
    BY <1>1, <1>4, <2>3 DEF Forward, ListsKnown, records, history
  <2>6. Requests' /\ Pairs'
    BY <1>1, <2>1, <2>4, <2>5, OthersKeep, PairsKeep DEF Deploying, Checked, history
  <2>7. tokens[s] = NoIssuer /\ \A o \in Offerings : symbol[o] # s
    BY <1>4, <2>2 DEF Tables, TokenIsOwn, Issuers, Assumed
  <2>8. (\A r \in Symbols : tokens'[r] # NoIssuer => tokens'[r] = suite'[r]) /\ ListedWasApproved'
    BY <1>1, <2>2, <2>3, <2>7 DEF Tables, ListedWasApproved, records, history
  <2>9. TokenIsOwn' /\ ListedIsLive'
    BY <1>1, <1>4, <2>3, <2>7 DEF Tables, TokenIsOwn, ListedIsLive, TypeOK, records
  <2> QED BY <1>1, <1>2, <2>6, <2>8, <2>9 DEF Tables, OpenHasToken, OneListing, records, history
<1> QED BY <1>3, <1>4 DEF DeploySuite

LEMMA UnpauseStep == ASSUME Assumed, Inv, NEW p \in Procs, UnpauseIfNeeded(p) PROVE Inv'
<1> USE DEF Inv
<1>1. /\ UNCHANGED <<suite, records, history>> /\ pc[p] = "unpause"
      /\ paused' = paused \ {wanted[p]} /\ Continue(p, "record")
  BY DEF UnpauseIfNeeded, Unpause, At
<1>2. TypeOK' /\ RequestOk(p)
  BY TypeAdvance DEF Advance, Requests
<1>3. Alone(p) /\ pc'[p] = "record" /\ offering'[p] = offering[p] /\ wanted'[p] = wanted[p]
  BY <1>1, Continues
<1>4. RequestOk(p)'
  BY <1>1, <1>2, <1>3 DEF RequestOk, Deploying, Checked, Mine, records, history
<1>5. Forward(p) /\ ListsKnown(p)
  BY <1>1 DEF Forward, ListsKnown, records, history
<1>6. Requests' /\ Pairs'
  BY <1>1, <1>3, <1>4, <1>5, OthersKeep, PairsKeep DEF Deploying, Checked, history
<1> QED BY <1>1, <1>2, <1>6 DEF Tables, TokenIsOwn, ListedIsLive, OpenHasToken, OneListing,
                               ListedWasApproved, records, history

LEMMA RecordTokenStep == ASSUME Assumed, Inv, NEW p \in Procs, RecordToken(p) PROVE Inv'
<1> USE DEF Inv
<1> DEFINE s == wanted[p]
<1>1. /\ UNCHANGED <<chain, kyb, status, planned, symbol, history>> /\ pc[p] = "record"
      /\ tokens' = [tokens EXCEPT ![s] = IF @ = NoIssuer THEN Mine(p) ELSE @] /\ Continue(p, "symbol")
  BY DEF RecordToken, At
<1>2. TypeOK' /\ RequestOk(p)
  BY TypeAdvance DEF Advance, Requests
<1>3. Alone(p) /\ pc'[p] = "symbol" /\ offering'[p] = offering[p] /\ wanted'[p] = s
  BY <1>1, Continues
<1>4. s \in Symbols /\ suite[s] = Mine(p)
  BY <1>1, <1>2 DEF RequestOk, Deploying, Checked
<1>5. tokens'[s] = Mine(p) /\ \A r \in Symbols \ {s} : tokens'[r] = tokens[r]
  BY <1>1, <1>4 DEF TypeOK, Tables
<1>6. tokens[s] # NoIssuer => tokens[s] = Mine(p)
  BY <1>4 DEF Tables
<1>7. RequestOk(p)'
  BY <1>1, <1>2, <1>3, <1>5 DEF RequestOk, Deploying, Checked, Mine, chain, history
<1>8. Forward(p) /\ ListsKnown(p)
  BY <1>1, <1>5, <1>6 DEF Forward, ListsKnown, chain, history
<1>9. Requests' /\ Pairs'
  BY <1>1, <1>3, <1>7, <1>8, OthersKeep, PairsKeep DEF Deploying, Checked, history
<1>10. \A r \in Symbols : tokens'[r] # NoIssuer => tokens'[r] = suite'[r]
  BY <1>1, <1>4, <1>5 DEF Tables, chain
<1>11. TokenIsOwn'
  <2> SUFFICES ASSUME NEW o \in Offerings, symbol[o] # NoSymbol
               PROVE  suite[symbol[o]] = Issuer[o] /\ tokens'[symbol[o]] = Issuer[o]
    BY <1>1 DEF TokenIsOwn, chain
  <2>1. symbol[o] \in Symbols /\ suite[symbol[o]] = Issuer[o] /\ tokens[symbol[o]] = Issuer[o]
    BY DEF Tables, TokenIsOwn, TypeOK
  <2> QED BY <2>1, <1>4, <1>5
<1> QED BY <1>1, <1>2, <1>9, <1>10, <1>11 DEF Tables, ListedIsLive, OpenHasToken, OneListing,
                                              ListedWasApproved, chain, history

LEMMA SetTokenSymbolStep == ASSUME Assumed, Inv, NEW p \in Procs, SetTokenSymbol(p) PROVE Inv'
<1> USE DEF Inv
<1> DEFINE s == wanted[p]
           o == offering[p]
<1>1. /\ UNCHANGED <<chain, kyb, status, planned, tokens, history>> /\ pc[p] = "symbol"
      /\ symbol' = IF status[o] = "none" THEN symbol ELSE [symbol EXCEPT ![o] = s]
      /\ Continue(p, "open") \/ Finish(p)
  BY DEF SetTokenSymbol, At
<1>2. TypeOK' /\ RequestOk(p)
  BY TypeAdvance DEF Advance, Requests
<1>3. /\ o \in Offerings /\ s \in Symbols /\ suite[s] = Mine(p) /\ tokens[s] = Mine(p) /\ s \notin paused
      /\ status[o] # "none" \/ o \in removed
      /\ \A r \in Offerings : symbol[r] = s => s \in doubled
  BY <1>1, <1>2 DEF RequestOk, Deploying, Checked
<1>4. \A r \in Offerings : symbol'[r] = symbol[r] \/ (r = o /\ symbol'[r] = s)
  BY <1>1, <1>3 DEF TypeOK
<1>5. status[o] # "none" => symbol'[o] = s
  BY <1>1, <1>3 DEF TypeOK
<1>6. Alone(p) /\ pc'[p] \in {"open", "idle"} /\ (pc'[p] = "open" => offering'[p] = o)
  <2>1. CASE Continue(p, "open")
    BY <2>1, Continues
  <2>2. CASE Finish(p)
    BY <2>2, Finishes
  <2> QED BY <1>1, <2>1, <2>2
<1>7. RequestOk(p)'
  BY <1>1, <1>3, <1>5, <1>6 DEF RequestOk, Deploying, Checked, history, Assumed
<1>8. \A q \in Procs \ {p} : pc[q] \in Deploying =>
        (offering[q] = o => o \in doubled) /\ (wanted[q] = s => s \in doubled)
  BY <1>1 DEF Pairs, Deploying, Checked
<1>9. Forward(p) /\ ListsKnown(p)
  <2>1. ListsKnown(p)
    BY <1>3, <1>4, <1>8 DEF ListsKnown
  <2>2. Forward(p)
    BY <1>1 DEF Forward, chain, history
  <2> QED BY <2>1, <2>2
<1>10. Requests' /\ Pairs'
  BY <1>1, <1>6, <1>7, <1>9, OthersKeep, PairsKeep DEF Deploying, Checked, history
<1>11. TokenIsOwn' /\ ListedIsLive'
  BY <1>1, <1>3, <1>4 DEF Tables, TokenIsOwn, ListedIsLive, Mine, chain
<1>12. OpenHasToken'
  BY <1>1, <1>3, <1>4 DEF Tables, OpenHasToken, history, Assumed
<1>13. OneListing'
  BY <1>1, <1>3, <1>4 DEF Tables, OneListing, history
<1> QED BY <1>1, <1>2, <1>10, <1>11, <1>12, <1>13 DEF Tables, ListedWasApproved, chain, history

-----------------------------------------------------------------------------
(* The theorems. *)

LEMMA NextInv == ASSUME Assumed, Inv, [Next]_vars PROVE Inv'
<1>1. ASSUME NEW p \in Procs, Advance(p) PROVE Inv'
  BY <1>1, ReadingSteps, StatusSteps, DeleteStep, DeploySuiteStep, UnpauseStep, RecordTokenStep,
     SetTokenSymbolStep DEF Advance
<1>2. CASE UNCHANGED vars
  <2>1. UNCHANGED <<chain, records, local, history>>
    BY <1>2 DEF vars
  <2> USE <2>1 DEF chain, records, local, history
  <2>2. TypeOK'
    BY DEF Inv, TypeOK
  <2>3. Requests' /\ Pairs'
    BY DEF Inv, Requests, RequestOk, Mine, Pairs
  <2>4. Tables'
    BY TablesKeep DEF Inv
  <2> QED BY <2>2, <2>3, <2>4 DEF Inv
<1> QED BY <1>1, <1>2, CallStep, ReadingSteps, DecideKybStep DEF Next

LEMMA AlwaysInv == ASSUME Assumed PROVE Spec => []Inv
<1>1. Init => Inv
  BY InitInv
<1>2. Inv /\ [Next]_vars => Inv'
  BY NextInv
<1> QED BY <1>1, <1>2, PTL DEF Spec

\* Every variable has its type.
THEOREM DeploymentTyped == ASSUME Assumed PROVE Spec => []TypeOK
<1>1. Inv => TypeOK
  BY DEF Inv
<1> QED BY <1>1, AlwaysInv, PTL

\* The token that an offering names is its issuer's, on the chain and in the records.
THEOREM TokensAreOwn == ASSUME Assumed PROVE Spec => []TokenIsOwn
<1>1. Inv => TokenIsOwn
  BY DEF Inv, Tables
<1> QED BY <1>1, AlwaysInv, PTL

\* The token that an offering names was unpaused, whichever deployment began it.
THEOREM ListedAreLive == ASSUME Assumed PROVE Spec => []ListedIsLive
<1>1. Inv => ListedIsLive
  BY DEF Inv, Tables
<1> QED BY <1>1, AlwaysInv, PTL

\* An offering is open only with a token.
THEOREM OpenHaveTokens == ASSUME Assumed PROVE Spec => []OpenHasToken
<1>1. Inv => OpenHasToken
  BY DEF Inv, Tables
<1> QED BY <1>1, AlwaysInv, PTL

\* Two offerings name one token only where two deployments asked for it at once.
THEOREM OneListingEach == ASSUME Assumed PROVE Spec => []OneListing
<1>1. Inv => OneListing
  BY DEF Inv, Tables
<1> QED BY <1>1, AlwaysInv, PTL

\* What is listed or deployed is an approved issuer's.
THEOREM ListedWereApproved == ASSUME Assumed PROVE Spec => []ListedWasApproved
<1>1. Inv => ListedWasApproved
  BY DEF Inv, Tables
<1> QED BY <1>1, AlwaysInv, PTL

LEMMA OnlyTwoWriteSymbols ==
  ASSUME Next, symbol' # symbol PROVE \E p \in Procs : DeleteOffering(p) \/ SetTokenSymbol(p)
<1>1. PICK p \in Procs : Call(p) \/ Advance(p) \/ Crash(p)
  BY DEF Next, DecideKyb
<1>2. ~Call(p) /\ ~Crash(p)
  BY DEF Call, Create, Remove, SetStatus, DeployToken, Crash, records
<1> QED BY <1>1, <1>2 DEF Advance, CheckExists, WriteStatus, InsertOffering, TokenSymbolInUse, CheckKyb, GetToken,
                          Adopt, DeploySuite, UnpauseIfNeeded, RecordToken, OpenPlanned, records

\* A token keeps its listing: only two deployments of one offering at once replace it.
THEOREM TokensAreKept == ASSUME Assumed PROVE Spec => KeepsToken
<1>1. ASSUME Assumed, Inv, [Next]_vars
      PROVE  [\A o \in Offerings \ doubled : symbol[o] # NoSymbol => symbol'[o] = symbol[o]]_vars
  <2> SUFFICES ASSUME NEW o \in Offerings \ doubled, symbol[o] # NoSymbol, symbol'[o] # symbol[o], Next
               PROVE  FALSE
    BY <1>1
  <2>1. PICK p \in Procs : DeleteOffering(p) \/ SetTokenSymbol(p)
    BY OnlyTwoWriteSymbols
  <2>2. symbol \in [Offerings -> Symbols \cup {NoSymbol}] /\ RequestOk(p)
    BY <1>1 DEF Inv, TypeOK, Requests
  <2>3. CASE DeleteOffering(p)
    BY <2>2, <2>3 DEF DeleteOffering, Removable
  <2>4. CASE SetTokenSymbol(p)
    <3>1. o = offering[p] /\ pc[p] = "symbol"
      BY <2>2, <2>4 DEF SetTokenSymbol, At
    <3> QED BY <2>2, <3>1 DEF RequestOk, Deploying, Checked
  <2> QED BY <2>1, <2>3, <2>4
<1> QED BY <1>1, AlwaysInv, PTL DEF Spec, KeepsToken

\* Together: the listings, the records and the factory agree about the tokens.
THEOREM ListingsHold == ASSUME Assumed PROVE Spec => ListingsAgree
<1>1. Spec => []TokenIsOwn
  BY TokensAreOwn
<1>2. Spec => []ListedIsLive
  BY ListedAreLive
<1>3. Spec => []OpenHasToken
  BY OpenHaveTokens
<1>4. Spec => []OneListing
  BY OneListingEach
<1>5. Spec => []ListedWasApproved
  BY ListedWereApproved
<1>6. Spec => KeepsToken
  BY TokensAreKept
<1> QED BY <1>1, <1>2, <1>3, <1>4, <1>5, <1>6, PTL DEF ListingsAgree
=============================================================================
