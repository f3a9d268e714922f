-------------------------------- MODULE Cases --------------------------------
(***************************************************************************)
(* Legal cases, and the recovery of a lost wallet under one: link the new  *)
(* wallet to the person, register it, freeze the old one, and submit a     *)
(* forced transfer of what the old one holds. The approval of the transfer *)
(* is the matter of Approvals, the registration that of Onboarding.        *)
(*                                                                         *)
(* A process is one call of recover. Whoever has the key of a wallet moves *)
(* its tokens whenever the chain lets them.                                *)
(***************************************************************************)
EXTENDS Naturals, Sequences

CONSTANTS
  Cases,
  Wallets,
  Owner,       \* the person of a wallet at first, or Nobody
  Nobody,
  NoCase, NoWallet,
  Procs,
  CrashPoints, \* subset of {"register", "freeze", "read", "submit"}: what the process dies before
  MaxHeld,     \* bound: tokens of a wallet
  MaxCalls     \* bound: recoveries

VARIABLES
  status,     \* legal_cases.status
  person,     \* wallets.primary_wallet
  registered, \* IdentityRegistry: the wallets of the token
  frozen,     \* Token: frozen wallets
  balance,    \* Token: what a wallet holds
  transfers,  \* operation_requests: the forced transfers submitted
  pc,
  job,        \* the case and the two wallets
  amount,     \* the balance that was read
  calls,      \* counter of the bound
  thawed,     \* history: wallets that were unfrozen again, or emptied by a transfer
  crossed,    \* history: new wallets that two open recoveries named
  refused     \* history: new wallets that a repeated recovery could not get past

tables == <<status, person, transfers>>
chain == <<registered, frozen, balance>>
local == <<pc, job, amount, calls>>
history == <<thawed, crossed, refused>>
vars == <<tables, chain, local, history>>

NoJob == [case |-> NoCase, from |-> NoWallet, to |-> NoWallet]

\* Every variable has its type.
TypeOK ==
  /\ status \in [Cases -> {"none", "open", "closed"}]
  /\ DOMAIN person = Wallets
  /\ registered \in SUBSET Wallets /\ frozen \in SUBSET Wallets
  /\ balance \in [Wallets -> Nat]
  /\ transfers \in Seq([from : Wallets, to : Wallets, amount : Nat \ {0}, done : BOOLEAN])
  /\ pc \in [Procs -> {"idle", "find", "link", "register", "freeze", "read", "submit"}]
  /\ job \in [Procs -> [case : Cases \cup {NoCase}, from : Wallets \cup {NoWallet}, to : Wallets \cup {NoWallet}]]
  /\ amount \in [Procs -> Nat] /\ calls \in 0..MaxCalls
  /\ thawed \in SUBSET Wallets /\ crossed \in SUBSET Wallets /\ refused \in SUBSET Wallets

Init ==
  /\ status = [c \in Cases |-> "none"]
  /\ person = Owner
  /\ registered = {w \in Wallets : Owner[w] # Nobody}
  /\ frozen = {}
  /\ balance = [w \in Wallets |-> IF Owner[w] # Nobody THEN 1 ELSE 0]
  /\ transfers = <<>>
  /\ pc = [p \in Procs |-> "idle"] /\ job = [p \in Procs |-> NoJob] /\ amount = [p \in Procs |-> 0] /\ calls = 0
  /\ thawed = {} /\ crossed = {} /\ refused = {}

At(p, here) == pc[p] = here
Goto(p, next) == pc' = [pc EXCEPT ![p] = next]
Continue(p, next) == Goto(p, next) /\ UNCHANGED <<job, amount, calls>>
Finish(p) ==
  /\ Goto(p, "idle")
  /\ job' = [job EXCEPT ![p] = NoJob]
  /\ amount' = [amount EXCEPT ![p] = 0]
  /\ UNCHANGED calls

-----------------------------------------------------------------------------
(* open and close *)

\* REFERENCE_TAKEN otherwise, by the check or by the unique index.
OpenCase(c) ==
  /\ status[c] = "none"
  /\ status' = [status EXCEPT ![c] = "open"]
  /\ UNCHANGED <<person, transfers, chain, local, history>>

\* The statement asks for an open case; a recovery under way goes on.
CloseCase(c) ==
  /\ status[c] = "open"
  /\ status' = [status EXCEPT ![c] = "closed"]
  /\ UNCHANGED <<person, transfers, chain, local, history>>

-----------------------------------------------------------------------------
(* recover *)

\* Mutant: the old wallet is frozen once the transfer is submitted.
FreezeLast(step) ==
  CASE step = "register" -> "read" [] step = "read" -> "submit" [] step = "submit" -> "freeze" [] OTHER -> "idle"

Following(step) ==
  CASE step = "register" -> "freeze" [] step = "freeze" -> "read" [] step = "read" -> "submit" [] OTHER -> "idle"

Proceed(p, step) == IF Following(step) = "idle" THEN Finish(p) ELSE Continue(p, Following(step))

\* CASE_CLOSED, SAME_WALLET otherwise.
Recover(p, c, from, to) ==
  /\ At(p, "idle") /\ status[c] = "open" /\ from # to /\ person[from] # Nobody
  /\ calls < MaxCalls /\ calls' = calls + 1
  /\ Goto(p, "find")
  /\ job' = [job EXCEPT ![p] = [case |-> c, from |-> from, to |-> to]]
  /\ crossed' = IF \E q \in Procs : job[q].to = to THEN crossed \cup {to} ELSE crossed
  /\ UNCHANGED <<tables, chain, amount, thawed, refused>>

\* Mutant: a wallet that is linked needs no link.
LinkedToAnyone(p) == person[job[p].to] # Nobody

\* Mutant: every recovery links the wallet.
NeverLinked(p) == FALSE

\* walletsForPerson(resolvePrimaryWallet(old)) has the new wallet.
AlreadyLinked(p) == person[job[p].to] = person[job[p].from]

Find(p) ==
  /\ At(p, "find")
  /\ Continue(p, IF AlreadyLinked(p) THEN "register" ELSE "link")
  /\ UNCHANGED <<tables, chain, history>>

\* adminLinkWallet: WALLET_LINKED where the wallet has a person, by the check or
\* by the primary key.
AdminLinkWallet(p) ==
  /\ At(p, "link")
  /\ LET w == job[p].to IN
     IF person[w] = Nobody
     THEN /\ person' = [person EXCEPT ![w] = person[job[p].from]]
          /\ Continue(p, "register") /\ UNCHANGED refused
     ELSE /\ Finish(p) /\ UNCHANGED person
          /\ refused' = IF person[w] = person[job[p].from] /\ w \notin crossed THEN refused \cup {w} ELSE refused
  /\ UNCHANGED <<status, transfers, chain, thawed, crossed>>

\* A claim that is missing, or a transaction that fails, ends the call.
Register(p) ==
  /\ At(p, "register")
  /\ \/ registered' = registered \cup {job[p].to} /\ Proceed(p, "register")
     \/ Finish(p) /\ UNCHANGED registered
  /\ UNCHANGED <<tables, frozen, balance, history>>

Freeze(p) ==
  /\ At(p, "freeze")
  /\ \/ frozen' = frozen \cup {job[p].from} /\ Proceed(p, "freeze")
     \/ Finish(p) /\ UNCHANGED frozen
  /\ UNCHANGED <<tables, registered, balance, history>>

ReadBalance(p) ==
  /\ At(p, "read")
  /\ amount' = [amount EXCEPT ![p] = balance[job[p].from]]
  /\ Goto(p, Following("read"))
  /\ UNCHANGED <<tables, chain, job, calls, history>>

\* An old wallet that holds nothing needs no transfer.
SubmitTransfer(p) ==
  /\ At(p, "submit")
  /\ IF amount[p] = 0 THEN UNCHANGED transfers
     ELSE transfers' = Append(transfers, [from |-> job[p].from, to |-> job[p].to,
                                          amount |-> amount[p], done |-> FALSE])
  /\ Proceed(p, "submit")
  /\ UNCHANGED <<status, person, chain, history>>

Crash(p) ==
  /\ pc[p] \in CrashPoints
  /\ Finish(p)
  /\ UNCHANGED <<tables, chain, history>>

-----------------------------------------------------------------------------
(* The chain: approved transfers, agents, settlements and holders *)

\* A forced transfer asks for the tokens and for a registered recipient, and
\* not whether the wallet is frozen.
Execute(n) ==
  /\ ~transfers[n].done
  /\ LET t == transfers[n]
         moves == balance[t.from] >= t.amount /\ t.to \in registered IN
     /\ balance' = IF moves THEN [balance EXCEPT ![t.from] = @ - t.amount, ![t.to] = @ + t.amount] ELSE balance
     /\ thawed' = IF moves THEN thawed \cup {t.from} ELSE thawed
  /\ transfers' = [transfers EXCEPT ![n].done = TRUE]
  /\ UNCHANGED <<status, person, registered, frozen, local, crossed, refused>>

\* setAddressFrozen by an agent of the issuer.
Unfreeze(w) ==
  /\ w \in frozen
  /\ frozen' = frozen \ {w} /\ thawed' = thawed \cup {w}
  /\ UNCHANGED <<tables, registered, balance, local, crossed, refused>>

Mint(w) ==
  /\ w \in registered /\ balance[w] < MaxHeld
  /\ balance' = [balance EXCEPT ![w] = @ + 1]
  /\ UNCHANGED <<tables, registered, frozen, local, history>>

Transfer(from, to) ==
  /\ from # to /\ {from, to} \cap frozen = {} /\ to \in registered
  /\ balance[from] > 0 /\ balance[to] < MaxHeld
  /\ balance' = [balance EXCEPT ![from] = @ - 1, ![to] = @ + 1]
  /\ UNCHANGED <<tables, registered, frozen, local, history>>

-----------------------------------------------------------------------------
Advance(p) ==
  \/ Find(p) \/ AdminLinkWallet(p) \/ Register(p) \/ Freeze(p) \/ ReadBalance(p) \/ SubmitTransfer(p)

Call(p) == \E c \in Cases :
  \/ OpenCase(c) \/ CloseCase(c)
  \/ \E from, to \in Wallets : Recover(p, c, from, to)

Next ==
  \/ \E p \in Procs : Call(p) \/ Advance(p) \/ Crash(p)
  \/ \E n \in 1..Len(transfers) : Execute(n)
  \/ \E w \in Wallets : Unfreeze(w) \/ Mint(w)
  \/ \E from, to \in Wallets : Transfer(from, to)

Spec == Init /\ [][Next]_vars

-----------------------------------------------------------------------------
(* Properties. *)

\* What was submitted is still there when it is approved, however long that
\* takes and whoever has the old key, unless an agent unfroze the wallet or
\* another transfer emptied it first.
SubmittedStays ==
  \A n \in 1..Len(transfers) : LET t == transfers[n] IN
    (~t.done /\ t.from \notin thawed) => balance[t.from] >= t.amount

\* A recovery never hands tokens to the wallet of another person, and takes no
\* wallet from another person.
SamePerson == \A n \in 1..Len(transfers) : person[transfers[n].from] = person[transfers[n].to]

\* A recovery that died half way gets past the link it had made when it is run
\* again, unless another one is about the same new wallet.
RunsAgain == refused = {}

\* A recovery moves a person's tokens to a wallet of that person, whatever dies,
\* is repeated or comes late in between.
RecoveryHolds == SubmittedStays /\ SamePerson /\ RunsAgain
=============================================================================
