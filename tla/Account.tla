------------------------------- MODULE Account -------------------------------
(***************************************************************************)
(* The investor's account: the codes that are mailed to sign up and to     *)
(* reset the password, and the nonces a wallet signs before the account    *)
(* connects it. A code and a nonce are redeemed by a DELETE that returns   *)
(* the row, so that one request gets it.                                   *)
(*                                                                         *)
(* A process is one request. People keep every mail and every signature    *)
(* and may send any of them at any time. Codes are drawn at random; here   *)
(* two codes never agree.                                                  *)
(***************************************************************************)
EXTENDS Naturals, Sequences, FiniteSets

CONSTANTS
  Emails,      \* an account goes by its email
  Wallets,
  Legacy,      \* wallets with a row of no account, from before there were accounts
  Nobody, NoWallet,
  Procs,
  CrashPoints, \* subset of {"issued", "redeemed"}: where the process may die
  MaxCodes,    \* bound: codes
  MaxNonces    \* bound: nonces

Purposes == {"verify", "reset"}
NoCode == 0

VARIABLES
  exists, verified,
  password, \* the code that set it; NoCode for the one given at signup
  codes,    \* all codes, by number: whose and what for
  otps,     \* account_otps: the codes in the table
  expired,  \* codes whose time is over
  mailed,   \* codes that have arrived
  nonces,   \* all nonces, by number: the wallet
  pending,  \* investor_nonces: the nonces in the table
  row,      \* investors.account_id of a wallet
  present,  \* wallets with a row
  sessions, \* accounts with a session for a wallet
  pc,
  who,
  code,     \* the code or nonce the request carries
  purpose,
  target,   \* the wallet of the request
  seen,     \* what it has read: the account is verified, or the row is there
  signups, redeemed, accepted \* history: accounts made, codes and nonces that worked

accounts == <<exists, verified, password>>
mail == <<codes, otps, expired, mailed>>
siwe == <<nonces, pending>>
investors == <<row, present, sessions>>
local == <<pc, who, code, purpose, target, seen>>
history == <<signups, redeemed, accepted>>
vars == <<accounts, mail, siwe, investors, local, history>>

\* Every variable has its type.
TypeOK ==
  /\ exists \in [Emails -> BOOLEAN] /\ verified \in [Emails -> BOOLEAN]
  /\ password \in [Emails -> 0..MaxCodes]
  /\ codes \in Seq([email : Emails, purpose : Purposes]) /\ Len(codes) <= MaxCodes
  /\ otps \in SUBSET (1..MaxCodes) /\ expired \in SUBSET (1..MaxCodes) /\ mailed \in SUBSET (1..MaxCodes)
  /\ nonces \in Seq(Wallets) /\ Len(nonces) <= MaxNonces
  /\ pending \in SUBSET (1..MaxNonces)
  /\ row \in [Wallets -> Emails \cup {Nobody}] /\ present \in SUBSET Wallets
  /\ sessions \in SUBSET (Emails \X Wallets)
  /\ pc \in [Procs -> {"idle", "create", "issue", "mail", "consume", "password", "mark",
                       "nonce", "approved", "select", "insert", "update"}]
  /\ who \in [Procs -> Emails \cup {Nobody}]
  /\ code \in [Procs -> Nat]
  /\ purpose \in [Procs -> Purposes \cup {"none"}]
  /\ target \in [Procs -> Wallets \cup {NoWallet}]
  /\ seen \in [Procs -> BOOLEAN]
  /\ signups \in [Emails -> Nat] /\ redeemed \in [1..MaxCodes -> Nat] /\ accepted \in [1..MaxNonces -> Nat]

Init ==
  /\ exists = [e \in Emails |-> FALSE] /\ verified = [e \in Emails |-> FALSE]
  /\ password = [e \in Emails |-> NoCode]
  /\ codes = <<>> /\ otps = {} /\ expired = {} /\ mailed = {}
  /\ nonces = <<>> /\ pending = {}
  /\ row = [w \in Wallets |-> Nobody] /\ present = Legacy /\ sessions = {}
  /\ pc = [p \in Procs |-> "idle"] /\ who = [p \in Procs |-> Nobody]
  /\ code = [p \in Procs |-> NoCode] /\ purpose = [p \in Procs |-> "none"]
  /\ target = [p \in Procs |-> NoWallet] /\ seen = [p \in Procs |-> FALSE]
  /\ signups = [e \in Emails |-> 0]
  /\ redeemed = [c \in 1..MaxCodes |-> 0] /\ accepted = [n \in 1..MaxNonces |-> 0]

At(p, here) == pc[p] = here
Goto(p, next) == pc' = [pc EXCEPT ![p] = next]
Continue(p, next) == Goto(p, next) /\ UNCHANGED <<who, code, purpose, target, seen>>

Begin(p, e, what, c, w, next) ==
  /\ At(p, "idle") /\ Goto(p, next)
  /\ who' = [who EXCEPT ![p] = e]
  /\ purpose' = [purpose EXCEPT ![p] = what]
  /\ code' = [code EXCEPT ![p] = c]
  /\ target' = [target EXCEPT ![p] = w]
  /\ seen' = [seen EXCEPT ![p] = e # Nobody /\ verified[e]]

Finish(p) ==
  /\ Goto(p, "idle")
  /\ who' = [who EXCEPT ![p] = Nobody]
  /\ purpose' = [purpose EXCEPT ![p] = "none"]
  /\ code' = [code EXCEPT ![p] = NoCode]
  /\ target' = [target EXCEPT ![p] = NoWallet]
  /\ seen' = [seen EXCEPT ![p] = FALSE]

-----------------------------------------------------------------------------
(* Codes: signup, resendVerification, forgotPassword and issueCode *)

\* EMAIL_ALREADY_REGISTERED where the email is found.
Signup(p, e) ==
  /\ ~exists[e]
  /\ Begin(p, e, "verify", NoCode, NoWallet, "create")
  /\ UNCHANGED <<accounts, mail, siwe, investors, history>>

\* Mutant: an account that came in between is overwritten.
IsFreeAsRead(e) == TRUE

\* The unique index on the email refuses the second of two signups.
IsFree(e) == ~exists[e]

Create(p) ==
  /\ At(p, "create")
  /\ IF IsFree(who[p])
     THEN /\ exists' = [exists EXCEPT ![who[p]] = TRUE]
          /\ signups' = [signups EXCEPT ![who[p]] = @ + 1]
          /\ Continue(p, "issue")
     ELSE Finish(p) /\ UNCHANGED <<exists, signups>>
  /\ UNCHANGED <<verified, password, mail, siwe, investors, redeemed, accepted>>

ResendVerification(p, e) ==
  /\ exists[e] /\ ~verified[e]
  /\ Begin(p, e, "verify", NoCode, NoWallet, "issue")
  /\ UNCHANGED <<accounts, mail, siwe, investors, history>>

ForgotPassword(p, e) ==
  /\ exists[e]
  /\ Begin(p, e, "reset", NoCode, NoWallet, "issue")
  /\ UNCHANGED <<accounts, mail, siwe, investors, history>>

\* Mutant: a resend leaves the earlier code where it is.
Besides(key) == otps

\* upsertOtp: the row of the email and the purpose is replaced.
Others(key) == {c \in otps : codes[c] # key}

UpsertOtp(p) ==
  /\ At(p, "issue") /\ Len(codes) < MaxCodes
  /\ LET key == [email |-> who[p], purpose |-> purpose[p]] IN
     codes' = Append(codes, key) /\ otps' = Others(key) \cup {Len(codes) + 1}
  /\ code' = [code EXCEPT ![p] = Len(codes) + 1]
  /\ Goto(p, "mail")
  /\ UNCHANGED <<accounts, expired, mailed, siwe, investors, who, purpose, target, seen, history>>

Mail(p) ==
  /\ At(p, "mail")
  /\ mailed' = mailed \cup {code[p]}
  /\ Finish(p)
  /\ UNCHANGED <<accounts, codes, otps, expired, siwe, investors, history>>

Expire(c) ==
  /\ c \in otps \ expired
  /\ expired' = expired \cup {c}
  /\ UNCHANGED <<accounts, codes, otps, mailed, siwe, investors, local, history>>

-----------------------------------------------------------------------------
(* Codes: verifyEmail and resetPassword *)

\* A verified account gets its session without a code: nothing changes.
VerifyEmail(p, e, c) ==
  /\ exists[e] /\ ~verified[e] /\ c \in mailed
  /\ Begin(p, e, "verify", c, NoWallet, "consume")
  /\ UNCHANGED <<accounts, mail, siwe, investors, history>>

ResetPassword(p, e, c) ==
  /\ exists[e] /\ c \in mailed
  /\ Begin(p, e, "reset", c, NoWallet, "consume")
  /\ UNCHANGED <<accounts, mail, siwe, investors, history>>

\* Mutant: a code is a code.
SameEmail(p, c) == codes[c].email = who[p]

SameKey(p, c) == codes[c] = [email |-> who[p], purpose |-> purpose[p]]

\* Mutant: the row is looked up and left.
Lookup(c) == UNCHANGED otps

Delete(c) == otps' = otps \ {c}

\* consumeOtp: DELETE ... RETURNING, with the expiry in the predicate.
ConsumeOtp(p) ==
  /\ At(p, "consume")
  /\ LET c == code[p] IN
     IF c \in otps \ expired /\ SameKey(p, c)
     THEN /\ Delete(c)
          /\ redeemed' = [redeemed EXCEPT ![c] = @ + 1]
          /\ Continue(p, IF purpose[p] = "verify" THEN "mark" ELSE "password")
     ELSE Finish(p) /\ UNCHANGED <<otps, redeemed>>
  /\ UNCHANGED <<accounts, codes, expired, mailed, siwe, investors, signups, accepted>>

\* An account that was read as unverified is verified by the reset too.
SetPassword(p) ==
  /\ At(p, "password")
  /\ password' = [password EXCEPT ![who[p]] = code[p]]
  /\ IF seen[p] THEN Finish(p) ELSE Continue(p, "mark")
  /\ UNCHANGED <<exists, verified, mail, siwe, investors, history>>

MarkEmailVerified(p) ==
  /\ At(p, "mark")
  /\ verified' = [verified EXCEPT ![who[p]] = TRUE]
  /\ Finish(p)
  /\ UNCHANGED <<exists, password, mail, siwe, investors, history>>

\* A code that is issued and not mailed, or redeemed and not used, is lost.
Crash(p) ==
  /\ \/ "issued" \in CrashPoints /\ At(p, "mail")
     \/ "redeemed" \in CrashPoints /\ pc[p] \in {"mark", "password"}
  /\ Finish(p)
  /\ UNCHANGED <<accounts, mail, siwe, investors, history>>

-----------------------------------------------------------------------------
(* Wallets: requestNonce, consumeAndRecover and connectWallet *)

RequestNonce(w) ==
  /\ Len(nonces) < MaxNonces
  /\ nonces' = Append(nonces, w)
  /\ pending' = {n \in pending : nonces[n] # w} \cup {Len(nonces) + 1}
  /\ UNCHANGED <<accounts, mail, investors, local, history>>

ExpireNonce(n) ==
  /\ n \in pending /\ pending' = pending \ {n}
  /\ UNCHANGED <<accounts, mail, nonces, investors, local, history>>

\* loadAccount: a session of an account that has verified its email.
MayAct(e) == exists[e] /\ verified[e]

\* The wallet has signed the message of nonce n; the account presents it.
ConnectWallet(p, e, n) ==
  /\ MayAct(e)
  /\ Begin(p, e, "none", n, nonces[n], "nonce")
  /\ UNCHANGED <<accounts, mail, siwe, investors, history>>

\* Mutant: the nonce of the wallet is looked up and left.
KeepNonce(w) == UNCHANGED pending

\* The row goes first, whatever the signature will turn out to be.
DeleteNonce(w) == pending' = {n \in pending : nonces[n] # w}

\* Mutant: any signature of the wallet will do.
Recovers(p, n) == TRUE

\* The message is rebuilt from the row: it is the one that was signed.
Matches(p, n) == code[p] = n

ConsumeAndRecover(p) ==
  /\ At(p, "nonce")
  /\ DeleteNonce(target[p])
  /\ IF \E n \in pending : nonces[n] = target[p] /\ Matches(p, n)
     THEN /\ accepted' = [accepted EXCEPT ![code[p]] = @ + 1]
          /\ Continue(p, "approved")
     ELSE Finish(p) /\ UNCHANGED accepted
  /\ UNCHANGED <<accounts, mail, nonces, investors, signups, redeemed>>

\* Whether the person is approved is the matter of Verification.
CheckApproved(p) ==
  /\ At(p, "approved")
  /\ Continue(p, "select") \/ Finish(p)
  /\ UNCHANGED <<accounts, mail, siwe, investors, history>>

\* Mutant: whose the row is makes no difference.
OwnerOrAnother(w, e) == TRUE

\* WALLET_OWNED_BY_ANOTHER_ACCOUNT otherwise.
MayTake(w, e) == row[w] \in {Nobody, e}

SelectRow(p) ==
  /\ At(p, "select")
  /\ LET w == target[p] IN
     IF w \notin present THEN Continue(p, "insert")
     ELSE IF MayTake(w, who[p]) THEN Continue(p, "update") ELSE Finish(p)
  /\ UNCHANGED <<accounts, mail, siwe, investors, history>>

\* The link is committed, and the investor's session is signed.
Link(p) ==
  /\ row' = [row EXCEPT ![target[p]] = who[p]]
  /\ present' = present \cup {target[p]}
  /\ sessions' = sessions \cup {<<who[p], target[p]>>}

\* The wallet is the key of the table: the second insert fails.
InsertRow(p) ==
  /\ At(p, "insert")
  /\ IF target[p] \in present THEN UNCHANGED investors ELSE Link(p)
  /\ Finish(p)
  /\ UNCHANGED <<accounts, mail, siwe, history>>

\* The statement has no condition on the owner that was read.
UpdateRow(p) ==
  /\ At(p, "update")
  /\ Link(p)
  /\ Finish(p)
  /\ UNCHANGED <<accounts, mail, siwe, history>>

-----------------------------------------------------------------------------
Advance(p) ==
  \/ Create(p) \/ UpsertOtp(p) \/ Mail(p) \/ ConsumeOtp(p) \/ SetPassword(p) \/ MarkEmailVerified(p)
  \/ ConsumeAndRecover(p) \/ CheckApproved(p) \/ SelectRow(p) \/ InsertRow(p) \/ UpdateRow(p)

Call(p) ==
  \E e \in Emails :
    \/ Signup(p, e) \/ ResendVerification(p, e) \/ ForgotPassword(p, e)
    \/ \E c \in mailed : VerifyEmail(p, e, c) \/ ResetPassword(p, e, c)
    \/ \E n \in 1..Len(nonces) : ConnectWallet(p, e, n)

Next ==
  \/ \E p \in Procs : Call(p) \/ Advance(p) \/ Crash(p)
  \/ \E c \in otps : Expire(c)
  \/ \E w \in Wallets : RequestNonce(w)
  \/ \E n \in pending : ExpireNonce(n)

Spec == Init /\ [][Next]_vars

-----------------------------------------------------------------------------
(* Properties. *)

\* Two signups for one email at the same time make one account, and the password
\* of the first is not overwritten by the second.
AccountOnce == \A e \in Emails : signups[e] <= 1

\* A code works once, though a form is sent twice and both requests find it.
CodeOnce == \A c \in 1..MaxCodes : redeemed[c] <= 1

\* A password that was changed was changed with a code that was mailed to this
\* email, to reset it: a code to verify the email does not do it.
PasswordByReset ==
  \A e \in Emails : password[e] # NoCode =>
    /\ codes[password[e]] = [email |-> e, purpose |-> "reset"]
    /\ password[e] \in mailed

\* A code that was replaced by a later one never works again.
ReplacedIsDead ==
  [][\A c \in 1..Len(codes) : redeemed'[c] # redeemed[c] =>
       \A d \in (c + 1)..Len(codes) : codes[d] # codes[c]]_vars

\* A signature works once, and only while its nonce is the last of the wallet.
SignatureOnce ==
  /\ \A n \in 1..MaxNonces : accepted[n] <= 1
  /\ \A n \in pending : accepted[n] = 0

\* The nonce that is accepted is the wallet's latest.
LatestNonce ==
  [][\A n \in 1..Len(nonces) : accepted'[n] # accepted[n] =>
       \A m \in (n + 1)..Len(nonces) : nonces[m] # nonces[n]]_vars

\* A wallet never goes from one account to another, though both have its
\* signature and connect it at the same time.
OwnerStays == [][\A w \in Wallets : row[w] # Nobody => row'[w] = row[w]]_vars

\* An investor's session for a wallet is held by the account that has the wallet.
SessionIsOwners == \A s \in sessions : row[s[2]] = s[1]

\* An email and a code mailed to it count once and for one thing, however many
\* requests bring them.
CodesCountOnce == [](AccountOnce /\ CodeOnce /\ PasswordByReset) /\ ReplacedIsDead

\* A wallet's latest signature counts once, and the account it connected the
\* wallet to keeps it.
WalletsStay == [](SignatureOnce /\ SessionIsOwners) /\ LatestNonce /\ OwnerStays
=============================================================================
