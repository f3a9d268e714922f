----------------------------- MODULE PeopleProofs -----------------------------
(***************************************************************************)
(* An investor's life holds together for any number of emails, wallets,    *)
(* issuers, messages, documents and requests at once.                      *)
(*                                                                         *)
(* The account: a code or a nonce in its table has not worked yet and is   *)
(* the latest of its kind; it leaves the table with the step in which it   *)
(* works.  A row that is the account's own when it is read is still so     *)
(* when it is written, provided every row was made by an account (Legacy   *)
(* is empty).                                                              *)
(*                                                                         *)
(* The identity: the salt of a person is taken with the first identity, so *)
(* that no second one comes, and a record is never replaced by another.    *)
(* Every live accreditation lies ahead of a request that revokes, or the   *)
(* rejection has noted a failure.                                          *)
(*                                                                         *)
(* The screening: what a request has gathered rests on the wallets it has  *)
(* read, and a result or a wallet that comes meanwhile is gathered later.  *)
(*                                                                         *)
(* The verification: every version is a decision or a message that was     *)
(* claimed, a claimed message has one delivery that decides, and the row   *)
(* of a wallet follows the record in the same transaction.                 *)
(*                                                                         *)
(* The documents are proved in DocumentsProofs and brought here.           *)
(***************************************************************************)
EXTENDS People, FiniteSetTheorems, TLAPS

-----------------------------------------------------------------------------
(* The account. *)

Keys == [email : Emails, purpose : Purposes]

Points == {"idle", "create", "issue", "mail", "consume", "password", "mark",
           "nonce", "approved", "select", "insert", "update"}

\* What is known of a request from where it is.
RequestOk(p) ==
  /\ pc[p] \in Points
  /\ pc[p] \in {"create", "issue", "mail", "consume", "password", "mark"} =>
       who[p] \in Emails /\ purpose[p] \in Purposes
  /\ pc[p] = "mail" => code[p] \in 1..Len(codes)
  /\ pc[p] = "consume" => code[p] \in mailed
  /\ pc[p] = "password" => code[p] \in mailed /\ codes[code[p]] = [email |-> who[p], purpose |-> "reset"]
  /\ pc[p] \in {"nonce", "approved", "select", "insert", "update"} =>
       who[p] \in Emails /\ target[p] \in Wallets
  /\ (pc[p] = "update" /\ Legacy = {}) => row[target[p]] = who[p]

LocalOk ==
  /\ pc \in [Procs -> Points] /\ DOMAIN who = Procs /\ DOMAIN purpose = Procs
  /\ DOMAIN code = Procs /\ DOMAIN target = Procs /\ DOMAIN seen = Procs
  /\ \A p \in Procs : RequestOk(p)

\* A code in the table has not worked and is the last of its key.
CodesOk ==
  /\ codes \in Seq(Keys) /\ Len(codes) <= MaxCodes
  /\ otps \subseteq 1..Len(codes) /\ mailed \subseteq 1..Len(codes)
  /\ redeemed \in [1..MaxCodes -> Nat]
  /\ \A c \in otps : redeemed[c] = 0 /\ \A d \in (c + 1)..Len(codes) : codes[d] # codes[c]
  /\ \A c \in (Len(codes) + 1)..MaxCodes : redeemed[c] = 0
  /\ CodeOnce

PasswordsOk ==
  /\ DOMAIN password = Emails
  /\ \A e \in Emails : password[e] # NoCode => password[e] \in mailed
  /\ PasswordByReset

\* A nonce in the table has not worked and is the last of its wallet.
NoncesOk ==
  /\ nonces \in Seq(Wallets) /\ Len(nonces) <= MaxNonces
  /\ pending \subseteq 1..Len(nonces)
  /\ accepted \in [1..MaxNonces -> Nat]
  /\ \A n \in pending : accepted[n] = 0 /\ \A m \in (n + 1)..Len(nonces) : nonces[m] # nonces[n]
  /\ \A n \in (Len(nonces) + 1)..MaxNonces : accepted[n] = 0
  /\ SignatureOnce

RowsOk ==
  /\ row \in [Wallets -> Emails \cup {Nobody}] /\ present \subseteq Wallets
  /\ sessions \subseteq Emails \X Wallets
  /\ Legacy = {} => \A w \in Wallets : w \in present <=> row[w] # Nobody
  /\ Legacy = {} => SessionIsOwners

SignupsOk ==
  /\ exists \in [Emails -> BOOLEAN] /\ signups \in [Emails -> Nat]
  /\ \A e \in Emails : signups[e] = IF exists[e] THEN 1 ELSE 0

Inv == LocalOk /\ CodesOk /\ PasswordsOk /\ NoncesOk /\ RowsOk /\ SignupsOk

LEMMA InitInv == ASSUME AccountAssumed, Init PROVE Inv
<1>1. LocalOk
  BY DEF Init, LocalOk, RequestOk, Points
<1>2. CodesOk
  BY DEF Init, CodesOk, CodeOnce, AccountAssumed
<1>3. PasswordsOk
  BY DEF Init, PasswordsOk, PasswordByReset
<1>4. NoncesOk
  BY DEF Init, NoncesOk, SignatureOnce, AccountAssumed
<1>5. RowsOk
  BY DEF Init, RowsOk, SessionIsOwners, AccountAssumed
<1>6. SignupsOk
  BY DEF Init, SignupsOk
<1> QED BY <1>1, <1>2, <1>3, <1>4, <1>5, <1>6 DEF Inv

-----------------------------------------------------------------------------
(* The parts that a step does not touch. *)

LEMMA KeepCodes == ASSUME CodesOk, UNCHANGED <<codes, otps, mailed, redeemed>> PROVE CodesOk'
BY DEF CodesOk, CodeOnce

LEMMA KeepPasswords ==
  ASSUME PasswordsOk, UNCHANGED <<password, codes, mailed>> PROVE PasswordsOk'
BY DEF PasswordsOk, PasswordByReset

LEMMA KeepNonces == ASSUME NoncesOk, UNCHANGED <<nonces, pending, accepted>> PROVE NoncesOk'
BY DEF NoncesOk, SignatureOnce

LEMMA KeepRows == ASSUME RowsOk, UNCHANGED investors PROVE RowsOk'
BY DEF RowsOk, SessionIsOwners, investors

LEMMA KeepSignups == ASSUME SignupsOk, UNCHANGED <<exists, signups>> PROVE SignupsOk'
BY DEF SignupsOk

\* The other requests stay where they are, and what is known of them stays true
\* while codes and mails only come and a row keeps its owner.
LEMMA OneMoves ==
  ASSUME LocalOk, CodesOk, NEW p \in Procs,
         pc' \in [Procs -> Points], DOMAIN who' = Procs, DOMAIN purpose' = Procs,
         DOMAIN code' = Procs, DOMAIN target' = Procs, DOMAIN seen' = Procs,
         \A q \in Procs \ {p} : /\ pc'[q] = pc[q] /\ who'[q] = who[q] /\ purpose'[q] = purpose[q]
                                /\ code'[q] = code[q] /\ target'[q] = target[q],
         Len(codes') \in Nat, Len(codes) <= Len(codes'),
         \A c \in 1..Len(codes) : codes'[c] = codes[c],
         mailed \subseteq mailed',
         Legacy = {} => \A w \in Wallets : row[w] \in Emails => row'[w] = row[w],
         RequestOk(p)'
  PROVE  LocalOk'
<1> SUFFICES ASSUME NEW q \in Procs, q # p PROVE RequestOk(q)'
  BY DEF LocalOk
<1>1. RequestOk(q) /\ Len(codes) \in Nat
  BY DEF LocalOk, CodesOk
<1>2. /\ pc'[q] = pc[q] /\ who'[q] = who[q] /\ purpose'[q] = purpose[q]
      /\ code'[q] = code[q] /\ target'[q] = target[q]
  OBVIOUS
<1>3. pc[q] = "mail" => code[q] \in 1..Len(codes')
  BY <1>1 DEF RequestOk
<1>4. pc[q] = "password" => codes'[code[q]] = codes[code[q]]
  BY <1>1 DEF RequestOk, CodesOk
<1>5. (pc[q] = "update" /\ Legacy = {}) => row'[target[q]] = who[q]
  BY <1>1 DEF RequestOk
<1> QED BY <1>1, <1>2, <1>3, <1>4, <1>5 DEF RequestOk

LEMMA Begins ==
  ASSUME LocalOk, CodesOk, NEW p \in Procs, NEW e, NEW what, NEW c, NEW w, NEW next \in Points,
         Begin(p, e, what, c, w, next), UNCHANGED <<mail, investors>>,
         next \in {"create", "issue", "consume"} => e \in Emails /\ what \in Purposes,
         next = "consume" => c \in mailed,
         next = "nonce" => e \in Emails /\ w \in Wallets,
         next \in {"create", "issue", "consume", "nonce"}
  PROVE  LocalOk'
<1>1. /\ pc' \in [Procs -> Points] /\ DOMAIN who' = Procs /\ DOMAIN purpose' = Procs
      /\ DOMAIN code' = Procs /\ DOMAIN target' = Procs /\ DOMAIN seen' = Procs
  BY DEF Begin, Goto, LocalOk
<1>2. \A q \in Procs \ {p} : /\ pc'[q] = pc[q] /\ who'[q] = who[q] /\ purpose'[q] = purpose[q]
                             /\ code'[q] = code[q] /\ target'[q] = target[q]
  BY DEF Begin, Goto, LocalOk
<1>3. pc'[p] = next /\ who'[p] = e /\ purpose'[p] = what /\ code'[p] = c /\ target'[p] = w
  BY DEF Begin, Goto, LocalOk
<1>4. RequestOk(p)'
  BY <1>3 DEF RequestOk, mail
<1>5. Len(codes) \in Nat
  BY DEF CodesOk
<1> QED BY <1>1, <1>2, <1>4, <1>5, OneMoves DEF mail, investors

LEMMA Finishes ==
  ASSUME LocalOk, CodesOk, NEW p \in Procs, Finish(p), UNCHANGED codes, mailed \subseteq mailed',
         Legacy = {} => \A w \in Wallets : row[w] \in Emails => row'[w] = row[w]
  PROVE  LocalOk'
<1>1. /\ pc' \in [Procs -> Points] /\ DOMAIN who' = Procs /\ DOMAIN purpose' = Procs
      /\ DOMAIN code' = Procs /\ DOMAIN target' = Procs /\ DOMAIN seen' = Procs
  BY DEF Finish, Goto, LocalOk, Points
<1>2. \A q \in Procs \ {p} : /\ pc'[q] = pc[q] /\ who'[q] = who[q] /\ purpose'[q] = purpose[q]
                             /\ code'[q] = code[q] /\ target'[q] = target[q]
  BY DEF Finish, Goto, LocalOk
<1>3. pc'[p] = "idle"
  BY DEF Finish, Goto, LocalOk
<1>4. RequestOk(p)'
  BY <1>3 DEF RequestOk, Points
<1>5. Len(codes) \in Nat
  BY DEF CodesOk
<1> QED BY <1>1, <1>2, <1>4, <1>5, OneMoves

LEMMA Continues ==
  ASSUME LocalOk, CodesOk, NEW p \in Procs, NEW next \in Points, Continue(p, next),
         UNCHANGED <<codes, mailed, row>>,
         next \in {"issue", "mark"} => who[p] \in Emails /\ purpose[p] \in Purposes,
         next = "password" => /\ who[p] \in Emails /\ purpose[p] \in Purposes /\ code[p] \in mailed
                              /\ codes[code[p]] = [email |-> who[p], purpose |-> "reset"],
         next \in {"approved", "select", "insert", "update"} => who[p] \in Emails /\ target[p] \in Wallets,
         (next = "update" /\ Legacy = {}) => row[target[p]] = who[p],
         next \in {"issue", "mark", "password", "approved", "select", "insert", "update"}
  PROVE  LocalOk'
<1>1. pc' \in [Procs -> Points] /\ pc'[p] = next /\ \A q \in Procs \ {p} : pc'[q] = pc[q]
  BY DEF Continue, Goto, LocalOk
<1>2. UNCHANGED <<who, code, purpose, target, seen>>
  BY DEF Continue
<1>3. RequestOk(p)'
  BY <1>1, <1>2 DEF RequestOk
<1>4. Len(codes) \in Nat
  BY DEF CodesOk
<1> QED BY <1>1, <1>2, <1>3, <1>4, OneMoves DEF LocalOk

-----------------------------------------------------------------------------
(* The calls. *)

\* A request that begins reads and changes nothing but its own memory.
LEMMA CallStep == ASSUME Inv, NEW p \in Procs, Call(p) PROVE Inv'
<1> USE DEF Inv
<1>1. PICK e \in Emails :
        \/ Signup(p, e) \/ ResendVerification(p, e) \/ ForgotPassword(p, e)
        \/ \E c \in mailed : VerifyEmail(p, e, c) \/ ResetPassword(p, e, c)
        \/ \E n \in 1..Len(nonces) : ConnectWallet(p, e, n)
  BY DEF Call
<1>2. UNCHANGED <<accounts, mail, siwe, investors, history>>
  BY <1>1 DEF Signup, ResendVerification, ForgotPassword, VerifyEmail, ResetPassword, ConnectWallet
<1>3. LocalOk'
  <2>1. CASE Signup(p, e)
    BY <2>1, <1>2, Begins DEF Signup, Points, Purposes
  <2>2. CASE ResendVerification(p, e)
    BY <2>2, <1>2, Begins DEF ResendVerification, Points, Purposes
  <2>3. CASE ForgotPassword(p, e)
    BY <2>3, <1>2, Begins DEF ForgotPassword, Points, Purposes
  <2>4. CASE \E c \in mailed : VerifyEmail(p, e, c)
    BY <2>4, <1>2, Begins DEF VerifyEmail, Points, Purposes
  <2>5. CASE \E c \in mailed : ResetPassword(p, e, c)
    BY <2>5, <1>2, Begins DEF ResetPassword, Points, Purposes
  <2>6. CASE \E n \in 1..Len(nonces) : ConnectWallet(p, e, n)
    <3>1. PICK n \in 1..Len(nonces) : ConnectWallet(p, e, n)
      BY <2>6
    <3>2. nonces[n] \in Wallets
      BY DEF NoncesOk
    <3> QED BY <3>1, <3>2, <1>2, Begins DEF ConnectWallet, Points
  <2> QED BY <1>1, <2>1, <2>2, <2>3, <2>4, <2>5, <2>6
<1> QED BY <1>2, <1>3, KeepCodes, KeepPasswords, KeepNonces, KeepRows, KeepSignups
        DEF accounts, mail, siwe, history

LEMMA CreateStep == ASSUME AccountAssumed, Inv, NEW p \in Procs, Create(p) PROVE Inv'
<1> USE DEF Inv
<1>1. who[p] \in Emails /\ purpose[p] \in Purposes
  BY DEF Create, At, LocalOk, RequestOk
<1>2. UNCHANGED <<verified, password, mail, siwe, investors, redeemed, accepted>>
  BY DEF Create
<1>3. LocalOk'
  <2>1. CASE IsFree(who[p])
    BY <2>1, <1>1, <1>2, Continues DEF Create, Points, mail, investors
  <2>2. CASE ~IsFree(who[p])
    BY <2>2, <1>2, Finishes DEF Create, mail, investors
  <2> QED BY <2>1, <2>2
<1>4. SignupsOk'
  <2>1. CASE IsFree(who[p])
    <3>1. exists' = [exists EXCEPT ![who[p]] = TRUE] /\ signups' = [signups EXCEPT ![who[p]] = @ + 1]
      BY <2>1 DEF Create
    <3>2. ~exists[who[p]] /\ signups[who[p]] = 0
      BY <2>1, <1>1 DEF IsFree, SignupsOk
    <3>3. exists' \in [Emails -> BOOLEAN] /\ exists'[who[p]]
          /\ \A e \in Emails \ {who[p]} : exists'[e] = exists[e]
      BY <3>1, <1>1 DEF SignupsOk
    <3>4. signups' \in [Emails -> Nat] /\ signups'[who[p]] = 1
          /\ \A e \in Emails \ {who[p]} : signups'[e] = signups[e]
      BY <3>1, <3>2, <1>1 DEF SignupsOk
    <3> QED BY <3>3, <3>4 DEF SignupsOk
  <2>2. CASE ~IsFree(who[p])
    BY <2>2, KeepSignups DEF Create
  <2> QED BY <2>1, <2>2
<1> QED BY <1>2, <1>3, <1>4, KeepCodes, KeepPasswords, KeepNonces, KeepRows DEF mail, siwe

LEMMA UpsertOtpStep == ASSUME AccountAssumed, Inv, NEW p \in Procs, UpsertOtp(p) PROVE Inv'
<1> USE DEF Inv
<1> DEFINE key == [email |-> who[p], purpose |-> purpose[p]]
           n == Len(codes) + 1
<1>1. key \in Keys /\ pc[p] = "issue"
  BY DEF UpsertOtp, At, LocalOk, RequestOk, Keys
<1>2. /\ codes' = Append(codes, key) /\ otps' = Others(key) \cup {n}
      /\ UNCHANGED <<accounts, expired, mailed, siwe, investors, who, purpose, target, seen, history>>
      /\ Len(codes) < MaxCodes
  BY DEF UpsertOtp
<1>3. /\ Len(codes) \in Nat /\ n \in Nat /\ codes' \in Seq(Keys) /\ Len(codes') = n /\ codes'[n] = key
      /\ \A c \in 1..Len(codes) : codes'[c] = codes[c]
  BY <1>1, <1>2 DEF CodesOk
<1> HIDE DEF key
<1>4. otps' \subseteq 1..n /\ \A c \in otps' : c = n \/ (c \in otps /\ c \in 1..Len(codes) /\ codes[c] # key)
  <2>1. \A c \in otps' : c = n \/ (c \in otps /\ codes[c] # key)
    BY <1>2 DEF Others
  <2>2. \A c \in otps : c \in 1..Len(codes)
    BY DEF CodesOk
  <2>3. n \in 1..n /\ \A c \in 1..Len(codes) : c \in 1..n
    BY <1>3
  <2> QED BY <2>1, <2>2, <2>3
<1>5. \A c \in otps' : redeemed[c] = 0 /\ \A d \in (c + 1)..n : codes'[d] # codes'[c]
  <2>1. ASSUME NEW c \in otps', c # n
        PROVE  redeemed[c] = 0 /\ \A d \in (c + 1)..n : codes'[d] # codes'[c]
    <3>1. c \in otps /\ c \in 1..Len(codes) /\ codes[c] # key
      BY <2>1, <1>4
    <3>2. ASSUME NEW d \in (c + 1)..n PROVE codes'[d] # codes'[c]
      <4>1. CASE d = n
        BY <4>1, <3>1, <1>3
      <4>2. CASE d # n
        BY <4>2, <3>1, <3>2, <1>3 DEF CodesOk
      <4> QED BY <4>1, <4>2
    <3> QED BY <3>1, <3>2 DEF CodesOk
  <2>2. redeemed[n] = 0 /\ \A d \in (n + 1)..n : codes'[d] # codes'[n]
    BY <1>2, <1>3 DEF CodesOk, AccountAssumed
  <2> QED BY <2>1, <2>2
<1>6. CodesOk'
  <2>1. UNCHANGED <<redeemed, mailed>>
    BY <1>2 DEF history
  <2>2. mailed' \subseteq 1..n /\ n <= MaxCodes
    BY <1>2, <1>3, <2>1 DEF CodesOk, AccountAssumed
  <2>3. \A c \in (n + 1)..MaxCodes : redeemed'[c] = 0
    BY <1>3, <2>1 DEF CodesOk, AccountAssumed
  <2> QED BY <1>3, <1>4, <1>5, <2>1, <2>2, <2>3 DEF CodesOk, CodeOnce
<1>7. PasswordsOk'
  BY <1>2, <1>3 DEF PasswordsOk, PasswordByReset, CodesOk, accounts
<1>8. LocalOk'
  <2>1. pc' = [pc EXCEPT ![p] = "mail"] /\ code' = [code EXCEPT ![p] = n]
    BY DEF UpsertOtp, Goto
  <2>2. /\ pc' \in [Procs -> Points] /\ DOMAIN code' = Procs /\ pc'[p] = "mail" /\ code'[p] = n
        /\ \A q \in Procs \ {p} : pc'[q] = pc[q] /\ code'[q] = code[q]
    BY <2>1 DEF LocalOk, Points
  <2>3. who'[p] \in Emails /\ purpose'[p] \in Purposes
    BY <1>1, <1>2 DEF LocalOk, RequestOk
  <2>4. RequestOk(p)'
    BY <2>2, <2>3, <1>3 DEF RequestOk, Points
  <2> QED BY <2>2, <2>4, <1>2, <1>3, OneMoves DEF LocalOk, investors
<1> QED BY <1>2, <1>6, <1>7, <1>8, KeepNonces, KeepRows, KeepSignups DEF accounts, siwe, history

LEMMA MailStep == ASSUME Inv, NEW p \in Procs, Mail(p) PROVE Inv'
<1> USE DEF Inv
<1>1. code[p] \in 1..Len(codes)
  BY DEF Mail, At, LocalOk, RequestOk
<1>2. mailed' = mailed \cup {code[p]} /\ UNCHANGED <<accounts, codes, otps, expired, siwe, investors, history>>
  BY DEF Mail
<1>3. LocalOk'
  BY <1>2, Finishes DEF Mail, investors
<1>4. CodesOk'
  BY <1>1, <1>2 DEF CodesOk, CodeOnce, history
<1>5. PasswordsOk'
  BY <1>2 DEF PasswordsOk, PasswordByReset, accounts
<1> QED BY <1>2, <1>3, <1>4, <1>5, KeepNonces, KeepRows, KeepSignups DEF accounts, siwe, history

LEMMA ExpireStep == ASSUME Inv, NEW c \in otps, Expire(c) PROVE Inv'
<1> USE DEF Inv
<1>1. UNCHANGED <<accounts, codes, otps, mailed, siwe, investors, local, history>>
  BY DEF Expire
<1>2. LocalOk'
  BY <1>1 DEF LocalOk, RequestOk, local, investors
<1> QED BY <1>1, <1>2, KeepCodes, KeepPasswords, KeepNonces, KeepRows, KeepSignups
        DEF accounts, siwe, history

LEMMA ConsumeOtpStep == ASSUME AccountAssumed, Inv, NEW p \in Procs, ConsumeOtp(p) PROVE Inv'
<1> USE DEF Inv
<1> DEFINE c == code[p]
           Works == c \in otps \ expired /\ SameKey(p, c)
<1>1. who[p] \in Emails /\ purpose[p] \in Purposes /\ c \in mailed
  BY DEF ConsumeOtp, At, LocalOk, RequestOk
<1>2. UNCHANGED <<accounts, codes, expired, mailed, siwe, investors, signups, accepted>>
  BY DEF ConsumeOtp
<1>3. CASE Works
  <2>1. /\ otps' = otps \ {c} /\ redeemed' = [redeemed EXCEPT ![c] = @ + 1]
        /\ Continue(p, IF purpose[p] = "verify" THEN "mark" ELSE "password")
    BY <1>3 DEF ConsumeOtp, Delete
  <2>2. c \in 1..Len(codes) /\ c \in 1..MaxCodes /\ redeemed[c] = 0
    <3>1. c \in otps
      BY <1>3
    <3>2. Len(codes) \in Nat /\ Len(codes) <= MaxCodes /\ otps \subseteq 1..Len(codes)
      BY DEF CodesOk
    <3>3. \A d \in otps : redeemed[d] = 0
      BY DEF CodesOk
    <3>4. c \in 1..Len(codes)
      BY <3>1, <3>2
    <3> QED BY <3>1, <3>2, <3>3, <3>4 DEF AccountAssumed
  <2>3. redeemed' \in [1..MaxCodes -> Nat] /\ redeemed'[c] = 1 /\ \A d \in 1..MaxCodes \ {c} : redeemed'[d] = redeemed[d]
    BY <2>1, <2>2 DEF CodesOk
  <2>4. CodesOk'
    <3>1. \A d \in otps' : d \in otps /\ d # c /\ d \in 1..MaxCodes
      BY <2>1 DEF CodesOk, AccountAssumed
    <3>2. \A d \in otps' : redeemed'[d] = 0
      BY <3>1, <2>3 DEF CodesOk
    <3>3. \A d \in (Len(codes) + 1)..MaxCodes : redeemed'[d] = 0
      BY <2>2, <2>3 DEF CodesOk, AccountAssumed
    <3>4. CodeOnce'
      BY <2>3 DEF CodesOk, CodeOnce
    <3> QED BY <3>1, <3>2, <3>3, <3>4, <2>3, <1>2 DEF CodesOk
  <2>5. purpose[p] # "verify" => codes[c] = [email |-> who[p], purpose |-> "reset"]
    BY <1>1, <1>3 DEF SameKey, Purposes
  <2>6. LocalOk'
    BY <2>1, <2>5, <1>1, <1>2, Continues DEF Points, investors
  <2> QED BY <1>2, <2>4, <2>6, KeepPasswords, KeepNonces, KeepRows, KeepSignups DEF accounts, siwe
<1>4. CASE ~Works
  <2>1. Finish(p) /\ UNCHANGED <<otps, redeemed>>
    BY <1>4 DEF ConsumeOtp
  <2>2. LocalOk'
    BY <2>1, <1>2, Finishes DEF investors
  <2> QED BY <1>2, <2>1, <2>2, KeepCodes, KeepPasswords, KeepNonces, KeepRows, KeepSignups DEF accounts, siwe
<1> QED BY <1>3, <1>4

LEMMA SetPasswordStep == ASSUME Inv, NEW p \in Procs, SetPassword(p) PROVE Inv'
<1> USE DEF Inv
<1>1. /\ who[p] \in Emails /\ purpose[p] \in Purposes /\ code[p] \in mailed
      /\ codes[code[p]] = [email |-> who[p], purpose |-> "reset"]
  BY DEF SetPassword, At, LocalOk, RequestOk
<1>2. /\ password' = [password EXCEPT ![who[p]] = code[p]]
      /\ UNCHANGED <<exists, verified, mail, siwe, investors, history>>
  BY DEF SetPassword
<1>3. LocalOk'
  <2>1. CASE seen[p]
    BY <2>1, <1>2, Finishes DEF SetPassword, mail, investors
  <2>2. CASE ~seen[p]
    BY <2>2, <1>1, <1>2, Continues DEF SetPassword, Points, mail, investors
  <2> QED BY <2>1, <2>2
<1>4. PasswordsOk'
  <2>1. DOMAIN password' = Emails /\ password'[who[p]] = code[p]
        /\ \A e \in Emails \ {who[p]} : password'[e] = password[e]
    BY <1>1, <1>2 DEF PasswordsOk
  <2>2. UNCHANGED <<codes, mailed>>
    BY <1>2 DEF mail
  <2>3. ASSUME NEW e \in Emails, password'[e] # NoCode
        PROVE password'[e] \in mailed /\ codes[password'[e]] = [email |-> e, purpose |-> "reset"]
    <3>1. CASE e = who[p]
      BY <3>1, <2>1, <1>1
    <3>2. CASE e # who[p]
      BY <3>2, <2>1, <2>3 DEF PasswordsOk, PasswordByReset
    <3> QED BY <3>1, <3>2
  <2> QED BY <2>1, <2>2, <2>3 DEF PasswordsOk, PasswordByReset
<1> QED BY <1>2, <1>3, <1>4, KeepCodes, KeepNonces, KeepRows, KeepSignups DEF mail, siwe, history

\* The steps that end a request, or its wait for an approval, and write nothing proved here.
LEMMA MarkOrCrashStep ==
  ASSUME Inv, NEW p \in Procs, MarkEmailVerified(p) \/ Crash(p) PROVE Inv'
<1> USE DEF Inv
<1>1. Finish(p) /\ UNCHANGED <<exists, password, mail, siwe, investors, history>>
  BY DEF MarkEmailVerified, Crash, accounts
<1>2. LocalOk'
  BY <1>1, Finishes DEF mail, investors
<1> QED BY <1>1, <1>2, KeepCodes, KeepPasswords, KeepNonces, KeepRows, KeepSignups DEF mail, siwe, history

LEMMA CheckApprovedStep == ASSUME Inv, NEW p \in Procs, CheckApproved(p) PROVE Inv'
<1> USE DEF Inv
<1>1. who[p] \in Emails /\ target[p] \in Wallets
  BY DEF CheckApproved, At, LocalOk, RequestOk
<1>2. UNCHANGED <<accounts, mail, siwe, investors, history>>
  BY DEF CheckApproved
<1>3. LocalOk'
  <2>1. CASE Continue(p, "select")
    BY <2>1, <1>1, <1>2, Continues DEF Points, mail, investors
  <2>2. CASE Finish(p)
    BY <2>2, <1>2, Finishes DEF mail, investors
  <2> QED BY <2>1, <2>2 DEF CheckApproved
<1> QED BY <1>2, <1>3, KeepCodes, KeepPasswords, KeepNonces, KeepRows, KeepSignups
        DEF accounts, mail, siwe, history

-----------------------------------------------------------------------------
(* Nonces and rows. *)

LEMMA RequestNonceStep == ASSUME AccountAssumed, Inv, NEW w \in Wallets, RequestNonce(w) PROVE Inv'
<1> USE DEF Inv
<1> DEFINE n == Len(nonces) + 1
<1>1. /\ nonces' = Append(nonces, w) /\ pending' = {m \in pending : nonces[m] # w} \cup {n}
      /\ Len(nonces) < MaxNonces
      /\ UNCHANGED <<accounts, mail, investors, local, history>>
  BY DEF RequestNonce
<1>2. /\ Len(nonces) \in Nat /\ nonces' \in Seq(Wallets) /\ Len(nonces') = n /\ nonces'[n] = w
      /\ \A m \in 1..Len(nonces) : nonces'[m] = nonces[m]
  BY <1>1 DEF NoncesOk
<1>3. pending' \subseteq 1..n /\ \A m \in pending' : m = n \/ (m \in pending /\ m \in 1..Len(nonces) /\ nonces[m] # w)
  <2>1. \A m \in pending' : m = n \/ (m \in pending /\ nonces[m] # w)
    BY <1>1
  <2>2. \A m \in pending : m \in 1..Len(nonces)
    BY DEF NoncesOk
  <2>3. n \in 1..n /\ \A m \in 1..Len(nonces) : m \in 1..n
    BY <1>2
  <2> QED BY <2>1, <2>2, <2>3
<1>4. \A m \in pending' : accepted[m] = 0 /\ \A d \in (m + 1)..n : nonces'[d] # nonces'[m]
  <2>1. ASSUME NEW m \in pending', m # n
        PROVE  accepted[m] = 0 /\ \A d \in (m + 1)..n : nonces'[d] # nonces'[m]
    <3>1. m \in pending /\ m \in 1..Len(nonces) /\ nonces[m] # w
      BY <2>1, <1>3
    <3>2. ASSUME NEW d \in (m + 1)..n PROVE nonces'[d] # nonces'[m]
      <4>1. CASE d = n
        BY <4>1, <3>1, <1>2
      <4>2. CASE d # n
        BY <4>2, <3>1, <3>2, <1>2 DEF NoncesOk
      <4> QED BY <4>1, <4>2
    <3> QED BY <3>1, <3>2 DEF NoncesOk
  <2>2. accepted[n] = 0 /\ \A d \in (n + 1)..n : nonces'[d] # nonces'[n]
    BY <1>1, <1>2 DEF NoncesOk, AccountAssumed
  <2> QED BY <2>1, <2>2
<1>5. NoncesOk'
  <2>1. UNCHANGED accepted /\ n <= MaxNonces
    BY <1>1, <1>2 DEF history, AccountAssumed
  <2>2. \A m \in (n + 1)..MaxNonces : accepted'[m] = 0
    BY <1>2, <2>1 DEF NoncesOk, AccountAssumed
  <2>3. SignatureOnce'
    BY <1>4, <2>1 DEF NoncesOk, SignatureOnce
  <2> QED BY <1>2, <1>3, <1>4, <2>1, <2>2, <2>3 DEF NoncesOk
<1>6. LocalOk'
  BY <1>1 DEF LocalOk, RequestOk, local, mail, investors
<1> QED BY <1>1, <1>5, <1>6, KeepCodes, KeepPasswords, KeepRows, KeepSignups DEF accounts, mail, history

LEMMA ExpireNonceStep == ASSUME Inv, NEW n \in pending, ExpireNonce(n) PROVE Inv'
<1> USE DEF Inv
<1>1. pending' = pending \ {n} /\ UNCHANGED <<accounts, mail, nonces, investors, local, history>>
  BY DEF ExpireNonce
<1>2. LocalOk'
  BY <1>1 DEF LocalOk, RequestOk, local, mail, investors
<1>3. NoncesOk'
  BY <1>1 DEF NoncesOk, SignatureOnce, history
<1> QED BY <1>1, <1>2, <1>3, KeepCodes, KeepPasswords, KeepRows, KeepSignups DEF accounts, mail, history

LEMMA RecoverStep == ASSUME AccountAssumed, Inv, NEW p \in Procs, ConsumeAndRecover(p) PROVE Inv'
<1> USE DEF Inv
<1> DEFINE Works == \E n \in pending : nonces[n] = target[p] /\ Matches(p, n)
<1>1. who[p] \in Emails /\ target[p] \in Wallets
  BY DEF ConsumeAndRecover, At, LocalOk, RequestOk
<1>2. /\ UNCHANGED <<accounts, mail, nonces, investors, signups, redeemed>>
      /\ pending' = {n \in pending : nonces[n] # target[p]}
  BY DEF ConsumeAndRecover, DeleteNonce
<1>3. CASE Works
  <2>1. accepted' = [accepted EXCEPT ![code[p]] = @ + 1] /\ Continue(p, "approved")
    BY <1>3 DEF ConsumeAndRecover
  <2>2. code[p] \in pending /\ nonces[code[p]] = target[p]
    BY <1>3 DEF Matches
  <2>3. code[p] \in 1..Len(nonces) /\ code[p] \in 1..MaxNonces /\ accepted[code[p]] = 0 /\ code[p] \notin pending'
    <3>1. nonces \in Seq(Wallets) /\ Len(nonces) <= MaxNonces /\ pending \subseteq 1..Len(nonces) /\ MaxNonces \in Nat
      BY DEF NoncesOk, AccountAssumed
    <3>2. code[p] \in 1..Len(nonces) /\ code[p] \notin pending'
      BY <1>2, <2>2, <3>1
    <3>3. accepted[code[p]] = 0
      BY <2>2 DEF NoncesOk
    <3>4. code[p] \in 1..MaxNonces
      BY <3>1, <3>2
    <3> QED BY <3>2, <3>3, <3>4
  <2>4. /\ accepted' \in [1..MaxNonces -> Nat] /\ accepted'[code[p]] = 1
        /\ \A m \in 1..MaxNonces \ {code[p]} : accepted'[m] = accepted[m]
    BY <2>1, <2>3 DEF NoncesOk
  <2>5. NoncesOk'
    <3>1. \A m \in pending' : m \in pending /\ m # code[p] /\ m \in 1..MaxNonces
      BY <1>2, <2>3 DEF NoncesOk, AccountAssumed
    <3>2. \A m \in pending' : accepted'[m] = 0
      BY <3>1, <2>4 DEF NoncesOk
    <3>3. \A m \in (Len(nonces) + 1)..MaxNonces : accepted'[m] = 0
      BY <2>3, <2>4 DEF NoncesOk, AccountAssumed
    <3>4. SignatureOnce'
      BY <3>2, <2>4 DEF NoncesOk, SignatureOnce
    <3> QED BY <3>1, <3>2, <3>3, <3>4, <2>4, <1>2 DEF NoncesOk
  <2>6. LocalOk'
    BY <2>1, <1>1, <1>2, Continues DEF Points, mail, investors
  <2> QED BY <1>2, <2>5, <2>6, KeepCodes, KeepPasswords, KeepRows, KeepSignups DEF accounts, mail
<1>4. CASE ~Works
  <2>1. Finish(p) /\ UNCHANGED accepted
    BY <1>4 DEF ConsumeAndRecover
  <2>2. LocalOk'
    BY <2>1, <1>2, Finishes DEF mail, investors
  <2>3. NoncesOk'
    BY <2>1, <1>2 DEF NoncesOk, SignatureOnce
  <2> QED BY <1>2, <2>2, <2>3, KeepCodes, KeepPasswords, KeepRows, KeepSignups DEF accounts, mail
<1> QED BY <1>3, <1>4

LEMMA SelectRowStep == ASSUME Inv, NEW p \in Procs, SelectRow(p) PROVE Inv'
<1> USE DEF Inv
<1>1. who[p] \in Emails /\ target[p] \in Wallets
  BY DEF SelectRow, At, LocalOk, RequestOk
<1>2. UNCHANGED <<accounts, mail, siwe, investors, history>>
  BY DEF SelectRow
<1>3. LocalOk'
  <2>1. CASE target[p] \notin present
    BY <2>1, <1>1, <1>2, Continues DEF SelectRow, Points, mail, investors
  <2>2. CASE target[p] \in present /\ MayTake(target[p], who[p])
    <3>1. Legacy = {} => row[target[p]] = who[p]
      BY <2>2, <1>1 DEF MayTake, RowsOk
    <3> QED BY <2>2, <3>1, <1>1, <1>2, Continues DEF SelectRow, Points, mail, investors
  <2>3. CASE target[p] \in present /\ ~MayTake(target[p], who[p])
    BY <2>3, <1>2, Finishes DEF SelectRow, mail, investors
  <2> QED BY <2>1, <2>2, <2>3
<1> QED BY <1>2, <1>3, KeepCodes, KeepPasswords, KeepNonces, KeepRows, KeepSignups
        DEF accounts, mail, siwe, history

\* A wallet that is linked had no owner or this one, and no other account's session.
LEMMA LinkRow ==
  ASSUME AccountAssumed, Inv, NEW p \in Procs, who[p] \in Emails, target[p] \in Wallets, Link(p),
         Legacy = {} => row[target[p]] \in {Nobody, who[p]}
  PROVE  RowsOk' /\ (Legacy = {} => \A w \in Wallets : row[w] \in Emails => row'[w] = row[w])
<1> USE DEF Inv
<1>1. /\ row' \in [Wallets -> Emails \cup {Nobody}] /\ row'[target[p]] = who[p]
      /\ \A w \in Wallets \ {target[p]} : row'[w] = row[w]
  BY DEF Link, RowsOk
<1>2. present' = present \cup {target[p]} /\ sessions' = sessions \cup {<<who[p], target[p]>>}
  BY DEF Link
<1>3. Legacy = {} => \A w \in Wallets : row[w] \in Emails => row'[w] = row[w]
  BY <1>1 DEF AccountAssumed
<1>4. present' \subseteq Wallets /\ sessions' \subseteq Emails \X Wallets
  BY <1>2 DEF RowsOk
<1>5. Legacy = {} => \A w \in Wallets : w \in present' <=> row'[w] # Nobody
  BY <1>1, <1>2 DEF RowsOk, AccountAssumed
<1>6. ASSUME Legacy = {}, NEW s \in sessions' PROVE row'[s[2]] = s[1]
  <2>1. CASE s = <<who[p], target[p]>>
    BY <2>1, <1>1
  <2>2. CASE s \in sessions
    <3>1. s[1] \in Emails /\ s[2] \in Wallets /\ row[s[2]] = s[1]
      BY <2>2, <1>6 DEF RowsOk, SessionIsOwners
    <3> QED BY <3>1, <1>3, <1>6
  <2> QED BY <1>2, <2>1, <2>2
<1> QED BY <1>1, <1>3, <1>4, <1>5, <1>6 DEF RowsOk, SessionIsOwners

LEMMA InsertOrUpdateStep ==
  ASSUME AccountAssumed, Inv, NEW p \in Procs, InsertRow(p) \/ UpdateRow(p) PROVE Inv'
<1> USE DEF Inv
<1>1. who[p] \in Emails /\ target[p] \in Wallets
  BY DEF InsertRow, UpdateRow, At, LocalOk, RequestOk
<1>2. Finish(p) /\ UNCHANGED <<accounts, mail, siwe, history>>
  BY DEF InsertRow, UpdateRow
<1>3. RowsOk' /\ (Legacy = {} => \A w \in Wallets : row[w] \in Emails => row'[w] = row[w])
  <2>1. CASE UNCHANGED investors
    BY <2>1, KeepRows DEF investors
  <2>2. CASE Link(p) /\ InsertRow(p) /\ target[p] \notin present
    BY <2>2, <1>1, LinkRow DEF RowsOk
  <2>3. CASE UpdateRow(p)
    <3>1. Link(p) /\ (Legacy = {} => row[target[p]] = who[p])
      BY <2>3 DEF UpdateRow, At, LocalOk, RequestOk
    <3> QED BY <3>1, <1>1, LinkRow
  <2> QED BY <2>1, <2>2, <2>3 DEF InsertRow
<1>4. LocalOk'
  BY <1>2, <1>3, Finishes DEF mail
<1> QED BY <1>2, <1>3, <1>4, KeepCodes, KeepPasswords, KeepNonces, KeepSignups
        DEF accounts, mail, siwe, history

-----------------------------------------------------------------------------
(* The theorems. *)

LEMMA NextInv == ASSUME AccountAssumed, Inv, [Next]_vars PROVE Inv'
<1>1. ASSUME NEW p \in Procs, Advance(p) PROVE Inv'
  BY <1>1, CreateStep, UpsertOtpStep, MailStep, ConsumeOtpStep, SetPasswordStep, MarkOrCrashStep,
     RecoverStep, CheckApprovedStep, SelectRowStep, InsertOrUpdateStep DEF Advance
<1>2. CASE UNCHANGED vars
  <2>1. UNCHANGED <<accounts, mail, siwe, investors, local, history>>
    BY <1>2 DEF vars
  <2>2. LocalOk'
    BY <2>1 DEF Inv, LocalOk, RequestOk, local, mail, investors
  <2> QED BY <2>1, <2>2, KeepCodes, KeepPasswords, KeepNonces, KeepRows, KeepSignups
          DEF Inv, accounts, mail, siwe, history
<1> QED BY <1>1, <1>2, CallStep, MarkOrCrashStep, ExpireStep, RequestNonceStep, ExpireNonceStep DEF Next

LEMMA AlwaysInv == Spec => []Inv
<1>1. Init => Inv
  BY InitInv, PeopleAssumption
<1>2. Inv /\ [Next]_vars => Inv'
  BY NextInv, PeopleAssumption
<1> QED BY <1>1, <1>2, PTL DEF Spec

\* Signups for one email, however many at once, make one account.
THEOREM OneAccount == Spec => []AccountOnce
<1>1. Inv => AccountOnce
  BY DEF Inv, SignupsOk, AccountOnce
<1> QED BY <1>1, AlwaysInv, PTL

\* A mailed code works once, whichever requests carry it.
THEOREM CodeWorksOnce == Spec => []CodeOnce
<1>1. Inv => CodeOnce
  BY DEF Inv, CodesOk
<1> QED BY <1>1, AlwaysInv, PTL

\* Only a code mailed to the email, to reset its password, has changed it.
THEOREM PasswordNeedsReset == Spec => []PasswordByReset
<1>1. Inv => PasswordByReset
  BY DEF Inv, PasswordsOk
<1> QED BY <1>1, AlwaysInv, PTL

\* A wallet's signature works once.
THEOREM SignatureWorksOnce == Spec => []SignatureOnce
<1>1. Inv => SignatureOnce
  BY DEF Inv, NoncesOk
<1> QED BY <1>1, AlwaysInv, PTL

\* Where every row was made by an account, a session for a wallet is its owner's.
THEOREM SessionsOfOwners == ASSUME Legacy = {} PROVE Spec => []SessionIsOwners
<1>1. Inv => SessionIsOwners
  BY DEF Inv, RowsOk
<1> QED BY <1>1, AlwaysInv, PTL

-----------------------------------------------------------------------------
(* What a step never does. *)

LEMMA OnlyConsumeRedeems ==
  ASSUME Next, redeemed' # redeemed PROVE \E p \in Procs : ConsumeOtp(p)
<1>1. PICK p \in Procs : Call(p) \/ Advance(p) \/ Crash(p)
  BY DEF Next, Expire, RequestNonce, ExpireNonce, history
<1>2. ~Call(p) /\ ~Crash(p)
  BY DEF Call, Signup, ResendVerification, ForgotPassword, VerifyEmail, ResetPassword, ConnectWallet,
         Crash, history
<1>3. Advance(p)
  BY <1>1, <1>2
<1> QED
  BY <1>3 DEF Advance, Create, UpsertOtp, Mail, SetPassword, MarkEmailVerified, ConsumeAndRecover,
              CheckApproved, SelectRow, InsertRow, UpdateRow, history

\* A code that was replaced by a later one of its kind has no more effect.
THEOREM ReplacedNeverWorks == Spec => ReplacedIsDead
<1>1. ASSUME Inv, [Next]_vars
      PROVE  [\A c \in 1..Len(codes) : redeemed'[c] # redeemed[c] =>
                \A d \in (c + 1)..Len(codes) : codes[d] # codes[c]]_vars
  <2> SUFFICES ASSUME NEW c \in 1..Len(codes), redeemed'[c] # redeemed[c], Next
               PROVE  \A d \in (c + 1)..Len(codes) : codes[d] # codes[c]
    BY <1>1
  <2>1. PICK p \in Procs : ConsumeOtp(p)
    BY OnlyConsumeRedeems
  <2>2. code[p] \in otps /\ redeemed' = [redeemed EXCEPT ![code[p]] = @ + 1]
    BY <2>1 DEF ConsumeOtp
  <2>3. redeemed \in [1..MaxCodes -> Nat] /\ Len(codes) \in Nat /\ Len(codes) <= MaxCodes
    BY <1>1 DEF Inv, CodesOk
  <2>4. c = code[p]
    BY <2>2, <2>3, PeopleAssumption DEF AccountAssumed
  <2> QED BY <2>2, <2>4, <1>1 DEF Inv, CodesOk
<1> QED BY <1>1, AlwaysInv, PTL DEF Spec, ReplacedIsDead

LEMMA OnlyRecoverAccepts ==
  ASSUME Next, accepted' # accepted PROVE \E p \in Procs : ConsumeAndRecover(p)
<1>1. PICK p \in Procs : Call(p) \/ Advance(p) \/ Crash(p)
  BY DEF Next, Expire, RequestNonce, ExpireNonce, history
<1>2. ~Call(p) /\ ~Crash(p)
  BY DEF Call, Signup, ResendVerification, ForgotPassword, VerifyEmail, ResetPassword, ConnectWallet,
         Crash, history
<1>3. Advance(p)
  BY <1>1, <1>2
<1> QED
  BY <1>3 DEF Advance, Create, UpsertOtp, Mail, SetPassword, MarkEmailVerified, ConsumeOtp,
              CheckApproved, SelectRow, InsertRow, UpdateRow, history

\* Only the signature of the wallet's latest message connects it.
THEOREM LatestNonceOnly == Spec => LatestNonce
<1>1. ASSUME Inv, [Next]_vars
      PROVE  [\A n \in 1..Len(nonces) : accepted'[n] # accepted[n] =>
                \A m \in (n + 1)..Len(nonces) : nonces[m] # nonces[n]]_vars
  <2> SUFFICES ASSUME NEW n \in 1..Len(nonces), accepted'[n] # accepted[n], Next
               PROVE  \A m \in (n + 1)..Len(nonces) : nonces[m] # nonces[n]
    BY <1>1
  <2>1. PICK p \in Procs : ConsumeAndRecover(p)
    BY OnlyRecoverAccepts
  <2>2. code[p] \in pending /\ accepted' = [accepted EXCEPT ![code[p]] = @ + 1]
    BY <2>1 DEF ConsumeAndRecover, Matches
  <2>3. accepted \in [1..MaxNonces -> Nat] /\ Len(nonces) \in Nat /\ Len(nonces) <= MaxNonces
    BY <1>1 DEF Inv, NoncesOk
  <2>4. n = code[p]
    BY <2>2, <2>3, PeopleAssumption DEF AccountAssumed
  <2> QED BY <2>2, <2>4, <1>1 DEF Inv, NoncesOk
<1> QED BY <1>1, AlwaysInv, PTL DEF Spec, LatestNonce

\* Where every row was made by an account, no step hands a wallet to another.
THEOREM OwnersStay == ASSUME Legacy = {} PROVE Spec => OwnerStays
<1>1. ASSUME Inv, [Next]_vars
      PROVE  [\A w \in Wallets : row[w] # Nobody => row'[w] = row[w]]_vars
  <2> SUFFICES ASSUME NEW w \in Wallets, row[w] # Nobody, row'[w] # row[w], Next PROVE FALSE
    BY <1>1
  <2>1. PICK p \in Procs : Call(p) \/ Advance(p) \/ Crash(p)
    BY DEF Next, Expire, RequestNonce, ExpireNonce, investors
  <2>2. ~Call(p) /\ ~Crash(p)
    BY DEF Call, Signup, ResendVerification, ForgotPassword, VerifyEmail, ResetPassword, ConnectWallet,
           Crash, investors
  <2>3. InsertRow(p) \/ UpdateRow(p)
    BY <2>1, <2>2 DEF Advance, Create, UpsertOtp, Mail, ConsumeOtp, SetPassword, MarkEmailVerified,
                      ConsumeAndRecover, CheckApproved, SelectRow, investors
  <2>4. /\ who[p] \in Emails /\ target[p] \in Wallets
        /\ Link(p) \/ UNCHANGED investors
        /\ Link(p) => row[target[p]] \in {Nobody, who[p]}
    <3>1. who[p] \in Emails /\ target[p] \in Wallets /\ (pc[p] = "update" => row[target[p]] = who[p])
      BY <1>1, <2>3 DEF Inv, LocalOk, RequestOk, InsertRow, UpdateRow, At
    <3>2. CASE InsertRow(p) /\ target[p] \notin present
      BY <3>1, <3>2, <1>1 DEF InsertRow, Inv, RowsOk
    <3>3. CASE InsertRow(p) /\ target[p] \in present
      BY <3>1, <3>3 DEF InsertRow, Link, investors
    <3>4. CASE UpdateRow(p)
      BY <3>1, <3>4 DEF UpdateRow, At
    <3> QED BY <2>3, <3>2, <3>3, <3>4
  <2>5. Link(p)
    BY <2>4 DEF investors
  <2>6. row[w] \in Emails => row'[w] = row[w]
    BY <2>4, <2>5, <1>1, LinkRow, PeopleAssumption
  <2> QED BY <2>6, <1>1 DEF Inv, RowsOk
<1> QED BY <1>1, AlwaysInv, PTL DEF Spec, OwnerStays

\* Together: emails and the codes mailed to them count once, for one thing.
THEOREM CodesHold == Spec => CodesCountOnce
<1>1. Spec => []AccountOnce
  BY OneAccount
<1>2. Spec => []CodeOnce
  BY CodeWorksOnce
<1>3. Spec => []PasswordByReset
  BY PasswordNeedsReset
<1>4. Spec => ReplacedIsDead
  BY ReplacedNeverWorks
<1> QED BY <1>1, <1>2, <1>3, <1>4, PTL DEF CodesCountOnce

\* Together: where accounts made every row, the latest signature of a wallet
\* counts once and the wallet stays with the account it connected it to.
THEOREM WalletsHold == ASSUME Legacy = {} PROVE Spec => WalletsStay
<1>1. Spec => []SignatureOnce
  BY SignatureWorksOnce
<1>2. Spec => []SessionIsOwners
  BY SessionsOfOwners
<1>3. Spec => LatestNonce
  BY LatestNonceOnly
<1>4. Spec => OwnerStays
  BY OwnersStay
<1> QED BY <1>1, <1>2, <1>3, <1>4, PTL DEF WalletsStay

\* The types that the other conjuncts do not need.
AccountLocal ==
  /\ who \in [Procs -> Emails \cup {Nobody}] /\ code \in [Procs -> Nat]
  /\ purpose \in [Procs -> Purposes \cup {"none"}] /\ target \in [Procs -> Wallets \cup {NoWallet}]
  /\ seen \in [Procs -> BOOLEAN]

AccountTyped ==
  /\ AccountLocal
  /\ verified \in [Emails -> BOOLEAN] /\ password \in [Emails -> 0..MaxCodes] /\ expired \in SUBSET (1..MaxCodes)

LEMMA TypedInit == ASSUME AccountAssumed, Init PROVE AccountTyped
<1>1. code \in [Procs -> Nat] /\ password \in [Emails -> 0..MaxCodes]
  BY DEF Init, AccountAssumed, NoCode
<1> QED BY <1>1 DEF Init, AccountTyped, AccountLocal

LEMMA BeginTyped ==
  ASSUME AccountTyped, NEW p \in Procs, NEW e \in Emails, NEW what \in Purposes \cup {"none"}, NEW c \in Nat,
         NEW w \in Wallets \cup {NoWallet}, NEW next, Begin(p, e, what, c, w, next)
  PROVE  AccountLocal'
<1>1. (e # Nobody /\ verified[e]) \in BOOLEAN
  BY DEF AccountTyped
<1> QED BY <1>1 DEF AccountTyped, AccountLocal, Begin

LEMMA FinishTyped == ASSUME AccountTyped, NEW p \in Procs, Finish(p) PROVE AccountLocal'
<1>1. NoCode \in Nat
  BY DEF NoCode
<1> QED BY <1>1 DEF AccountTyped, AccountLocal, Finish

LEMMA ContinueTyped == ASSUME AccountTyped, NEW p \in Procs, NEW next, Continue(p, next) PROVE AccountLocal'
BY DEF AccountTyped, AccountLocal, Continue

LEMMA CallTyped == ASSUME AccountAssumed, Inv, AccountTyped, NEW p \in Procs, Call(p) PROVE AccountTyped'
<1>1. UNCHANGED <<verified, password, expired>>
  BY DEF Call, Signup, ResendVerification, ForgotPassword, VerifyEmail, ResetPassword, ConnectWallet, accounts, mail
<1>2. NoCode \in Nat /\ {"verify", "reset"} = Purposes
  BY DEF NoCode, Purposes
<1>3. PICK e \in Emails :
        \/ \E what \in Purposes, next \in Points : Begin(p, e, what, NoCode, NoWallet, next)
        \/ \E c \in mailed, what \in Purposes : Begin(p, e, what, c, NoWallet, "consume")
        \/ \E n \in 1..Len(nonces) : Begin(p, e, "none", n, nonces[n], "nonce")
  BY <1>2 DEF Call, Signup, ResendVerification, ForgotPassword, VerifyEmail, ResetPassword, ConnectWallet, Points
<1>4. mailed \subseteq Nat
  BY DEF Inv, CodesOk
<1>5. \A n \in 1..Len(nonces) : n \in Nat /\ nonces[n] \in Wallets
  BY DEF Inv, NoncesOk
<1>6. AccountLocal'
  <2>1. ASSUME NEW what \in Purposes, NEW next \in Points, Begin(p, e, what, NoCode, NoWallet, next) PROVE AccountLocal'
    BY <1>2, <2>1, BeginTyped
  <2>2. ASSUME NEW c \in mailed, NEW what \in Purposes, Begin(p, e, what, c, NoWallet, "consume") PROVE AccountLocal'
    BY <1>4, <2>2, BeginTyped
  <2>3. ASSUME NEW n \in 1..Len(nonces), Begin(p, e, "none", n, nonces[n], "nonce") PROVE AccountLocal'
    BY <1>5, <2>3, BeginTyped
  <2> QED BY <1>3, <2>1, <2>2, <2>3
<1> QED BY <1>1, <1>6 DEF AccountTyped

LEMMA AdvanceTyped == ASSUME AccountAssumed, Inv, AccountTyped, NEW p \in Procs, Advance(p) \/ Crash(p) PROVE AccountTyped'
<1>1. CASE UpsertOtp(p)
  <2>1. code' = [code EXCEPT ![p] = Len(codes) + 1] /\ UNCHANGED <<verified, password, expired, who, purpose, target, seen>>
    BY <1>1 DEF UpsertOtp, accounts
  <2>2. Len(codes) + 1 \in Nat
    BY DEF Inv, CodesOk
  <2> QED BY <2>1, <2>2 DEF AccountTyped, AccountLocal
<1>2. CASE SetPassword(p)
  <2>1. password' = [password EXCEPT ![who[p]] = code[p]] /\ UNCHANGED <<verified, expired>>
        /\ (Finish(p) \/ Continue(p, "mark"))
    BY <1>2 DEF SetPassword, mail
  <2>2. code[p] \in 1..Len(codes) /\ Len(codes) \in Nat /\ Len(codes) <= MaxCodes /\ MaxCodes \in Nat
    <3>1. pc[p] = "password" /\ RequestOk(p)
      BY <1>2 DEF SetPassword, At, Inv, LocalOk
    <3>2. code[p] \in mailed
      BY <3>1 DEF RequestOk
    <3>3. codes \in Seq(Keys) /\ Len(codes) <= MaxCodes /\ mailed \subseteq 1..Len(codes) /\ MaxCodes \in Nat
      BY DEF Inv, CodesOk, AccountAssumed
    <3>4. Len(codes) \in Nat
      BY <3>3
    <3> QED BY <3>2, <3>3, <3>4
  <2>3. code[p] \in 0..MaxCodes
    BY <2>2
  <2> QED BY <2>1, <2>3, FinishTyped, ContinueTyped DEF AccountTyped
<1>3. CASE MarkEmailVerified(p)
  BY <1>3, FinishTyped DEF MarkEmailVerified, AccountTyped, mail
<1>4. CASE Create(p) \/ Mail(p) \/ ConsumeOtp(p) \/ ConsumeAndRecover(p) \/ CheckApproved(p) \/ SelectRow(p)
           \/ InsertRow(p) \/ UpdateRow(p) \/ Crash(p)
  <2>1. UNCHANGED <<verified, password, expired>>
    BY <1>4 DEF Create, Mail, ConsumeOtp, ConsumeAndRecover, CheckApproved, SelectRow, InsertRow, UpdateRow, Crash, accounts, mail
  <2>2. Finish(p) \/ \E next \in Points : Continue(p, next)
    BY <1>4 DEF Create, Mail, ConsumeOtp, ConsumeAndRecover, CheckApproved, SelectRow, InsertRow, UpdateRow, Crash, Points
  <2> QED BY <2>1, <2>2, FinishTyped, ContinueTyped DEF AccountTyped
<1> QED BY <1>1, <1>2, <1>3, <1>4 DEF Advance

LEMMA TypedNext == ASSUME AccountAssumed, Inv, AccountTyped, [Next]_vars PROVE AccountTyped'
<1>1. ASSUME NEW c \in otps, Expire(c) PROVE AccountTyped'
  <2>1. c \in 1..MaxCodes
    BY DEF Inv, CodesOk, AccountAssumed
  <2> QED BY <1>1, <2>1 DEF Expire, AccountTyped, AccountLocal, accounts, local
<1>2. ASSUME UNCHANGED <<accounts, mail, local>> PROVE AccountTyped'
  BY <1>2 DEF AccountTyped, AccountLocal, accounts, mail, local
<1>3. ASSUME NEW w \in Wallets, RequestNonce(w) PROVE AccountTyped'
  BY <1>2, <1>3 DEF RequestNonce
<1>4. ASSUME NEW n \in pending, ExpireNonce(n) PROVE AccountTyped'
  BY <1>2, <1>4 DEF ExpireNonce
<1> QED BY <1>1, <1>2, <1>3, <1>4, CallTyped, AdvanceTyped DEF Next, vars

LEMMA AlwaysTyped == Spec => []TypeOK
<1>1. Init => Inv /\ AccountTyped
  BY InitInv, TypedInit, PeopleAssumption
<1>2. Inv /\ AccountTyped /\ [Next]_vars => (Inv /\ AccountTyped)'
  BY NextInv, TypedNext, PeopleAssumption
<1>3. Inv /\ AccountTyped => TypeOK
  <2> SUFFICES ASSUME Inv, AccountTyped PROVE TypeOK
    OBVIOUS
  <2>1. otps \in SUBSET (1..MaxCodes) /\ mailed \in SUBSET (1..MaxCodes) /\ codes \in Seq([email : Emails, purpose : Purposes])
    BY PeopleAssumption DEF Inv, CodesOk, AccountAssumed, Keys
  <2>2. pending \in SUBSET (1..MaxNonces)
    BY PeopleAssumption DEF Inv, NoncesOk, AccountAssumed
  <2> QED BY <2>1, <2>2 DEF Inv, AccountTyped, AccountLocal, LocalOk, CodesOk, NoncesOk, RowsOk, SignupsOk, TypeOK, Points
<1> QED BY <1>1, <1>2, <1>3, PTL DEF Spec

-----------------------------------------------------------------------------
(* The identities of a person on the chain. *)

\* What is known of a request from where it is.
OnboardAt(p) ==
  /\ onboardPc[p] \in {"accredited", "stored", "factory", "create", "store", "claims", "contains", "register",
                       "check", "trust", "again", "save"} => wallet[p] \in ChainWallets
  /\ onboardPc[p] = "store" => wallet[p] \in factory
  /\ onboardPc[p] = "sign" => identity[p] \in factory
  /\ onboardPc[p] \in {"claims", "contains", "register"} =>
       identity[p] \in ChainWallets /\ identity[p] = onchainid[Primary[wallet[p]]]
  /\ (onboardPc[p] = "save" /\ found[p] = 1) => Primary[wallet[p]] \in proven
  /\ onboardPc[p] \in {"submit", "revokeKyc"} => found[p] \in Onboard!Signatures

\* The salt of a person is taken with the first identity, and what is recorded
\* was created.
IdentitiesOk ==
  /\ \A w \in factory : Primary[w] \in salts
  /\ \A r \in Onboard!Rows : onchainid[r] \in ChainWallets => onchainid[r] \in factory /\ Primary[onchainid[r]] = r
  /\ Onboard!OneIdentity /\ Onboard!RegisteredIsRecorded /\ Onboard!VerifiedWasProven

\* Claims are about identities that were created.
ClaimsOk ==
  /\ \A s \in 1..Len(signed) : signed[s].id \in factory
  /\ \A id \in ChainWallets \ factory : \A t \in Onboard!Topics : claims[id][t] = Onboard!Unsigned

\* A request that revokes still has id before it.
WillRevoke(p, id) ==
  \/ onboardPc[p] \in {"revoke", "submit"} /\ id \in todo[p]
  \/ onboardPc[p] = "submit" /\ found[p] = claims[id]["ACCREDITED"]

RevocationOk ==
  (~accredited /\ ~failed) =>
    \A id \in factory \cap Onboard!Rows :
      Onboard!Live(id, "ACCREDITED") => claims[id]["ACCREDITED"] \in late \/ \E p \in Procs : WillRevoke(p, id)

OnboardInv ==
  /\ Onboard!TypeOK /\ (\A p \in Procs : OnboardAt(p)) /\ IdentitiesOk /\ ClaimsOk /\ RevocationOk

OnboardLocalTyped ==
  /\ onboardPc \in [Procs -> {"idle", "accredited", "stored", "factory", "create", "store", "sign",
                       "claims", "contains", "register", "check", "trust", "again", "save",
                       "reject", "revoke", "submit", "revokeKyc"}]
  /\ wallet \in [Procs -> ChainWallets \cup {None}]
  /\ identity \in [Procs -> ChainWallets \cup {None}]
  /\ todo \in [Procs -> SUBSET (Onboard!Topics \cup ChainWallets)]
  /\ found \in [Procs -> Nat]

OthersOnboard(p) ==
  \A r \in Procs \ {p} :
    /\ onboardPc'[r] = onboardPc[r] /\ wallet'[r] = wallet[r] /\ identity'[r] = identity[r]
    /\ todo'[r] = todo[r] /\ found'[r] = found[r]

LEMMA OnboardInit == ASSUME OnboardAssumed, Onboard!Init PROVE OnboardInv
<1>1. Onboard!TypeOK
  <2>1. signed \in Seq([id : ChainWallets, topic : Onboard!Topics]) /\ Len(signed) <= MaxSigned /\ grants \in 0..MaxGrants
    BY DEF Onboard!Init, OnboardAssumed
  <2>2. found \in [Procs -> Nat] /\ claims \in [ChainWallets -> [Onboard!Topics -> Onboard!Signatures \cup {Onboard!Unsigned}]]
    BY DEF Onboard!Init
  <2>3. todo \in [Procs -> SUBSET (Onboard!Topics \cup ChainWallets)]
    BY DEF Onboard!Init
  <2>4. /\ onchainid \in [Onboard!Rows -> ChainWallets \cup {None, Gone}] /\ confirmed \in [Onboard!Rows -> BOOLEAN]
        /\ proven \in SUBSET ChainWallets /\ late \in SUBSET Onboard!Signatures
    BY DEF Onboard!Init, Onboard!Rows
  <2>5. /\ kyc \in BOOLEAN /\ accredited \in BOOLEAN /\ trusted \in BOOLEAN /\ failed \in BOOLEAN
        /\ factory \in SUBSET ChainWallets /\ salts \in SUBSET ChainWallets /\ revoked \in SUBSET Onboard!Signatures
        /\ registry \in [ChainWallets -> ChainWallets \cup {None}] /\ wallet \in [Procs -> ChainWallets \cup {None}]
        /\ identity \in [Procs -> ChainWallets \cup {None}] /\ \A p \in Procs : onboardPc[p] = "idle"
    BY DEF Onboard!Init
  <2>6. onboardPc = [p \in Procs |-> "idle"]
    BY DEF Onboard!Init
  <2> QED BY <2>1, <2>2, <2>3, <2>4, <2>5, <2>6 DEF Onboard!TypeOK
<1>2. \A p \in Procs : OnboardAt(p)
  BY DEF Onboard!Init, OnboardAt
<1>i. IdentitiesOk
  <2>1. \A r \in Onboard!Rows : onchainid[r] \notin ChainWallets
    BY DEF Onboard!Init, OnboardAssumed
  <2>2. Onboard!VerifiedWasProven
    BY DEF Onboard!Init, Onboard!VerifiedWasProven
  <2>3. factory = {} /\ \A w \in ChainWallets : registry[w] = None
    BY DEF Onboard!Init
  <2> QED BY <2>1, <2>2, <2>3 DEF IdentitiesOk, Onboard!OneIdentity, Onboard!RegisteredIsRecorded
<1>3. ClaimsOk /\ RevocationOk
  BY DEF Onboard!Init, ClaimsOk, RevocationOk
<1> QED BY <1>1, <1>2, <1>i, <1>3 DEF OnboardInv

LEMMA OnboardFinish ==
  ASSUME Onboard!TypeOK, NEW p \in Procs, Onboard!Finish(p)
  PROVE  OthersOnboard(p) /\ OnboardLocalTyped' /\ OnboardAt(p)' /\ onboardPc'[p] = "idle"
BY DEF Onboard!TypeOK, Onboard!Finish, Onboard!Goto, OthersOnboard, OnboardLocalTyped, OnboardAt

LEMMA OnboardGoto ==
  ASSUME Onboard!TypeOK, NEW p \in Procs,
         NEW next \in {"accredited", "stored", "factory", "create", "store", "sign", "claims", "contains", "register",
                       "check", "trust", "again", "save", "revoke", "submit", "revokeKyc"},
         Onboard!Goto(p, next)
  PROVE  /\ onboardPc'[p] = next /\ \A r \in Procs \ {p} : onboardPc'[r] = onboardPc[r]
         /\ onboardPc' \in [Procs -> {"idle", "accredited", "stored", "factory", "create", "store", "sign",
                       "claims", "contains", "register", "check", "trust", "again", "save",
                       "reject", "revoke", "submit", "revokeKyc"}]
BY DEF Onboard!TypeOK, Onboard!Goto

LEMMA OnboardContinue ==
  ASSUME Onboard!TypeOK, NEW p \in Procs,
         NEW next \in {"stored", "factory", "create", "store", "contains", "register", "check", "trust", "again"},
         Onboard!Continue(p, next)
  PROVE  /\ OthersOnboard(p) /\ OnboardLocalTyped' /\ onboardPc'[p] = next
         /\ UNCHANGED <<wallet, identity, todo, found>>
<1>1. Onboard!Goto(p, next) /\ UNCHANGED <<wallet, identity, todo, found>>
  BY DEF Onboard!Continue, Onboard!Keep
<1> QED BY <1>1, OnboardGoto DEF Onboard!TypeOK, OthersOnboard, OnboardLocalTyped

LEMMA OnboardSign ==
  ASSUME Onboard!TypeOK, NEW p \in Procs, NEW id \in factory, Onboard!Sign(p, id)
  PROVE  /\ OthersOnboard(p) /\ OnboardLocalTyped' /\ onboardPc'[p] = "sign" /\ identity'[p] = id
<1>1. Onboard!Goto(p, "sign") /\ UNCHANGED <<wallet, found>>
      /\ identity' = [identity EXCEPT ![p] = id] /\ todo' = [todo EXCEPT ![p] = Onboard!Topics]
  BY DEF Onboard!Sign
<1> QED BY <1>1, OnboardGoto DEF Onboard!TypeOK, OthersOnboard, OnboardLocalTyped

\* What is known of the other requests stays true while identities are created
\* and recorded and no record is replaced.
LEMMA OnboardOthers ==
  ASSUME OnboardAssumed, OnboardInv, NEW p \in Procs, OthersOnboard(p), OnboardAt(p)',
         factory \subseteq factory', proven \subseteq proven',
         \A r \in Onboard!Rows : onchainid[r] \in ChainWallets => onchainid'[r] = onchainid[r]
  PROVE  \A r \in Procs : OnboardAt(r)'
<1> SUFFICES ASSUME NEW r \in Procs, r # p PROVE OnboardAt(r)'
  OBVIOUS
<1>1. /\ onboardPc'[r] = onboardPc[r] /\ wallet'[r] = wallet[r] /\ identity'[r] = identity[r] /\ found'[r] = found[r]
  BY DEF OthersOnboard
<1>2. OnboardAt(r)
  BY DEF OnboardInv
<1>3. onboardPc[r] \in {"claims", "contains", "register"} => identity[r] = onchainid'[Primary[wallet[r]]]
  BY <1>2 DEF OnboardAt, OnboardAssumed, Onboard!Rows
<1> QED BY <1>1, <1>2, <1>3 DEF OnboardAt, Onboard!Signatures

\* Coverage stays while no claim is attached and every request keeps what it has to revoke.
LEMMA RevocationKept ==
  ASSUME RevocationOk, UNCHANGED <<claims, accredited, late, failed>>,
         \A id \in factory' \cap Onboard!Rows : Onboard!Live(id, "ACCREDITED")' => id \in factory /\ Onboard!Live(id, "ACCREDITED"),
         \A r \in Procs, id \in factory \cap Onboard!Rows :
           Onboard!Live(id, "ACCREDITED")' => (WillRevoke(r, id) => WillRevoke(r, id)')
  PROVE  RevocationOk'
<1> SUFFICES ASSUME ~accredited, ~failed, NEW id \in factory' \cap Onboard!Rows, Onboard!Live(id, "ACCREDITED")',
                    claims[id]["ACCREDITED"] \notin late
             PROVE  \E r \in Procs : WillRevoke(r, id)'
  BY DEF RevocationOk
<1>1. id \in factory \cap Onboard!Rows /\ Onboard!Live(id, "ACCREDITED")
  OBVIOUS
<1>2. PICK r \in Procs : WillRevoke(r, id)
  BY <1>1 DEF RevocationOk
<1> QED BY <1>1, <1>2

LEMMA WillRevokeKept ==
  ASSUME NEW p \in Procs, OthersOnboard(p), UNCHANGED claims, onboardPc[p] \notin {"revoke", "submit"}
  PROVE  \A r \in Procs, id \in factory \cap Onboard!Rows : WillRevoke(r, id) => WillRevoke(r, id)'
BY DEF OthersOnboard, WillRevoke

\* A request that reads, and goes on or ends.
LEMMA OnboardQuiet ==
  ASSUME OnboardAssumed, OnboardInv, NEW p \in Procs, OthersOnboard(p), OnboardLocalTyped', OnboardAt(p)',
         onboardPc[p] \notin {"revoke", "submit"}, trusted' \in BOOLEAN,
         UNCHANGED <<factory, salts, claims, revoked, registry, kyc, accredited, onchainid, confirmed, signed, grants, late, failed, proven>>
  PROVE  OnboardInv'
<1>1. Onboard!TypeOK'
  BY DEF OnboardInv, Onboard!TypeOK, OnboardLocalTyped
<1>2. \A r \in Procs : OnboardAt(r)'
  BY OnboardOthers
<1>3. IdentitiesOk' /\ ClaimsOk'
  BY DEF OnboardInv, IdentitiesOk, ClaimsOk, Onboard!OneIdentity, Onboard!RegisteredIsRecorded, Onboard!VerifiedWasProven
<1>4. RevocationOk => RevocationOk'
  BY WillRevokeKept, RevocationKept DEF Onboard!Live
<1> QED BY <1>1, <1>2, <1>3, <1>4 DEF OnboardInv

LEMMA PrimaryRow == ASSUME OnboardAssumed, NEW w \in ChainWallets PROVE Primary[w] \in Onboard!Rows
BY DEF OnboardAssumed, Onboard!Rows

LEMMA OnboardReads ==
  ASSUME OnboardAssumed, OnboardInv, NEW p \in Procs,
         \/ Onboard!CheckAccredited(p) \/ Onboard!ReadStored(p) \/ Onboard!GetIdentity(p) \/ Onboard!CreateFails(p)
         \/ Onboard!Crash(p) \/ Onboard!Contains(p) \/ Onboard!Check(p) \/ Onboard!EnsureTrusted(p)
  PROVE  OnboardInv'
<1>t. Onboard!TypeOK /\ OnboardAt(p)
  BY DEF OnboardInv
<1>1. CASE Onboard!CheckAccredited(p)
  <2>1. onboardPc[p] = "accredited" /\ wallet[p] \in ChainWallets
    BY <1>1, <1>t DEF Onboard!CheckAccredited, Onboard!At, OnboardAt
  <2>2. Onboard!Continue(p, "stored") \/ Onboard!Finish(p)
    BY <1>1 DEF Onboard!CheckAccredited
  <2>3. OthersOnboard(p) /\ OnboardLocalTyped' /\ OnboardAt(p)'
    BY <1>t, <2>1, <2>2, OnboardFinish, OnboardContinue DEF OnboardAt
  <2>4. trusted' \in BOOLEAN /\ UNCHANGED <<factory, salts, claims, revoked, registry, kyc, accredited, onchainid, confirmed,
                                            signed, grants, late, failed, proven>>
    BY <1>1, <1>t DEF Onboard!CheckAccredited, Onboard!chain, Onboard!person, Onboard!TypeOK
  <2> QED BY <2>1, <2>3, <2>4, OnboardQuiet
<1>2. CASE Onboard!ReadStored(p)
  <2>1. onboardPc[p] = "stored" /\ wallet[p] \in ChainWallets
    BY <1>2, <1>t DEF Onboard!ReadStored, Onboard!At, OnboardAt
  <2>2. \/ onchainid[Primary[wallet[p]]] \in ChainWallets /\ Onboard!Sign(p, onchainid[Primary[wallet[p]]])
        \/ Onboard!Continue(p, "factory")
    BY <1>2 DEF Onboard!ReadStored
  <2>5. trusted' \in BOOLEAN /\ UNCHANGED <<factory, salts, claims, revoked, registry, kyc, accredited, onchainid, confirmed,
                                            signed, grants, late, failed, proven>>
    BY <1>2, <1>t DEF Onboard!ReadStored, Onboard!chain, Onboard!person, Onboard!TypeOK
  <2>3. onchainid[Primary[wallet[p]]] \in ChainWallets => onchainid[Primary[wallet[p]]] \in factory
    BY <2>1, PrimaryRow DEF OnboardInv, IdentitiesOk
  <2>4. OthersOnboard(p) /\ OnboardLocalTyped' /\ OnboardAt(p)'
    <3>1. CASE onchainid[Primary[wallet[p]]] \in ChainWallets /\ Onboard!Sign(p, onchainid[Primary[wallet[p]]])
      BY <1>t, <2>3, <2>5, <3>1, OnboardSign DEF OnboardAt
    <3>2. CASE Onboard!Continue(p, "factory")
      BY <1>t, <2>1, <3>2, OnboardContinue DEF OnboardAt
    <3> QED BY <2>2, <3>1, <3>2
  <2> QED BY <2>1, <2>4, <2>5, OnboardQuiet
<1>3. CASE Onboard!GetIdentity(p)
  <2>1. onboardPc[p] = "factory" /\ wallet[p] \in ChainWallets
    BY <1>3, <1>t DEF Onboard!GetIdentity, Onboard!At, OnboardAt
  <2>2. \/ wallet[p] \in factory /\ Onboard!Continue(p, "store")
        \/ Onboard!Continue(p, "create")
    BY <1>3 DEF Onboard!GetIdentity
  <2>3. trusted' \in BOOLEAN /\ UNCHANGED <<factory, salts, claims, revoked, registry, kyc, accredited, onchainid, confirmed,
                                            signed, grants, late, failed, proven>>
    BY <1>3, <1>t DEF Onboard!GetIdentity, Onboard!chain, Onboard!person, Onboard!TypeOK
  <2>4. OthersOnboard(p) /\ OnboardLocalTyped' /\ OnboardAt(p)'
    BY <1>t, <2>1, <2>2, <2>3, OnboardContinue DEF OnboardAt
  <2> QED BY <2>1, <2>3, <2>4, OnboardQuiet
<1>4. CASE Onboard!CreateFails(p) \/ Onboard!Crash(p)
  <2>1. onboardPc[p] \in {"create", "store"} /\ Onboard!Finish(p)
    BY <1>4 DEF Onboard!CreateFails, Onboard!Crash, Onboard!At
  <2>2. trusted' \in BOOLEAN /\ UNCHANGED <<factory, salts, claims, revoked, registry, kyc, accredited, onchainid, confirmed,
                                            signed, grants, late, failed, proven>>
    BY <1>4, <1>t DEF Onboard!CreateFails, Onboard!Crash, Onboard!chain, Onboard!person, Onboard!TypeOK
  <2> QED BY <1>t, <2>1, <2>2, OnboardFinish, OnboardQuiet
<1>5. CASE Onboard!Contains(p)
  <2>1. onboardPc[p] = "contains"
    BY <1>5 DEF Onboard!Contains, Onboard!At
  <2>2. \/ Onboard!Continue(p, "check")
        \/ Onboard!Continue(p, "register")
    BY <1>5 DEF Onboard!Contains
  <2>3. trusted' \in BOOLEAN /\ UNCHANGED <<factory, salts, claims, revoked, registry, kyc, accredited, onchainid, confirmed,
                                            signed, grants, late, failed, proven>>
    BY <1>5, <1>t DEF Onboard!Contains, Onboard!chain, Onboard!person, Onboard!TypeOK
  <2>4. OthersOnboard(p) /\ OnboardLocalTyped' /\ OnboardAt(p)'
    BY <1>t, <2>1, <2>2, <2>3, OnboardContinue DEF OnboardAt
  <2> QED BY <2>1, <2>3, <2>4, OnboardQuiet
<1>6. CASE Onboard!Check(p)
  <2>1. onboardPc[p] = "check"
    BY <1>6 DEF Onboard!Check, Onboard!At
  <2>2. \/ Onboard!Continue(p, "again")
        \/ Onboard!Continue(p, "trust")
    BY <1>6 DEF Onboard!Check
  <2>3. trusted' \in BOOLEAN /\ UNCHANGED <<factory, salts, claims, revoked, registry, kyc, accredited, onchainid, confirmed,
                                            signed, grants, late, failed, proven>>
    BY <1>6, <1>t DEF Onboard!Check, Onboard!chain, Onboard!person, Onboard!TypeOK
  <2>4. OthersOnboard(p) /\ OnboardLocalTyped' /\ OnboardAt(p)'
    BY <1>t, <2>1, <2>2, <2>3, OnboardContinue DEF OnboardAt
  <2> QED BY <2>1, <2>3, <2>4, OnboardQuiet
<1>7. CASE Onboard!EnsureTrusted(p)
  <2>1. onboardPc[p] = "trust" /\ (Onboard!Continue(p, "again") \/ Onboard!Finish(p))
    BY <1>7 DEF Onboard!EnsureTrusted, Onboard!At
  <2>3. trusted' \in BOOLEAN /\ UNCHANGED <<factory, salts, claims, revoked, registry, kyc, accredited, onchainid, confirmed,
                                            signed, grants, late, failed, proven>>
    BY <1>7, <1>t DEF Onboard!EnsureTrusted, Onboard!person, Onboard!TypeOK
  <2>4. OthersOnboard(p) /\ OnboardLocalTyped' /\ OnboardAt(p)'
    <3>1. CASE Onboard!Continue(p, "again")
      BY <1>t, <2>1, <3>1, OnboardContinue DEF OnboardAt
    <3>2. CASE Onboard!Finish(p)
      BY <1>t, <3>2, OnboardFinish
    <3> QED BY <2>1, <3>1, <3>2
  <2> QED BY <2>1, <2>3, <2>4, OnboardQuiet
<1> QED BY <1>1, <1>2, <1>3, <1>4, <1>5, <1>6, <1>7

LEMMA OnboardBegins ==
  ASSUME OnboardAssumed, OnboardInv, NEW p \in Procs, NEW w \in ChainWallets,
         Onboard!Prepare(p, w) \/ Onboard!Confirm(p, w) \/ Onboard!RevokeKyc(p, w)
  PROVE  OnboardInv'
<1>t. Onboard!TypeOK /\ OnboardLocalTyped
  BY DEF OnboardInv, Onboard!TypeOK, OnboardLocalTyped
<1>u. trusted' \in BOOLEAN /\ UNCHANGED <<factory, salts, claims, revoked, registry, kyc, accredited, onchainid, confirmed,
                                          signed, grants, late, failed, proven>>
  BY <1>t DEF Onboard!Prepare, Onboard!Confirm, Onboard!RevokeKyc, Onboard!chain, Onboard!person, Onboard!TypeOK
<1>i. onboardPc[p] = "idle"
  BY DEF Onboard!Prepare, Onboard!Confirm, Onboard!RevokeKyc, Onboard!At
<1>1. CASE Onboard!Prepare(p, w)
  <2>1. Onboard!Goto(p, "accredited") /\ wallet' = [wallet EXCEPT ![p] = w] /\ UNCHANGED <<identity, todo, found>>
    BY <1>1 DEF Onboard!Prepare
  <2>2. OthersOnboard(p) /\ OnboardLocalTyped' /\ OnboardAt(p)'
    BY <1>t, <2>1, OnboardGoto DEF OthersOnboard, OnboardLocalTyped, OnboardAt
  <2> QED BY <1>i, <1>u, <2>2, OnboardQuiet
<1>2. CASE Onboard!Confirm(p, w)
  <2> DEFINE id == onchainid[Primary[w]]
  <2>1. /\ Onboard!Goto(p, "claims") /\ wallet' = [wallet EXCEPT ![p] = w] /\ identity' = [identity EXCEPT ![p] = id]
        /\ todo' = [todo EXCEPT ![p] = Onboard!Topics] /\ UNCHANGED found
    BY <1>2 DEF Onboard!Confirm
  <2>2. id \in ChainWallets
    BY <1>2 DEF Onboard!Confirm
  <2>3. id = onchainid'[Primary[w]]
    BY <1>u
  <2> HIDE DEF id
  <2>4. OthersOnboard(p) /\ OnboardLocalTyped'
    BY <1>t, <2>1, <2>2, OnboardGoto DEF OthersOnboard, OnboardLocalTyped
  <2>5. onboardPc'[p] = "claims" /\ wallet'[p] = w /\ identity'[p] = id
    BY <1>t, <2>1, OnboardGoto DEF OnboardLocalTyped
  <2>6. OnboardAt(p)'
    BY <2>2, <2>3, <2>5 DEF OnboardAt
  <2> QED BY <1>i, <1>u, <2>4, <2>6, OnboardQuiet
<1>3. CASE Onboard!RevokeKyc(p, w)
  <2> DEFINE s == claims[w]["KYC"]
  <2>1. /\ Onboard!Goto(p, "revokeKyc") /\ found' = [found EXCEPT ![p] = s] /\ UNCHANGED <<wallet, identity, todo>>
        /\ s # Onboard!Unsigned
    BY <1>3 DEF Onboard!RevokeKyc
  <2>2. s \in Onboard!Signatures /\ s \in Nat
    BY <1>t, <2>1 DEF Onboard!TypeOK, Onboard!Topics, Onboard!Signatures
  <2> HIDE DEF s
  <2>4. OthersOnboard(p) /\ OnboardLocalTyped' /\ onboardPc'[p] = "revokeKyc" /\ found'[p] = s
    BY <1>t, <2>1, <2>2, OnboardGoto DEF OthersOnboard, OnboardLocalTyped
  <2>5. OnboardAt(p)'
    BY <2>2, <2>4 DEF OnboardAt, Onboard!Signatures
  <2> QED BY <1>i, <1>u, <2>4, <2>5, OnboardQuiet
<1> QED BY <1>1, <1>2, <1>3

LEMMA CheckClaimStep ==
  ASSUME OnboardAssumed, OnboardInv, NEW p \in Procs, NEW t \in Onboard!Topics, Onboard!CheckClaim(p, t)
  PROVE  OnboardInv'
<1>t. Onboard!TypeOK /\ OnboardLocalTyped /\ OnboardAt(p)
  BY DEF OnboardInv, Onboard!TypeOK, OnboardLocalTyped
<1>u. trusted' \in BOOLEAN /\ UNCHANGED <<factory, salts, claims, revoked, registry, kyc, accredited, onchainid, confirmed,
                                          signed, grants, late, failed, proven>>
  BY <1>t DEF Onboard!CheckClaim, Onboard!chain, Onboard!person, Onboard!TypeOK
<1>i. onboardPc[p] = "claims"
  BY DEF Onboard!CheckClaim, Onboard!At
<1>1. \/ Onboard!Finish(p)
      \/ /\ todo' = [todo EXCEPT ![p] = @ \ {t}] /\ UNCHANGED <<wallet, identity, found>>
         /\ Onboard!Goto(p, "contains") \/ UNCHANGED onboardPc
  BY DEF Onboard!CheckClaim
<1>2. CASE Onboard!Finish(p)
  BY <1>t, <1>u, <1>i, <1>2, OnboardFinish, OnboardQuiet
<1>3. CASE /\ todo' = [todo EXCEPT ![p] = @ \ {t}] /\ UNCHANGED <<wallet, identity, found>>
           /\ Onboard!Goto(p, "contains") \/ UNCHANGED onboardPc
  <2>1. onboardPc'[p] \in {"claims", "contains"} /\ OthersOnboard(p) /\ OnboardLocalTyped'
    BY <1>t, <1>i, <1>3, OnboardGoto DEF OthersOnboard, OnboardLocalTyped
  <2>2. OnboardAt(p)'
    BY <1>t, <1>u, <1>i, <1>3, <2>1 DEF OnboardAt
  <2> QED BY <1>u, <1>i, <2>1, <2>2, OnboardQuiet
<1> QED BY <1>1, <1>2, <1>3

LEMMA AppendOne ==
  ASSUME NEW S, NEW seq \in Seq(S), NEW x \in S
  PROVE  /\ Append(seq, x) \in Seq(S) /\ Len(Append(seq, x)) = Len(seq) + 1
         /\ Append(seq, x)[Len(seq) + 1] = x /\ \A i \in 1..Len(seq) : Append(seq, x)[i] = seq[i]
OBVIOUS

LEMMA SignClaimStep ==
  ASSUME OnboardAssumed, OnboardInv, NEW p \in Procs, NEW t \in Onboard!Topics, Onboard!SignClaim(p, t)
  PROVE  OnboardInv'
<1>t. Onboard!TypeOK /\ OnboardLocalTyped /\ OnboardAt(p)
  BY DEF OnboardInv, Onboard!TypeOK, OnboardLocalTyped
<1>u. UNCHANGED <<factory, salts, claims, revoked, registry, trusted, kyc, accredited, onchainid, confirmed,
                                          grants, late, failed, proven>>
  BY DEF Onboard!SignClaim, Onboard!chain, Onboard!person
<1>i. onboardPc[p] = "sign" /\ identity[p] \in factory /\ identity[p] \in ChainWallets
  BY <1>t DEF Onboard!SignClaim, Onboard!At, OnboardAt, Onboard!TypeOK
<1>1. \/ Onboard!Finish(p)
      \/ todo' = [todo EXCEPT ![p] = @ \ {t}] /\ UNCHANGED <<onboardPc, wallet, identity, found>>
  BY DEF Onboard!SignClaim
<1>2. OthersOnboard(p) /\ OnboardLocalTyped' /\ OnboardAt(p)'
  <2>1. CASE Onboard!Finish(p)
    BY <1>t, <2>1, OnboardFinish
  <2>2. CASE todo' = [todo EXCEPT ![p] = @ \ {t}] /\ UNCHANGED <<onboardPc, wallet, identity, found>>
    BY <1>t, <1>u, <1>i, <2>2 DEF OthersOnboard, OnboardLocalTyped, OnboardAt
  <2> QED BY <1>1, <2>1, <2>2
<1>3. \/ UNCHANGED signed
      \/ Len(signed) < MaxSigned /\ signed' = Append(signed, [id |-> identity[p], topic |-> t])
  BY DEF Onboard!SignClaim
<1> DEFINE C == [id : ChainWallets, topic : Onboard!Topics]
           c == [id |-> identity[p], topic |-> t]
<1>c. c \in C /\ c.id \in factory
  BY <1>i
<1>s. /\ signed \in Seq(C) /\ Len(signed) \in Nat /\ Len(signed) <= MaxSigned /\ MaxSigned \in Nat
      /\ \A s \in 1..Len(signed) : signed[s].id \in factory
  BY <1>t DEF Onboard!TypeOK, OnboardInv, ClaimsOk, OnboardAssumed
<1> HIDE DEF C, c
<1>4. signed' \in Seq(C) /\ Len(signed') <= MaxSigned /\ \A s \in 1..Len(signed') : signed'[s].id \in factory
  <2>1. CASE UNCHANGED signed
    BY <1>s, <2>1
  <2>2. CASE Len(signed) < MaxSigned /\ signed' = Append(signed, c)
    <3>1. /\ signed' \in Seq(C) /\ Len(signed') = Len(signed) + 1
          /\ signed'[Len(signed) + 1] = c /\ \A i \in 1..Len(signed) : signed'[i] = signed[i]
      BY <1>c, <1>s, <2>2, AppendOne
    <3>2. ASSUME NEW s \in 1..Len(signed') PROVE signed'[s].id \in factory
      <4>1. CASE s = Len(signed) + 1
        BY <1>c, <3>1, <4>1
      <4>2. CASE s \in 1..Len(signed)
        BY <1>s, <3>1, <4>2
      <4> QED BY <1>s, <3>1, <4>1, <4>2
    <3> QED BY <1>s, <2>2, <3>1, <3>2
  <2> QED BY <1>3, <2>1, <2>2 DEF c
<1>5. \A s \in 1..Len(signed') : signed'[s].id \in factory'
  BY <1>u, <1>4
<1>6. Onboard!TypeOK'
  BY <1>t, <1>u, <1>2, <1>4 DEF Onboard!TypeOK, OnboardLocalTyped, C
<1>7. \A r \in Procs : OnboardAt(r)'
  BY <1>2, <1>u, OnboardOthers
<1>8. IdentitiesOk' /\ ClaimsOk'
  BY <1>u, <1>5 DEF OnboardInv, IdentitiesOk, ClaimsOk, Onboard!OneIdentity, Onboard!RegisteredIsRecorded, Onboard!VerifiedWasProven
<1>9. RevocationOk => RevocationOk'
  BY <1>u, <1>i, <1>2, WillRevokeKept, RevocationKept DEF Onboard!Live
<1> QED BY <1>6, <1>7, <1>8, <1>9 DEF OnboardInv

LEMMA CreateIdentityStep ==
  ASSUME OnboardAssumed, OnboardInv, NEW p \in Procs, Onboard!CreateIdentity(p)
  PROVE  OnboardInv'
<1>t. Onboard!TypeOK /\ OnboardLocalTyped /\ OnboardAt(p) /\ IdentitiesOk /\ ClaimsOk
  BY DEF OnboardInv, Onboard!TypeOK, OnboardLocalTyped
<1>u. UNCHANGED <<claims, revoked, registry, trusted, kyc, accredited, onchainid, confirmed, signed, grants, late, failed, proven>>
  BY DEF Onboard!CreateIdentity, Onboard!person
<1>i. onboardPc[p] = "create" /\ wallet[p] \in ChainWallets
  BY <1>t DEF Onboard!CreateIdentity, Onboard!At, OnboardAt
<1>1. CASE Onboard!Finish(p) /\ UNCHANGED <<factory, salts>>
  BY <1>t, <1>u, <1>i, <1>1, OnboardFinish, OnboardQuiet DEF Onboard!TypeOK
<1>2. ASSUME NEW w \in ChainWallets, w = wallet[p], w \notin factory, Primary[w] \notin salts,
             factory' = factory \cup {w}, salts' = salts \cup {Primary[w]}, Onboard!Continue(p, "store")
      PROVE  OnboardInv'
  <2>1. OthersOnboard(p) /\ OnboardLocalTyped' /\ OnboardAt(p)'
    BY <1>t, <1>2, OnboardContinue DEF OnboardAt
  <2>2. Onboard!TypeOK'
    BY <1>t, <1>u, <1>2, <2>1 DEF Onboard!TypeOK, OnboardLocalTyped, OnboardAssumed
  <2>3. \A r \in Procs : OnboardAt(r)'
    BY <1>u, <1>2, <2>1, OnboardOthers
  <2>4. Onboard!OneIdentity'
    <3>1. \A v \in factory : Primary[v] # Primary[w]
      BY <1>t, <1>2 DEF IdentitiesOk
    <3> QED BY <1>t, <1>2, <3>1 DEF IdentitiesOk, Onboard!OneIdentity
  <2>5. Onboard!RegisteredIsRecorded' /\ Onboard!VerifiedWasProven'
    BY <1>t, <1>u DEF IdentitiesOk, Onboard!RegisteredIsRecorded, Onboard!VerifiedWasProven
  <2>6. (\A v \in factory : Primary[v] \in salts)' /\ ClaimsOk'
    BY <1>t, <1>u, <1>2 DEF IdentitiesOk, ClaimsOk
  <2>7. \A r \in Onboard!Rows : onchainid'[r] \in ChainWallets => onchainid'[r] \in factory' /\ Primary[onchainid'[r]] = r
    BY <1>t, <1>u, <1>2 DEF IdentitiesOk
  <2>8. RevocationOk => RevocationOk'
    <3>1. ~Onboard!Live(w, "ACCREDITED")'
      BY <1>t, <1>u, <1>2 DEF ClaimsOk, Onboard!Live, Onboard!Topics
    <3>2. \A id \in factory' : Onboard!Live(id, "ACCREDITED")' => id \in factory /\ Onboard!Live(id, "ACCREDITED")
      BY <1>u, <1>2, <3>1 DEF Onboard!Live
    <3> QED BY <1>u, <1>i, <2>1, <3>2, WillRevokeKept, RevocationKept
  <2> QED BY <2>2, <2>3, <2>4, <2>5, <2>6, <2>7, <2>8 DEF OnboardInv, IdentitiesOk
<1> QED BY <1>1, <1>2, <1>i DEF Onboard!CreateIdentity, Onboard!Salt

LEMMA SetOnchainIdStep ==
  ASSUME OnboardAssumed, OnboardInv, NEW p \in Procs, Onboard!SetOnchainId(p)
  PROVE  OnboardInv'
<1>t. Onboard!TypeOK /\ OnboardLocalTyped /\ OnboardAt(p) /\ IdentitiesOk /\ ClaimsOk
  BY DEF OnboardInv, Onboard!TypeOK, OnboardLocalTyped
<1>u. UNCHANGED <<factory, salts, claims, revoked, registry, trusted, kyc, accredited, confirmed, signed, grants, late, failed, proven>>
  BY DEF Onboard!SetOnchainId, Onboard!chain
<1> DEFINE w == wallet[p]
           r == Primary[wallet[p]]
<1>i. onboardPc[p] = "store" /\ w \in ChainWallets /\ w \in factory /\ r \in Onboard!Rows /\ r \in ChainWallets
  BY <1>t, PrimaryRow DEF Onboard!SetOnchainId, Onboard!At, OnboardAt, Onboard!Rows
<1>1. onchainid' = [onchainid EXCEPT ![r] = w] /\ Onboard!Sign(p, w)
  BY DEF Onboard!SetOnchainId
<1>2. OthersOnboard(p) /\ OnboardLocalTyped' /\ onboardPc'[p] = "sign" /\ identity'[p] = w
  BY <1>t, <1>i, <1>1, OnboardSign
<1>3. OnboardAt(p)'
  BY <1>u, <1>i, <1>2 DEF OnboardAt
<1>r. Primary[w] = r
  OBVIOUS
<1> HIDE DEF w, r
<1>4. onchainid' \in [Onboard!Rows -> ChainWallets \cup {None, Gone}]
  BY <1>t, <1>i, <1>1 DEF Onboard!TypeOK
<1>5. onchainid'[r] = w /\ \A q \in Onboard!Rows : q # r => onchainid'[q] = onchainid[q]
  BY <1>t, <1>i, <1>1 DEF Onboard!TypeOK
<1>6. \A q \in Onboard!Rows : onchainid[q] \in ChainWallets => onchainid'[q] = onchainid[q]
  <2>1. onchainid[r] \in ChainWallets => onchainid[r] = w
    BY <1>t, <1>i, <1>r DEF IdentitiesOk, Onboard!OneIdentity
  <2> QED BY <1>5, <2>1
<1>7. Onboard!TypeOK'
  BY <1>t, <1>u, <1>2, <1>4 DEF Onboard!TypeOK, OnboardLocalTyped
<1>8. \A q \in Procs : OnboardAt(q)'
  BY <1>u, <1>2, <1>3, <1>6, OnboardOthers
<1>9. \A q \in Onboard!Rows : onchainid'[q] \in ChainWallets => onchainid'[q] \in factory' /\ Primary[onchainid'[q]] = q
  BY <1>t, <1>u, <1>i, <1>r, <1>5 DEF IdentitiesOk
<1>10. Onboard!RegisteredIsRecorded'
  <2> SUFFICES ASSUME NEW v \in ChainWallets, registry[v] # None PROVE registry[v] = onchainid'[Primary[v]]
    BY <1>u DEF Onboard!RegisteredIsRecorded
  <2>1. registry[v] = onchainid[Primary[v]] /\ Primary[v] \in Onboard!Rows /\ registry[v] \in ChainWallets
    BY <1>t, PrimaryRow DEF IdentitiesOk, Onboard!RegisteredIsRecorded, Onboard!TypeOK
  <2> QED BY <1>6, <2>1
<1>11. Onboard!OneIdentity' /\ Onboard!VerifiedWasProven' /\ ClaimsOk' /\ (\A v \in factory : Primary[v] \in salts)'
  BY <1>t, <1>u DEF IdentitiesOk, Onboard!OneIdentity, Onboard!VerifiedWasProven, ClaimsOk
<1>12. RevocationOk => RevocationOk'
  BY <1>u, <1>i, <1>2, WillRevokeKept, RevocationKept DEF Onboard!Live
<1> QED BY <1>7, <1>8, <1>9, <1>10, <1>11, <1>12 DEF OnboardInv, IdentitiesOk

LEMMA RegisterIdentityStep ==
  ASSUME OnboardAssumed, OnboardInv, NEW p \in Procs, Onboard!RegisterIdentity(p)
  PROVE  OnboardInv'
<1>t. Onboard!TypeOK /\ OnboardLocalTyped /\ OnboardAt(p) /\ IdentitiesOk /\ ClaimsOk
  BY DEF OnboardInv, Onboard!TypeOK, OnboardLocalTyped
<1>u. UNCHANGED <<factory, salts, claims, revoked, trusted, kyc, accredited, onchainid, confirmed, signed, grants, late, failed, proven>>
  BY DEF Onboard!RegisterIdentity, Onboard!person
<1>i. /\ onboardPc[p] = "register" /\ wallet[p] \in ChainWallets /\ identity[p] \in ChainWallets
      /\ identity[p] = onchainid[Primary[wallet[p]]]
  BY <1>t DEF Onboard!RegisterIdentity, Onboard!At, OnboardAt
<1>1. CASE Onboard!Finish(p) /\ UNCHANGED registry
  BY <1>t, <1>u, <1>i, <1>1, OnboardFinish, OnboardQuiet DEF Onboard!TypeOK
<1>2. CASE registry' = [registry EXCEPT ![wallet[p]] = identity[p]] /\ Onboard!Continue(p, "check")
  <2>1. OthersOnboard(p) /\ OnboardLocalTyped' /\ OnboardAt(p)'
    BY <1>t, <1>i, <1>2, OnboardContinue DEF OnboardAt
  <2>2. Onboard!TypeOK'
    BY <1>t, <1>u, <1>i, <1>2, <2>1 DEF Onboard!TypeOK, OnboardLocalTyped
  <2>3. \A r \in Procs : OnboardAt(r)'
    BY <1>u, <2>1, OnboardOthers
  <2>4. Onboard!RegisteredIsRecorded'
    BY <1>t, <1>u, <1>i, <1>2 DEF IdentitiesOk, Onboard!RegisteredIsRecorded, Onboard!TypeOK
  <2>5. /\ Onboard!OneIdentity' /\ Onboard!VerifiedWasProven' /\ ClaimsOk' /\ (\A v \in factory : Primary[v] \in salts)'
        /\ (\A r \in Onboard!Rows : onchainid[r] \in ChainWallets => onchainid[r] \in factory /\ Primary[onchainid[r]] = r)'
    BY <1>t, <1>u DEF IdentitiesOk, Onboard!OneIdentity, Onboard!VerifiedWasProven, ClaimsOk
  <2>6. RevocationOk => RevocationOk'
    BY <1>u, <1>i, <2>1, WillRevokeKept, RevocationKept DEF Onboard!Live
  <2> QED BY <2>2, <2>3, <2>4, <2>5, <2>6 DEF OnboardInv, IdentitiesOk
<1> QED BY <1>1, <1>2 DEF Onboard!RegisterIdentity, Onboard!RegisteredAs

LEMMA CheckAgainStep ==
  ASSUME OnboardAssumed, OnboardInv, NEW p \in Procs, Onboard!CheckAgain(p)
  PROVE  OnboardInv'
<1>t. Onboard!TypeOK /\ OnboardLocalTyped /\ OnboardAt(p) /\ IdentitiesOk /\ ClaimsOk
  BY DEF OnboardInv, Onboard!TypeOK, OnboardLocalTyped
<1>u. UNCHANGED <<factory, salts, claims, revoked, registry, trusted, kyc, accredited, onchainid, confirmed, signed, grants, late, failed>>
  BY DEF Onboard!CheckAgain, Onboard!person, Onboard!chain
<1>i. onboardPc[p] = "again" /\ wallet[p] \in ChainWallets /\ Primary[wallet[p]] \in ChainWallets
  BY <1>t, PrimaryRow DEF Onboard!CheckAgain, Onboard!At, OnboardAt, OnboardAssumed
<1> DEFINE n == IF Onboard!IsVerified(wallet[p]) THEN 1 ELSE 0
<1>1. n \in {0, 1} /\ found' = [found EXCEPT ![p] = n] /\ (n = 1 => proven' = proven \cup {Primary[wallet[p]]})
  BY DEF Onboard!CheckAgain
<1> HIDE DEF n
<1>2. Onboard!Goto(p, "save") /\ UNCHANGED <<wallet, identity, todo>>
      /\ proven' \in {proven, proven \cup {Primary[wallet[p]]}}
  BY DEF Onboard!CheckAgain
<1>3. OthersOnboard(p) /\ OnboardLocalTyped' /\ onboardPc'[p] = "save" /\ found'[p] = n
  BY <1>t, <1>1, <1>2, OnboardGoto DEF OthersOnboard, OnboardLocalTyped
<1>4. OnboardAt(p)'
  BY <1>i, <1>1, <1>2, <1>3 DEF OnboardAt
<1>5. Onboard!TypeOK'
  BY <1>t, <1>u, <1>i, <1>2, <1>3 DEF Onboard!TypeOK, OnboardLocalTyped
<1>6. \A r \in Procs : OnboardAt(r)'
  BY <1>u, <1>2, <1>3, <1>4, OnboardOthers
<1>7. IdentitiesOk' /\ ClaimsOk'
  BY <1>t, <1>u, <1>2 DEF IdentitiesOk, Onboard!OneIdentity, Onboard!RegisteredIsRecorded, Onboard!VerifiedWasProven, ClaimsOk
<1>8. RevocationOk => RevocationOk'
  BY <1>u, <1>i, <1>3, WillRevokeKept, RevocationKept DEF Onboard!Live
<1> QED BY <1>5, <1>6, <1>7, <1>8 DEF OnboardInv

LEMMA SetVerifiedStep ==
  ASSUME OnboardAssumed, OnboardInv, NEW p \in Procs, Onboard!SetVerified(p)
  PROVE  OnboardInv'
<1>t. Onboard!TypeOK /\ OnboardLocalTyped /\ OnboardAt(p) /\ IdentitiesOk /\ ClaimsOk
  BY DEF OnboardInv, Onboard!TypeOK, OnboardLocalTyped
<1>u. UNCHANGED <<factory, salts, claims, revoked, registry, trusted, kyc, accredited, onchainid, signed, grants, late, failed, proven>>
  BY DEF Onboard!SetVerified, Onboard!chain
<1>i. onboardPc[p] = "save" /\ wallet[p] \in ChainWallets /\ Primary[wallet[p]] \in Onboard!Rows
  BY <1>t, PrimaryRow DEF Onboard!SetVerified, Onboard!At, OnboardAt
<1>1. Onboard!Finish(p) /\ confirmed' = [confirmed EXCEPT ![Primary[wallet[p]]] = (found[p] = 1)]
  BY DEF Onboard!SetVerified, Onboard!Seen
<1>2. OthersOnboard(p) /\ OnboardLocalTyped' /\ OnboardAt(p)'
  BY <1>t, <1>1, OnboardFinish
<1>3. confirmed' \in [Onboard!Rows -> BOOLEAN]
  BY <1>t, <1>1 DEF Onboard!TypeOK
<1>4. Onboard!TypeOK'
  BY <1>t, <1>u, <1>2, <1>3 DEF Onboard!TypeOK, OnboardLocalTyped
<1>5. \A r \in Procs : OnboardAt(r)'
  BY <1>u, <1>2, OnboardOthers
<1>6. Onboard!VerifiedWasProven'
  <2> SUFFICES ASSUME NEW r \in Onboard!Rows, confirmed'[r] PROVE r \in proven
    BY <1>u DEF Onboard!VerifiedWasProven
  <2>1. CASE r = Primary[wallet[p]]
    <3>1. found[p] = 1
      BY <1>t, <1>i, <1>1, <2>1 DEF Onboard!TypeOK
    <3> QED BY <1>t, <1>i, <2>1, <3>1 DEF OnboardAt
  <2>2. CASE r # Primary[wallet[p]]
    BY <1>t, <1>1, <2>2 DEF IdentitiesOk, Onboard!VerifiedWasProven, Onboard!TypeOK
  <2> QED BY <2>1, <2>2
<1>7. IdentitiesOk' /\ ClaimsOk'
  BY <1>t, <1>u, <1>6 DEF IdentitiesOk, Onboard!OneIdentity, Onboard!RegisteredIsRecorded, ClaimsOk
<1>8. RevocationOk => RevocationOk'
  BY <1>u, <1>i, <1>2, WillRevokeKept, RevocationKept DEF Onboard!Live
<1> QED BY <1>4, <1>5, <1>7, <1>8 DEF OnboardInv

LEMMA AddClaimStep ==
  ASSUME OnboardAssumed, OnboardInv, NEW s \in Onboard!Signatures, Onboard!AddClaim(s)
  PROVE  OnboardInv'
<1>t. Onboard!TypeOK /\ IdentitiesOk /\ ClaimsOk
  BY DEF OnboardInv
<1>u. UNCHANGED <<factory, salts, revoked, registry, trusted, kyc, accredited, onchainid, confirmed, signed, grants, failed, proven,
                  onboardPc, wallet, identity, todo, found>>
  BY DEF Onboard!AddClaim, Onboard!person, Onboard!local
<1> DEFINE i == signed[s].id
           t == signed[s].topic
<1>1. i \in factory /\ i \in ChainWallets /\ t \in Onboard!Topics
  <2> DEFINE C == [id : ChainWallets, topic : Onboard!Topics]
  <2>a. signed \in Seq(C) /\ Len(signed) \in Nat
    BY <1>t DEF Onboard!TypeOK
  <2>b. s \in 1..Len(signed)
    <3>1. s \in 1..MaxSigned /\ s <= Len(signed) /\ MaxSigned \in Nat
      BY DEF Onboard!AddClaim, Onboard!Signatures, OnboardAssumed
    <3> QED BY <2>a, <3>1
  <2>c. signed[s] \in C
    <3> HIDE DEF C
    <3> QED BY <2>a, <2>b
  <2>1. s \in 1..Len(signed) /\ signed[s] \in C
    BY <2>b, <2>c
  <2> QED BY <1>t, <2>1 DEF ClaimsOk
<1>2. claims' = [claims EXCEPT ![i][t] = s] /\ late' = IF accredited THEN late ELSE late \cup {s}
  BY DEF Onboard!AddClaim
<1> HIDE DEF i, t
<1>3. claims' \in [ChainWallets -> [Onboard!Topics -> Onboard!Signatures \cup {Onboard!Unsigned}]]
  BY <1>t, <1>1, <1>2 DEF Onboard!TypeOK
<1>4. \A v \in ChainWallets, u \in Onboard!Topics : <<v, u>> # <<i, t>> => claims'[v][u] = claims[v][u]
  BY <1>t, <1>1, <1>2 DEF Onboard!TypeOK
<1>5. Onboard!TypeOK'
  BY <1>t, <1>u, <1>2, <1>3 DEF Onboard!TypeOK
<1>6. (\A p \in Procs : OnboardAt(p)') /\ IdentitiesOk'
  BY <1>t, <1>u DEF OnboardInv, OnboardAt, IdentitiesOk, Onboard!OneIdentity, Onboard!RegisteredIsRecorded, Onboard!VerifiedWasProven
<1>7. ClaimsOk'
  BY <1>t, <1>u, <1>1, <1>4 DEF ClaimsOk
<1>8. RevocationOk'
  <2> SUFFICES ASSUME ~accredited, ~failed, NEW v \in factory \cap Onboard!Rows, Onboard!Live(v, "ACCREDITED")',
                      claims'[v]["ACCREDITED"] \notin late'
               PROVE  \E r \in Procs : WillRevoke(r, v)'
    BY <1>u DEF RevocationOk
  <2>1. v \in ChainWallets /\ late' = late \cup {s}
    BY <1>2 DEF Onboard!Rows
  <2>2. claims'[v]["ACCREDITED"] = claims[v]["ACCREDITED"]
    <3>1. CASE <<v, "ACCREDITED">> = <<i, t>>
      BY <1>t, <1>1, <1>2, <2>1, <3>1 DEF Onboard!TypeOK
    <3>2. CASE <<v, "ACCREDITED">> # <<i, t>>
      BY <1>4, <2>1, <3>2 DEF Onboard!Topics
    <3> QED BY <3>1, <3>2
  <2>3. PICK r \in Procs : WillRevoke(r, v)
    BY <1>u, <2>1, <2>2 DEF OnboardInv, RevocationOk, Onboard!Live
  <2> QED BY <1>u, <2>2, <2>3 DEF WillRevoke
<1> QED BY <1>5, <1>6, <1>7, <1>8 DEF OnboardInv

\* A request that revokes writes nothing but the signatures it revokes.
LEMMA OnboardRevokes ==
  ASSUME OnboardAssumed, OnboardInv, NEW p \in Procs, OthersOnboard(p), OnboardLocalTyped', OnboardAt(p)',
         failed' \in BOOLEAN, accredited' \in BOOLEAN, revoked' \in SUBSET Onboard!Signatures,
         late' \in SUBSET Onboard!Signatures,
         UNCHANGED <<factory, salts, claims, registry, trusted, kyc, onchainid, confirmed, signed, grants, proven>>,
         RevocationOk => RevocationOk'
  PROVE  OnboardInv'
<1>1. Onboard!TypeOK'
  BY DEF OnboardInv, Onboard!TypeOK, OnboardLocalTyped
<1>2. \A r \in Procs : OnboardAt(r)'
  BY OnboardOthers
<1>3. IdentitiesOk' /\ ClaimsOk'
  BY DEF OnboardInv, IdentitiesOk, ClaimsOk, Onboard!OneIdentity, Onboard!RegisteredIsRecorded, Onboard!VerifiedWasProven
<1> QED BY <1>1, <1>2, <1>3 DEF OnboardInv

LEMMA RejectStep ==
  ASSUME OnboardAssumed, OnboardInv, NEW p \in Procs, Onboard!Reject(p)
  PROVE  OnboardInv'
<1>t. Onboard!TypeOK /\ OnboardLocalTyped
  BY DEF OnboardInv, Onboard!TypeOK, OnboardLocalTyped
<1>u. UNCHANGED <<factory, salts, claims, revoked, registry, trusted, kyc, onchainid, confirmed, signed, grants, proven>>
  BY DEF Onboard!Reject, Onboard!chain
<1>1. /\ Onboard!Goto(p, "revoke") /\ todo' = [todo EXCEPT ![p] = Onboard!Rows] /\ UNCHANGED <<wallet, identity, found>>
      /\ accredited' = FALSE /\ late' = {} /\ failed' = FALSE
  BY DEF Onboard!Reject
<1>2. Onboard!Rows \subseteq Onboard!Topics \cup ChainWallets
  BY DEF Onboard!Rows
<1>3. OthersOnboard(p) /\ OnboardLocalTyped' /\ onboardPc'[p] = "revoke" /\ todo'[p] = Onboard!Rows
  BY <1>t, <1>1, <1>2, OnboardGoto DEF OthersOnboard, OnboardLocalTyped
<1>4. OnboardAt(p)'
  BY <1>3 DEF OnboardAt
<1>5. RevocationOk'
  BY <1>3 DEF RevocationOk, WillRevoke
<1> QED BY <1>t, <1>u, <1>1, <1>3, <1>4, <1>5, OnboardRevokes DEF Onboard!TypeOK

LEMMA FindSignatureStep ==
  ASSUME OnboardAssumed, OnboardInv, NEW p \in Procs, NEW w \in Onboard!Rows, Onboard!FindSignature(p, w)
  PROVE  OnboardInv'
<1>t. Onboard!TypeOK /\ OnboardLocalTyped
  BY DEF OnboardInv, Onboard!TypeOK, OnboardLocalTyped
<1>u. UNCHANGED <<factory, salts, claims, revoked, registry, trusted, kyc, accredited, onchainid, confirmed, signed, grants, late, proven, failed,
                  wallet, identity>>
  BY DEF Onboard!FindSignature, Onboard!chain, Onboard!person
<1> DEFINE s == IF w \in factory THEN claims[w]["ACCREDITED"] ELSE Onboard!Unsigned
<1>1. onboardPc[p] = "revoke" /\ w \in todo[p] /\ todo' = [todo EXCEPT ![p] = @ \ {w}] /\ w \in ChainWallets
  BY DEF Onboard!FindSignature, Onboard!At, Onboard!Rows
<1>2. \/ s # Onboard!Unsigned /\ s \notin revoked /\ found' = [found EXCEPT ![p] = s] /\ Onboard!Goto(p, "submit")
      \/ ~(s # Onboard!Unsigned /\ s \notin revoked) /\ UNCHANGED <<found, onboardPc>>
  BY DEF Onboard!FindSignature
<1>3. s # Onboard!Unsigned => s \in Onboard!Signatures /\ s \in Nat
  BY <1>t, <1>1 DEF Onboard!TypeOK, Onboard!Topics, Onboard!Signatures
<1>4. w \in factory => s = claims[w]["ACCREDITED"]
  OBVIOUS
<1> HIDE DEF s
<1>5. /\ OthersOnboard(p) /\ OnboardLocalTyped' /\ todo'[p] = todo[p] \ {w}
      /\ \/ s # Onboard!Unsigned /\ s \notin revoked /\ onboardPc'[p] = "submit" /\ found'[p] = s
         \/ ~(s # Onboard!Unsigned /\ s \notin revoked) /\ onboardPc'[p] = "revoke"
  <2>1. CASE s # Onboard!Unsigned /\ s \notin revoked /\ found' = [found EXCEPT ![p] = s] /\ Onboard!Goto(p, "submit")
    BY <1>t, <1>u, <1>1, <1>3, <2>1, OnboardGoto DEF OthersOnboard, OnboardLocalTyped
  <2>2. CASE ~(s # Onboard!Unsigned /\ s \notin revoked) /\ UNCHANGED <<found, onboardPc>>
    BY <1>t, <1>u, <1>1, <2>2 DEF OthersOnboard, OnboardLocalTyped
  <2> QED BY <1>2, <2>1, <2>2
<1>6. OnboardAt(p)'
  BY <1>3, <1>5 DEF OnboardAt, Onboard!Signatures
<1>7. RevocationOk => RevocationOk'
  <2> SUFFICES ASSUME RevocationOk, NEW id \in factory \cap Onboard!Rows, Onboard!Live(id, "ACCREDITED"),
                      NEW r \in Procs, WillRevoke(r, id)
               PROVE  \E q \in Procs : WillRevoke(q, id)'
    BY <1>u DEF RevocationOk, Onboard!Live
  <2>1. CASE r # p
    BY <1>u, <1>5, <2>1 DEF OthersOnboard, WillRevoke
  <2>2. CASE r = p /\ id # w
    BY <1>1, <1>5, <2>2 DEF WillRevoke
  <2>3. CASE r = p /\ id = w
    BY <1>u, <1>4, <1>5, <2>3 DEF WillRevoke, Onboard!Live
  <2> QED BY <2>1, <2>2, <2>3
<1> QED BY <1>t, <1>u, <1>5, <1>6, <1>7, OnboardRevokes DEF Onboard!TypeOK

LEMMA RevokeSteps ==
  ASSUME OnboardAssumed, OnboardInv, NEW p \in Procs,
         Onboard!Revoke(p) \/ Onboard!RevokeFails(p) \/ Onboard!Revoked(p) \/ Onboard!SubmitRevokeKyc(p)
  PROVE  OnboardInv'
<1>t. Onboard!TypeOK /\ OnboardLocalTyped /\ OnboardAt(p)
  BY DEF OnboardInv, Onboard!TypeOK, OnboardLocalTyped
<1>u. UNCHANGED <<factory, salts, claims, registry, trusted, kyc, accredited, onchainid, confirmed, signed, grants, late, proven>>
  BY DEF Onboard!Revoke, Onboard!RevokeFails, Onboard!Revoked, Onboard!SubmitRevokeKyc, Onboard!chain, Onboard!person
<1>1. CASE Onboard!Revoke(p)
  <2>1. /\ onboardPc[p] = "submit" /\ Onboard!Goto(p, "revoke") /\ UNCHANGED <<wallet, identity, todo, found, failed>>
        /\ revoked' = revoked \cup {found[p]} /\ found[p] \in Onboard!Signatures
    BY <1>t, <1>1 DEF Onboard!Revoke, Onboard!SubmitRevoke, Onboard!At, OnboardAt
  <2>2. OthersOnboard(p) /\ OnboardLocalTyped' /\ onboardPc'[p] = "revoke"
    BY <1>t, <2>1, OnboardGoto DEF OthersOnboard, OnboardLocalTyped
  <2>3. OnboardAt(p)' /\ revoked' \in SUBSET Onboard!Signatures
    BY <1>t, <2>1, <2>2 DEF OnboardAt, Onboard!TypeOK
  <2>4. \A id \in factory : Onboard!Live(id, "ACCREDITED")' => Onboard!Live(id, "ACCREDITED") /\ claims[id]["ACCREDITED"] # found[p]
    BY <1>u, <2>1 DEF Onboard!Live
  <2>5. \A r \in Procs, id \in factory \cap Onboard!Rows : Onboard!Live(id, "ACCREDITED")' => (WillRevoke(r, id) => WillRevoke(r, id)')
    BY <1>u, <2>1, <2>2, <2>4 DEF OthersOnboard, WillRevoke
  <2>6. RevocationOk => RevocationOk'
    BY <1>u, <2>1, <2>4, <2>5, RevocationKept
  <2> QED BY <1>t, <1>u, <2>1, <2>2, <2>3, <2>6, OnboardRevokes DEF Onboard!TypeOK
<1>2. CASE Onboard!RevokeFails(p)
  <2>1. Onboard!Goto(p, "revoke") /\ UNCHANGED <<wallet, identity, todo, found, revoked>> /\ failed' = TRUE
    BY <1>2 DEF Onboard!RevokeFails, Onboard!chain
  <2>2. OthersOnboard(p) /\ OnboardLocalTyped' /\ onboardPc'[p] = "revoke"
    BY <1>t, <2>1, OnboardGoto DEF OthersOnboard, OnboardLocalTyped
  <2>3. OnboardAt(p)' /\ RevocationOk'
    BY <2>1, <2>2 DEF OnboardAt, RevocationOk
  <2> QED BY <1>t, <1>u, <2>1, <2>2, <2>3, OnboardRevokes DEF Onboard!TypeOK
<1>3. CASE Onboard!Revoked(p)
  <2>1. onboardPc[p] = "revoke" /\ todo[p] = {} /\ Onboard!Finish(p) /\ UNCHANGED <<revoked, failed>>
    BY <1>3 DEF Onboard!Revoked, Onboard!At, Onboard!chain
  <2>2. OthersOnboard(p) /\ OnboardLocalTyped' /\ OnboardAt(p)'
    BY <1>t, <2>1, OnboardFinish
  <2>3. RevocationOk => RevocationOk'
    <3>1. \A r \in Procs, id \in factory \cap Onboard!Rows : WillRevoke(r, id) => WillRevoke(r, id)'
      BY <1>u, <2>1, <2>2 DEF OthersOnboard, WillRevoke
    <3> QED BY <1>u, <2>1, <3>1, RevocationKept DEF Onboard!Live
  <2> QED BY <1>t, <1>u, <2>1, <2>2, <2>3, OnboardRevokes DEF Onboard!TypeOK
<1>4. CASE Onboard!SubmitRevokeKyc(p)
  <2>1. /\ onboardPc[p] = "revokeKyc" /\ Onboard!Finish(p) /\ UNCHANGED failed
        /\ revoked' \in {revoked, revoked \cup {found[p]}} /\ found[p] \in Onboard!Signatures
    BY <1>t, <1>4 DEF Onboard!SubmitRevokeKyc, Onboard!SubmitRevoke, Onboard!At, OnboardAt
  <2>2. OthersOnboard(p) /\ OnboardLocalTyped' /\ OnboardAt(p)'
    BY <1>t, <2>1, OnboardFinish
  <2>3. RevocationOk => RevocationOk'
    <3>1. \A id \in factory : Onboard!Live(id, "ACCREDITED")' => Onboard!Live(id, "ACCREDITED")
      BY <1>u, <2>1 DEF Onboard!Live
    <3> QED BY <1>u, <2>1, <2>2, <3>1, WillRevokeKept, RevocationKept
  <2>4. revoked' \in SUBSET Onboard!Signatures
    BY <1>t, <2>1 DEF Onboard!TypeOK
  <2> QED BY <1>t, <1>u, <2>1, <2>2, <2>3, <2>4, OnboardRevokes DEF Onboard!TypeOK
<1> QED BY <1>1, <1>2, <1>3, <1>4

LEMMA ApproveGrantStep ==
  ASSUME OnboardAssumed, OnboardInv, Onboard!Approve \/ Onboard!Grant
  PROVE  OnboardInv'
<1>u. UNCHANGED <<factory, salts, claims, revoked, registry, trusted, onchainid, confirmed, signed, late, failed, proven,
                  onboardPc, wallet, identity, todo, found>>
  BY DEF Onboard!Approve, Onboard!Grant, Onboard!chain, Onboard!local
<1>t. kyc \in BOOLEAN /\ accredited \in BOOLEAN /\ grants \in 0..MaxGrants /\ MaxGrants \in Nat
  BY DEF OnboardInv, Onboard!TypeOK, OnboardAssumed
<1>g. UNCHANGED grants \/ (grants < MaxGrants /\ grants' = grants + 1)
  BY DEF Onboard!Approve, Onboard!Grant
<1>b. kyc' \in {kyc, TRUE} /\ accredited' \in {accredited, TRUE}
  BY DEF Onboard!Approve, Onboard!Grant
<1>1. kyc' \in BOOLEAN /\ accredited' \in BOOLEAN /\ grants' \in 0..MaxGrants /\ accredited' \in {accredited, TRUE}
  <2>1. grants' \in 0..MaxGrants
    BY <1>t, <1>g
  <2>2. kyc' \in BOOLEAN /\ accredited' \in BOOLEAN
    BY <1>t, <1>b
  <2> QED BY <1>b, <2>1, <2>2
<1>2. Onboard!TypeOK'
  BY <1>u, <1>1 DEF OnboardInv, Onboard!TypeOK
<1>3. (\A p \in Procs : OnboardAt(p)') /\ IdentitiesOk' /\ ClaimsOk'
  BY <1>u DEF OnboardInv, OnboardAt, IdentitiesOk, Onboard!OneIdentity, Onboard!RegisteredIsRecorded, Onboard!VerifiedWasProven,
     ClaimsOk
<1>4. RevocationOk => RevocationOk'
  BY <1>u, <1>1 DEF RevocationOk, WillRevoke, Onboard!Live
<1> QED BY <1>2, <1>3, <1>4 DEF OnboardInv

LEMMA OnboardStep == ASSUME OnboardAssumed, OnboardInv, [Onboard!Next]_(Onboard!vars) PROVE OnboardInv'
<1>1. ASSUME UNCHANGED Onboard!vars PROVE OnboardInv'
  <2>1. UNCHANGED <<factory, salts, claims, revoked, registry, trusted, kyc, accredited, onchainid, confirmed, signed, grants, late, failed,
                    proven, onboardPc, wallet, identity, todo, found>>
    BY <1>1 DEF Onboard!vars, Onboard!chain, Onboard!person, Onboard!local
  <2>2. Onboard!TypeOK'
    BY <2>1 DEF OnboardInv, Onboard!TypeOK
  <2>3. (\A p \in Procs : OnboardAt(p)') /\ IdentitiesOk' /\ ClaimsOk'
    BY <2>1 DEF OnboardInv, OnboardAt, IdentitiesOk, Onboard!OneIdentity, Onboard!RegisteredIsRecorded, Onboard!VerifiedWasProven,
       ClaimsOk
  <2>4. RevocationOk => RevocationOk'
    BY <2>1 DEF RevocationOk, WillRevoke, Onboard!Live
  <2> QED BY <2>2, <2>3, <2>4 DEF OnboardInv
<1>2. ASSUME NEW p \in Procs, Onboard!Onboard(p) PROVE OnboardInv'
  BY <1>2, OnboardBegins DEF Onboard!Onboard
<1>3. ASSUME NEW p \in Procs, Onboard!Accredit(p) PROVE OnboardInv'
  BY <1>3, ApproveGrantStep, RejectStep DEF Onboard!Accredit
<1>4. ASSUME NEW p \in Procs, Onboard!Advance(p) PROVE OnboardInv'
  BY <1>4, OnboardReads, CreateIdentityStep, SetOnchainIdStep, SignClaimStep, CheckClaimStep, RegisterIdentityStep, CheckAgainStep,
     SetVerifiedStep, FindSignatureStep, RevokeSteps DEF Onboard!Advance
<1>5. ASSUME NEW p \in Procs, NEW w \in ChainWallets, Onboard!RevokeKyc(p, w) PROVE OnboardInv'
  BY <1>5, OnboardBegins
<1> QED BY <1>1, <1>2, <1>3, <1>4, <1>5, ApproveGrantStep, AddClaimStep DEF Onboard!Next

LEMMA OnboardAlways == Onboard!Spec => []OnboardInv
<1>1. Onboard!Init => OnboardInv
  BY OnboardInit, PeopleAssumption
<1>2. OnboardInv /\ [Onboard!Next]_(Onboard!vars) => OnboardInv'
  BY OnboardStep, PeopleAssumption
<1> QED BY <1>1, <1>2, PTL DEF Onboard!Spec

\* Whatever wallets a person has and whoever prepares, confirms, dies or is
\* rejected around it, the factory, the registry and the rows agree about the
\* person's identity.
THEOREM IdentitiesAlwaysAgree == Onboard!Spec => []IdentitiesAgree
<1>1. OnboardInv => IdentitiesAgree
  BY DEF OnboardInv, IdentitiesOk, IdentitiesAgree, Onboard!IdentitiesAgree
<1> QED BY <1>1, OnboardAlways, PTL

\* Whatever is signed, held back and attached around it, a rejection that reports no
\* failure has revoked every accreditation that was attached to the identity of a row
\* when it was recorded; what is live then was attached since.
THEOREM RejectionsReach == Onboard!Spec => []RevocationReaches
<1>1. OnboardInv => RevocationReaches
  BY DEF OnboardInv, RevocationOk, WillRevoke, RevocationReaches, Onboard!RevocationReaches, Onboard!LeavesNone, Onboard!Rejecting
<1> QED BY <1>1, OnboardAlways, PTL

-----------------------------------------------------------------------------
(* The screening of wallets. *)

\* Every request works for a person, and starts to gather from nothing.
ScreenAt(q) ==
  /\ screenPc[q] = "idle" <=> screened[q] = Nobody
  /\ screenPc[q] # "gather" => worst[q] = "unscreened"
  /\ screenPc[q] \in {"try", "unlinked", "stranger", "insert"} => asked[q] \in ScreenWallets
  /\ screenPc[q] \notin {"screen", "gather"} => toScreen[q] = {}
  /\ screenPc[q] = "gather" => toScreen[q] \subseteq Screens!WalletsForAccount(screened[q])
  /\ screenPc[q] \in {"unlinked", "stranger", "insert"} => passed[asked[q]] \in {"clear", "review"}

\* A status that is no better than the results L of the wallets W, and is one of them,
\* but for the wallets X.
RestsOn(s, W, X, L) ==
  /\ \A w \in W \ X : Screens!Severity(s) >= Screens!Severity(L[w])
  /\ s = "unscreened" \/ \E w \in W : s = L[w] \/ w \in X

\* What is gathered rests on the wallets that were read, but for what happened behind
\* the loop, and a person's status on all rows but those it is known to have missed.
GatheredOk ==
  /\ \A q \in Procs : screenPc[q] = "gather" =>
       RestsOn(worst[q], Screens!WalletsForAccount(screened[q]) \ toScreen[q], fresh[q], latest)
  /\ \A p \in Persons : RestsOn(aml[p], Screens!WalletsForAccount(p), missed[p], latest)

ScreenInv ==
  /\ Screens!TypeOK /\ (\A q \in Procs : ScreenAt(q)) /\ GatheredOk
  /\ Screens!LinkedHasPassed

\* Wallets may be added to what a status rests on, and results may change, as long as
\* those wallets are excepted.
LEMMA RestsKept ==
  ASSUME NEW s, NEW W, NEW X, NEW L, NEW W2, NEW X2, NEW L2, RestsOn(s, W, X, L),
         W \subseteq W2, X \subseteq X2, \A w \in W2 : w \in X2 \/ (w \in W /\ L2[w] = L[w])
  PROVE  RestsOn(s, W2, X2, L2)
BY DEF RestsOn

LEMMA ScreenInit == ASSUME ScreenAssumed, Screens!Init PROVE ScreenInv
<1>1. Screens!TypeOK
  <2>1. holder \in [ScreenWallets -> Persons \cup {Nobody}]
    <3> SUFFICES ASSUME NEW w \in ScreenWallets
                 PROVE  (IF \E p \in Persons : Home[p] = w THEN CHOOSE p \in Persons : Home[p] = w ELSE Nobody)
                          \in Persons \cup {Nobody}
      BY DEF Screens!Init
    <3> QED OBVIOUS
  <2> QED BY <2>1 DEF Screens!Init, Screens!TypeOK, Screens!AmlStatuses, ScreenAssumed
<1>2. \A q \in Procs : ScreenAt(q)
  BY DEF Screens!Init, ScreenAt
<1>3. GatheredOk
  <2>1. \A w \in ScreenWallets : latest[w] = "unscreened"
    BY DEF Screens!Init
  <2>2. \A p \in Persons : RestsOn(aml[p], Screens!WalletsForAccount(p), missed[p], latest)
    BY <2>1 DEF Screens!Init, RestsOn, Screens!WalletsForAccount, Screens!Severity
  <2> QED BY <2>2 DEF Screens!Init, GatheredOk
<1>4. Screens!LinkedHasPassed
  BY DEF Screens!Init, Screens!LinkedHasPassed
<1> QED BY <1>1, <1>2, <1>3, <1>4 DEF ScreenInv

OthersScreen(q) ==
  \A r \in Procs \ {q} :
    /\ screenPc'[r] = screenPc[r] /\ screened'[r] = screened[r] /\ asked'[r] = asked[r]
    /\ toScreen'[r] = toScreen[r] /\ worst'[r] = worst[r]

ScreenLocalTyped ==
  /\ screenPc \in [Procs -> {"idle", "screen", "gather", "set", "try", "unlinked", "stranger", "insert"}]
  /\ screened \in [Procs -> Persons \cup {Nobody}]
  /\ asked \in [Procs -> ScreenWallets \cup {NoWallet}]
  /\ toScreen \in [Procs -> SUBSET ScreenWallets]
  /\ worst \in [Procs -> Screens!AmlStatuses]

LEMMA ScreenFinish ==
  ASSUME Screens!TypeOK, NEW q \in Procs, Screens!Finish(q)
  PROVE  /\ OthersScreen(q) /\ ScreenLocalTyped'
         /\ screenPc'[q] = "idle" /\ screened'[q] = Nobody /\ worst'[q] = "unscreened"
         /\ toScreen'[q] = {}
BY DEF Screens!TypeOK, Screens!Finish, Screens!Goto, OthersScreen, ScreenLocalTyped, Screens!AmlStatuses

LEMMA ScreenGoto ==
  ASSUME Screens!TypeOK, NEW q \in Procs, NEW next \in {"screen", "gather", "unlinked", "stranger", "insert"},
         Screens!Goto(q, next), UNCHANGED <<screened, asked, toScreen, worst>>
  PROVE  /\ OthersScreen(q) /\ ScreenLocalTyped' /\ screenPc'[q] = next
BY DEF Screens!TypeOK, Screens!Goto, OthersScreen, ScreenLocalTyped

\* What is known of the other requests stays true while wallets get owners and
\* what has passed has passed.
LEMMA ScreenOthers ==
  ASSUME ScreenInv, ScreenAssumed, NEW q \in Procs, OthersScreen(q), ScreenAt(q)',
         \A w \in ScreenWallets : passed[w] \in {"clear", "review"} => passed'[w] \in {"clear", "review"},
         \A w \in ScreenWallets : holder[w] # Nobody => holder'[w] = holder[w]
  PROVE  \A r \in Procs : ScreenAt(r)'
<1> SUFFICES ASSUME NEW r \in Procs, r # q PROVE ScreenAt(r)'
  OBVIOUS
<1>1. /\ screenPc'[r] = screenPc[r] /\ screened'[r] = screened[r] /\ asked'[r] = asked[r]
      /\ toScreen'[r] = toScreen[r] /\ worst'[r] = worst[r]
  BY DEF OthersScreen
<1>2. ScreenAt(r)
  BY DEF ScreenInv
<1>3. screenPc[r] = "gather" => toScreen[r] \subseteq Screens!WalletsForAccount(screened[r])'
  <2> SUFFICES ASSUME screenPc[r] = "gather", NEW w \in toScreen[r] PROVE holder'[w] = screened[r] /\ w \in ScreenWallets
    BY <1>1 DEF Screens!WalletsForAccount
  <2>1. w \in ScreenWallets /\ holder[w] = screened[r] /\ screened[r] # Nobody
    BY <1>2 DEF ScreenAt, Screens!WalletsForAccount
  <2> QED BY <2>1
<1>4. screenPc[r] \in {"unlinked", "stranger", "insert"} => passed'[asked[r]] \in {"clear", "review"}
  BY <1>2 DEF ScreenAt
<1> QED BY <1>1, <1>2, <1>3, <1>4 DEF ScreenAt

\* A wallet that is screened or gets its row is noted for its person, and for the
\* loops that have passed it.
LEMMA Noted ==
  ASSUME Screens!TypeOK, NEW w \in ScreenWallets, NEW p, Screens!Note(w, p)
  PROVE  /\ fresh' \in [Procs -> SUBSET ScreenWallets] /\ missed' \in [Persons -> SUBSET ScreenWallets]
         /\ \A x \in Persons : missed[x] \subseteq missed'[x] /\ (x = p => w \in missed'[x])
         /\ \A r \in Procs : /\ fresh[r] \subseteq fresh'[r]
                             /\ (screenPc[r] = "gather" /\ screened[r] = p) => w \in fresh'[r] \cup toScreen[r]
<1>1. missed' = [x \in Persons |-> missed[x] \cup {v \in {w} : x = p}]
  BY DEF Screens!Note
<1>2. fresh' = [r \in Procs |-> fresh[r] \cup {v \in {w} \ toScreen[r] : screenPc[r] = "gather" /\ screened[r] = p}]
  BY DEF Screens!Note, Screens!At
<1>3. fresh \in [Procs -> SUBSET ScreenWallets] /\ missed \in [Persons -> SUBSET ScreenWallets]
  BY DEF Screens!TypeOK
<1>4. missed' \in [Persons -> SUBSET ScreenWallets]
  BY <1>1, <1>3
<1>5. fresh' \in [Procs -> SUBSET ScreenWallets]
  BY <1>2, <1>3
<1> QED BY <1>1, <1>2, <1>4, <1>5

\* A step that reads for no loop: rows are kept, and a row that is new or newly
\* screened is noted.
LEMMA GatheredKept ==
  ASSUME GatheredOk, UNCHANGED aml,
         \A r \in Procs : screenPc'[r] = "gather" =>
           /\ screenPc[r] = "gather" /\ screened[r] \in Persons
           /\ screened'[r] = screened[r] /\ worst'[r] = worst[r] /\ toScreen'[r] = toScreen[r],
         \A r \in Procs : fresh[r] \subseteq fresh'[r],
         \A p \in Persons :
           /\ missed[p] \subseteq missed'[p] /\ Screens!WalletsForAccount(p) \subseteq Screens!WalletsForAccount(p)'
           /\ \A w \in Screens!WalletsForAccount(p)' :
                \/ w \in Screens!WalletsForAccount(p) /\ latest'[w] = latest[w]
                \/ /\ w \in missed'[p]
                   /\ \A r \in Procs : (screenPc[r] = "gather" /\ screened[r] = p) => w \in fresh'[r] \cup toScreen[r]
  PROVE  GatheredOk'
<1> DEFINE W(p) == Screens!WalletsForAccount(p)
           V(p) == {w \in ScreenWallets : holder'[w] = p}
<1>0. \A p : W(p)' = V(p)
  BY DEF Screens!WalletsForAccount
<1>1. ASSUME NEW r \in Procs, screenPc'[r] = "gather"
      PROVE  RestsOn(worst'[r], V(screened'[r]) \ toScreen'[r], fresh'[r], latest')
  <2> DEFINE p == screened[r]
  <2>1. /\ screenPc[r] = "gather" /\ p \in Persons /\ screened'[r] = p
        /\ worst'[r] = worst[r] /\ toScreen'[r] = toScreen[r]
    BY <1>1
  <2>2. RestsOn(worst[r], W(p) \ toScreen[r], fresh[r], latest)
    BY <2>1 DEF GatheredOk
  <2>3. W(p) \subseteq V(p) /\ fresh[r] \subseteq fresh'[r]
    BY <1>0, <2>1
  <2>4. \A w \in V(p) \ toScreen[r] : w \in fresh'[r] \/ (w \in W(p) \ toScreen[r] /\ latest'[w] = latest[w])
    BY <1>0, <2>1
  <2>5. W(p) \ toScreen[r] \subseteq V(p) \ toScreen[r]
    BY <2>3
  <2> HIDE DEF p, W, V
  <2>6. RestsOn(worst[r], V(p) \ toScreen[r], fresh'[r], latest')
    BY <2>2, <2>3, <2>4, <2>5, RestsKept
  <2> QED BY <2>1, <2>6
<1>2. ASSUME NEW p \in Persons PROVE RestsOn(aml'[p], V(p), missed'[p], latest')
  <2>1. RestsOn(aml[p], W(p), missed[p], latest)
    BY DEF GatheredOk
  <2>2. W(p) \subseteq V(p) /\ missed[p] \subseteq missed'[p]
    BY <1>0
  <2>3. \A w \in V(p) : w \in missed'[p] \/ (w \in W(p) /\ latest'[w] = latest[w])
    BY <1>0
  <2> HIDE DEF W, V
  <2>4. RestsOn(aml[p], V(p), missed'[p], latest')
    BY <2>1, <2>2, <2>3, RestsKept
  <2> QED BY <2>4
<1> QED BY <1>0, <1>1, <1>2 DEF GatheredOk, RestsOn

LEMMA Collecting ==
  ASSUME ScreenInv, ScreenAssumed, NEW r \in Procs, screenPc[r] = "gather" PROVE screened[r] \in Persons
BY DEF ScreenInv, ScreenAt, Screens!TypeOK, ScreenAssumed

LEMMA CallScreenStep == ASSUME ScreenAssumed, ScreenInv, NEW q \in Procs, Screens!Call(q) PROVE ScreenInv'
<1>t. Screens!TypeOK /\ ScreenAt(q) /\ ScreenLocalTyped
  BY DEF ScreenInv, Screens!TypeOK, ScreenLocalTyped
<1>1. PICK p \in Persons, next \in {"screen", "try"} :
        /\ Screens!Begin(q, p, next)
        /\ next = "try" => \E w \in ScreenWallets : asked' = [asked EXCEPT ![q] = w] /\ UNCHANGED toScreen
        /\ next = "screen" => toScreen' = [toScreen EXCEPT ![q] = Screens!WalletsForAccount(p)] /\ UNCHANGED asked
  BY DEF Screens!Call, Screens!Rescreen, Screens!LinkWallet
<1>2. UNCHANGED <<holder, link, latest, aml, worst, screens, fresh, missed, passed>>
  BY DEF Screens!Call, Screens!Rescreen, Screens!LinkWallet, Screens!history
<1>3. /\ screenPc[q] = "idle" /\ screenPc' = [screenPc EXCEPT ![q] = next] /\ screened' = [screened EXCEPT ![q] = p]
  BY <1>1 DEF Screens!Begin, Screens!At, Screens!Goto
<1>4. Screens!WalletsForAccount(p) \in SUBSET ScreenWallets
  BY DEF Screens!WalletsForAccount
<1>5. asked' \in [Procs -> ScreenWallets \cup {NoWallet}] /\ toScreen' \in [Procs -> SUBSET ScreenWallets]
  BY <1>t, <1>1, <1>4 DEF ScreenLocalTyped
<1>6. Screens!TypeOK'
  BY <1>t, <1>2, <1>3, <1>5 DEF Screens!TypeOK
<1>7. screenPc'[q] = next /\ screened'[q] = p /\ worst'[q] = worst[q]
  BY <1>t, <1>2, <1>3 DEF ScreenLocalTyped
<1>8. OthersScreen(q)
  BY <1>t, <1>1, <1>2, <1>3 DEF ScreenLocalTyped, OthersScreen
<1>9. ScreenAt(q)'
  <2>0. worst[q] = "unscreened" /\ p # Nobody
    BY <1>t, <1>3 DEF ScreenAt, ScreenAssumed
  <2>1. CASE next = "screen"
    BY <1>7, <2>0, <2>1 DEF ScreenAt
  <2>2. CASE next = "try"
    <3>1. asked'[q] \in ScreenWallets /\ toScreen'[q] = toScreen[q]
      BY <1>t, <1>1, <2>2 DEF ScreenLocalTyped
    <3>2. toScreen[q] = {}
      BY <1>t, <1>3 DEF ScreenAt
    <3> QED BY <1>7, <2>0, <2>2, <3>1, <3>2 DEF ScreenAt
  <2> QED BY <2>1, <2>2
<1>10. \A r \in Procs : ScreenAt(r)'
  BY <1>2, <1>8, <1>9, ScreenOthers
<1>12. GatheredOk'
  <2>1. ASSUME NEW r \in Procs, screenPc'[r] = "gather"
        PROVE  /\ screenPc[r] = "gather" /\ screened[r] \in Persons
               /\ screened'[r] = screened[r] /\ worst'[r] = worst[r] /\ toScreen'[r] = toScreen[r]
    BY <1>3, <1>7, <1>8, <2>1, Collecting DEF OthersScreen
  <2>2. \A x \in Persons : Screens!WalletsForAccount(x)' = Screens!WalletsForAccount(x)
    BY <1>2 DEF Screens!WalletsForAccount
  <2> QED BY <1>2, <2>1, <2>2, GatheredKept DEF ScreenInv
<1>13. Screens!LinkedHasPassed'
  BY <1>2 DEF ScreenInv, Screens!LinkedHasPassed
<1> QED BY <1>6, <1>10, <1>12, <1>13 DEF ScreenInv

\* A step of the link that screens nothing.
LEMMA CheckSteps ==
  ASSUME ScreenAssumed, ScreenInv, NEW q \in Procs,
         Screens!CheckLink(q) \/ Screens!CheckInvestor(q) \/ Screens!InsertLink(q)
  PROVE  ScreenInv'
<1>t. Screens!TypeOK /\ ScreenAt(q) /\ ScreenLocalTyped
  BY DEF ScreenInv, Screens!TypeOK, ScreenLocalTyped
<1>1. /\ screenPc[q] \in {"unlinked", "stranger", "insert"}
      /\ UNCHANGED <<holder, latest, aml, screens, fresh, missed, passed>>
  BY DEF Screens!CheckLink, Screens!CheckInvestor, Screens!InsertLink, Screens!At, Screens!history
<1>2. /\ asked[q] \in ScreenWallets /\ passed[asked[q]] \in {"clear", "review"}
      /\ toScreen[q] = {} /\ worst[q] = "unscreened" /\ screened[q] # Nobody /\ screened[q] \in Persons
  BY <1>t, <1>1 DEF ScreenAt, ScreenLocalTyped
<1>3. \/ Screens!Finish(q)
      \/ \E next \in {"screen", "stranger", "insert"} : Screens!Goto(q, next) /\ UNCHANGED <<screened, asked, toScreen, worst>>
  BY DEF Screens!CheckLink, Screens!CheckInvestor, Screens!InsertLink
<1>4. link' = link \/ (link[asked[q]] = Nobody /\ link' = [link EXCEPT ![asked[q]] = screened[q]])
  BY DEF Screens!CheckLink, Screens!CheckInvestor, Screens!InsertLink, Screens!Insert
<1>5. /\ OthersScreen(q) /\ ScreenLocalTyped' /\ screenPc'[q] # "gather" /\ ScreenAt(q)'
      /\ screened'[q] \in {screened[q], Nobody}
  <2>1. CASE Screens!Finish(q)
    BY <1>t, <2>1, ScreenFinish DEF ScreenAt
  <2>2. ASSUME NEW next \in {"screen", "stranger", "insert"}, Screens!Goto(q, next),
               UNCHANGED <<screened, asked, toScreen, worst>>
        PROVE  /\ OthersScreen(q) /\ ScreenLocalTyped' /\ screenPc'[q] # "gather" /\ ScreenAt(q)'
               /\ screened'[q] \in {screened[q], Nobody}
    <3>1. OthersScreen(q) /\ ScreenLocalTyped' /\ screenPc'[q] = next
      BY <1>t, <2>2, ScreenGoto
    <3>2. ScreenAt(q)'
      BY <1>1, <1>2, <2>2, <3>1 DEF ScreenAt
    <3> QED BY <2>2, <3>1, <3>2
  <2> QED BY <1>3, <2>1, <2>2
<1>6. link \in [ScreenWallets -> Persons \cup {Nobody}]
  BY <1>t DEF Screens!TypeOK
<1>7. Screens!TypeOK'
  <2>1. link' \in [ScreenWallets -> Persons \cup {Nobody}]
    BY <1>2, <1>4, <1>6
  <2> QED BY <1>t, <1>1, <1>5, <2>1 DEF Screens!TypeOK, ScreenLocalTyped
<1>8. \A r \in Procs : ScreenAt(r)'
  BY <1>1, <1>5, ScreenOthers DEF ScreenInv
<1>9. GatheredOk'
  <2>1. ASSUME NEW r \in Procs, screenPc'[r] = "gather"
        PROVE  /\ screenPc[r] = "gather" /\ screened[r] \in Persons
               /\ screened'[r] = screened[r] /\ worst'[r] = worst[r] /\ toScreen'[r] = toScreen[r]
    BY <1>1, <1>5, <2>1, Collecting DEF OthersScreen
  <2>2. \A x \in Persons : Screens!WalletsForAccount(x)' = Screens!WalletsForAccount(x)
    BY <1>1 DEF Screens!WalletsForAccount
  <2> QED BY <1>1, <2>1, <2>2, GatheredKept DEF ScreenInv
<1>10. Screens!LinkedHasPassed'
  <2> SUFFICES ASSUME NEW w \in ScreenWallets, link'[w] # Nobody PROVE passed[w] \in {"clear", "review"}
    BY <1>1 DEF Screens!LinkedHasPassed
  <2>1. w = asked[q] \/ link'[w] = link[w]
    BY <1>4, <1>6
  <2> QED BY <1>2, <2>1 DEF ScreenInv, Screens!LinkedHasPassed
<1> QED BY <1>7, <1>8, <1>9, <1>10 DEF ScreenInv

\* A wallet is screened: whoever it belongs to has a result that counts again.
LEMMA RecordSteps ==
  ASSUME ScreenAssumed, ScreenInv, NEW q \in Procs,
         \/ \E w \in ScreenWallets, d \in Screens!Decisions : Screens!ScreenOne(q, w, d)
         \/ \E d \in Screens!Decisions : Screens!ScreenForLink(q, d)
  PROVE  ScreenInv'
<1>t. Screens!TypeOK /\ ScreenAt(q) /\ ScreenLocalTyped
  BY DEF ScreenInv, Screens!TypeOK, ScreenLocalTyped
<1>1. PICK w \in ScreenWallets, d \in Screens!Decisions :
        /\ Screens!Record(w, d) /\ Screens!Note(w, holder[w])
        /\ \/ /\ screenPc[q] = "screen" /\ toScreen' = [toScreen EXCEPT ![q] = @ \ {w}]
              /\ UNCHANGED <<screenPc, screened, asked, worst, passed>>
           \/ /\ screenPc[q] = "try" /\ w = asked[q]
              /\ \/ Screens!Finish(q) /\ UNCHANGED passed
                 \/ /\ d # "blocked" /\ Screens!Goto(q, "unlinked") /\ UNCHANGED <<screened, asked, toScreen, worst>>
                    /\ passed' = IF link[w] = Nobody THEN [passed EXCEPT ![w] = d] ELSE passed
  <2>1. ASSUME NEW w \in ScreenWallets, NEW d \in Screens!Decisions, Screens!ScreenOne(q, w, d)
        PROVE  /\ Screens!Record(w, d) /\ Screens!Note(w, holder[w])
               /\ screenPc[q] = "screen" /\ toScreen' = [toScreen EXCEPT ![q] = @ \ {w}]
               /\ UNCHANGED <<screenPc, screened, asked, worst, passed>>
    BY <2>1 DEF Screens!ScreenOne, Screens!At
  <2>2. ASSUME NEW d \in Screens!Decisions, Screens!ScreenForLink(q, d)
        PROVE  /\ asked[q] \in ScreenWallets /\ screenPc[q] = "try"
               /\ Screens!Record(asked[q], d) /\ Screens!Note(asked[q], holder[asked[q]])
               /\ \/ Screens!Finish(q) /\ UNCHANGED passed
                  \/ /\ d # "blocked" /\ Screens!Goto(q, "unlinked") /\ UNCHANGED <<screened, asked, toScreen, worst>>
                     /\ passed' = IF link[asked[q]] = Nobody THEN [passed EXCEPT ![asked[q]] = d] ELSE passed
    BY <2>2, <1>t DEF Screens!ScreenForLink, Screens!At, Screens!Refuses, ScreenAt
  <2> QED BY <2>1, <2>2
<1>2. /\ screens < MaxScreens /\ screens' = screens + 1 /\ latest' = [latest EXCEPT ![w] = d]
      /\ UNCHANGED <<holder, link, aml>>
  BY <1>1 DEF Screens!Record, Screens!ScreenOne, Screens!ScreenForLink
<1>3. /\ OthersScreen(q) /\ ScreenLocalTyped' /\ screenPc'[q] # "gather" /\ screenPc[q] # "gather"
      /\ screened'[q] \in {screened[q], Nobody}
      /\ worst'[q] = "unscreened" /\ (screenPc'[q] = "idle" <=> screened'[q] = Nobody)
      /\ screenPc'[q] \in {"idle", "unlinked"} => toScreen'[q] = {}
      /\ screenPc'[q] \in {"screen", "idle"} \/ (screenPc'[q] = "unlinked" /\ asked'[q] = w /\ screenPc[q] = "try" /\ w = asked[q])
  <2>1. CASE /\ screenPc[q] = "screen" /\ toScreen' = [toScreen EXCEPT ![q] = @ \ {w}]
             /\ UNCHANGED <<screenPc, screened, asked, worst, passed>>
    BY <1>t, <2>1 DEF ScreenAt, ScreenLocalTyped, OthersScreen
  <2>2. CASE screenPc[q] = "try" /\ Screens!Finish(q)
    BY <1>t, <2>2, ScreenFinish
  <2>3. CASE screenPc[q] = "try" /\ w = asked[q] /\ Screens!Goto(q, "unlinked") /\ UNCHANGED <<screened, asked, toScreen, worst>>
    <3>1. OthersScreen(q) /\ ScreenLocalTyped' /\ screenPc'[q] = "unlinked"
      BY <1>t, <2>3, ScreenGoto
    <3> QED BY <1>t, <2>3, <3>1 DEF ScreenAt
  <2> QED BY <1>1, <2>1, <2>2, <2>3
<1>4. passed \in [ScreenWallets -> Screens!AmlStatuses] /\ latest \in [ScreenWallets -> Screens!AmlStatuses]
  BY <1>t DEF Screens!TypeOK
<1>5. passed' = passed \/ (d # "blocked" /\ link[w] = Nobody /\ passed' = [passed EXCEPT ![w] = d])
  BY <1>1
<1>6. /\ passed' \in [ScreenWallets -> Screens!AmlStatuses] /\ latest' \in [ScreenWallets -> Screens!AmlStatuses]
      /\ \A x \in ScreenWallets : passed'[x] = passed[x] \/ passed'[x] \in {"clear", "review"}
  BY <1>2, <1>4, <1>5 DEF Screens!Decisions, Screens!AmlStatuses
<1>7. /\ fresh' \in [Procs -> SUBSET ScreenWallets] /\ missed' \in [Persons -> SUBSET ScreenWallets]
      /\ \A x \in Persons : missed[x] \subseteq missed'[x] /\ (x = holder[w] => w \in missed'[x])
      /\ \A r \in Procs : /\ fresh[r] \subseteq fresh'[r]
                          /\ (screenPc[r] = "gather" /\ screened[r] = holder[w]) => w \in fresh'[r] \cup toScreen[r]
  BY <1>1, <1>t, Noted
<1>8. Screens!TypeOK'
  <2>1. screens' \in 0..MaxScreens
    BY <1>2, <1>t DEF Screens!TypeOK, ScreenAssumed
  <2> QED BY <1>2, <1>3, <1>6, <1>7, <2>1, <1>t DEF Screens!TypeOK, ScreenLocalTyped
<1>9. ScreenAt(q)'
  <2>1. screenPc'[q] = "unlinked" => passed'[asked'[q]] \in {"clear", "review"}
    <3> SUFFICES ASSUME screenPc'[q] = "unlinked" PROVE passed'[w] \in {"clear", "review"}
      BY <1>3
    <3>1. CASE link[w] = Nobody
      <4>1. screenPc[q] = "try" /\ ~Screens!Finish(q)
        BY <1>3, <1>t, ScreenFinish
      <4>2. d # "blocked" /\ passed' = [passed EXCEPT ![w] = d]
        BY <1>1, <3>1, <4>1
      <4> QED BY <1>4, <4>2 DEF Screens!Decisions
    <3>2. CASE link[w] # Nobody
      BY <1>6, <3>2 DEF ScreenInv, Screens!LinkedHasPassed
    <3> QED BY <3>1, <3>2
  <2>2. screenPc'[q] = "unlinked" => asked'[q] \in ScreenWallets
    BY <1>3
  <2> QED BY <1>3, <2>1, <2>2 DEF ScreenAt
<1>10. \A r \in Procs : ScreenAt(r)'
  BY <1>2, <1>3, <1>6, <1>9, ScreenOthers DEF ScreenInv
<1>11. GatheredOk'
  <2>1. ASSUME NEW r \in Procs, screenPc'[r] = "gather"
        PROVE  /\ screenPc[r] = "gather" /\ screened[r] \in Persons
               /\ screened'[r] = screened[r] /\ worst'[r] = worst[r] /\ toScreen'[r] = toScreen[r]
    BY <1>3, <2>1, Collecting DEF OthersScreen
  <2>2. ASSUME NEW p \in Persons, NEW x \in Screens!WalletsForAccount(p)'
        PROVE  /\ x \in Screens!WalletsForAccount(p)
               /\ \/ latest'[x] = latest[x]
                  \/ /\ x \in missed'[p]
                     /\ \A r \in Procs : (screenPc[r] = "gather" /\ screened[r] = p) => x \in fresh'[r] \cup toScreen[r]
    <3>1. x \in ScreenWallets /\ holder[x] = p /\ x \in Screens!WalletsForAccount(p)
      BY <1>2, <2>2 DEF Screens!WalletsForAccount
    <3>2. CASE x = w
      <4>1. p = holder[w] /\ x \in missed'[p]
        BY <1>7, <3>1, <3>2
      <4>2. ASSUME NEW r \in Procs, screenPc[r] = "gather", screened[r] = p PROVE x \in fresh'[r] \cup toScreen[r]
        BY <1>7, <3>2, <4>1, <4>2
      <4> QED BY <3>1, <4>1, <4>2
    <3>3. CASE x # w
      <4>1. latest'[x] = latest[x]
        BY <1>2, <1>4, <3>1, <3>3
      <4> QED BY <3>1, <4>1
    <3> QED BY <3>1, <3>2, <3>3
  <2>3. \A p \in Persons : Screens!WalletsForAccount(p) \subseteq Screens!WalletsForAccount(p)'
    BY <1>2 DEF Screens!WalletsForAccount
  <2>4. /\ GatheredOk /\ UNCHANGED aml /\ \A r \in Procs : fresh[r] \subseteq fresh'[r]
        /\ \A p \in Persons : missed[p] \subseteq missed'[p]
    BY <1>2, <1>7 DEF ScreenInv
  <2> QED BY <2>1, <2>2, <2>3, <2>4, GatheredKept DEF Screens!WalletsForAccount
<1>12. Screens!LinkedHasPassed'
  BY <1>2, <1>6 DEF ScreenInv, Screens!LinkedHasPassed
<1> QED BY <1>8, <1>10, <1>11, <1>12 DEF ScreenInv

\* The order of the results: nothing is better than nothing.
LEMMA Severities ==
  ASSUME NEW a \in Screens!AmlStatuses, NEW b \in Screens!AmlStatuses
  PROVE  /\ Screens!Severity(a) \in 0..3
         /\ Screens!Worse(a, b) \in {a, b}
         /\ Screens!Severity(Screens!Worse(a, b)) >= Screens!Severity(a)
         /\ Screens!Severity(Screens!Worse(a, b)) >= Screens!Severity(b)
         /\ b = "unscreened" => Screens!Severity(a) >= Screens!Severity(b)
         /\ (Screens!Worse(a, b) = a /\ a = "unscreened") => b = "unscreened"
BY DEF Screens!AmlStatuses, Screens!Decisions, Screens!Severity, Screens!Worse

\* The aggregate begins, with nothing read.
LEMMA RecomputeStep == ASSUME ScreenAssumed, ScreenInv, NEW q \in Procs, Screens!Recompute(q) PROVE ScreenInv'
<1>t. Screens!TypeOK /\ ScreenAt(q) /\ ScreenLocalTyped
  BY DEF ScreenInv, Screens!TypeOK, ScreenLocalTyped
<1>1. /\ screenPc[q] = "screen" /\ toScreen[q] = {} /\ screenPc' = [screenPc EXCEPT ![q] = "gather"]
      /\ toScreen' = [toScreen EXCEPT ![q] = Screens!WalletsForAccount(screened[q])]
      /\ UNCHANGED <<holder, link, latest, aml, screened, asked, worst, screens, fresh, missed, passed>>
  BY DEF Screens!Recompute, Screens!At, Screens!Goto, Screens!history
<1>2. PICK p \in Persons : p = screened[q]
  BY <1>t, <1>1 DEF ScreenAt, ScreenLocalTyped
<1> DEFINE W(x) == Screens!WalletsForAccount(x)
<1>3. W(p) \in SUBSET ScreenWallets /\ \A x : W(x)' = W(x)
  BY <1>1 DEF Screens!WalletsForAccount
<1>4. /\ screenPc'[q] = "gather" /\ toScreen'[q] = W(p) /\ OthersScreen(q) /\ screened' = screened /\ worst' = worst
      /\ worst[q] = "unscreened"
  BY <1>t, <1>1, <1>2 DEF ScreenLocalTyped, OthersScreen, ScreenAt
<1>5. Screens!TypeOK'
  BY <1>t, <1>1, <1>2, <1>3 DEF Screens!TypeOK
<1>6. ScreenAt(q)'
  BY <1>t, <1>1, <1>2, <1>3, <1>4 DEF ScreenAt
<1>7. \A r \in Procs : ScreenAt(r)'
  BY <1>1, <1>4, <1>6, ScreenOthers DEF ScreenInv
<1>8. GatheredOk'
  <2>1. ASSUME NEW r \in Procs, screenPc'[r] = "gather"
        PROVE  RestsOn(worst'[r], W(screened'[r]) \ toScreen'[r], fresh'[r], latest')
    <3>1. CASE r = q
      <4>1. W(screened'[r]) \ toScreen'[r] = {} /\ worst'[r] = "unscreened"
        BY <1>2, <1>4, <3>1
      <4> QED BY <4>1 DEF RestsOn
    <3>2. CASE r # q
      <4>1. /\ screenPc[r] = "gather" /\ screened'[r] = screened[r] /\ worst'[r] = worst[r]
            /\ toScreen'[r] = toScreen[r] /\ fresh'[r] = fresh[r] /\ latest' = latest
        BY <1>1, <1>4, <2>1, <3>2 DEF OthersScreen
      <4> QED BY <4>1 DEF ScreenInv, GatheredOk
    <3> QED BY <3>1, <3>2
  <2>2. \A x \in Persons : RestsOn(aml'[x], W(x), missed'[x], latest')
    BY <1>1 DEF ScreenInv, GatheredOk
  <2> QED BY <1>3, <2>1, <2>2 DEF GatheredOk, RestsOn
<1>9. Screens!LinkedHasPassed'
  BY <1>1 DEF ScreenInv, Screens!LinkedHasPassed
<1> QED BY <1>5, <1>7, <1>8, <1>9 DEF ScreenInv

LEMMA ReadLatestStep ==
  ASSUME ScreenAssumed, ScreenInv, NEW q \in Procs, NEW w \in ScreenWallets, Screens!ReadLatest(q, w)
  PROVE  ScreenInv'
<1>t. Screens!TypeOK /\ ScreenAt(q) /\ ScreenLocalTyped
  BY DEF ScreenInv, Screens!TypeOK, ScreenLocalTyped
<1>1. /\ screenPc[q] = "gather" /\ w \in toScreen[q]
      /\ worst' = [worst EXCEPT ![q] = IF latest[w] = "unscreened" THEN @ ELSE Screens!Worse(@, latest[w])]
      /\ toScreen' = [toScreen EXCEPT ![q] = @ \ {w}]
      /\ UNCHANGED <<holder, link, latest, aml, screenPc, screened, asked, screens, fresh, missed, passed>>
  BY DEF Screens!ReadLatest, Screens!At, Screens!history
<1>2. PICK p \in Persons : p = screened[q]
  BY <1>t, <1>1 DEF ScreenAt, ScreenLocalTyped
<1> DEFINE W(x) == Screens!WalletsForAccount(x)
           was == worst[q]
           is == IF latest[w] = "unscreened" THEN was ELSE Screens!Worse(was, latest[w])
<1>3. was \in Screens!AmlStatuses /\ latest \in [ScreenWallets -> Screens!AmlStatuses] /\ latest[w] \in Screens!AmlStatuses
  BY <1>t DEF Screens!TypeOK
<1>4. /\ worst' = [worst EXCEPT ![q] = is] /\ is \in {was, latest[w]} /\ is \in Screens!AmlStatuses
      /\ Screens!Severity(is) >= Screens!Severity(was) /\ Screens!Severity(is) >= Screens!Severity(latest[w])
      /\ Screens!Severity(was) \in 0..3 /\ Screens!Severity(is) \in 0..3
  <2>1. CASE latest[w] = "unscreened"
    BY <1>1, <1>3, <2>1, Severities
  <2>2. CASE latest[w] # "unscreened"
    BY <1>1, <1>3, <2>2, Severities
  <2> QED BY <2>1, <2>2
<1>5. /\ worst'[q] = is /\ toScreen'[q] = toScreen[q] \ {w} /\ OthersScreen(q)
      /\ w \in W(p) /\ W(p) \subseteq ScreenWallets /\ toScreen[q] \subseteq W(p) /\ \A x : W(x)' = W(x)
  BY <1>t, <1>1, <1>2, <1>4 DEF ScreenLocalTyped, OthersScreen, ScreenAt, Screens!WalletsForAccount
<1> HIDE DEF is, was, W
<1>6. Screens!TypeOK'
  BY <1>t, <1>1, <1>4 DEF Screens!TypeOK
<1>7. ScreenAt(q)'
  BY <1>t, <1>1, <1>2, <1>5 DEF ScreenAt, W
<1>8. \A r \in Procs : ScreenAt(r)'
  BY <1>1, <1>5, <1>7, ScreenOthers DEF ScreenInv
<1>9. RestsOn(is, (W(p) \ toScreen[q]) \cup {w}, fresh[q], latest)
  <2>1. RestsOn(was, W(p) \ toScreen[q], fresh[q], latest)
    BY <1>1, <1>2 DEF ScreenInv, GatheredOk, was, W
  <2>2. \A v \in W(p) : Screens!Severity(latest[v]) \in 0..3
    BY <1>3, <1>5, Severities
  <2>3. ASSUME NEW v \in (W(p) \ toScreen[q]) \ fresh[q] PROVE Screens!Severity(is) >= Screens!Severity(latest[v])
    BY <1>4, <2>1, <2>2 DEF RestsOn
  <2>4. is = "unscreened" \/ \E v \in (W(p) \ toScreen[q]) \cup {w} : is = latest[v] \/ v \in fresh[q]
    BY <1>4, <2>1 DEF RestsOn
  <2> QED BY <1>4, <2>3, <2>4 DEF RestsOn
<1>11. W(p) \ (toScreen[q] \ {w}) = (W(p) \ toScreen[q]) \cup {w}
  BY <1>1, <1>5
<1>12. GatheredOk'
  <2>1. ASSUME NEW r \in Procs, screenPc'[r] = "gather"
        PROVE  RestsOn(worst'[r], W(screened'[r]) \ toScreen'[r], fresh'[r], latest')
    <3>1. CASE r = q
      <4>1. screened'[r] = p /\ fresh'[r] = fresh[q] /\ latest' = latest
        BY <1>1, <1>2, <3>1
      <4> QED BY <1>5, <1>9, <1>11, <3>1, <4>1
    <3>2. CASE r # q
      <4>1. /\ screenPc[r] = "gather" /\ screened'[r] = screened[r] /\ worst'[r] = worst[r]
            /\ toScreen'[r] = toScreen[r] /\ fresh'[r] = fresh[r] /\ latest' = latest
        BY <1>1, <1>5, <2>1, <3>2 DEF OthersScreen
      <4> QED BY <4>1 DEF ScreenInv, GatheredOk, W
    <3> QED BY <3>1, <3>2
  <2>2. \A x \in Persons : RestsOn(aml'[x], W(x), missed'[x], latest')
    BY <1>1 DEF ScreenInv, GatheredOk, W
  <2> QED BY <1>5, <2>1, <2>2 DEF GatheredOk, RestsOn, W
<1>10. Screens!LinkedHasPassed'
  BY <1>1 DEF ScreenInv, Screens!LinkedHasPassed
<1> QED BY <1>6, <1>8, <1>10, <1>12 DEF ScreenInv

LEMMA SetAmlStep == ASSUME ScreenAssumed, ScreenInv, NEW q \in Procs, Screens!SetAmlStatus(q) PROVE ScreenInv'
<1>t. Screens!TypeOK /\ ScreenAt(q) /\ ScreenLocalTyped
  BY DEF ScreenInv, Screens!TypeOK, ScreenLocalTyped
<1>1. /\ screenPc[q] = "gather" /\ toScreen[q] = {} /\ aml' = [aml EXCEPT ![screened[q]] = worst[q]]
      /\ Screens!Finish(q) /\ UNCHANGED <<holder, link, latest, screens, passed>>
      /\ missed' = [missed EXCEPT ![screened[q]] = fresh[q]] /\ fresh' = [fresh EXCEPT ![q] = {}]
  BY DEF Screens!SetAmlStatus, Screens!At
<1>2. PICK p \in Persons : p = screened[q]
  BY <1>t, <1>1 DEF ScreenAt, ScreenLocalTyped
<1>3. /\ OthersScreen(q) /\ ScreenLocalTyped' /\ screenPc'[q] = "idle" /\ screened'[q] = Nobody /\ worst'[q] = "unscreened"
      /\ toScreen'[q] = {}
  BY <1>t, <1>1, ScreenFinish
<1>4. /\ aml'[p] = worst[q] /\ \A x \in Persons \ {p} : aml'[x] = aml[x]
      /\ missed'[p] = fresh[q] /\ \A x \in Persons \ {p} : missed'[x] = missed[x]
      /\ \A r \in Procs \ {q} : fresh'[r] = fresh[r]
  BY <1>t, <1>1, <1>2 DEF Screens!TypeOK
<1>5. Screens!TypeOK'
  BY <1>t, <1>1, <1>2, <1>3 DEF Screens!TypeOK, ScreenLocalTyped
<1>6. ScreenAt(q)'
  BY <1>3 DEF ScreenAt
<1>7. \A r \in Procs : ScreenAt(r)'
  BY <1>1, <1>3, <1>6, ScreenOthers DEF ScreenInv
<1>8. GatheredOk'
  <2> DEFINE W(x) == Screens!WalletsForAccount(x)
  <2>0. \A x : W(x)' = W(x)
    BY <1>1 DEF Screens!WalletsForAccount
  <2>1. ASSUME NEW r \in Procs, screenPc'[r] = "gather"
        PROVE  RestsOn(worst'[r], W(screened'[r]) \ toScreen'[r], fresh'[r], latest')
    <3>1. r # q
      BY <1>3, <2>1
    <3>2. /\ screenPc[r] = "gather" /\ screened'[r] = screened[r] /\ worst'[r] = worst[r]
          /\ toScreen'[r] = toScreen[r] /\ fresh'[r] = fresh[r] /\ latest' = latest
      BY <1>1, <1>3, <1>4, <2>1, <3>1 DEF OthersScreen
    <3> QED BY <3>2 DEF ScreenInv, GatheredOk
  <2>2. ASSUME NEW x \in Persons PROVE RestsOn(aml'[x], W(x), missed'[x], latest')
    <3>1. CASE x = p
      <4>1. W(x) \ toScreen[q] = W(x) /\ latest' = latest
        BY <1>1
      <4>2. RestsOn(worst[q], W(x) \ toScreen[q], fresh[q], latest)
        BY <1>1, <1>2, <3>1 DEF ScreenInv, GatheredOk
      <4> QED BY <1>4, <3>1, <4>1, <4>2
    <3>2. CASE x # p
      BY <1>1, <1>4, <3>2 DEF ScreenInv, GatheredOk
    <3> QED BY <3>1, <3>2
  <2> QED BY <2>0, <2>1, <2>2 DEF GatheredOk, RestsOn
<1>9. Screens!LinkedHasPassed'
  BY <1>1 DEF ScreenInv, Screens!LinkedHasPassed
<1> QED BY <1>5, <1>7, <1>8, <1>9 DEF ScreenInv

LEMMA ConnectStep ==
  ASSUME ScreenAssumed, ScreenInv, NEW p \in Persons, NEW w \in ScreenWallets, Screens!Connect(p, w)
  PROVE  ScreenInv'
<1>1. /\ holder[w] = Nobody /\ holder' = [holder EXCEPT ![w] = p] /\ Screens!Note(w, p)
      /\ UNCHANGED <<link, latest, aml, screenPc, screened, asked, toScreen, worst, screens, passed>>
  BY DEF Screens!Connect, Screens!local
<1>2. holder \in [ScreenWallets -> Persons \cup {Nobody}]
  BY DEF ScreenInv, Screens!TypeOK
<1>n. /\ fresh' \in [Procs -> SUBSET ScreenWallets] /\ missed' \in [Persons -> SUBSET ScreenWallets]
      /\ \A x \in Persons : missed[x] \subseteq missed'[x] /\ (x = p => w \in missed'[x])
      /\ \A r \in Procs : /\ fresh[r] \subseteq fresh'[r]
                          /\ (screenPc[r] = "gather" /\ screened[r] = p) => w \in fresh'[r] \cup toScreen[r]
  BY <1>1, Noted DEF ScreenInv
<1>3. Screens!TypeOK'
  BY <1>1, <1>2, <1>n DEF ScreenInv, Screens!TypeOK
<1>5. ASSUME NEW r \in Procs PROVE ScreenAt(r)'
  <2>1. OthersScreen(r) /\ ScreenAt(r)
    BY <1>1 DEF OthersScreen, ScreenInv
  <2>2. screenPc[r] = "gather" => toScreen[r] \subseteq Screens!WalletsForAccount(screened[r])'
    BY <1>1, <1>2, <2>1 DEF ScreenAt, Screens!WalletsForAccount
  <2> QED BY <1>1, <2>1, <2>2 DEF ScreenAt
<1>6. Screens!LinkedHasPassed'
  BY <1>1 DEF ScreenInv, Screens!LinkedHasPassed
<1>7. GatheredOk'
  <2>1. ASSUME NEW r \in Procs, screenPc'[r] = "gather"
        PROVE  /\ screenPc[r] = "gather" /\ screened[r] \in Persons
               /\ screened'[r] = screened[r] /\ worst'[r] = worst[r] /\ toScreen'[r] = toScreen[r]
    BY <1>1, <2>1, Collecting
  <2>2. ASSUME NEW x \in Persons
        PROVE  /\ Screens!WalletsForAccount(x) \subseteq Screens!WalletsForAccount(x)'
               /\ \A v \in Screens!WalletsForAccount(x)' : v \in Screens!WalletsForAccount(x) \/ (v = w /\ x = p)
    BY <1>1, <1>2 DEF Screens!WalletsForAccount, ScreenAssumed
  <2>3. ASSUME NEW x \in Persons, NEW v \in Screens!WalletsForAccount(x)'
        PROVE  \/ v \in Screens!WalletsForAccount(x) /\ latest'[v] = latest[v]
               \/ /\ v \in missed'[x]
                  /\ \A r \in Procs : (screenPc[r] = "gather" /\ screened[r] = x) => v \in fresh'[r] \cup toScreen[r]
    <3>1. v \in Screens!WalletsForAccount(x) \/ (v = w /\ x = p)
      BY <2>2, <2>3 DEF Screens!WalletsForAccount
    <3>2. CASE v = w /\ x = p
      <4>1. v \in missed'[x]
        BY <1>n, <3>2
      <4>2. ASSUME NEW r \in Procs, screenPc[r] = "gather", screened[r] = x PROVE v \in fresh'[r] \cup toScreen[r]
        BY <1>n, <3>2, <4>2
      <4> QED BY <4>1, <4>2
    <3> QED BY <1>1, <3>1, <3>2
  <2>4. /\ GatheredOk /\ UNCHANGED aml /\ \A r \in Procs : fresh[r] \subseteq fresh'[r]
        /\ \A x \in Persons : missed[x] \subseteq missed'[x]
    BY <1>1, <1>n DEF ScreenInv
  <2> QED BY <2>1, <2>2, <2>3, <2>4, GatheredKept DEF Screens!WalletsForAccount
<1> QED BY <1>3, <1>5, <1>6, <1>7 DEF ScreenInv

LEMMA ScreenNext ==
  ASSUME ScreenAssumed, ScreenInv, [Screens!Next]_(Screens!vars)
  PROVE  ScreenInv'
<1>1. ASSUME NEW q \in Procs, Screens!Advance(q) PROVE ScreenInv'
  BY <1>1, RecordSteps, RecomputeStep, ReadLatestStep, SetAmlStep, CheckSteps DEF Screens!Advance
<1>2. ASSUME NEW q \in Procs, Screens!Call(q) PROVE ScreenInv'
  BY <1>2, CallScreenStep
<1>3. CASE UNCHANGED Screens!vars
  <2>1. UNCHANGED <<holder, link, latest, aml, screenPc, screened, asked, toScreen, worst, screens, fresh, missed, passed>>
    BY <1>3 DEF Screens!vars, Screens!local, Screens!history
  <2>2. GatheredOk'
    BY <2>1 DEF ScreenInv, GatheredOk, RestsOn, Screens!WalletsForAccount
  <2> QED BY <2>1, <2>2 DEF ScreenInv, Screens!TypeOK, ScreenAt, Screens!WalletsForAccount, Screens!LinkedHasPassed
<1> QED BY <1>1, <1>2, <1>3, ConnectStep DEF Screens!Next

LEMMA ScreenAlways ==
  Screens!Spec => []ScreenInv /\ [][Screens!Next /\ ScreenInv]_(Screens!vars)
<1>1. Screens!Init => ScreenInv
  BY ScreenInit, PeopleAssumption
<1>2. ScreenInv /\ [Screens!Next]_(Screens!vars) => ScreenInv'
  BY ScreenNext, PeopleAssumption
<1> QED BY <1>1, <1>2, PTL DEF Screens!Spec

\* A bad screening counts against the person whose row it is about as soon as the
\* aggregate that read it is written, and against the link of the wallet at once, in
\* whatever order and however many at a time wallets are screened, connected and read;
\* and a link is for good (aml.service.ts, portfolio.service.ts).
THEOREM ScreeningAlwaysCounts == Screens!Spec => ScreeningCounts
<1>1. ScreenInv => Screens!WorstDecides /\ Screens!LinkedHasPassed
  BY DEF ScreenInv, GatheredOk, RestsOn, Screens!WorstDecides, Screens!Counted
<1>2. ASSUME ScreenInv, Screens!Next
      PROVE  \A w \in ScreenWallets : link[w] # Nobody => link'[w] = link[w]
  <2> SUFFICES ASSUME link' # link PROVE \E q \in Procs : Screens!InsertLink(q)
    <3> SUFFICES ASSUME NEW w \in ScreenWallets, link[w] # Nobody PROVE link'[w] = link[w]
      OBVIOUS
    <3>1. CASE link' = link
      BY <3>1
    <3>2. CASE link' # link
      <4>1. PICK q \in Procs : Screens!InsertLink(q)
        BY <3>2
      <4>2. link' = link \/ (link[asked[q]] = Nobody /\ link' = [link EXCEPT ![asked[q]] = screened[q]])
        BY <4>1 DEF Screens!InsertLink, Screens!Insert
      <4>3. DOMAIN link = ScreenWallets
        BY <1>2 DEF ScreenInv, Screens!TypeOK
      <4> QED BY <4>2, <4>3
    <3> QED BY <3>1, <3>2
  <2> QED
    BY <1>2 DEF Screens!Next, Screens!Call, Screens!Advance, Screens!Rescreen, Screens!LinkWallet, Screens!ScreenOne,
       Screens!ScreenForLink, Screens!Recompute, Screens!ReadLatest, Screens!SetAmlStatus, Screens!CheckLink,
       Screens!CheckInvestor, Screens!Connect
<1>3. [Screens!Next /\ ScreenInv]_(Screens!vars) =>
        [\A w \in ScreenWallets : link[w] # Nobody => link'[w] = link[w]]_(Screens!vars)
  BY <1>2
<1> QED BY <1>1, <1>3, ScreenAlways, PTL DEF ScreeningCounts, Screens!ScreeningCounts, Screens!LinkStays

-----------------------------------------------------------------------------
(* The verification of a person. *)

Deciding == {p \in Procs : reviewPc[p] \in {"match", "decide"}}

\* What is known of a request from where it is.
ReviewAt(p) ==
  /\ reviewPc[p] \notin {"claim", "match", "decide"} => event[p] = NoEvent
  /\ reviewPc[p] \in {"claim", "match"} => event[p] \in Events
  /\ reviewPc[p] = "decide" =>
       /\ op[p] \in {"verifying"} \cup Reviewed!Decided
       /\ op[p] = "completed" => known[p] # "completed"
  /\ (p \in Deciding /\ event[p] # NoEvent) => event[p] \in claimed /\ applied[event[p]] = 0
  /\ reviewPc[p] \in {"attach", "insert"} => version > 1
  /\ reviewPc[p] \in {"pin", "save"} => op[p] \in Issuers
  /\ pinned[p] <= version

\* Each delivery that won its id works on its own.
MessagesAreOwn ==
  \A p, q \in Deciding : (p # q /\ event[p] = event[q]) => event[p] = NoEvent

\* Every version was a decision, and a decision on its way can make one more.
VersionsAreDecided == version + Cardinality(Deciding) <= 1 + decisions + Cardinality(claimed)

AcceptancesOk ==
  \A i \in Issuers :
    /\ acceptance[i] # Reviewed!NoAcceptance => acceptance[i].version = read[i]
    /\ acceptance[i].version <= version

RecordOk ==
  /\ kycStatus = "completed" => version > 1
  /\ linked => version > 1
  /\ \A e \in Events : applied[e] <= 1 /\ (applied[e] = 1 => e \in claimed)
  /\ Reviewed!OneVersionEach /\ Reviewed!MirrorAgrees

ReviewInv ==
  /\ Reviewed!TypeOK /\ (\A p \in Procs : ReviewAt(p)) /\ MessagesAreOwn /\ VersionsAreDecided
  /\ AcceptancesOk /\ RecordOk

\* An instance counts as this module does.
LEMMA ReviewCounts == \A S : Reviewed!Cardinality(S) = Cardinality(S)
BY DEF Reviewed!Cardinality, Cardinality

LEMMA ReviewInit == ASSUME ReviewAssumed, Reviewed!Init PROVE ReviewInv
<1>1. Deciding = {} /\ Cardinality(Deciding) = 0 /\ Cardinality(claimed) = 0
  BY FS_EmptySet DEF Reviewed!Init, Deciding
<1>2. Reviewed!TypeOK
  <2>1. Reviewed!Cardinality(Events) \in Nat
    BY FS_CardinalityType, ReviewCounts DEF ReviewAssumed
  <2>2. version \in 1..(1 + MaxDecisions + Reviewed!Cardinality(Events))
    BY <2>1 DEF Reviewed!Init, ReviewAssumed
  <2>3. acceptance \in [Issuers -> [status : Reviewed!Answers, version : Nat] \cup {Reviewed!NoAcceptance}]
    BY DEF Reviewed!Init
  <2>4. submits \in 0..MaxSubmits /\ decisions \in 0..MaxDecisions
    BY DEF Reviewed!Init, ReviewAssumed
  <2> QED BY <2>2, <2>3, <2>4 DEF Reviewed!Init, Reviewed!TypeOK, Reviewed!Statuses, Reviewed!Ops
<1>3. (\A p \in Procs : ReviewAt(p)) /\ MessagesAreOwn
  BY <1>1 DEF Reviewed!Init, ReviewAt, MessagesAreOwn
<1>4. VersionsAreDecided
  BY <1>1 DEF Reviewed!Init, VersionsAreDecided
<1>5. AcceptancesOk
  BY DEF Reviewed!Init, AcceptancesOk, Reviewed!NoAcceptance
<1>6. RecordOk
  BY DEF Reviewed!Init, RecordOk, Reviewed!OneVersionEach, Reviewed!MirrorAgrees
<1> QED BY <1>2, <1>3, <1>4, <1>5, <1>6 DEF ReviewInv

\* The other requests stay where they are.
Elsewhere(p) ==
  \A q \in Procs \ {p} :
    /\ reviewPc'[q] = reviewPc[q] /\ op'[q] = op[q] /\ known'[q] = known[q]
    /\ pinned'[q] = pinned[q] /\ event'[q] = event[q]

LocalTyped ==
  /\ reviewPc \in [Procs -> {"idle", "submit", "decide", "claim", "match", "attach", "insert", "pin", "save"}]
  /\ op \in [Procs -> Reviewed!Ops]
  /\ known \in [Procs -> Reviewed!Statuses] /\ pinned \in [Procs -> Nat]
  /\ event \in [Procs -> Events \cup {NoEvent}]

LEMMA ReviewGoto ==
  ASSUME Reviewed!TypeOK, NEW p \in Procs, NEW next, NEW what, NEW saw,
         Reviewed!Goto(p, next, what, saw), UNCHANGED <<pinned, event>>
  PROVE  /\ Elsewhere(p)
         /\ reviewPc'[p] = next /\ op'[p] = what /\ known'[p] = saw
         /\ pinned'[p] = pinned[p] /\ event'[p] = event[p]
BY DEF Reviewed!TypeOK, Reviewed!Goto, Elsewhere

LEMMA ReviewFinish ==
  ASSUME Reviewed!TypeOK, NEW p \in Procs, Reviewed!Finish(p)
  PROVE  /\ Elsewhere(p) /\ LocalTyped'
         /\ reviewPc'[p] = "idle" /\ event'[p] = NoEvent /\ pinned'[p] = 0
BY DEF Reviewed!TypeOK, Reviewed!Finish, Reviewed!Goto, Elsewhere, LocalTyped, Reviewed!Ops, Reviewed!Statuses

\* What is known of the other requests stays true while versions and messages
\* only come, and no verdict of theirs is applied.
LEMMA ReviewOthers ==
  ASSUME ReviewInv, NEW p \in Procs, Elsewhere(p), ReviewAt(p)',
         version' \in Nat, version <= version', claimed \subseteq claimed',
         \A q \in Deciding \ {p} : event[q] # NoEvent => applied'[event[q]] = applied[event[q]]
  PROVE  \A q \in Procs : ReviewAt(q)'
<1> SUFFICES ASSUME NEW q \in Procs, q # p PROVE ReviewAt(q)'
  OBVIOUS
<1>1. /\ reviewPc'[q] = reviewPc[q] /\ op'[q] = op[q] /\ known'[q] = known[q]
      /\ pinned'[q] = pinned[q] /\ event'[q] = event[q]
  BY DEF Elsewhere
<1>2. ReviewAt(q) /\ version \in Nat /\ pinned[q] \in Nat
  BY DEF ReviewInv, Reviewed!TypeOK
<1>3. q \in Deciding' <=> q \in Deciding
  BY <1>1 DEF Deciding
<1>4. (q \in Deciding /\ event[q] # NoEvent) => event[q] \in claimed' /\ applied'[event[q]] = 0
  BY <1>2 DEF ReviewAt
<1>5. version > 1 => version' > 1
  BY <1>2
<1>6. pinned[q] <= version'
  BY <1>2 DEF ReviewAt
<1> QED BY <1>1, <1>2, <1>3, <1>4, <1>5, <1>6 DEF ReviewAt

\* The requests that decide, before and after one of them moved.
LEMMA DecidingCount ==
  ASSUME IsFiniteSet(Procs), NEW p \in Procs, \A q \in Procs \ {p} : reviewPc'[q] = reviewPc[q]
  PROVE  /\ Cardinality(Deciding) \in Nat /\ Cardinality(Deciding') \in Nat
         /\ (p \in Deciding <=> p \in Deciding') => Deciding' = Deciding
         /\ (p \notin Deciding /\ p \in Deciding') => Cardinality(Deciding') = Cardinality(Deciding) + 1
         /\ (p \in Deciding /\ p \notin Deciding') => Cardinality(Deciding') = Cardinality(Deciding) - 1
<1>1. \A q \in Procs \ {p} : q \in Deciding' <=> q \in Deciding
  BY DEF Deciding
<1>2. Deciding \subseteq Procs /\ Deciding' \subseteq Procs
  BY DEF Deciding
<1>3. IsFiniteSet(Deciding) /\ IsFiniteSet(Deciding')
  BY <1>2, FS_Subset
<1>4. (p \notin Deciding /\ p \in Deciding') => Deciding' = Deciding \cup {p}
  BY <1>1, <1>2
<1>5. (p \in Deciding /\ p \notin Deciding') => Deciding' = Deciding \ {p}
  BY <1>1, <1>2
<1>6. (p \in Deciding <=> p \in Deciding') => Deciding' = Deciding
  BY <1>1, <1>2
<1> HIDE DEF Deciding
<1> QED BY <1>3, <1>4, <1>5, <1>6, FS_AddElement, FS_RemoveElement, FS_CardinalityType

LEMMA OwnMessages ==
  ASSUME MessagesAreOwn, NEW p \in Procs, Elsewhere(p),
         (p \in Deciding' /\ event'[p] # NoEvent) =>
           \A q \in Deciding \ {p} : event[q] # event'[p]
  PROVE  MessagesAreOwn'
BY DEF MessagesAreOwn, Elsewhere, Deciding

\* The bound of the versions, from the count.
LEMMA VersionTyped ==
  ASSUME ReviewAssumed, NEW v \in Nat \ {0}, NEW k \in Nat, NEW d \in 0..MaxDecisions, NEW C \in SUBSET Events,
         v + k <= 1 + d + Cardinality(C)
  PROVE  v \in 1..(1 + MaxDecisions + Reviewed!Cardinality(Events))
<1>1. /\ Cardinality(C) \in Nat /\ Cardinality(Events) \in Nat
      /\ Cardinality(C) <= Cardinality(Events)
  BY FS_Subset, FS_CardinalityType DEF ReviewAssumed
<1> QED BY <1>1, ReviewCounts DEF ReviewAssumed

\* A step that writes nothing and decides nothing.
LEMMA ReviewQuiet ==
  ASSUME ReviewAssumed, ReviewInv, NEW p \in Procs, p \notin Deciding, p \notin Deciding',
         Elsewhere(p), LocalTyped', ReviewAt(p)',
         UNCHANGED <<Reviewed!record, acceptance, claimed, decisions, Reviewed!history>>,
         submits' \in 0..MaxSubmits
  PROVE  ReviewInv'
<1>1. Reviewed!TypeOK'
  BY DEF ReviewInv, Reviewed!TypeOK, Reviewed!record, Reviewed!history, LocalTyped
<1>2. \A q \in Procs : ReviewAt(q)'
  BY ReviewOthers DEF ReviewInv, Reviewed!TypeOK, Reviewed!record, Reviewed!history
<1>3. MessagesAreOwn'
  BY OwnMessages DEF ReviewInv
<1>4. VersionsAreDecided'
  BY DecidingCount DEF ReviewInv, VersionsAreDecided, Elsewhere, ReviewAssumed, Reviewed!record
<1>5. AcceptancesOk' /\ RecordOk'
  BY DEF ReviewInv, AcceptancesOk, RecordOk, Reviewed!OneVersionEach, Reviewed!MirrorAgrees, Reviewed!record, Reviewed!history
<1> QED BY <1>1, <1>2, <1>3, <1>4, <1>5 DEF ReviewInv

LEMMA ReviewQuietSteps ==
  ASSUME ReviewAssumed, ReviewInv, NEW p \in Procs,
         \/ Reviewed!Submit(p) \/ Reviewed!ConnectWallet(p) \/ Reviewed!ReadAccount(p)
         \/ Reviewed!ReadVersion(p) \/ (\E e \in Events : Reviewed!Receive(p, e))
         \/ (\E i \in Issuers : Reviewed!DecideAcceptance(p, i))
  PROVE  ReviewInv'
<1>t. /\ Reviewed!TypeOK /\ ReviewAt(p) /\ LocalTyped /\ version \in Nat /\ pinned[p] \in Nat
      /\ kycStatus \in Reviewed!Statuses
      /\ \A i \in Issuers : i \in Reviewed!Ops
      /\ "applied" \in Reviewed!Ops /\ "link" \in Reviewed!Ops /\ "none" \in Reviewed!Ops
      /\ "none" \in Reviewed!Statuses /\ submits \in 0..MaxSubmits
  BY DEF ReviewInv, Reviewed!TypeOK, LocalTyped, Reviewed!Ops, Reviewed!Statuses
<1>r. kycStatus = "completed" => version > 1
  BY DEF ReviewInv, RecordOk
<1>1. CASE Reviewed!Submit(p)
  <2>1. Elsewhere(p) /\ reviewPc'[p] = "submit" /\ pinned'[p] = pinned[p] /\ event'[p] = event[p]
    BY <1>1, <1>t, ReviewGoto DEF Reviewed!Submit
  <2>2. LocalTyped'
    BY <1>1, <1>t DEF Reviewed!Submit, Reviewed!Goto, LocalTyped
  <2>3. reviewPc[p] = "idle"
    BY <1>1 DEF Reviewed!Submit, Reviewed!At
  <2>4. UNCHANGED <<Reviewed!record, acceptance, claimed, decisions, Reviewed!history>> /\ submits' \in 0..MaxSubmits
    BY <1>1, <1>t DEF Reviewed!Submit, ReviewAssumed
  <2>5. ReviewAt(p)'
    BY <2>1, <2>3, <2>4, <1>t DEF ReviewAt, Deciding, Reviewed!record
  <2> QED BY <2>1, <2>2, <2>3, <2>4, <2>5, ReviewQuiet DEF Deciding
<1>2. CASE Reviewed!ConnectWallet(p) \/ Reviewed!ReadAccount(p)
  <2>1. PICK next \in {"attach", "insert"} : Reviewed!Goto(p, next, "link", kycStatus)
    BY <1>2 DEF Reviewed!ConnectWallet, Reviewed!ReadAccount
  <2>2. UNCHANGED <<Reviewed!record, acceptance, claimed, pinned, event, submits, decisions, Reviewed!history>>
    BY <1>2 DEF Reviewed!ConnectWallet, Reviewed!ReadAccount
  <2>3. reviewPc[p] \in {"idle", "attach"} /\ version > 1
    BY <1>2, <1>t, <1>r DEF Reviewed!ConnectWallet, Reviewed!ReadAccount, Reviewed!At, Reviewed!MayConnect, ReviewAt
  <2>4. Elsewhere(p) /\ reviewPc'[p] = next /\ pinned'[p] = pinned[p] /\ event'[p] = event[p]
    BY <2>1, <2>2, <1>t, ReviewGoto
  <2>5. LocalTyped'
    BY <2>1, <2>2, <1>t DEF Reviewed!Goto, LocalTyped
  <2>6. ReviewAt(p)'
    BY <2>2, <2>3, <2>4, <1>t DEF ReviewAt, Deciding, Reviewed!record
  <2> QED BY <1>t, <2>2, <2>3, <2>4, <2>5, <2>6, ReviewQuiet DEF Deciding
<1>3. CASE Reviewed!ReadVersion(p)
  <2>1. /\ reviewPc[p] = "pin" /\ Reviewed!Goto(p, "save", op[p], "none")
        /\ pinned' = [pinned EXCEPT ![p] = version]
        /\ UNCHANGED <<Reviewed!record, acceptance, claimed, event, submits, decisions, Reviewed!history>>
    BY <1>3 DEF Reviewed!ReadVersion, Reviewed!At
  <2>2. Elsewhere(p) /\ reviewPc'[p] = "save" /\ op'[p] = op[p] /\ pinned'[p] = version /\ event'[p] = event[p]
    BY <2>1, <1>t DEF Reviewed!TypeOK, Reviewed!Goto, Elsewhere
  <2>3. LocalTyped'
    BY <2>1, <1>t DEF Reviewed!Goto, LocalTyped
  <2>4. ReviewAt(p)'
    BY <2>1, <2>2, <1>t DEF ReviewAt, Deciding, Reviewed!record
  <2> QED BY <1>t, <2>1, <2>2, <2>3, <2>4, ReviewQuiet DEF Deciding
<1>4. ASSUME NEW e \in Events, Reviewed!Receive(p, e) PROVE ReviewInv'
  <2>1. /\ reviewPc[p] = "idle" /\ Reviewed!Goto(p, "claim", "none", "none")
        /\ event' = [event EXCEPT ![p] = e]
        /\ UNCHANGED <<Reviewed!record, acceptance, claimed, pinned, submits, decisions, Reviewed!history>>
    BY <1>4 DEF Reviewed!Receive, Reviewed!At
  <2>2. Elsewhere(p) /\ reviewPc'[p] = "claim" /\ pinned'[p] = pinned[p] /\ event'[p] = e
    BY <2>1, <1>t DEF Reviewed!TypeOK, Reviewed!Goto, Elsewhere
  <2>3. LocalTyped'
    BY <2>1, <1>t DEF Reviewed!Goto, LocalTyped
  <2>4. ReviewAt(p)'
    BY <2>1, <2>2, <1>t DEF ReviewAt, Deciding, Reviewed!record
  <2> QED BY <1>t, <2>1, <2>2, <2>3, <2>4, ReviewQuiet DEF Deciding
<1>5. ASSUME NEW i \in Issuers, Reviewed!DecideAcceptance(p, i) PROVE ReviewInv'
  <2>1. /\ reviewPc[p] = "idle" /\ Reviewed!Goto(p, "pin", i, "none")
        /\ UNCHANGED <<Reviewed!record, acceptance, claimed, pinned, event, submits, decisions, Reviewed!history>>
    BY <1>5 DEF Reviewed!DecideAcceptance, Reviewed!At
  <2>2. Elsewhere(p) /\ reviewPc'[p] = "pin" /\ op'[p] = i /\ pinned'[p] = pinned[p] /\ event'[p] = event[p]
    BY <2>1, <1>t, ReviewGoto
  <2>3. LocalTyped'
    BY <2>1, <1>t DEF Reviewed!Goto, LocalTyped
  <2>4. ReviewAt(p)'
    BY <2>1, <2>2, <1>t DEF ReviewAt, Deciding, Reviewed!record
  <2> QED BY <1>t, <2>1, <2>2, <2>3, <2>4, ReviewQuiet DEF Deciding
<1> QED BY <1>1, <1>2, <1>3, <1>4, <1>5

\* A reviewer begins to decide.
LEMMA ReviewStartSteps ==
  ASSUME ReviewAssumed, ReviewInv, NEW p \in Procs,
         Reviewed!StartVerifying(p) \/ \E s \in Reviewed!Decided : Reviewed!Decide(p, s)
  PROVE  ReviewInv'
<1>t. /\ Reviewed!TypeOK /\ ReviewAt(p) /\ LocalTyped /\ version \in Nat /\ pinned[p] \in Nat
      /\ kycStatus \in Reviewed!Statuses /\ decisions \in 0..MaxDecisions
  BY DEF ReviewInv, Reviewed!TypeOK, LocalTyped
<1>1. PICK s \in {"verifying"} \cup Reviewed!Decided :
        Reviewed!Goto(p, "decide", s, kycStatus) /\ (s = "completed" => kycStatus # "completed")
  <2>1. CASE Reviewed!StartVerifying(p)
    <3>1. Reviewed!Goto(p, "decide", "verifying", kycStatus)
      BY <2>1 DEF Reviewed!StartVerifying
    <3> QED BY <3>1
  <2>2. ASSUME NEW s \in Reviewed!Decided, Reviewed!Decide(p, s)
        PROVE  Reviewed!Goto(p, "decide", s, kycStatus) /\ (s = "completed" => kycStatus # "completed")
    BY <2>2 DEF Reviewed!Decide, Reviewed!AlreadyTold
  <2> QED BY <2>1, <2>2
<1>2. /\ reviewPc[p] = "idle" /\ decisions < MaxDecisions /\ decisions' = decisions + 1
      /\ UNCHANGED <<Reviewed!record, acceptance, claimed, pinned, event, submits, Reviewed!history>>
  BY DEF Reviewed!StartVerifying, Reviewed!Decide, Reviewed!At
<1>3. /\ Elsewhere(p) /\ reviewPc'[p] = "decide" /\ op'[p] = s /\ known'[p] = kycStatus
      /\ pinned'[p] = pinned[p] /\ event'[p] = event[p]
  BY <1>t, <1>1, <1>2, ReviewGoto
<1>4. s \in Reviewed!Ops
  BY DEF Reviewed!Decided, Reviewed!Ops, Reviewed!Statuses
<1>5. event[p] = NoEvent
  BY <1>t, <1>2 DEF ReviewAt
<1>6. Reviewed!TypeOK'
  BY <1>t, <1>1, <1>2, <1>4 DEF Reviewed!TypeOK, Reviewed!Goto, Reviewed!record, Reviewed!history, ReviewAssumed
<1>7. ReviewAt(p)'
  BY <1>t, <1>1, <1>2, <1>3, <1>5 DEF ReviewAt, Reviewed!record
<1>8. \A q \in Procs : ReviewAt(q)'
  BY <1>t, <1>2, <1>3, <1>7, ReviewOthers DEF Reviewed!record, Reviewed!history
<1>9. MessagesAreOwn'
  BY <1>3, <1>5, OwnMessages DEF ReviewInv
<1>10. VersionsAreDecided'
  <2>1. p \notin Deciding /\ p \in Deciding'
    BY <1>2, <1>3 DEF Deciding
  <2>2. /\ Cardinality(Deciding) \in Nat /\ Cardinality(Deciding') = Cardinality(Deciding) + 1
    BY <1>3, <2>1, DecidingCount DEF Elsewhere, ReviewAssumed
  <2>3. Cardinality(claimed) \in Nat
    BY FS_Subset, FS_CardinalityType DEF ReviewInv, Reviewed!TypeOK, ReviewAssumed
  <2> QED BY <1>2, <1>t, <2>2, <2>3 DEF ReviewInv, VersionsAreDecided, Reviewed!record
<1>11. AcceptancesOk' /\ RecordOk'
  BY <1>2 DEF ReviewInv, AcceptancesOk, RecordOk, Reviewed!OneVersionEach, Reviewed!MirrorAgrees, Reviewed!record, Reviewed!history
<1> QED BY <1>6, <1>8, <1>9, <1>10, <1>11 DEF ReviewInv

\* A delivery wins the id of its message and goes on, or ends.
LEMMA ClaimEventStep ==
  ASSUME ReviewAssumed, ReviewInv, NEW p \in Procs, Reviewed!ClaimEvent(p)
  PROVE  ReviewInv'
<1>t. /\ Reviewed!TypeOK /\ ReviewAt(p) /\ LocalTyped /\ version \in Nat /\ pinned[p] \in Nat
      /\ claimed \in SUBSET Events /\ applied \in [Events -> Nat] /\ submits \in 0..MaxSubmits
  BY DEF ReviewInv, Reviewed!TypeOK, LocalTyped
<1>1. /\ reviewPc[p] = "claim"
      /\ UNCHANGED <<Reviewed!record, acceptance, submits, decisions, Reviewed!history>>
  BY DEF Reviewed!ClaimEvent, Reviewed!At
<1>2. event[p] \in Events
  BY <1>t, <1>1 DEF ReviewAt
<1>3. CASE Reviewed!Finish(p) /\ UNCHANGED claimed
  <2>1. Elsewhere(p) /\ LocalTyped' /\ reviewPc'[p] = "idle" /\ event'[p] = NoEvent /\ pinned'[p] = 0
    BY <1>t, <1>3, ReviewFinish
  <2>2. ReviewAt(p)'
    BY <1>1, <1>t, <2>1 DEF ReviewAt, Deciding, Reviewed!record
  <2> QED BY <1>1, <1>3, <1>t, <2>1, <2>2, ReviewQuiet DEF Deciding
<1>4. CASE /\ event[p] \notin claimed /\ Reviewed!Goto(p, "match", "none", "none")
           /\ claimed' = claimed \cup {event[p]} /\ UNCHANGED <<pinned, event>>
  <2>1. /\ Elsewhere(p) /\ reviewPc'[p] = "match" /\ op'[p] = "none" /\ known'[p] = "none"
        /\ pinned'[p] = pinned[p] /\ event'[p] = event[p]
    BY <1>t, <1>4, ReviewGoto
  <2>2. Reviewed!TypeOK'
    BY <1>t, <1>1, <1>2, <1>4 DEF Reviewed!TypeOK, Reviewed!Goto, Reviewed!record, Reviewed!history, Reviewed!Ops, Reviewed!Statuses
  <2>3. applied[event[p]] = 0
    <3>1. applied[event[p]] <= 1 /\ applied[event[p]] # 1 /\ applied[event[p]] \in Nat
      BY <1>t, <1>2, <1>4 DEF ReviewInv, RecordOk
    <3> QED BY <3>1
  <2>4. ReviewAt(p)'
    BY <1>t, <1>1, <1>2, <1>4, <2>1, <2>3 DEF ReviewAt, Reviewed!record, Reviewed!history
  <2>5. \A q \in Procs : ReviewAt(q)'
    BY <1>t, <1>1, <1>4, <2>1, <2>4, ReviewOthers DEF Reviewed!record, Reviewed!history
  <2>6. \A q \in Deciding \ {p} : event[q] # event[p]
    BY <1>2, <1>4 DEF ReviewInv, ReviewAt, Deciding, ReviewAssumed
  <2>7. MessagesAreOwn'
    BY <2>1, <2>6, OwnMessages DEF ReviewInv
  <2>8. VersionsAreDecided'
    <3>1. p \notin Deciding /\ p \in Deciding'
      BY <1>1, <2>1 DEF Deciding
    <3>2. /\ Cardinality(Deciding) \in Nat /\ Cardinality(Deciding') = Cardinality(Deciding) + 1
      BY <2>1, <3>1, DecidingCount DEF Elsewhere, ReviewAssumed
    <3>3. IsFiniteSet(claimed)
      BY <1>t, FS_Subset DEF ReviewAssumed
    <3>4. Cardinality(claimed) \in Nat /\ Cardinality(claimed') = Cardinality(claimed) + 1
      BY <1>4, <3>3, FS_AddElement, FS_CardinalityType
    <3> QED BY <1>1, <1>t, <3>2, <3>4 DEF ReviewInv, VersionsAreDecided, Reviewed!record, Reviewed!TypeOK
  <2>9. AcceptancesOk' /\ RecordOk'
    BY <1>1, <1>4 DEF ReviewInv, AcceptancesOk, RecordOk, Reviewed!OneVersionEach, Reviewed!MirrorAgrees, Reviewed!record, Reviewed!history
  <2> QED BY <2>2, <2>5, <2>7, <2>8, <2>9 DEF ReviewInv
<1> QED BY <1>3, <1>4 DEF Reviewed!ClaimEvent, Reviewed!Fresh

\* A request that ends decides no more.
LEMMA EndsDeciding ==
  ASSUME ReviewAssumed, Reviewed!TypeOK, MessagesAreOwn, VersionsAreDecided, NEW p \in Procs, Elsewhere(p),
         reviewPc'[p] = "idle", event'[p] = NoEvent, UNCHANGED <<claimed, decisions>>,
         version' \in Nat, version' <= version + (IF p \in Deciding THEN 1 ELSE 0)
  PROVE  MessagesAreOwn' /\ VersionsAreDecided'
<1>1. p \notin Deciding'
  BY DEF Deciding
<1>2. /\ Cardinality(Deciding) \in Nat /\ Cardinality(Deciding') \in Nat
      /\ Cardinality(Deciding') = Cardinality(Deciding) - (IF p \in Deciding THEN 1 ELSE 0)
  BY <1>1, DecidingCount DEF Elsewhere, ReviewAssumed
<1>3. Cardinality(claimed) \in Nat
  BY FS_Subset, FS_CardinalityType DEF Reviewed!TypeOK, ReviewAssumed
<1>4. VersionsAreDecided'
  BY <1>2, <1>3 DEF VersionsAreDecided, Reviewed!TypeOK
<1>5. MessagesAreOwn'
  BY OwnMessages
<1> QED BY <1>4, <1>5

LEMMA ApplyProviderStep ==
  ASSUME ReviewAssumed, ReviewInv, NEW p \in Procs, Reviewed!ApplyProviderDecision(p) \/ Reviewed!Crash(p)
  PROVE  ReviewInv'
<1>t. /\ Reviewed!TypeOK /\ ReviewAt(p) /\ LocalTyped /\ version \in Nat /\ pinned[p] \in Nat
      /\ kycStatus \in Reviewed!Statuses
  BY DEF ReviewInv, Reviewed!TypeOK, LocalTyped
<1>1. /\ reviewPc[p] = "match"
      /\ UNCHANGED <<Reviewed!record, acceptance, claimed, submits, decisions, Reviewed!history>>
  BY DEF Reviewed!ApplyProviderDecision, Reviewed!Crash, Reviewed!At
<1>2. event[p] \in Events /\ p \in Deciding
  BY <1>t, <1>1 DEF ReviewAt, Deciding
<1>3. AcceptancesOk' /\ RecordOk'
  BY <1>1 DEF ReviewInv, AcceptancesOk, RecordOk, Reviewed!OneVersionEach, Reviewed!MirrorAgrees, Reviewed!record, Reviewed!history
<1>4. CASE Reviewed!Finish(p)
  <2>1. Elsewhere(p) /\ LocalTyped' /\ reviewPc'[p] = "idle" /\ event'[p] = NoEvent /\ pinned'[p] = 0
    BY <1>t, <1>4, ReviewFinish
  <2>2. ReviewAt(p)'
    BY <1>1, <1>t, <2>1 DEF ReviewAt, Deciding, Reviewed!record
  <2>3. \A q \in Procs : ReviewAt(q)'
    BY <1>t, <1>1, <2>1, <2>2, ReviewOthers DEF Reviewed!record, Reviewed!history
  <2>4. MessagesAreOwn' /\ VersionsAreDecided'
    BY <1>t, <1>1, <2>1, EndsDeciding DEF ReviewInv, Reviewed!record
  <2>5. Reviewed!TypeOK'
    BY <1>t, <1>1, <2>1 DEF Reviewed!TypeOK, LocalTyped, Reviewed!record, Reviewed!history
  <2> QED BY <1>3, <2>3, <2>4, <2>5 DEF ReviewInv
<1>5. CASE /\ kycStatus # Verdict[event[p]] /\ UNCHANGED <<pinned, event>>
           /\ Reviewed!Goto(p, "decide", Verdict[event[p]], kycStatus)
  <2>1. PICK s \in Reviewed!Decided : s = Verdict[event[p]]
    BY <1>2 DEF ReviewAssumed
  <2>2. /\ Elsewhere(p) /\ reviewPc'[p] = "decide" /\ op'[p] = s /\ known'[p] = kycStatus
        /\ pinned'[p] = pinned[p] /\ event'[p] = event[p]
    BY <1>t, <1>5, <2>1, ReviewGoto
  <2>3. s \in Reviewed!Ops
    BY DEF Reviewed!Decided, Reviewed!Ops, Reviewed!Statuses
  <2>4. Reviewed!TypeOK'
    BY <1>t, <1>1, <1>5, <2>1, <2>3 DEF Reviewed!TypeOK, Reviewed!Goto, Reviewed!record, Reviewed!history
  <2>5. ReviewAt(p)'
    BY <1>t, <1>1, <1>2, <1>5, <2>1, <2>2 DEF ReviewAt, Reviewed!record, Reviewed!history, ReviewAssumed
  <2>6. \A q \in Procs : ReviewAt(q)'
    BY <1>t, <1>1, <2>2, <2>5, ReviewOthers DEF Reviewed!record, Reviewed!history
  <2>7. p \in Deciding'
    BY <2>2 DEF Deciding
  <2>8. MessagesAreOwn'
    <3>1. event[p] # NoEvent => \A q \in Deciding \ {p} : event[q] # event[p]
      BY <1>2 DEF ReviewInv, MessagesAreOwn
    <3> QED BY <2>2, <3>1, OwnMessages DEF ReviewInv
  <2>9. VersionsAreDecided'
    BY <1>1, <1>2, <2>2, <2>7, DecidingCount DEF Elsewhere, ReviewAssumed, ReviewInv, VersionsAreDecided, Reviewed!record
  <2> QED BY <1>3, <2>4, <2>6, <2>8, <2>9 DEF ReviewInv
<1> QED BY <1>4, <1>5 DEF Reviewed!ApplyProviderDecision, Reviewed!Crash, Reviewed!AlreadyTold

\* A decision is written: the status, perhaps a version, the row of the wallet.
LEMMA WriteDecisionStep ==
  ASSUME ReviewAssumed, ReviewInv, NEW p \in Procs, Reviewed!WriteDecision(p)
  PROVE  ReviewInv'
<1>t. /\ Reviewed!TypeOK /\ ReviewAt(p) /\ LocalTyped /\ version \in Nat \ {0} /\ pinned[p] \in Nat
      /\ kycStatus \in Reviewed!Statuses /\ mirror \in Reviewed!Statuses /\ episodes \in Nat /\ overlapped \in BOOLEAN
      /\ applied \in [Events -> Nat] /\ linked \in BOOLEAN
  BY DEF ReviewInv, Reviewed!TypeOK, LocalTyped
<1>1. PICK s \in {"verifying"} \cup Reviewed!Decided : s = op[p] /\ (s = "completed" => known[p] # "completed")
  BY <1>t DEF Reviewed!WriteDecision, Reviewed!At, ReviewAt
<1>2. /\ reviewPc[p] = "decide" /\ p \in Deciding
      /\ kycStatus' = s /\ mirror' = IF linked THEN s ELSE mirror
      /\ version' = IF s = "completed" THEN version + 1 ELSE version
      /\ overlapped' = (overlapped \/ known[p] # kycStatus)
      /\ episodes' = episodes + (IF s = "completed" /\ kycStatus # "completed" THEN 1 ELSE 0)
      /\ applied' = IF event[p] = NoEvent THEN applied ELSE [applied EXCEPT ![event[p]] = @ + 1]
      /\ Reviewed!Finish(p)
      /\ UNCHANGED <<linked, acceptance, claimed, submits, decisions, read>>
  BY <1>1 DEF Reviewed!WriteDecision, Reviewed!At, Reviewed!Mirrored, Reviewed!Bump, Reviewed!Note, Deciding
<1>3. Elsewhere(p) /\ LocalTyped' /\ reviewPc'[p] = "idle" /\ event'[p] = NoEvent /\ pinned'[p] = 0
  BY <1>t, <1>2, ReviewFinish
<1>4. version' \in Nat \ {0} /\ version <= version' /\ version' <= version + 1
  BY <1>t, <1>2
<1>5. event[p] # NoEvent => event[p] \in claimed /\ applied[event[p]] = 0
  BY <1>t, <1>2 DEF ReviewAt
<1>6. claimed \in SUBSET Events /\ event[p] \in Events \cup {NoEvent}
  BY <1>t DEF Reviewed!TypeOK
<1>7. applied' \in [Events -> Nat]
  <2>1. CASE event[p] = NoEvent
    BY <1>t, <1>2, <2>1
  <2>2. CASE event[p] # NoEvent
    BY <1>t, <1>2, <1>6, <2>2
  <2> QED BY <2>1, <2>2
<1>8. \A e \in Events : applied'[e] <= 1 /\ (applied'[e] = 1 => e \in claimed)
  <2> SUFFICES ASSUME NEW e \in Events PROVE applied'[e] <= 1 /\ (applied'[e] = 1 => e \in claimed)
    OBVIOUS
  <2>1. CASE e = event[p] /\ event[p] # NoEvent
    BY <1>t, <1>2, <1>5, <2>1
  <2>2. CASE ~(e = event[p] /\ event[p] # NoEvent)
    <3>1. applied'[e] = applied[e]
      BY <1>t, <1>2, <2>2
    <3> QED BY <3>1 DEF ReviewInv, RecordOk
  <2> QED BY <2>1, <2>2
<1>9. ReviewAt(p)'
  BY <1>3, <1>4 DEF ReviewAt, Deciding
<1>10. \A q \in Procs : ReviewAt(q)'
  <2>1. \A q \in Deciding \ {p} : event[q] # NoEvent => applied'[event[q]] = applied[event[q]]
    <3> SUFFICES ASSUME NEW q \in Deciding \ {p}, event[q] # NoEvent PROVE applied'[event[q]] = applied[event[q]]
      OBVIOUS
    <3>1. event[q] # event[p]
      BY <1>2 DEF ReviewInv, MessagesAreOwn
    <3>2. event[q] \in Events
      BY DEF ReviewInv, Reviewed!TypeOK, Deciding
    <3> QED BY <1>t, <1>2, <3>1, <3>2
  <2> QED BY <1>2, <1>3, <1>4, <1>9, <2>1, ReviewOthers
<1>11. MessagesAreOwn' /\ VersionsAreDecided'
  BY <1>t, <1>2, <1>3, <1>4, EndsDeciding DEF ReviewInv
<1>12. Reviewed!TypeOK'
  <2>1. version' \in 1..(1 + MaxDecisions + Reviewed!Cardinality(Events))
    <3>1. decisions' \in 0..MaxDecisions /\ claimed' \in SUBSET Events
      BY <1>t, <1>2 DEF Reviewed!TypeOK
    <3>2. Cardinality(Deciding') \in Nat
      BY <1>3, DecidingCount DEF Elsewhere, ReviewAssumed
    <3> QED BY <1>4, <1>11, <3>1, <3>2, VersionTyped DEF VersionsAreDecided
  <2>2. kycStatus' \in Reviewed!Statuses /\ mirror' \in Reviewed!Statuses /\ episodes' \in Nat /\ overlapped' \in BOOLEAN
    BY <1>t, <1>2 DEF Reviewed!Statuses, Reviewed!Decided
  <2> QED BY <1>t, <1>2, <1>3, <1>7, <2>1, <2>2 DEF Reviewed!TypeOK, LocalTyped
<1>13. AcceptancesOk'
  <2>1. \A i \in Issuers : acceptance[i].version \in Nat
    BY <1>t DEF Reviewed!TypeOK, Reviewed!NoAcceptance
  <2> QED BY <1>t, <1>2, <1>4, <2>1 DEF ReviewInv, AcceptancesOk
<1>14. RecordOk'
  <2>1. kycStatus' = "completed" => version' > 1
    BY <1>t, <1>2
  <2>2. linked' => version' > 1
    BY <1>t, <1>2, <1>4 DEF ReviewInv, RecordOk
  <2>3. Reviewed!OneVersionEach'
    <3> SUFFICES ASSUME ~overlapped' PROVE version' = 1 + episodes'
      BY DEF Reviewed!OneVersionEach
    <3>1. ~overlapped /\ known[p] = kycStatus
      BY <1>2
    <3>2. version = 1 + episodes
      BY <3>1 DEF ReviewInv, RecordOk, Reviewed!OneVersionEach
    <3> QED BY <1>t, <1>1, <1>2, <3>1, <3>2
  <2>4. Reviewed!MirrorAgrees'
    BY <1>2 DEF Reviewed!MirrorAgrees
  <2> QED BY <1>2, <1>8, <2>1, <2>2, <2>3, <2>4 DEF RecordOk
<1> QED BY <1>10, <1>11, <1>12, <1>13, <1>14 DEF ReviewInv

\* A submission, a linked wallet and an issuer's answer make no version.
LEMMA ReviewWriteSteps ==
  ASSUME ReviewAssumed, ReviewInv, NEW p \in Procs,
         \/ Reviewed!WriteSubmission(p) \/ Reviewed!InsertWallet(p)
         \/ \E answer \in Reviewed!Answers : Reviewed!UpsertAcceptance(p, answer)
  PROVE  ReviewInv'
<1>t. /\ Reviewed!TypeOK /\ ReviewAt(p) /\ LocalTyped /\ version \in Nat \ {0} /\ pinned[p] \in Nat
      /\ kycStatus \in Reviewed!Statuses /\ mirror \in Reviewed!Statuses /\ overlapped \in BOOLEAN
      /\ linked \in BOOLEAN /\ known[p] \in Reviewed!Statuses
  BY DEF ReviewInv, Reviewed!TypeOK, LocalTyped
<1>1. /\ reviewPc[p] \in {"submit", "insert", "save"} /\ Reviewed!Finish(p)
      /\ UNCHANGED <<version, claimed, submits, decisions, applied, episodes>>
  BY DEF Reviewed!WriteSubmission, Reviewed!InsertWallet, Reviewed!UpsertAcceptance, Reviewed!At, Reviewed!record
<1>2. Elsewhere(p) /\ LocalTyped' /\ reviewPc'[p] = "idle" /\ event'[p] = NoEvent /\ pinned'[p] = 0
  BY <1>t, <1>1, ReviewFinish
<1>3. ReviewAt(p)'
  BY <1>t, <1>1, <1>2 DEF ReviewAt, Deciding
<1>4. \A q \in Procs : ReviewAt(q)'
  BY <1>t, <1>1, <1>2, <1>3, ReviewOthers
<1>5. MessagesAreOwn' /\ VersionsAreDecided'
  BY <1>t, <1>1, <1>2, EndsDeciding DEF ReviewInv
<1>6. CASE Reviewed!WriteSubmission(p)
  <2>1. /\ kycStatus' = "applied" /\ mirror' = (IF linked THEN "applied" ELSE mirror)
        /\ overlapped' = (overlapped \/ known[p] # kycStatus) /\ UNCHANGED <<linked, acceptance, read>>
    BY <1>6 DEF Reviewed!WriteSubmission, Reviewed!Mirrored, Reviewed!Note
  <2>2. Reviewed!TypeOK'
    BY <1>t, <1>1, <1>2, <2>1 DEF Reviewed!TypeOK, LocalTyped, Reviewed!Statuses
  <2>3. AcceptancesOk'
    BY <1>1, <2>1 DEF ReviewInv, AcceptancesOk
  <2>4. RecordOk'
    BY <1>t, <1>1, <2>1 DEF ReviewInv, RecordOk, Reviewed!OneVersionEach, Reviewed!MirrorAgrees
  <2> QED BY <1>4, <1>5, <2>2, <2>3, <2>4 DEF ReviewInv
<1>7. CASE Reviewed!InsertWallet(p)
  <2>1. /\ linked' = TRUE /\ mirror' = (IF linked THEN mirror ELSE known[p])
        /\ overlapped' = (overlapped \/ known[p] # kycStatus) /\ UNCHANGED <<kycStatus, acceptance, read>>
    BY <1>7, <1>t DEF Reviewed!InsertWallet, Reviewed!Note
  <2>2. version > 1
    BY <1>7, <1>t DEF Reviewed!InsertWallet, Reviewed!At, ReviewAt
  <2>3. Reviewed!TypeOK'
    BY <1>t, <1>1, <1>2, <2>1 DEF Reviewed!TypeOK, LocalTyped
  <2>4. AcceptancesOk'
    BY <1>1, <2>1 DEF ReviewInv, AcceptancesOk
  <2>5. RecordOk'
    BY <1>t, <1>1, <2>1, <2>2 DEF ReviewInv, RecordOk, Reviewed!OneVersionEach, Reviewed!MirrorAgrees
  <2> QED BY <1>4, <1>5, <2>3, <2>4, <2>5 DEF ReviewInv
<1>8. ASSUME NEW answer \in Reviewed!Answers, Reviewed!UpsertAcceptance(p, answer) PROVE ReviewInv'
  <2>1. PICK i \in Issuers : i = op[p]
    BY <1>8, <1>t DEF Reviewed!UpsertAcceptance, Reviewed!At, ReviewAt
  <2>2. /\ acceptance' = [acceptance EXCEPT ![i] = [status |-> answer, version |-> pinned[p]]]
        /\ read' = [read EXCEPT ![i] = pinned[p]]
        /\ UNCHANGED <<kycStatus, mirror, linked, overlapped>>
    BY <1>8, <2>1 DEF Reviewed!UpsertAcceptance, Reviewed!Pinned, Reviewed!record
  <2>3. /\ acceptance \in [Issuers -> [status : Reviewed!Answers, version : Nat] \cup {Reviewed!NoAcceptance}]
        /\ read \in [Issuers -> Nat]
    BY <1>t DEF Reviewed!TypeOK
  <2>4. /\ acceptance' \in [Issuers -> [status : Reviewed!Answers, version : Nat] \cup {Reviewed!NoAcceptance}]
        /\ read' \in [Issuers -> Nat]
    BY <1>t, <2>2, <2>3
  <2>5. Reviewed!TypeOK'
    BY <1>t, <1>1, <1>2, <2>2, <2>4 DEF Reviewed!TypeOK, LocalTyped
  <2>6. AcceptancesOk'
    <3>1. pinned[p] <= version
      BY <1>t DEF ReviewAt
    <3>2. acceptance'[i] = [status |-> answer, version |-> pinned[p]] /\ read'[i] = pinned[p]
      BY <2>2, <2>3
    <3>3. acceptance'[i].version = pinned[p]
      BY <3>2
    <3>4. \A j \in Issuers \ {i} : acceptance'[j] = acceptance[j] /\ read'[j] = read[j]
      BY <2>2, <2>3
    <3> QED BY <1>1, <3>1, <3>2, <3>3, <3>4 DEF ReviewInv, AcceptancesOk
  <2>7. RecordOk'
    BY <1>1, <2>2 DEF ReviewInv, RecordOk, Reviewed!OneVersionEach, Reviewed!MirrorAgrees
  <2> QED BY <1>4, <1>5, <2>5, <2>6, <2>7 DEF ReviewInv
<1> QED BY <1>6, <1>7, <1>8

LEMMA ReviewNext == ASSUME ReviewAssumed, ReviewInv, [Reviewed!Next]_(Reviewed!vars) PROVE ReviewInv'
<1>1. ASSUME NEW p \in Procs, Reviewed!Advance(p) PROVE ReviewInv'
  BY <1>1, ReviewWriteSteps, WriteDecisionStep, ClaimEventStep, ApplyProviderStep, ReviewQuietSteps DEF Reviewed!Advance
<1>2. ASSUME NEW p \in Procs, Reviewed!Call(p) PROVE ReviewInv'
  BY <1>2, ReviewQuietSteps, ReviewStartSteps DEF Reviewed!Call
<1>3. ASSUME NEW p \in Procs, Reviewed!Crash(p) PROVE ReviewInv'
  BY <1>3, ApplyProviderStep
<1>4. CASE UNCHANGED Reviewed!vars
  BY <1>4 DEF Reviewed!vars, Reviewed!record, Reviewed!local, Reviewed!history, ReviewInv, Reviewed!TypeOK, ReviewAt,
     MessagesAreOwn, VersionsAreDecided, Deciding, AcceptancesOk, RecordOk, Reviewed!OneVersionEach, Reviewed!MirrorAgrees
<1> QED BY <1>1, <1>2, <1>3, <1>4 DEF Reviewed!Next

LEMMA ReviewAlways == Reviewed!Spec => []ReviewInv
<1>1. Reviewed!Init => ReviewInv
  BY ReviewInit, PeopleAssumption
<1>2. ReviewInv /\ [Reviewed!Next]_(Reviewed!vars) => ReviewInv'
  BY ReviewNext, PeopleAssumption
<1> QED BY <1>1, <1>2, PTL DEF Reviewed!Spec

\* An acceptance that does not show as stale was decided by a call that read the
\* present version: an approval that lands while an issuer decides is seen
\* (acceptance.service.ts).
THEOREM AcceptancesAreRead == Reviewed!Spec => []FreshWasRead
<1>1. ReviewInv => FreshWasRead
  <2> SUFFICES ASSUME ReviewInv, NEW i \in Issuers, acceptance[i] # Reviewed!NoAcceptance, ~(acceptance[i].version < version)
               PROVE  read[i] = version
    BY DEF FreshWasRead, Reviewed!FreshWasRead, Reviewed!Stale
  <2>1. acceptance[i].version \in Nat /\ version \in Nat
    BY DEF ReviewInv, Reviewed!TypeOK, Reviewed!NoAcceptance
  <2> QED BY <2>1 DEF ReviewInv, AcceptancesOk
<1> QED BY <1>1, ReviewAlways, PTL

\* A decision about a person counts once, whoever tells it and however often,
\* in the record and in the row of the wallet, and no wallet comes without one.
THEOREM DecisionsCountOnce == Reviewed!Spec => []DecisionsCount
<1>1. ReviewInv => DecisionsCount
  BY DEF ReviewInv, RecordOk, DecisionsCount, Reviewed!DecisionsCount, Reviewed!AppliedOnce, Reviewed!LinkedWasVerified
<1> QED BY <1>1, ReviewAlways, PTL

-----------------------------------------------------------------------------
(* The documents: the specification of the instance is the one that        *)
(* DocumentsProofs is about.                                               *)

Kept == INSTANCE DocumentsProofs WITH
  Legacy <- OldDocs, Faults <- FileFaults, pc <- filePc, todo <- toMove, read <- rowRead

LEMMA PapersInit == Papers!Init => Kept!Init
  BY DEF Papers!Init, Kept!Init

LEMMA PapersNext == [Papers!Next]_(Papers!vars) => [Kept!Next]_(Kept!vars)
  BY DEF Papers!rows, Kept!rows, Papers!storage, Kept!storage, Papers!config, Kept!config, Papers!local,
     Kept!local, Papers!trail, Kept!trail, Papers!At, Kept!At, Papers!Goto, Kept!Goto, Papers!Finish,
     Kept!Finish, Papers!NewFile, Kept!NewFile, Papers!Upload, Kept!Upload, Papers!Put, Kept!Put,
     Papers!Insert, Kept!Insert, Papers!Pending, Kept!Pending, Papers!Migrate, Kept!Migrate, Papers!MoveNext,
     Kept!MoveNext, Papers!ReadBackTrusts, Kept!ReadBackTrusts, Papers!ReadBack, Kept!ReadBack, Papers!Move,
     Kept!Move, Papers!Download, Kept!Download, Papers!Get, Kept!Get, Papers!AuditLater, Kept!AuditLater,
     Papers!Audit, Kept!Audit, Papers!Reply, Kept!Reply, Papers!SetKey, Kept!SetKey, Papers!Boot, Kept!Boot,
     Papers!Crash, Kept!Crash, Papers!Call, Kept!Call, Papers!Advance, Kept!Advance, Papers!Next, Kept!Next,
     Papers!vars, Kept!vars

LEMMA PapersSpec == Papers!Spec => Kept!Spec
  BY PapersInit, PapersNext, PTL DEF Papers!Spec, Kept!Spec

LEMMA PapersNames == Kept!NamesAreNames /\ Kept!IsFiniteSet(Procs)
  BY PeopleAssumption DEF PapersAssumed, Kept!NamesAreNames, Kept!IsFiniteSet, IsFiniteSet

\* No document is lost between the row and the disk, and a reviewer has no
\* bytes without the audit row of that read, or the error that stands for it
\* (documents.service.ts:5-8).
THEOREM PapersAreKept == Papers!Spec => []DocumentsAreKept
<1>1. Kept!DocumentsAreKept => DocumentsAreKept
  BY DEF Kept!DocumentsAreKept, DocumentsAreKept, Papers!DocumentsAreKept, Kept!BytesAreKept, Papers!BytesAreKept,
     Kept!ReadIsAudited, Papers!ReadIsAudited
<1>2. Kept!Spec => []Kept!DocumentsAreKept
  BY PapersNames, Kept!DocumentsHold
<1> QED BY <1>1, <1>2, PapersSpec, PTL

-----------------------------------------------------------------------------
(* Together. *)

\* Every variable of the five parts has its type, in any run of them together.
THEOREM PeopleTyped ==
  (Spec /\ Onboard!Spec /\ Screens!Spec /\ Reviewed!Spec /\ Papers!Spec) => []AllTyped
<1>1. OnboardInv => Onboard!TypeOK
  BY DEF OnboardInv
<1>2. ScreenInv => Screens!TypeOK
  BY DEF ScreenInv
<1>3. ReviewInv => Reviewed!TypeOK
  BY DEF ReviewInv
<1>4. Kept!TypeOK => Papers!TypeOK
  BY DEF Kept!TypeOK, Papers!TypeOK, Kept!Homes, Papers!Homes, Kept!Pcs, Papers!Pcs
<1>5. Kept!Spec => []Kept!TypeOK
  BY PapersNames, Kept!DocumentsTyped
<1> QED BY <1>1, <1>2, <1>3, <1>4, <1>5, AlwaysTyped, OnboardAlways, ScreenAlways, ReviewAlways, PapersSpec, PTL DEF AllTyped
=============================================================================
