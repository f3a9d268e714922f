---------------------------- MODULE Distributions ----------------------------
(***************************************************************************)
(* Income payouts: an issuer declares an amount for an asset, it is split  *)
(* over the holders of the index by largest remainder, and each person     *)
(* claims what all wallets of that person are due.                         *)
(*                                                                         *)
(* A process is one HTTP call.  Amounts are integer paise and balances     *)
(* whole tokens.  Whether the caller runs the asset is asked before        *)
(* anything here (Staff!AssertOperates).                                   *)
(***************************************************************************)
EXTENDS Integers, FiniteSets

CONSTANTS
  Pots,      \* ids of declarations
  Wallets,
  Persons,
  NoPerson,
  Owner,     \* Owner[w]: whose wallet w is
  Primary,   \* Primary[x]: the primary wallet of a person
  Amounts,   \* amounts that are declared
  Procs,
  Roles,     \* what a connection may be to the row policies: "owner", "app_tenant"
  Faults,
  Issued     \* the balances the index may start from

ASSUME WalletsAssumption == IsFiniteSet(Wallets)
ASSUME OwnerAssumption == Owner \in [Wallets -> Persons] /\ NoPerson \notin Persons
ASSUME PrimaryAssumption ==
  /\ Primary \in [Persons -> Wallets]
  /\ \A x \in Persons : Owner[Primary[x]] = x
ASSUME AmountsAssumption == Amounts \subseteq Nat \ {0}
ASSUME IssuedAssumption == Issued \subseteq [Wallets -> Nat]

RowStatuses == {"none", "claimable", "claimed"}
Pcs == {"idle", "holders", "declare", "claim"}

VARIABLES
  balance,   \* balances: what the index says of the token
  linked,    \* the wallets linked to their person
  total,     \* distributions.total_amount; 0 where there is no row
  snapshot,  \* the balances a declaration was computed from
  share,     \* distribution_claims.amount
  status,    \* distribution_claims.status; "none" where there is no row
  collected, \* what claims were answered with, per row
  pc, person, amount, holders, wallets

rowVars == <<total, snapshot, share, status>>
procVars == <<person, amount, holders, wallets>>
vars == <<balance, linked, rowVars, collected, pc, procVars>>

Zero == [w \in Wallets |-> 0]

\* Every variable has its type.
TypeOK ==
  /\ balance \in [Wallets -> Nat]
  /\ linked \in SUBSET Wallets
  /\ total \in [Pots -> Nat]
  /\ snapshot \in [Pots -> [Wallets -> Nat]]
  /\ share \in [Pots -> [Wallets -> Nat]]
  /\ status \in [Pots -> [Wallets -> RowStatuses]]
  /\ collected \in [Pots -> [Wallets -> Nat]]
  /\ pc \in [Procs -> Pcs]
  /\ person \in [Procs -> Persons \cup {NoPerson}]
  /\ amount \in [Procs -> Nat]
  /\ holders \in [Procs -> [Wallets -> Nat]]
  /\ wallets \in [Procs -> SUBSET Wallets]

Init ==
  /\ balance \in Issued
  /\ linked = {Primary[x] : x \in Persons}
  /\ total = [d \in Pots |-> 0]
  /\ snapshot = [d \in Pots |-> Zero]
  /\ share = [d \in Pots |-> Zero]
  /\ status = [d \in Pots |-> [w \in Wallets |-> "none"]]
  /\ collected = [d \in Pots |-> Zero]
  /\ pc = [p \in Procs |-> "idle"]
  /\ person = [p \in Procs |-> NoPerson]
  /\ amount = [p \in Procs |-> 0]
  /\ holders = [p \in Procs |-> Zero]
  /\ wallets = [p \in Procs |-> {}]

At(p, here) == pc[p] = here
Goto(p, next) == pc' = [pc EXCEPT ![p] = next]

Finish(p) ==
  /\ Goto(p, "idle")
  /\ person' = [person EXCEPT ![p] = NoPerson]
  /\ amount' = [amount EXCEPT ![p] = 0]
  /\ holders' = [holders EXCEPT ![p] = Zero]
  /\ wallets' = [wallets EXCEPT ![p] = {}]

-----------------------------------------------------------------------------
(* allocatePayout *)

\* The units of f, told apart; counting them adds f up without recursion.
Units(f) == UNION {{w} \X (1..f[w]) : w \in Wallets}
Total(f) == Cardinality(Units(f))

Floor(paise, bal, w) == (paise * bal[w]) \div Total(bal)
Remainder(paise, bal, w) == (paise * bal[w]) % Total(bal)
Leftover(paise, bal) == paise - Total([w \in Wallets |-> Floor(paise, bal, w)])
Held(bal) == {w \in Wallets : bal[w] # 0}

\* Who gets one paisa of the leftover.  The query does not order the holders,
\* so a tie may go either way.
Lucky(paise, bal) ==
  {lucky \in SUBSET Held(bal) :
     /\ Cardinality(lucky) = Leftover(paise, bal)
     /\ \A w \in lucky, v \in Held(bal) \ lucky :
          Remainder(paise, bal, v) <= Remainder(paise, bal, w)}

\* Mutant: every share is rounded down.
AllocateFloor(paise, bal, lucky) == [w \in Wallets |-> Floor(paise, bal, w)]

\* Mutant: the whole leftover goes to one holder.
AllocateToOne(paise, bal, lucky) ==
  [w \in Wallets |-> Floor(paise, bal, w) +
     IF lucky # {} /\ w = CHOOSE v \in lucky : TRUE THEN Leftover(paise, bal) ELSE 0]

Allocate(paise, bal, lucky) ==
  [w \in Wallets |-> Floor(paise, bal, w) + IF w \in lucky THEN 1 ELSE 0]

-----------------------------------------------------------------------------
(* declare *)

Declare(p, a) ==
  /\ At(p, "idle") /\ Goto(p, "holders")
  /\ amount' = [amount EXCEPT ![p] = a]
  /\ UNCHANGED <<balance, linked, rowVars, collected, person, holders, wallets>>

\* The cap table at one instant; without a token there is nobody to owe.
ReadHolders(p) ==
  /\ At(p, "holders")
  /\ \/ Held(balance) = {} /\ Finish(p)
     \/ /\ Held(balance) # {}
        /\ holders' = [holders EXCEPT ![p] = balance]
        /\ Goto(p, "declare")
        /\ UNCHANGED <<person, amount, wallets>>
  /\ UNCHANGED <<balance, linked, rowVars, collected>>

\* The declaration and its claims are one transaction.
WriteDeclaration(p, d, lucky) ==
  /\ total[d] = 0
  /\ lucky \in Lucky(amount[p], holders[p])
  /\ total' = [total EXCEPT ![d] = amount[p]]
  /\ snapshot' = [snapshot EXCEPT ![d] = holders[p]]
  /\ share' = [share EXCEPT ![d] = Allocate(amount[p], holders[p], lucky)]
  /\ status' = [status EXCEPT ![d] =
                  [w \in Wallets |-> IF w \in Held(holders[p]) THEN "claimable" ELSE "none"]]

WriteDeclare(p) ==
  /\ At(p, "declare")
  /\ \/ \E d \in Pots, lucky \in SUBSET Wallets : WriteDeclaration(p, d, lucky)
     \/ "db" \in Faults /\ UNCHANGED rowVars
  /\ Finish(p)
  /\ UNCHANGED <<balance, linked, collected>>

-----------------------------------------------------------------------------
(* claim *)

\* walletsOf: resolvePrimaryWallet, then walletsForPerson.  A link is never
\* taken back, so the two reads commute with everything else.
Claim(p, x) ==
  /\ At(p, "idle") /\ Goto(p, "claim")
  /\ person' = [person EXCEPT ![p] = x]
  /\ wallets' = [wallets EXCEPT ![p] = {w \in linked : Owner[w] = x}]
  /\ UNCHANGED <<balance, linked, rowVars, collected, amount, holders>>

\* The row policy of app_tenant admits rows of the session's wallet only, which
\* is the primary one: the other linked wallets are passed over.
Visible(p, role) ==
  IF role = "owner" THEN wallets[p] ELSE wallets[p] \cap {Primary[person[p]]}

\* Mutant: a row that was claimed is claimed again.
RowsOf(p, role) ==
  {r \in Pots \X Wallets : r[2] \in Visible(p, role) /\ status[r[1]][r[2]] # "none"}

\* The rows the one UPDATE touches.
Claimable(p, role) ==
  {r \in Pots \X Wallets : r[2] \in Visible(p, role) /\ status[r[1]][r[2]] = "claimable"}

TakeRows(p, rows) ==
  /\ At(p, "claim")
  /\ status' = [d \in Pots |-> [w \in Wallets |->
                  IF <<d, w>> \in rows THEN "claimed" ELSE status[d][w]]]
  /\ collected' = [d \in Pots |-> [w \in Wallets |->
                     IF <<d, w>> \in rows THEN collected[d][w] + share[d][w] ELSE collected[d][w]]]
  /\ Finish(p)
  /\ UNCHANGED <<balance, linked, total, snapshot, share>>

ClaimAll(p) == \E role \in Roles : TakeRows(p, Claimable(p, role))

-----------------------------------------------------------------------------
(* Elsewhere: holders trade and the index follows; wallets are linked. *)

Trade(v, w) ==
  /\ v # w /\ balance[v] > 0
  /\ balance' = [balance EXCEPT ![v] = @ - 1, ![w] = @ + 1]
  /\ UNCHANGED <<linked, rowVars, collected, pc, procVars>>

LinkWallet(w) ==
  /\ linked' = linked \cup {w}
  /\ UNCHANGED <<balance, rowVars, collected, pc, procVars>>

-----------------------------------------------------------------------------
Advance(p) == ReadHolders(p) \/ WriteDeclare(p) \/ ClaimAll(p)

Call(p) ==
  \/ \E a \in Amounts : Declare(p, a)
  \/ \E x \in Persons : Claim(p, x)

Elsewhere ==
  \/ \E v, w \in Wallets : Trade(v, w)
  \/ \E w \in Wallets : LinkWallet(w)

Next == (\E p \in Procs : Advance(p) \/ Call(p)) \/ Elsewhere

Spec == Init /\ [][Next]_vars

-----------------------------------------------------------------------------
(* Properties. *)

Declared == {d \in Pots : total[d] # 0}

\* A declared payout is owed to the last paisa, whatever happened to the
\* balances between the read of the holders and the write of the claims.
WholePot == \A d \in Declared : Total(share[d]) = total[d]

\* Shares are pro rata to one snapshot: nobody is a whole paisa off, and who
\* held less is never owed more.
ProRata ==
  \A d \in Declared : LET supply == Total(snapshot[d]) IN
    \A w \in Wallets :
      /\ share[d][w] * supply - total[d] * snapshot[d][w] \in (1 - supply)..(supply - 1)
      /\ \A v \in Wallets : snapshot[d][v] < snapshot[d][w] => share[d][v] <= share[d][w]

\* However many claims of a person run at once, a share is answered to one of
\* them, whole, exactly if its row reads claimed.
PaidOnce ==
  \A d \in Pots, w \in Wallets :
    collected[d][w] = IF status[d][w] = "claimed" THEN share[d][w] ELSE 0

Promise == INSTANCE Payout WITH declared <- Declared, owed <- share, paid <- collected

\* Declaring and claiming keep the promise of Payout.
KeepsPromise == Promise!PayoutSpec

\* What was declared is owed to the last paisa and paid to nobody twice.
PotIsPaidOut == WholePot /\ PaidOnce
=============================================================================
