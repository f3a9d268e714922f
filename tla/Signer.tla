------------------------------- MODULE Signer -------------------------------
(***************************************************************************)
(* The keys the backend signs with and the nonces of their transactions    *)
(* (signer.service.ts, tx.service.ts).                                     *)
(*                                                                         *)
(* Every role has one key, and every instance of the program keeps one     *)
(* NonceManager for it: it asks the chain once, hands out the answer plus  *)
(* the number of sends so far, and forgets both when it is reset.  Many    *)
(* requests send at once; each takes its nonce first and reaches the node  *)
(* later, after an estimate that may fail.  The NonceManager of ethers and *)
(* the node are external.                                                  *)
(***************************************************************************)
EXTENDS Naturals

CONSTANTS
  Roles,      \* keys: agent, deployer
  Instances,  \* instances of the program that share the keys
  Procs,      \* requests
  Home,       \* Home[p]: the instance that serves p
  Faults,     \* "estimate": the estimate of a call fails; "lostReply": the
              \* node took a transaction and the sender gets an error; "restart"
  MaxSends,   \* bound: calls of submit()
  None        \* no role; an answer that has not come

Nonces == 0..MaxSends
Asks == 1..MaxSends
Pcs == {"idle", "populate", "send", "failed", "wait"}

VARIABLES
  mined,   \* mined[r]: transactions of r in blocks, so the next nonce to be mined
  pool,    \* pool[r]: nonces of r at the node and in no block
  asked,   \* asked[r]: how often a manager of r asked the chain
  answer,  \* answer[r][n]: what it was told
  cache,   \* cache[i][r]: the question and the sends since; ask 0 after a reset
  pc, role,
  ticket,  \* ticket[p]: the question p waits for, and the sends before p
  sends    \* calls so far

chain == <<mined, pool>>
vars == <<chain, asked, answer, cache, pc, role, ticket, sends>>

Fresh == [ask |-> 0, delta |-> 0]

Init ==
  /\ mined = [r \in Roles |-> 0] /\ pool = [r \in Roles |-> {}]
  /\ asked = [r \in Roles |-> 0] /\ answer = [r \in Roles |-> [n \in Asks |-> None]]
  /\ cache = [i \in Instances |-> [r \in Roles |-> Fresh]]
  /\ pc = [p \in Procs |-> "idle"] /\ role = [p \in Procs |-> None]
  /\ ticket = [p \in Procs |-> Fresh] /\ sends = 0

At(p, point) == pc[p] = point
Goto(p, point) == pc' = [pc EXCEPT ![p] = point]

Finish(p) ==
  /\ Goto(p, "idle")
  /\ role' = [role EXCEPT ![p] = None] /\ ticket' = [ticket EXCEPT ![p] = Fresh]

\* The nonces below n are all in a block or at the node.
Reaches(r, n) == mined[r] =< n /\ mined[r]..(n - 1) \subseteq pool[r]

\* getTransactionCount("pending"): the first nonce the node waits for.
NextNonce(r) == CHOOSE n \in Nonces : Reaches(r, n) /\ n \notin pool[r]

-----------------------------------------------------------------------------
(* NonceManager.sendTransaction. *)

\* getNonce() and increment() run before the first await: the first send since
\* a reset asks the chain, the others share its question.
Submit(p, r) ==
  LET mine == cache[Home[p]][r]
      new == mine.ask = 0
      now == [ask |-> IF new THEN asked[r] + 1 ELSE mine.ask, delta |-> mine.delta] IN
  /\ At(p, "idle") /\ sends < MaxSends
  /\ sends' = sends + 1
  /\ role' = [role EXCEPT ![p] = r]
  /\ asked' = IF new THEN [asked EXCEPT ![r] = @ + 1] ELSE asked
  /\ ticket' = [ticket EXCEPT ![p] = now]
  /\ cache' = [cache EXCEPT ![Home[p]][r] = [now EXCEPT !.delta = @ + 1]]
  /\ Goto(p, "populate")
  /\ UNCHANGED <<chain, answer>>

\* The chain answers the last question about r.
Answer(r) ==
  /\ \E n \in Asks :
       /\ n =< asked[r] /\ answer[r][n] = None
       /\ answer' = [answer EXCEPT ![r][n] = NextNonce(r)]
  /\ UNCHANGED <<chain, asked, cache, pc, role, ticket, sends>>

\* populateTransaction(): the estimate passes or fails.
Populate(p) ==
  /\ At(p, "populate")
  /\ \/ Goto(p, "send")
     \/ "estimate" \in Faults /\ Goto(p, "failed")
  /\ UNCHANGED <<chain, asked, answer, cache, role, ticket, sends>>

Nonce(p) == answer[role[p]][ticket[p].ask] + ticket[p].delta

\* The node takes a nonce that is not used yet, and keeps one that is ahead.
Broadcast(p) ==
  /\ At(p, "send") /\ answer[role[p]][ticket[p].ask] # None
  /\ IF Nonce(p) < mined[role[p]] \/ Nonce(p) \in pool[role[p]]
       THEN Goto(p, "failed") /\ UNCHANGED chain
       ELSE /\ pool' = [pool EXCEPT ![role[p]] = @ \cup {Nonce(p)}]
            /\ \/ Goto(p, "wait")
               \/ "lostReply" \in Faults /\ Goto(p, "failed")
            /\ UNCHANGED mined
  /\ UNCHANGED <<asked, answer, cache, role, ticket, sends>>

-----------------------------------------------------------------------------
(* TxService.submit. *)

\* Mutant: a failed send only gives its own nonce back.
ResetLast(i) ==
  cache' = [cache EXCEPT ![i] =
              [r \in Roles |-> [cache[i][r] EXCEPT !.delta = IF @ = 0 THEN 0 ELSE @ - 1]]]

\* resetNonces(): every manager of the instance forgets, whatever is in flight.
ResetNonces(i) == cache' = [cache EXCEPT ![i] = [r \in Roles |-> Fresh]]

\* The catch of a failed send.
Caught(p) ==
  /\ At(p, "failed")
  /\ ResetNonces(Home[p])
  /\ Finish(p)
  /\ UNCHANGED <<chain, asked, answer, sends>>

\* tx.wait() returns when the transaction is in a block.
Wait(p) ==
  /\ At(p, "wait") /\ Nonce(p) < mined[role[p]]
  /\ Finish(p)
  /\ UNCHANGED <<chain, asked, answer, cache, sends>>

-----------------------------------------------------------------------------
\* A block takes the next nonce of a key.
Mine(r) ==
  /\ mined[r] \in pool[r]
  /\ pool' = [pool EXCEPT ![r] = @ \ {mined[r]}]
  /\ mined' = [mined EXCEPT ![r] = @ + 1]
  /\ UNCHANGED <<asked, answer, cache, pc, role, ticket, sends>>

\* An instance restarts: its requests and its managers are gone.
Restart(i) ==
  /\ "restart" \in Faults
  /\ \E p \in Procs : Home[p] = i /\ ~At(p, "idle")
  /\ pc' = [p \in Procs |-> IF Home[p] = i THEN "idle" ELSE pc[p]]
  /\ role' = [p \in Procs |-> IF Home[p] = i THEN None ELSE role[p]]
  /\ ticket' = [p \in Procs |-> IF Home[p] = i THEN Fresh ELSE ticket[p]]
  /\ cache' = [cache EXCEPT ![i] = [r \in Roles |-> Fresh]]
  /\ UNCHANGED <<chain, asked, answer, sends>>

Next ==
  \/ \E p \in Procs : \/ \E r \in Roles : Submit(p, r)
                      \/ Populate(p) \/ Broadcast(p) \/ Caught(p) \/ Wait(p)
  \/ \E r \in Roles : Answer(r) \/ Mine(r)
  \/ \E i \in Instances : Restart(i)

Spec == Init /\ [][Next]_vars

-----------------------------------------------------------------------------
(* Properties. *)

\* Every variable has its type.
TypeOK ==
  /\ mined \in [Roles -> Nonces] /\ pool \in [Roles -> SUBSET Nonces]
  /\ asked \in [Roles -> Nonces]
  /\ answer \in [Roles -> [Asks -> Nonces \cup {None}]]
  /\ cache \in [Instances -> [Roles -> [ask : Nonces, delta : Nonces]]]
  /\ pc \in [Procs -> Pcs] /\ role \in [Procs -> Roles \cup {None}]
  /\ ticket \in [Procs -> [ask : Nonces, delta : Nonces]]
  /\ sends \in Nonces

\* p has taken a nonce of r from its manager and nobody knows its end yet.
InFlight(p, i, r) == Home[p] = i /\ role[p] = r /\ pc[p] \in {"populate", "send", "failed"}

\* One revert does not wedge what follows (tx.service.ts:48-50): once the sends
\* an instance has under way have ended, the nonce it hands out next is not
\* behind a gap, so the node can mine it without a send that nobody makes.
NeverWedged ==
  \A i \in Instances, r \in Roles :
    LET c == cache[i][r] IN
    (c.ask # 0 /\ answer[r][c.ask] # None /\ ~\E p \in Procs : InFlight(p, i, r))
      => answer[r][c.ask] + c.delta =< NextNonce(r)
=============================================================================
