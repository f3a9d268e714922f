-------------------------------- MODULE Indexer --------------------------------
(***************************************************************************)
(* The indexer: one process at a time follows the chain in ranges of       *)
(* blocks and keeps the transfers of one token and the balances they add   *)
(* up to, with a cursor, the hash of the cursor block and a ledger of      *)
(* earlier hashes to find the fork point of a reorg.                       *)
(*                                                                         *)
(* Every await on the chain or the database ends a step of a process.      *)
(* Blocks are numbered from 1 (the code: 0), so the cursor before the      *)
(* first block is 0.  A block is the set of transactions of the token in   *)
(* it, and its hash is the chain up to it: equal hashes, equal history.    *)
(***************************************************************************)
EXTENDS Integers, FiniteSets, Sequences

CONSTANTS
  Procs,        \* instances of the server with INDEXER_ENABLED
  NoProc, Dead, \* no lease; the lease of an instance that died
  Txs,          \* transactions that emit one Transfer of one unit
  From, To,     \* From[t], To[t]: an address, or Zero
  Holders, Zero,
  Chunk,        \* INDEXER_CHUNK
  Confirmations, \* INDEXER_CONFIRMATIONS
  ReorgDepth,   \* INDEXER_REORG_DEPTH
  Retention,    \* INDEXER_HASH_RETENTION
  NoCursor,     \* indexer_state has no row
  Faults,       \* what may go wrong
  MaxHeight,    \* bound: blocks
  MaxReorgs,    \* bound: reorgs
  MaxFails      \* bound: failures, crashes and stale answers

ASSUME SizesAssumption == Chunk \in Nat \ {0} /\ Confirmations \in Nat
                          /\ ReorgDepth \in Nat \ {0} /\ Retention \in Nat \ {0}
                          /\ MaxHeight \in Nat /\ MaxReorgs \in Nat /\ MaxFails \in Nat
ASSUME TxsAssumption == IsFiniteSet(Txs)
ASSUME AddressAssumption == From \in [Txs -> Holders \cup {Zero}] /\ To \in [Txs -> Holders \cup {Zero}]
ASSUME NoneAssumption == NoProc \notin Procs /\ Dead \notin Procs /\ NoCursor \notin Nat

Heights == 1..MaxHeight
Net(S, a) == Cardinality({t \in S : To[t] = a}) - Cardinality({t \in S : From[t] = a})
Upto(c, k) == UNION {c[b] : b \in 1..k}

\* Chains that can be mined: a transaction is in one block, and nobody spends
\* what he does not have.
Chains ==
  {c \in UNION {[1..n -> SUBSET Txs] : n \in 0..MaxHeight} :
     /\ \A i, j \in DOMAIN c : i # j => c[i] \cap c[j] = {}
     /\ \A k \in DOMAIN c, a \in Holders : Net(Upto(c, k), a) >= 0}

NoHash == <<>>
NoWhere == [t \in Txs |-> 0]
NoLocals == [safe |-> 0, at |-> 0, hash |-> NoHash, seen |-> [b \in Heights |-> NoHash],
             left |-> {}, ancestor |-> 0, start |-> 0, events |-> NoWhere]

VARIABLES
  chain,   \* the canonical chain
  top,     \* its highest block so far
  reorgs,  \* reorgs so far
  deployed, \* the token has its row in tokens
  cursor,  \* indexer_state.last_indexed_block
  hash,    \* indexer_state.last_indexed_hash
  behind,  \* chain_behind_since: "no", "seen", or "ripe" after the confirm window
  stored,  \* transfers: the block a transaction is stored at, 0 for none
  balance, \* balances
  ledger,  \* indexer_block_hashes
  holder,  \* the owner in the indexer's worker_lease row
  pc,      \* what a process does next
  loc,     \* what its sync has read
  fails    \* failures so far

chainVars == <<chain, top, reorgs, deployed>>
indexVars == <<cursor, hash, behind, stored, balance, ledger>>
procVars == <<holder, pc, loc, fails>>
vars == <<chainVars, indexVars, procVars>>

SyncPcs == {"list", "head", "ensure", "mark", "clear", "reset", "seed", "reorg", "check", "hashes",
            "walk", "rewind", "prune", "cursor", "query", "apply", "endBlock", "advance", "record"}
Busy(p) == pc[p] \in SyncPcs

\* Every variable has its type; the hash of the cursor, where there is one, is
\* that of a block at the cursor.
TypeOK ==
  /\ chain \in Chains /\ top \in 0..MaxHeight /\ reorgs \in 0..MaxReorgs /\ deployed \in BOOLEAN
  /\ cursor \in 0..MaxHeight \cup {NoCursor}
  /\ hash \in Chains /\ (hash # NoHash => Len(hash) = cursor)
  /\ behind \in {"no", "seen", "ripe"}
  /\ stored \in [Txs -> 0..MaxHeight]
  /\ balance \in [Holders -> Int]
  /\ \A b \in Heights : ledger[b] \in Chains /\ Len(ledger[b]) \in {0, b}
  /\ holder \in Procs \cup {NoProc, Dead}
  /\ pc \in [Procs -> SyncPcs \cup {"down", "standby", "asleep", "idle"}]
  /\ DOMAIN loc = Procs
  /\ fails \in 0..MaxFails

Init ==
  /\ chain = <<>> /\ top = 0 /\ reorgs = 0 /\ deployed = FALSE
  /\ cursor = NoCursor /\ hash = NoHash /\ behind = "no"
  /\ stored = NoWhere
  /\ balance = [a \in Holders |-> 0]
  /\ ledger = [b \in Heights |-> NoHash]
  /\ holder = NoProc
  /\ pc = [p \in Procs |-> "down"]
  /\ loc = [p \in Procs |-> NoLocals]
  /\ fails = 0

-----------------------------------------------------------------------------
(* The chain. *)

Hash(b) == IF b \in 1..Len(chain) THEN SubSeq(chain, 1, b) ELSE NoHash
Where(c, lo, hi) == [t \in Txs |-> LET B == {b \in lo..hi : b \in DOMAIN c /\ t \in c[b]}
                                   IN IF B = {} THEN 0 ELSE CHOOSE b \in B : TRUE]

\* The reorg leaves what an unfinished sync has read: blocks it is reading, the
\* cursor block of an index without hash, and transfers above the cursor.
Sealed(k) ==
  /\ \A p \in Procs : Busy(p) => loc[p].safe <= k
  /\ cursor \in Nat /\ hash = NoHash => cursor <= k
  /\ \A t \in Txs : cursor \in Nat /\ stored[t] > cursor => stored[t] <= k

\* The chain is now c, with other blocks above k; it goes back to a fork whose hash
\* the ledger still has only with "return".
Become(k, c) ==
  /\ \/ "return" \in Faults
     \/ \A b \in k + 1..Len(c) : ledger[b] # SubSeq(c, 1, b)
  /\ chain' = c /\ top' = IF Len(c) > top THEN Len(c) ELSE top

Mine ==
  /\ \E block \in SUBSET Txs : Append(chain, block) \in Chains /\ Become(Len(chain), Append(chain, block))
  /\ UNCHANGED <<reorgs, deployed, indexVars, procVars>>

\* The blocks above k are replaced by others, no deeper than ReorgDepth below
\* the highest block the chain ever had.
Reorg ==
  /\ reorgs < MaxReorgs /\ reorgs' = reorgs + 1
  /\ \E k \in 0..Len(chain) - 1 :
       /\ top - k <= ReorgDepth
       /\ "unsealed" \in Faults \/ Sealed(k)
       /\ \E c \in Chains :
            /\ Len(c) >= k /\ SubSeq(c, 1, k) = SubSeq(chain, 1, k)
            /\ Len(c) > k => c[k + 1] # chain[k + 1]
            /\ Become(k, c)
  /\ UNCHANGED <<deployed, indexVars, procVars>>

\* A deployment records the token; the list of tokens only grows.
Deploy ==
  /\ ~deployed /\ deployed' = TRUE
  /\ UNCHANGED <<chain, top, reorgs, indexVars, procVars>>

-----------------------------------------------------------------------------
(* The lease and the poll timer. *)

At(p, here) == pc[p] = here
Goto(p, next) == pc' = [pc EXCEPT ![p] = next]
Keep(p, r) == loc' = [loc EXCEPT ![p] = r]
Rest(p, next) == Goto(p, next) /\ Keep(p, NoLocals)
Step(p) == UNCHANGED <<chainVars, holder, fails>>

Free(p) == holder \in {p, NoProc}

\* onModuleInit: whoever does not get the lease, also that of an owner who died,
\* never asks again.
Start(p) ==
  /\ At(p, "down")
  /\ \/ Free(p) /\ holder' = p /\ Rest(p, "list")
     \/ ~Free(p) /\ Rest(p, "standby") /\ UNCHANGED holder
  /\ UNCHANGED <<chainVars, indexVars, fails>>

\* start: without a token the timer is never set, and the process sleeps for good.
List(p) ==
  /\ At(p, "list") /\ Rest(p, IF deployed THEN "head" ELSE "asleep")
  /\ UNCHANGED indexVars /\ Step(p)

\* The timer: the lease is renewed and the tokens are listed, or the timer is cleared.
Tick(p) ==
  /\ At(p, "idle")
  /\ \/ Free(p) /\ holder' = p /\ Rest(p, IF deployed THEN "head" ELSE "idle")
     \/ ~Free(p) /\ Rest(p, "standby") /\ UNCHANGED holder
  /\ UNCHANGED <<chainVars, indexVars, fails>>

\* A lease runs out when its owner is dead, or asleep and not renewing it.
Lapse ==
  /\ holder = Dead \/ \E p \in Procs : holder = p /\ At(p, "asleep")
  /\ holder' = NoProc
  /\ UNCHANGED <<chainVars, indexVars, pc, loc, fails>>

-----------------------------------------------------------------------------
(* One sync of the token. *)

\* getBlockNumber, or the number of a node that lags.
ReadHead(p) ==
  /\ At(p, "head")
  /\ \E n \in 0..Len(chain) :
       /\ \/ n = Len(chain) /\ UNCHANGED fails
          \/ /\ n < Len(chain) /\ "lag" \in Faults
             /\ fails < MaxFails /\ fails' = fails + 1
       /\ \/ n < Confirmations + 1 /\ Rest(p, "idle")
          \/ /\ n >= Confirmations + 1 /\ Goto(p, "ensure")
             /\ Keep(p, [NoLocals EXCEPT !.safe = n - Confirmations])
  /\ UNCHANGED <<chainVars, indexVars, holder>>

\* Mutant: a head behind the cursor is only ever watched.
EnsureWatches(p) ==
  /\ At(p, "ensure")
  /\ \/ cursor = NoCursor /\ Goto(p, "seed")
     \/ cursor \in Nat /\ Goto(p, IF loc[p].safe < cursor THEN "mark" ELSE "clear")
  /\ UNCHANGED <<indexVars, loc>> /\ Step(p)

\* ensureState reads the state and chooses.
Ensure(p) ==
  /\ At(p, "ensure")
  /\ \/ cursor = NoCursor /\ Goto(p, "seed")
     \/ cursor \in Nat /\ loc[p].safe < cursor
        /\ Goto(p, IF behind = "no" THEN "mark" ELSE IF behind = "seen" THEN "reorg" ELSE "reset")
     \/ cursor \in Nat /\ loc[p].safe >= cursor
        /\ Goto(p, IF behind = "no" THEN "reorg" ELSE "clear")
  /\ UNCHANGED <<indexVars, loc>> /\ Step(p)

Mark(p) ==
  /\ At(p, "mark") /\ Goto(p, "reorg")
  /\ behind' = IF cursor # NoCursor /\ behind = "no" THEN "seen" ELSE behind
  /\ UNCHANGED <<cursor, hash, stored, balance, ledger, loc>> /\ Step(p)

Clear(p) ==
  /\ At(p, "clear") /\ Goto(p, "reorg")
  /\ behind' = "no"
  /\ UNCHANGED <<cursor, hash, stored, balance, ledger, loc>> /\ Step(p)

\* resetTokenData, in one transaction.
ResetIndex(p) ==
  /\ At(p, "reset") /\ Goto(p, "seed")
  /\ cursor' = NoCursor /\ hash' = NoHash /\ behind' = "no"
  /\ stored' = NoWhere
  /\ balance' = [a \in Holders |-> 0]
  /\ ledger' = [b \in Heights |-> NoHash]
  /\ UNCHANGED loc /\ Step(p)

\* upsertState: a row that is there keeps its cursor.
Seed(p) ==
  /\ At(p, "seed") /\ Goto(p, "reorg")
  /\ cursor' = IF cursor = NoCursor THEN 0 ELSE cursor
  /\ UNCHANGED <<hash, behind, stored, balance, ledger, loc>> /\ Step(p)

-----------------------------------------------------------------------------
(* handleReorg *)

ReorgRead(p) ==
  /\ At(p, "reorg")
  /\ \/ cursor \in Heights /\ hash # NoHash /\ loc[p].safe >= cursor
        /\ Keep(p, [loc[p] EXCEPT !.at = cursor, !.hash = hash]) /\ Goto(p, "check")
     \/ ~(cursor \in Heights /\ hash # NoHash /\ loc[p].safe >= cursor)
        /\ Goto(p, "cursor") /\ UNCHANGED loc
  /\ UNCHANGED indexVars /\ Step(p)

\* getBlock(b) answers h; a node that lags knows no such block.
Ask(b, h) ==
  \/ h = Hash(b) /\ UNCHANGED fails
  \/ h = NoHash /\ "lag" \in Faults /\ fails < MaxFails /\ fails' = fails + 1

\* Mutant: a block at the cursor's height is enough.
CheckHeight(p) ==
  /\ At(p, "check")
  /\ \E h \in {Hash(loc[p].at), NoHash} :
       Ask(loc[p].at, h) /\ Goto(p, IF h # NoHash THEN "cursor" ELSE "hashes")
  /\ UNCHANGED <<chainVars, indexVars, holder, loc>>

Check(p) ==
  /\ At(p, "check")
  /\ \E h \in {Hash(loc[p].at), NoHash} :
       Ask(loc[p].at, h) /\ Goto(p, IF h = loc[p].hash THEN "cursor" ELSE "hashes")
  /\ UNCHANGED <<chainVars, indexVars, holder, loc>>

\* recentBlockHashes: the newest Retention rows; the cursor's own is skipped.
Newest(S) == {b \in S : Cardinality({x \in S : x > b}) < Retention}
ReadHashes(p) ==
  /\ At(p, "hashes") /\ Goto(p, "walk")
  /\ Keep(p, [loc[p] EXCEPT !.seen = ledger,
                !.left = {b \in Newest({x \in Heights : ledger[x] # NoHash}) : b < loc[p].at}])
  /\ UNCHANGED indexVars /\ Step(p)

\* The newest block whose hash still matches, or a bounded rewind.
Walk(p) ==
  /\ At(p, "walk")
  /\ \/ /\ loc[p].left = {} /\ Goto(p, "rewind")
        /\ Keep(p, [loc[p] EXCEPT !.ancestor =
                      IF loc[p].at > ReorgDepth THEN loc[p].at - ReorgDepth ELSE 0])
        /\ UNCHANGED fails
     \/ \E b \in loc[p].left : \E h \in {Hash(b), NoHash} :
        /\ \A x \in loc[p].left : x <= b
        /\ Ask(b, h)
        /\ IF h = loc[p].seen[b]
           THEN Goto(p, "rewind") /\ Keep(p, [loc[p] EXCEPT !.ancestor = b])
           ELSE Keep(p, [loc[p] EXCEPT !.left = @ \ {b}]) /\ UNCHANGED pc
  /\ UNCHANGED <<chainVars, indexVars, holder>>

Rows == {t \in Txs : stored[t] # 0}
Above(b) == {t \in Rows : stored[t] > b}

\* Mutant: the hash of the cursor is not cleared.
RewindKeepsHash(p) ==
  /\ At(p, "rewind") /\ Goto(p, "prune")
  /\ LET gone == Above(loc[p].ancestor) IN
     /\ balance' = [a \in Holders |-> balance[a] - Net(gone, a)]
     /\ stored' = [t \in Txs |-> IF t \in gone THEN 0 ELSE stored[t]]
  /\ cursor' = IF cursor = NoCursor THEN NoCursor ELSE loc[p].ancestor
  /\ UNCHANGED <<hash, behind, ledger, loc>> /\ Step(p)

\* rewindToBlock, in one transaction.
Rewind(p) ==
  /\ At(p, "rewind") /\ Goto(p, "prune")
  /\ LET gone == Above(loc[p].ancestor) IN
     /\ balance' = [a \in Holders |-> balance[a] - Net(gone, a)]
     /\ stored' = [t \in Txs |-> IF t \in gone THEN 0 ELSE stored[t]]
  /\ cursor' = IF cursor = NoCursor THEN NoCursor ELSE loc[p].ancestor
  /\ hash' = NoHash
  /\ UNCHANGED <<behind, ledger, loc>> /\ Step(p)

Prune(p) ==
  /\ At(p, "prune") /\ Goto(p, "cursor")
  /\ ledger' = [b \in Heights |-> IF b > loc[p].ancestor THEN NoHash ELSE ledger[b]]
  /\ UNCHANGED <<cursor, hash, behind, stored, balance, loc>> /\ Step(p)

-----------------------------------------------------------------------------
(* The chunks. *)

End(p) == IF loc[p].start + Chunk - 1 < loc[p].safe THEN loc[p].start + Chunk - 1 ELSE loc[p].safe

Chunks(p, start) ==
  \/ start > loc[p].safe /\ Rest(p, "idle")
  \/ start <= loc[p].safe /\ Goto(p, "query")
     /\ Keep(p, [NoLocals EXCEPT !.safe = loc[p].safe, !.start = start])

ReadCursor(p) ==
  /\ At(p, "cursor")
  /\ Chunks(p, IF cursor = NoCursor THEN 1 ELSE cursor + 1)
  /\ UNCHANGED indexVars /\ Step(p)

Query(p) ==
  /\ At(p, "query") /\ Goto(p, "apply")
  /\ Keep(p, [loc[p] EXCEPT !.events = Where(chain, loc[p].start, End(p))])
  /\ UNCHANGED indexVars /\ Step(p)

\* Mutant: a transfer that is stored already moves the balances again.
ApplyAgain(p) ==
  /\ At(p, "apply") /\ Goto(p, "endBlock")
  /\ LET new == {t \in Txs : loc[p].events[t] # 0} IN
     /\ stored' = [t \in Txs |-> IF t \in new THEN loc[p].events[t] ELSE stored[t]]
     /\ balance' = [a \in Holders |-> balance[a] + Net(new, a)]
  /\ UNCHANGED <<cursor, hash, behind, ledger, loc>> /\ Step(p)

\* applyTransfers, in one transaction: only a transfer not stored yet counts.
Apply(p) ==
  /\ At(p, "apply") /\ Goto(p, "endBlock")
  /\ LET new == {t \in Txs : loc[p].events[t] # 0 /\ stored[t] = 0} IN
     /\ stored' = [t \in Txs |-> IF t \in new THEN loc[p].events[t] ELSE stored[t]]
     /\ balance' = [a \in Holders |-> balance[a] + Net(new, a)]
  /\ UNCHANGED <<cursor, hash, behind, ledger, loc>> /\ Step(p)

EndBlock(p) ==
  /\ At(p, "endBlock") /\ Goto(p, "advance")
  /\ \E h \in {Hash(End(p)), NoHash} : Ask(End(p), h) /\ Keep(p, [loc[p] EXCEPT !.hash = h])
  /\ UNCHANGED <<chainVars, indexVars, holder>>

\* setLastIndexedBlock stamps the cursor with what getBlock(end) answered.
Advance(p) ==
  /\ At(p, "advance") /\ Goto(p, "record")
  /\ cursor # NoCursor => cursor' = End(p) /\ hash' = loc[p].hash
  /\ cursor = NoCursor => UNCHANGED <<cursor, hash>>
  /\ UNCHANGED <<behind, stored, balance, ledger, loc>> /\ Step(p)

\* recordBlockHash, and on to the next chunk.
Record(p) ==
  /\ At(p, "record")
  /\ ledger' = IF loc[p].hash = NoHash THEN ledger
               ELSE [b \in Heights |-> IF b = End(p) THEN loc[p].hash
                                       ELSE IF b < End(p) - Retention THEN NoHash ELSE ledger[b]]
  /\ Chunks(p, loc[p].start + Chunk)
  /\ UNCHANGED <<cursor, hash, behind, stored, balance>> /\ Step(p)

-----------------------------------------------------------------------------
(* Failures and time. *)

\* A call fails: the sync is given up until the next tick, also the first one and
\* the list before it, which set the timer then.
Fail(p) ==
  /\ "fail" \in Faults /\ fails < MaxFails /\ fails' = fails + 1
  /\ Busy(p) /\ Rest(p, "idle")
  /\ UNCHANGED <<chainVars, indexVars, holder>>

\* The process dies, or is stopped and releases its lease.
Crash(p) ==
  /\ "crash" \in Faults /\ fails < MaxFails /\ fails' = fails + 1
  /\ pc[p] # "down" /\ Rest(p, "down")
  /\ \E h \in {Dead, NoProc} : holder' = IF holder = p THEN h ELSE holder
  /\ UNCHANGED <<chainVars, indexVars>>

\* The head has been behind for INDEXER_RESET_CONFIRM_MS.
Ripen ==
  /\ behind = "seen" /\ behind' = "ripe"
  /\ UNCHANGED <<chainVars, cursor, hash, stored, balance, ledger, procVars>>

-----------------------------------------------------------------------------
Sync(p) == \/ List(p) \/ ReadHead(p) \/ Ensure(p) \/ Mark(p) \/ Clear(p) \/ ResetIndex(p) \/ Seed(p)
           \/ ReorgRead(p) \/ Check(p) \/ ReadHashes(p) \/ Walk(p) \/ Rewind(p) \/ Prune(p)
           \/ ReadCursor(p) \/ Query(p) \/ Apply(p) \/ EndBlock(p)
           \/ Advance(p) \/ Record(p)

Next == \/ Mine \/ Reorg \/ Deploy \/ Lapse \/ Ripen
        \/ \E p \in Procs : Start(p) \/ Tick(p) \/ Sync(p) \/ Fail(p) \/ Crash(p)
Spec == Init /\ [][Next]_vars

\* Timers fire and calls are answered.  Nothing is assumed of who starts when.
Fairness == /\ \A p \in Procs : WF_vars(Tick(p) \/ Sync(p))
            /\ WF_vars(Ripen)
LiveSpec == Spec /\ Fairness

-----------------------------------------------------------------------------
(* Properties. *)

\* Whatever is replayed, rewound, reset and cut short, the balances are those of
\* the stored transfers.
BalancesAdd == \A a \in Holders : balance[a] = Net(Rows, a)

\* Up to a stamped cursor the index holds what the chain of the stamped block
\* holds, at the same heights: no transfer is missed, kept of a dead fork or moved.
IndexIsStamped ==
  hash # NoHash => \A b \in 1..cursor : {t \in Txs : stored[t] = b} = hash[b]

Polls(p) == Busy(p) \/ At(p, "idle")

\* While some process polls for a recorded token the index catches up: once the
\* chain is left alone it becomes the chain up to the safe head and stays so.  That
\* somebody polls is not promised: a process that started within the lease of a dead
\* one, or before the first deployment, never does.
CatchesUp ==
  <>[](deployed /\ \E p \in Procs : Polls(p)) =>
    <>[](Len(chain) > Confirmations =>
           /\ cursor = Len(chain) - Confirmations
           /\ stored = Where(chain, 1, cursor))
=============================================================================
