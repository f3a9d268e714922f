----------------------------- MODULE IndexerProofs -----------------------------
(***************************************************************************)
(* The balances of the indexer are those of the transfers it has stored,   *)
(* for any chain, any reorg at any time, and any failure; and a stamped    *)
(* index is the stamped chain, for reorgs that spare an unfinished sync.   *)
(*                                                                         *)
(* The balances.                                                           *)
(* Only three steps move the two tables: applyTransfers adds transfers     *)
(* that were not stored, rewindToBlock takes back transfers that are, and  *)
(* resetTokenData empties both.  Net is additive over disjoint sets, which *)
(* carries the sum through the first two.                                  *)
(***************************************************************************)
EXTENDS Indexer, FiniteSetTheorems, TLAPS

\* What a set of transfers moves is an integer.
LEMMA NetType == ASSUME NEW S \in SUBSET Txs, NEW a PROVE Net(S, a) \in Int
<1>1. /\ IsFiniteSet({t \in S : To[t] = a})
      /\ IsFiniteSet({t \in S : From[t] = a})
  <2>1. /\ {t \in S : To[t] = a} \subseteq Txs
        /\ {t \in S : From[t] = a} \subseteq Txs
    OBVIOUS
  <2> QED BY <2>1, FS_Subset, TxsAssumption
<1>2. /\ Cardinality({t \in S : To[t] = a}) \in Nat
      /\ Cardinality({t \in S : From[t] = a}) \in Nat
  BY <1>1, FS_CardinalityType
<1> QED BY <1>2 DEF Net

\* Counting is additive over disjoint sets of transactions.
LEMMA CountAdd ==
  ASSUME NEW S \in SUBSET Txs, NEW T \in SUBSET Txs, S \cap T = {}
  PROVE  /\ Cardinality(S) \in Nat /\ Cardinality(T) \in Nat
         /\ Cardinality(S \cup T) = Cardinality(S) + Cardinality(T)
<1>1. IsFiniteSet(S) /\ IsFiniteSet(T)
  BY FS_Subset, TxsAssumption
<1>2. Cardinality(S) \in Nat /\ Cardinality(T) \in Nat
  BY <1>1, FS_CardinalityType
<1>3. Cardinality(S \cap T) = 0
  BY FS_EmptySet
<1>4. Cardinality(S \cup T) = Cardinality(S) + Cardinality(T) - Cardinality(S \cap T)
  BY <1>1, FS_Union
<1> QED BY <1>2, <1>3, <1>4

\* What two disjoint sets of transfers move together is the sum.
LEMMA NetAdd ==
  ASSUME NEW S \in SUBSET Txs, NEW T \in SUBSET Txs, S \cap T = {}, NEW a
  PROVE  Net(S \cup T, a) = Net(S, a) + Net(T, a)
<1> DEFINE Got(X) == {t \in X : To[t] = a}
           Gave(X) == {t \in X : From[t] = a}
<1>1. /\ Got(S \cup T) = Got(S) \cup Got(T)
      /\ Gave(S \cup T) = Gave(S) \cup Gave(T)
  OBVIOUS
<1>2. /\ Got(S) \in SUBSET Txs /\ Got(T) \in SUBSET Txs /\ Got(S) \cap Got(T) = {}
      /\ Gave(S) \in SUBSET Txs /\ Gave(T) \in SUBSET Txs /\ Gave(S) \cap Gave(T) = {}
  OBVIOUS
<1> HIDE DEF Got, Gave
<1>3. /\ Cardinality(Got(S)) \in Nat /\ Cardinality(Got(T)) \in Nat
      /\ Cardinality(Got(S) \cup Got(T)) = Cardinality(Got(S)) + Cardinality(Got(T))
  BY <1>2, CountAdd
<1>4. /\ Cardinality(Gave(S)) \in Nat /\ Cardinality(Gave(T)) \in Nat
      /\ Cardinality(Gave(S) \cup Gave(T)) = Cardinality(Gave(S)) + Cardinality(Gave(T))
  BY <1>2, CountAdd
<1>5. /\ Net(S \cup T, a) = Cardinality(Got(S \cup T)) - Cardinality(Gave(S \cup T))
      /\ Net(S, a) = Cardinality(Got(S)) - Cardinality(Gave(S))
      /\ Net(T, a) = Cardinality(Got(T)) - Cardinality(Gave(T))
  BY DEF Net, Got, Gave
<1>6. Net(S \cup T, a) = Cardinality(Got(S) \cup Got(T)) - Cardinality(Gave(S) \cup Gave(T))
  BY <1>1, <1>5, Zenon
<1>7. Net(S \cup T, a) = (Cardinality(Got(S)) + Cardinality(Got(T)))
                        - (Cardinality(Gave(S)) + Cardinality(Gave(T)))
  BY <1>3, <1>4, <1>6, Zenon
<1> QED BY <1>3, <1>4, <1>5, <1>7

\* Taking back some of a set of transfers subtracts what they moved.
LEMMA NetTake ==
  ASSUME NEW S \in SUBSET Txs, NEW T \in SUBSET S, NEW a
  PROVE  Net(S \ T, a) = Net(S, a) - Net(T, a)
<1>1. (S \ T) \in SUBSET Txs /\ T \in SUBSET Txs /\ (S \ T) \cap T = {} /\ (S \ T) \cup T = S
  OBVIOUS
<1> DEFINE rest == S \ T
<1>2. Net(rest \cup T, a) = Net(rest, a) + Net(T, a)
  BY <1>1, NetAdd
<1>3. Net(rest, a) \in Int /\ Net(T, a) \in Int
  BY <1>1, NetType
<1>4. rest \cup T = S
  BY <1>1
<1> HIDE DEF rest
<1>5. Net(S, a) = Net(rest, a) + Net(T, a)
  BY <1>2, <1>4
<1>6. Net(rest, a) = Net(S, a) - Net(T, a)
  BY <1>3, <1>5
<1> QED BY <1>6 DEF rest

\* No transfers move nothing.
LEMMA NetNone == ASSUME NEW a PROVE Net({}, a) = 0
<1> DEFINE got == {t \in {} : To[t] = a}
           gave == {t \in {} : From[t] = a}
<1>1. got = {} /\ gave = {}
  OBVIOUS
<1>2. Net({}, a) = Cardinality(got) - Cardinality(gave)
  BY DEF Net
<1> HIDE DEF got, gave
<1>3. Cardinality(got) = 0 /\ Cardinality(gave) = 0
  BY <1>1, FS_EmptySet
<1> QED BY <1>2, <1>3

-----------------------------------------------------------------------------
\* The sums need the balances to be integers, and nothing else.
Inv == balance \in [Holders -> Int] /\ BalancesAdd

LEMMA InitInv == Init => Inv
<1> SUFFICES ASSUME Init PROVE Inv
  OBVIOUS
<1>1. balance \in [Holders -> Int]
  BY DEF Init
<1>2. Rows = {}
  BY DEF Init, Rows, NoWhere
<1>3. \A a \in Holders : balance[a] = Net({}, a)
  BY NetNone DEF Init
<1> QED BY <1>1, <1>2, <1>3 DEF Inv, BalancesAdd

\* The two tables are left alone.
LEMMA KeepInv == ASSUME Inv, UNCHANGED <<stored, balance>> PROVE Inv'
<1>1. Rows' = Rows
  BY DEF Rows
<1>2. BalancesAdd'
  BY <1>1 DEF Inv, BalancesAdd, Net
<1> QED BY <1>2 DEF Inv

\* A reset empties both tables.
LEMMA ResetInv == ASSUME NEW p \in Procs, Inv, ResetIndex(p) PROVE Inv'
<1>1. balance' \in [Holders -> Int]
  BY DEF ResetIndex
<1>2. Rows' = {}
  BY DEF ResetIndex, Rows, NoWhere
<1>3. \A a \in Holders : balance'[a] = Net({}, a)
  BY NetNone DEF ResetIndex
<1>4. BalancesAdd'
  BY <1>2, <1>3 DEF BalancesAdd, Net
<1> QED BY <1>1, <1>4 DEF Inv

\* A rewind takes the transfers above the ancestor out of both tables.
LEMMA RewindInv == ASSUME NEW p \in Procs, Inv, Rewind(p) PROVE Inv'
<1> DEFINE gone == Above(loc[p].ancestor)
<1>1. Rows \in SUBSET Txs /\ gone \in SUBSET Rows
  BY DEF Rows, Above
<1>2. /\ balance' = [a \in Holders |-> balance[a] - Net(gone, a)]
      /\ stored' = [t \in Txs |-> IF t \in gone THEN 0 ELSE stored[t]]
  BY DEF Rewind
<1>3. Rows' = Rows \ gone
  BY <1>1, <1>2 DEF Rows
<1> HIDE DEF gone
<1>4. ASSUME NEW a \in Holders
      PROVE  balance'[a] \in Int /\ balance'[a] = Net(Rows', a)
  <2>1. balance[a] = Net(Rows, a) /\ balance[a] \in Int
    BY DEF Inv, BalancesAdd
  <2>2. Net(Rows \ gone, a) = Net(Rows, a) - Net(gone, a) /\ Net(gone, a) \in Int
    BY <1>1, NetTake, NetType
  <2>3. balance'[a] = balance[a] - Net(gone, a)
    BY <1>2
  <2> QED BY <1>3, <2>1, <2>2, <2>3
<1>5. balance' \in [Holders -> Int]
  BY <1>2, <1>4
<1>6. BalancesAdd'
  BY <1>4 DEF BalancesAdd, Net
<1> QED BY <1>5, <1>6 DEF Inv

\* A replayed range adds the transfers that were not stored to both tables.
LEMMA ApplyInv == ASSUME NEW p \in Procs, Inv, Apply(p) PROVE Inv'
<1> DEFINE new == {t \in Txs : loc[p].events[t] # 0 /\ stored[t] = 0}
<1>1. Rows \in SUBSET Txs /\ new \in SUBSET Txs /\ Rows \cap new = {}
  BY DEF Rows
<1>2. /\ balance' = [a \in Holders |-> balance[a] + Net(new, a)]
      /\ stored' = [t \in Txs |-> IF t \in new THEN loc[p].events[t] ELSE stored[t]]
  BY DEF Apply
<1>3. Rows' = Rows \cup new
  BY <1>1, <1>2 DEF Rows
<1> HIDE DEF new
<1>4. ASSUME NEW a \in Holders
      PROVE  balance'[a] \in Int /\ balance'[a] = Net(Rows', a)
  <2>1. balance[a] = Net(Rows, a) /\ balance[a] \in Int
    BY DEF Inv, BalancesAdd
  <2>2. Net(Rows \cup new, a) = Net(Rows, a) + Net(new, a) /\ Net(new, a) \in Int
    BY <1>1, NetAdd, NetType
  <2>3. balance'[a] = balance[a] + Net(new, a)
    BY <1>2
  <2> QED BY <1>3, <2>1, <2>2, <2>3
<1>5. balance' \in [Holders -> Int]
  BY <1>2, <1>4
<1>6. BalancesAdd'
  BY <1>4 DEF BalancesAdd, Net
<1> QED BY <1>5, <1>6 DEF Inv

LEMMA StepInv == ASSUME Inv, [Next]_vars PROVE Inv'
<1>1. CASE Mine
  BY <1>1, KeepInv DEF Mine, indexVars
<1>2. CASE Reorg
  BY <1>2, KeepInv DEF Reorg, indexVars
<1>3. CASE Lapse \/ Deploy
  BY <1>3, KeepInv DEF Lapse, Deploy, indexVars
<1>4. CASE Ripen
  BY <1>4, KeepInv DEF Ripen
<1>5. ASSUME NEW p \in Procs, Start(p) \/ Tick(p) \/ Fail(p) \/ Crash(p) PROVE Inv'
  BY <1>5, KeepInv DEF Start, Tick, Fail, Crash, indexVars
<1>6. ASSUME NEW p \in Procs, Sync(p) PROVE Inv'
  <2>1. CASE ResetIndex(p)
    BY <2>1, ResetInv
  <2>2. CASE Rewind(p)
    BY <2>2, RewindInv
  <2>3. CASE Apply(p)
    BY <2>3, ApplyInv
  <2>4. CASE List(p) \/ ReadHead(p) \/ Ensure(p) \/ Mark(p) \/ Clear(p) \/ Seed(p)
    BY <2>4, KeepInv DEF List, ReadHead, Ensure, Mark, Clear, Seed, indexVars
  <2>5. CASE ReorgRead(p) \/ Check(p) \/ ReadHashes(p) \/ Walk(p) \/ Prune(p)
    BY <2>5, KeepInv DEF ReorgRead, Check, ReadHashes, Walk, Prune, indexVars
  <2>6. CASE ReadCursor(p) \/ Query(p) \/ EndBlock(p) \/ Advance(p) \/ Record(p)
    BY <2>6, KeepInv DEF ReadCursor, Query, EndBlock, Advance, Record, indexVars
  <2> QED BY <1>6, <2>1, <2>2, <2>3, <2>4, <2>5, <2>6 DEF Sync
<1>7. CASE UNCHANGED vars
  BY <1>7, KeepInv DEF vars, indexVars
<1> QED BY <1>1, <1>2, <1>3, <1>4, <1>5, <1>6, <1>7 DEF Next

\* Whatever the chain does and wherever a sync is cut short or repeated, the
\* balances are those of the stored transfers.
THEOREM BalancesOfTransfers == Spec => []BalancesAdd
<1>1. Init => Inv
  BY InitInv
<1>2. Inv /\ [Next]_vars => Inv'
  BY StepInv
<1>3. Inv => BalancesAdd
  BY DEF Inv
<1> QED BY <1>1, <1>2, <1>3, PTL DEF Spec
-----------------------------------------------------------------------------
(***************************************************************************)
(* A stamped index holds the stamped chain, as long as a reorg spares what *)
(* an unfinished sync has read and no chain returns to a dead fork.        *)
(*                                                                         *)
(* One process syncs, because it holds the lease.  Without a stamp the     *)
(* index is the chain up to the cursor, and a reorg spares that; with one  *)
(* it is the stamped chain, which a reorg leaves alone ReorgDepth below    *)
(* the cursor.  A retained hash that is still on the chain says that the   *)
(* index agrees with the chain up to there, so that a sync that found a    *)
(* fork goes back to where they agree, by hash or by depth.                *)
(***************************************************************************)
Sealing == "unsealed" \notin Faults /\ "return" \notin Faults

\* The transfers stored at b; the index is the chain up to n.
Stored(b) == {t \in Txs : stored[t] = b}
Match(n) == n <= Len(chain) /\ \A b \in 1..n : Stored(b) = chain[b]

Locals == [safe : Nat, at : Nat, hash : Chains, seen : [Heights -> Chains], left : SUBSET Heights,
           ancestor : Nat, start : Nat, events : [Txs -> 0..MaxHeight]]

Typed ==
  /\ chain \in Chains /\ top \in 0..MaxHeight /\ Len(chain) <= top
  /\ cursor \in 0..MaxHeight \cup {NoCursor}
  /\ hash \in Chains
  /\ stored \in [Txs -> 0..MaxHeight]
  /\ ledger \in [Heights -> Chains] /\ \A b \in Heights : Len(ledger[b]) \in {0, b}
  /\ pc \in [Procs -> SyncPcs \cup {"down", "standby", "asleep", "idle"}]
  /\ loc \in [Procs -> Locals]

\* One process syncs, on blocks that are there.
OneSyncs == \A p \in Procs : Busy(p) => holder = p /\ loc[p].safe <= Len(chain)

Stamped ==
  /\ hash # NoHash => /\ cursor \in Nat /\ Len(hash) = cursor /\ cursor <= top
                      /\ \A b \in 1..cursor : Stored(b) = hash[b]
                      /\ \A b \in 1..cursor - ReorgDepth : b <= Len(chain) /\ hash[b] = chain[b]
  /\ cursor \in Nat /\ hash = NoHash => Match(cursor)

\* What is stored above the cursor is of the chain; without a cursor, nothing is.
AboveIsChain ==
  /\ cursor = NoCursor => \A t \in Txs : stored[t] = 0
  /\ \A t \in Txs : cursor \in Nat /\ stored[t] > cursor =>
       stored[t] <= Len(chain) /\ t \in chain[stored[t]]

RetainedMatches ==
  \A b \in Heights : cursor \in Nat /\ b <= cursor /\ ledger[b] # NoHash /\ ledger[b] = Hash(b) => Match(b)

\* What p knows when its sync goes on.
ForkPcs == {"check", "hashes", "walk"}
ChunkPcs == {"query", "apply", "endBlock", "advance"}
Knows(p) ==
  /\ pc[p] \in SyncPcs \ {"list", "head", "ensure", "reset", "seed"} => cursor \in Nat
  /\ pc[p] \in ForkPcs => /\ hash # NoHash /\ loc[p].hash = hash /\ loc[p].at = cursor
                          /\ cursor \in Heights /\ cursor <= loc[p].safe
  /\ pc[p] = "walk" => /\ loc[p].seen = ledger
                       /\ \A b \in loc[p].left : ledger[b] # NoHash /\ b < cursor
  /\ pc[p] = "rewind" => /\ loc[p].ancestor <= cursor /\ loc[p].ancestor <= loc[p].safe
                         /\ Match(loc[p].ancestor)
  /\ pc[p] = "prune" => hash = NoHash
  /\ pc[p] = "cursor" /\ cursor <= loc[p].safe => Match(cursor)
  /\ pc[p] \in ChunkPcs => /\ loc[p].start = cursor + 1 /\ loc[p].start <= loc[p].safe
                           /\ Match(cursor)
  /\ pc[p] = "apply" => \A t \in Txs :
       /\ loc[p].events[t] # 0 => /\ loc[p].events[t] \in loc[p].start..End(p)
                                  /\ t \in chain[loc[p].events[t]]
       /\ \A b \in loc[p].start..End(p) : t \in chain[b] => loc[p].events[t] = b
  /\ pc[p] \in {"endBlock", "advance"} => Match(End(p))
  /\ pc[p] \in {"advance", "record"} => loc[p].hash \in {Hash(End(p)), NoHash}
  /\ pc[p] = "record" => /\ cursor = End(p) /\ loc[p].start <= loc[p].safe /\ Match(cursor)
Known == \A p \in Procs : Knows(p)

StampInv == Typed /\ OneSyncs /\ Stamped /\ AboveIsChain /\ RetainedMatches /\ Known

-----------------------------------------------------------------------------
(* Chains and their prefixes. *)

LEMMA ChainSeq ==
  ASSUME NEW c \in Chains
  PROVE  /\ c \in Seq(SUBSET Txs) /\ Len(c) \in 0..MaxHeight /\ DOMAIN c = 1..Len(c)
         /\ \A i, j \in 1..Len(c) : i # j => c[i] \cap c[j] = {}
         /\ \A k \in 1..Len(c), a \in Holders : Net(Upto(c, k), a) >= 0
<1>1. PICK n \in 0..MaxHeight : c \in [1..n -> SUBSET Txs]
  BY DEF Chains
<1>2. c \in Seq(SUBSET Txs) /\ Len(c) = n /\ DOMAIN c = 1..n
  BY <1>1, SizesAssumption
<1> QED BY <1>2 DEF Chains

LEMMA EmptyChain == NoHash \in Chains /\ Len(NoHash) = 0
<1>1. NoHash \in [1..0 -> SUBSET Txs] /\ 0 \in 0..MaxHeight /\ DOMAIN NoHash = {}
  BY SizesAssumption DEF NoHash
<1> QED BY <1>1 DEF Chains, NoHash

LEMMA Prefix ==
  ASSUME NEW c \in Chains, NEW b \in 1..Len(c)
  PROVE  /\ SubSeq(c, 1, b) \in Chains /\ Len(SubSeq(c, 1, b)) = b
         /\ \A i \in 1..b : SubSeq(c, 1, b)[i] = c[i]
         /\ SubSeq(c, 1, b) # NoHash
<1> DEFINE d == SubSeq(c, 1, b)
<1>1. c \in Seq(SUBSET Txs) /\ Len(c) \in 0..MaxHeight
  BY ChainSeq
<1>2. d \in Seq(SUBSET Txs) /\ Len(d) = b /\ \A i \in 1..b : d[i] = c[i]
  BY <1>1
<1> HIDE DEF d
<1>3. d \in [1..b -> SUBSET Txs] /\ DOMAIN d = 1..b
  <2>1. DOMAIN d = 1..b
    BY <1>2
  <2> QED BY <1>2, <2>1
<1>4. \A i, j \in 1..b : i # j => d[i] \cap d[j] = {}
  BY <1>2, ChainSeq
<1>5. ASSUME NEW k \in 1..b, NEW a \in Holders PROVE Net(Upto(d, k), a) >= 0
  <2>1. Upto(d, k) = Upto(c, k)
    BY <1>2 DEF Upto
  <2>2. Net(Upto(c, k), a) >= 0
    BY ChainSeq
  <2> QED BY <2>1, <2>2
<1>6. b \in 0..MaxHeight
  BY <1>1, SizesAssumption
<1>7. d \in Chains
  <2>1. d \in UNION {[1..n -> SUBSET Txs] : n \in 0..MaxHeight}
    BY <1>3, <1>6
  <2>2. \A i, j \in DOMAIN d : i # j => d[i] \cap d[j] = {}
    BY <1>3, <1>4, Zenon
  <2>3. \A k \in DOMAIN d, a \in Holders : Net(Upto(d, k), a) >= 0
    BY <1>3, <1>5, Zenon
  <2> QED BY <2>1, <2>2, <2>3, Zenon DEF Chains
<1>8. d # NoHash
  BY <1>2 DEF NoHash
<1> QED BY <1>2, <1>7, <1>8 DEF d

LEMMA HashOf ==
  ASSUME chain \in Chains, NEW b
  PROVE  /\ Hash(b) \in Chains
         /\ Hash(b) # NoHash => b \in 1..Len(chain)
         /\ b \in 1..Len(chain) => /\ Hash(b) # NoHash /\ Len(Hash(b)) = b
                                   /\ \A i \in 1..b : Hash(b)[i] = chain[i]
BY Prefix, EmptyChain DEF Hash

\* Two chains that agree up to k have the same hashes there.
LEMMA SamePrefix ==
  ASSUME NEW c \in Chains, NEW d \in Chains, NEW k \in Nat, k <= Len(c), k <= Len(d),
         SubSeq(c, 1, k) = SubSeq(d, 1, k)
  PROVE  /\ \A b \in 1..k : c[b] = d[b]
         /\ \A b \in 1..k : SubSeq(c, 1, b) = SubSeq(d, 1, b)
<1>1. c \in Seq(SUBSET Txs) /\ d \in Seq(SUBSET Txs) /\ Len(c) \in Nat /\ Len(d) \in Nat
  BY ChainSeq
<1>2. ASSUME NEW b \in 1..k PROVE c[b] = d[b]
  <2>1. SubSeq(c, 1, k)[b] = c[b] /\ SubSeq(d, 1, k)[b] = d[b]
    BY <1>1
  <2> QED BY <2>1
<1>3. ASSUME NEW b \in 1..k PROVE SubSeq(c, 1, b) = SubSeq(d, 1, b)
  <2>1. SubSeq(c, 1, b) = [i \in 1..b |-> c[i]] /\ SubSeq(d, 1, b) = [i \in 1..b |-> d[i]]
    BY <1>1
  <2> QED BY <1>2, <2>1
<1> QED BY <1>2, <1>3

-----------------------------------------------------------------------------
(* What every step of a sync shares. *)

Pcs == SyncPcs \cup {"down", "standby", "asleep", "idle"}

\* The step moves only p, whose sync stays on blocks that are there.
Moves(p) ==
  /\ pc' \in [Procs -> Pcs] /\ loc' \in [Procs -> Locals]
  /\ \A q \in Procs \ {p} : pc'[q] = pc[q]
  /\ UNCHANGED <<chain, top, holder>>
  /\ Busy(p)' => loc'[p].safe <= Len(chain)

\* While p syncs nobody else does, before and after its step.
LEMMA Alone ==
  ASSUME StampInv, NEW p \in Procs, Busy(p), Moves(p)
  PROVE  OneSyncs' /\ (Knows(p)' => Known')
<1>1. holder = p
  BY DEF StampInv, OneSyncs
<1>2. ASSUME NEW q \in Procs \ {p} PROVE ~Busy(q) /\ ~Busy(q)'
  BY <1>1 DEF StampInv, OneSyncs, Moves, Busy
<1>3. ASSUME NEW q \in Procs \ {p} PROVE Knows(q)'
  BY <1>2 DEF Knows, Busy, SyncPcs, ForkPcs, ChunkPcs
<1> QED BY <1>1, <1>2, <1>3 DEF OneSyncs, Known, Moves

\* The step moves only what the processes know.
LEMMA Kept ==
  ASSUME StampInv, UNCHANGED <<chain, top, cursor, hash, stored, ledger>>,
         pc' \in [Procs -> Pcs], loc' \in [Procs -> Locals]
  PROVE  Typed' /\ Stamped' /\ AboveIsChain' /\ RetainedMatches'
<1>1. Typed'
  BY DEF StampInv, Typed, Pcs
<1>2. Stamped'
  BY DEF StampInv, Stamped, Match, Stored
<1>3. AboveIsChain'
  BY DEF StampInv, AboveIsChain
<1>4. RetainedMatches'
  BY DEF StampInv, RetainedMatches, Match, Stored, Hash
<1> QED BY <1>1, <1>2, <1>3, <1>4

\* A process that goes to here with the locals r.
LEMMA Going ==
  ASSUME StampInv, NEW p \in Procs, NEW here \in Pcs, NEW r \in Locals,
         Goto(p, here), Keep(p, r), UNCHANGED <<chain, top, holder>>,
         here \in SyncPcs => r.safe <= Len(chain)
  PROVE  Moves(p) /\ pc'[p] = here /\ loc'[p] = r
<1>1. pc \in [Procs -> Pcs] /\ loc \in [Procs -> Locals]
  BY DEF StampInv, Typed, Pcs
<1>2. pc' = [pc EXCEPT ![p] = here] /\ loc' = [loc EXCEPT ![p] = r]
  BY DEF Goto, Keep
<1> QED BY <1>1, <1>2 DEF Moves, Busy

LEMMA Staying ==
  ASSUME StampInv, NEW p \in Procs, NEW here \in Pcs,
         Goto(p, here), UNCHANGED <<chain, top, holder, loc>>, Busy(p)
  PROVE  Moves(p) /\ pc'[p] = here /\ loc'[p] = loc[p]
<1>1. pc \in [Procs -> Pcs] /\ loc \in [Procs -> Locals]
  BY DEF StampInv, Typed, Pcs
<1>2. pc' = [pc EXCEPT ![p] = here]
  BY DEF Goto
<1>3. loc[p].safe <= Len(chain)
  BY DEF StampInv, OneSyncs
<1> QED BY <1>1, <1>2, <1>3 DEF Moves, Busy

LEMMA NoLocalsType == NoLocals \in Locals /\ NoLocals.safe = 0
<1>1. NoHash \in Chains /\ [b \in Heights |-> NoHash] \in [Heights -> Chains]
  BY EmptyChain
<1>2. NoWhere \in [Txs -> 0..MaxHeight]
  BY SizesAssumption DEF NoWhere
<1> QED BY <1>1, <1>2 DEF NoLocals, Locals

LEMMA ChainLength == ASSUME StampInv PROVE Len(chain) \in 0..MaxHeight /\ chain \in Chains
BY ChainSeq DEF StampInv, Typed

-----------------------------------------------------------------------------
(* The steps that read. *)

LEMMA Reads ==
  ASSUME StampInv, NEW p \in Procs, Busy(p), Moves(p), UNCHANGED <<cursor, hash, stored, ledger>>,
         Knows(p)'
  PROVE  StampInv'
BY Alone, Kept DEF Moves, StampInv

LEMMA HeadStamp == ASSUME StampInv, NEW p \in Procs, ReadHead(p) PROVE StampInv'
<1>1. Busy(p) /\ UNCHANGED <<chain, top, holder, cursor, hash, stored, ledger>>
  BY DEF ReadHead, At, Busy, SyncPcs, chainVars, indexVars
<1>2. PICK n \in 0..Len(chain) :
        \/ n < Confirmations + 1 /\ Rest(p, "idle")
        \/ n >= Confirmations + 1 /\ Goto(p, "ensure")
           /\ Keep(p, [NoLocals EXCEPT !.safe = n - Confirmations])
  BY DEF ReadHead
<1>3. CASE Rest(p, "idle")
  <2>1. Moves(p) /\ pc'[p] = "idle"
    BY <1>1, <1>3, Going, NoLocalsType DEF Rest, Pcs, SyncPcs
  <2>2. Knows(p)'
    BY <2>1 DEF Knows, SyncPcs, ForkPcs, ChunkPcs
  <2> QED BY <1>1, <2>1, <2>2, Reads
<1>4. CASE n >= Confirmations + 1 /\ Goto(p, "ensure")
           /\ Keep(p, [NoLocals EXCEPT !.safe = n - Confirmations])
  <2> DEFINE r == [NoLocals EXCEPT !.safe = n - Confirmations]
  <2>1. Len(chain) \in Nat
    BY ChainLength
  <2>2. r \in Locals /\ r.safe <= Len(chain)
    <3>1. n - Confirmations \in Nat /\ n - Confirmations <= Len(chain)
      BY <1>4, <2>1, SizesAssumption
    <3> QED BY <3>1, NoLocalsType DEF Locals
  <2>3. Moves(p) /\ pc'[p] = "ensure"
    BY <1>1, <1>4, <2>2, Going DEF Pcs, SyncPcs
  <2>4. Knows(p)'
    BY <2>3 DEF Knows, SyncPcs, ForkPcs, ChunkPcs
  <2> QED BY <1>1, <2>3, <2>4, Reads
<1> QED BY <1>2, <1>3, <1>4

LEMMA EnsureStamp == ASSUME StampInv, NEW p \in Procs, Ensure(p) PROVE StampInv'
<1>1. Busy(p) /\ UNCHANGED <<chain, top, holder, loc, cursor, hash, stored, ledger>>
  BY DEF Ensure, At, Busy, SyncPcs, chainVars, indexVars, Step
<1>2. PICK here \in {"seed", "mark", "reorg", "reset", "clear"} :
        Goto(p, here) /\ (here # "seed" => cursor \in Nat)
  BY DEF Ensure
<1>3. Moves(p) /\ pc'[p] = here
  BY <1>1, <1>2, Staying DEF Pcs, SyncPcs
<1>4. Knows(p)'
  BY <1>1, <1>2, <1>3 DEF Knows, SyncPcs, ForkPcs, ChunkPcs
<1> QED BY <1>1, <1>3, <1>4, Reads

LEMMA MarkClearStamp == ASSUME StampInv, NEW p \in Procs, Mark(p) \/ Clear(p) PROVE StampInv'
<1>1. /\ Busy(p) /\ cursor \in Nat /\ Goto(p, "reorg")
      /\ UNCHANGED <<chain, top, holder, loc, cursor, hash, stored, ledger>>
  BY DEF Mark, Clear, At, Busy, SyncPcs, chainVars, indexVars, Step, StampInv, Known, Knows
<1>2. Moves(p) /\ pc'[p] = "reorg"
  BY <1>1, Staying DEF Pcs, SyncPcs
<1>3. Knows(p)'
  BY <1>1, <1>2 DEF Knows, SyncPcs, ForkPcs, ChunkPcs
<1> QED BY <1>1, <1>2, <1>3, Reads

LEMMA ReorgReadStamp == ASSUME StampInv, NEW p \in Procs, ReorgRead(p) PROVE StampInv'
<1>1. /\ Busy(p) /\ cursor \in Nat /\ loc[p] \in Locals /\ loc[p].safe <= Len(chain)
      /\ UNCHANGED <<chain, top, holder, cursor, hash, stored, ledger>>
  BY DEF ReorgRead, At, Busy, SyncPcs, chainVars, indexVars, Step, StampInv, Typed, OneSyncs,
         Known, Knows
<1>2. CASE /\ cursor \in Heights /\ hash # NoHash /\ loc[p].safe >= cursor
           /\ Keep(p, [loc[p] EXCEPT !.at = cursor, !.hash = hash]) /\ Goto(p, "check")
  <2> DEFINE r == [loc[p] EXCEPT !.at = cursor, !.hash = hash]
  <2>1. hash \in Chains
    BY DEF StampInv, Typed
  <2>2. r \in Locals /\ r.safe = loc[p].safe /\ r.at = cursor /\ r.hash = hash
    BY <1>1, <2>1 DEF Locals
  <2> HIDE DEF r
  <2>3. Keep(p, r)
    BY <1>2 DEF r
  <2>4. Moves(p) /\ pc'[p] = "check" /\ loc'[p] = r
    BY <1>1, <1>2, <2>2, <2>3, Going DEF Pcs, SyncPcs
  <2>5. Knows(p)'
    BY <1>1, <1>2, <2>2, <2>4 DEF Knows, SyncPcs, ForkPcs, ChunkPcs
  <2> QED BY <1>1, <2>4, <2>5, Reads
<1>3. CASE /\ ~(cursor \in Heights /\ hash # NoHash /\ loc[p].safe >= cursor)
           /\ Goto(p, "cursor") /\ UNCHANGED loc
  <2>1. Moves(p) /\ pc'[p] = "cursor" /\ loc'[p] = loc[p]
    BY <1>1, <1>3, Staying DEF Pcs, SyncPcs
  <2>2. cursor <= loc[p].safe => Match(cursor)
    <3>1. SUFFICES ASSUME cursor <= loc[p].safe PROVE Match(cursor)
      OBVIOUS
    <3>2. CASE hash = NoHash
      BY <1>1, <3>2 DEF StampInv, Stamped
    <3>3. CASE cursor \notin Heights
      <4>1. cursor = 0 /\ Len(chain) \in Nat
        BY <1>1, <3>3, ChainLength, SizesAssumption, NoneAssumption DEF StampInv, Typed, Heights
      <4> QED BY <4>1 DEF Match
    <3> QED BY <1>1, <1>3, <3>1, <3>2, <3>3 DEF Locals, Heights
  <2>3. cursor' <= loc'[p].safe => Match(cursor)'
    BY <1>1, <2>1, <2>2 DEF Match, Stored
  <2>4. Knows(p)'
    BY <1>1, <2>1, <2>3 DEF Knows, SyncPcs, ForkPcs, ChunkPcs
  <2> QED BY <1>1, <2>1, <2>4, Reads
<1> QED BY <1>2, <1>3 DEF ReorgRead

\* Who looks for the fork point holds the stamped cursor.
LEMMA AtFork ==
  ASSUME StampInv, NEW p \in Procs, pc[p] \in {"check", "hashes", "walk"}
  PROVE  /\ Busy(p) /\ cursor \in Nat /\ cursor \in Heights /\ loc[p] \in Locals
         /\ hash # NoHash /\ loc[p].hash = hash /\ loc[p].at = cursor
         /\ cursor <= loc[p].safe /\ loc[p].safe <= Len(chain) /\ holder = p
         /\ pc \in [Procs -> Pcs] /\ loc \in [Procs -> Locals]
<1>1. Busy(p)
  BY DEF Busy, SyncPcs
<1> QED BY <1>1 DEF StampInv, Typed, OneSyncs, Known, Knows, ForkPcs, Pcs, SyncPcs

LEMMA CheckStamp == ASSUME StampInv, NEW p \in Procs, Check(p) PROVE StampInv'
<1>1. pc[p] = "check" /\ UNCHANGED <<chain, top, holder, loc, cursor, hash, stored, ledger>>
  BY DEF Check, At, chainVars, indexVars
<1>2. PICK h \in {Hash(loc[p].at), NoHash} : Goto(p, IF h = loc[p].hash THEN "cursor" ELSE "hashes")
  BY DEF Check
<1>3. CASE h = loc[p].hash
  <2>1. Moves(p) /\ pc'[p] = "cursor"
    BY <1>1, <1>2, <1>3, AtFork, Staying DEF Pcs, SyncPcs
  <2>2. Hash(cursor) = hash /\ hash # NoHash
    BY <1>1, <1>2, <1>3, AtFork
  <2>3. Match(cursor)
    <3>1. cursor \in 1..Len(chain) /\ \A i \in 1..cursor : hash[i] = chain[i]
      BY <2>2, ChainLength, HashOf
    <3>2. \A b \in 1..cursor : Stored(b) = hash[b]
      BY <2>2 DEF StampInv, Stamped
    <3> QED BY <3>1, <3>2 DEF Match
  <2>4. Match(cursor)'
    BY <1>1, <2>3 DEF Match, Stored
  <2>5. Knows(p)'
    BY <1>1, <2>1, <2>4, AtFork DEF Knows, SyncPcs, ForkPcs, ChunkPcs
  <2> QED BY <1>1, <2>1, <2>5, AtFork, Reads
<1>4. CASE h # loc[p].hash
  <2>1. Moves(p) /\ pc'[p] = "hashes"
    BY <1>1, <1>2, <1>4, AtFork, Staying DEF Pcs, SyncPcs
  <2>2. Knows(p)'
    BY <1>1, <2>1, AtFork DEF Knows, SyncPcs, ForkPcs, ChunkPcs
  <2> QED BY <1>1, <2>1, <2>2, AtFork, Reads
<1> QED BY <1>3, <1>4

LEMMA ReadHashesStamp == ASSUME StampInv, NEW p \in Procs, ReadHashes(p) PROVE StampInv'
<1> DEFINE S == {b \in Newest({x \in Heights : ledger[x] # NoHash}) : b < loc[p].at}
           r == [loc[p] EXCEPT !.seen = ledger, !.left = S]
<1>1. pc[p] = "hashes" /\ UNCHANGED <<chain, top, holder, cursor, hash, stored, ledger>>
      /\ Goto(p, "walk") /\ Keep(p, r)
  BY DEF ReadHashes, At, chainVars, indexVars, Step
<1>2. S \in SUBSET Heights /\ \A b \in S : ledger[b] # NoHash /\ b < cursor
  BY <1>1, AtFork DEF Newest
<1> HIDE DEF S
<1>3. ledger \in [Heights -> Chains]
  BY DEF StampInv, Typed
<1>4. /\ r \in Locals /\ r.safe = loc[p].safe /\ r.at = loc[p].at /\ r.hash = loc[p].hash
      /\ r.seen = ledger /\ r.left = S
  BY <1>1, <1>2, <1>3, AtFork DEF Locals
<1> HIDE DEF r
<1>5. Moves(p) /\ pc'[p] = "walk" /\ loc'[p] = r
  BY <1>1, <1>4, AtFork, Going DEF Pcs, SyncPcs
<1>6. Knows(p)'
  BY <1>1, <1>2, <1>4, <1>5, AtFork DEF Knows, SyncPcs, ForkPcs, ChunkPcs
<1> QED BY <1>1, <1>5, <1>6, AtFork, Reads

\* Where the walk ends, the index and the chain agree.
LEMMA WalkStamp == ASSUME StampInv, NEW p \in Procs, Walk(p) PROVE StampInv'
<1>1. pc[p] = "walk" /\ UNCHANGED <<chain, top, holder, cursor, hash, stored, ledger>>
  BY DEF Walk, At, chainVars, indexVars
<1>2. /\ loc[p].seen = ledger
      /\ \A b \in loc[p].left : b \in Heights /\ ledger[b] # NoHash /\ b < cursor
  BY <1>1, AtFork DEF StampInv, Known, Knows, Locals
<1>3. ASSUME NEW n \in Nat, n <= cursor, Match(n),
             Goto(p, "rewind"), Keep(p, [loc[p] EXCEPT !.ancestor = n])
      PROVE  StampInv'
  <2> DEFINE r == [loc[p] EXCEPT !.ancestor = n]
  <2>1. r \in Locals /\ r.safe = loc[p].safe /\ r.ancestor = n
    BY <1>1, AtFork DEF Locals
  <2>2. Keep(p, r)
    BY <1>3
  <2> HIDE DEF r
  <2>3. Moves(p) /\ pc'[p] = "rewind" /\ loc'[p] = r
    BY <1>1, <1>3, <2>1, <2>2, AtFork, Going DEF Pcs, SyncPcs
  <2>4. Match(loc[p].ancestor)'
    BY <1>1, <1>3, <2>1, <2>3 DEF Match, Stored
  <2>5. n <= loc[p].safe
    BY <1>1, <1>3, AtFork DEF Locals, Heights
  <2>6. Knows(p)'
    BY <1>1, <1>3, <2>1, <2>3, <2>4, <2>5, AtFork DEF Knows, SyncPcs, ForkPcs, ChunkPcs
  <2> QED BY <1>1, <2>3, <2>6, AtFork, Reads
<1>4. CASE /\ loc[p].left = {} /\ Goto(p, "rewind")
           /\ Keep(p, [loc[p] EXCEPT !.ancestor =
                         IF loc[p].at > ReorgDepth THEN loc[p].at - ReorgDepth ELSE 0])
  <2> DEFINE n == IF cursor > ReorgDepth THEN cursor - ReorgDepth ELSE 0
  <2>1. n \in Nat /\ n <= cursor /\ Len(chain) \in Nat
    BY <1>1, AtFork, ChainLength, SizesAssumption DEF Heights
  <2>2. \A b \in 1..cursor - ReorgDepth : Stored(b) = chain[b] /\ b <= Len(chain)
    BY <1>1, AtFork, SizesAssumption DEF StampInv, Stamped
  <2>3. Match(n)
    <3>1. n <= Len(chain)
      BY <1>1, <2>1, AtFork DEF Locals
    <3>2. \A b \in 1..n : b \in 1..cursor - ReorgDepth
      BY SizesAssumption
    <3> QED BY <2>2, <3>1, <3>2 DEF Match
  <2>4. Goto(p, "rewind") /\ Keep(p, [loc[p] EXCEPT !.ancestor = n])
    BY <1>1, <1>4, AtFork
  <2> QED BY <1>3, <2>1, <2>3, <2>4
<1>5. ASSUME NEW b \in loc[p].left, NEW h \in {Hash(b), NoHash}, h = loc[p].seen[b],
             Goto(p, "rewind"), Keep(p, [loc[p] EXCEPT !.ancestor = b])
      PROVE  StampInv'
  <2>1. b \in Heights /\ b \in Nat /\ b <= cursor /\ ledger[b] # NoHash /\ ledger[b] = Hash(b)
    BY <1>1, <1>2, <1>5, AtFork DEF Heights
  <2>2. Match(b)
    BY <1>1, <2>1, AtFork DEF StampInv, RetainedMatches
  <2> QED BY <1>3, <1>5, <2>1, <2>2
<1>6. ASSUME NEW b \in loc[p].left, Keep(p, [loc[p] EXCEPT !.left = @ \ {b}]), UNCHANGED pc
      PROVE  StampInv'
  <2> DEFINE r == [loc[p] EXCEPT !.left = loc[p].left \ {b}]
  <2>1. /\ r \in Locals /\ r.safe = loc[p].safe /\ r.at = loc[p].at /\ r.hash = loc[p].hash
        /\ r.seen = loc[p].seen /\ r.left \subseteq loc[p].left
    BY <1>1, AtFork DEF Locals
  <2>2. Keep(p, r) /\ Goto(p, "walk")
    BY <1>1, <1>6, AtFork DEF Keep, Goto
  <2> HIDE DEF r
  <2>3. Moves(p) /\ pc'[p] = "walk" /\ loc'[p] = r
    BY <1>1, <2>1, <2>2, AtFork, Going DEF Pcs, SyncPcs
  <2>4. Knows(p)'
    BY <1>1, <1>2, <2>1, <2>3, AtFork DEF Knows, SyncPcs, ForkPcs, ChunkPcs
  <2> QED BY <1>1, <2>3, <2>4, AtFork, Reads
<1> QED BY <1>4, <1>5, <1>6 DEF Walk

LEMMA Busies ==
  ASSUME StampInv, NEW p \in Procs, Busy(p)
  PROVE  /\ loc[p] \in Locals /\ loc[p].safe \in Nat /\ loc[p].safe <= Len(chain) /\ holder = p
         /\ pc \in [Procs -> Pcs] /\ loc \in [Procs -> Locals]
BY DEF StampInv, Typed, OneSyncs, Pcs, Locals

\* A sync goes on with the chunk after the cursor, or is done.
LEMMA ChunksGo ==
  ASSUME StampInv, NEW p \in Procs, Busy(p), NEW start \in Nat, Chunks(p, start),
         UNCHANGED <<chain, top, holder, cursor, stored>>, cursor \in Nat,
         start <= loc[p].safe => start = cursor + 1 /\ Match(cursor)
  PROVE  Moves(p) /\ Knows(p)'
<1>1. CASE Rest(p, "idle")
  <2>1. Moves(p) /\ pc'[p] = "idle"
    BY <1>1, Going, NoLocalsType DEF Rest, Pcs, SyncPcs
  <2>2. Knows(p)'
    BY <2>1 DEF Knows, SyncPcs, ForkPcs, ChunkPcs
  <2> QED BY <2>1, <2>2
<1>2. CASE /\ start <= loc[p].safe /\ Goto(p, "query")
           /\ Keep(p, [NoLocals EXCEPT !.safe = loc[p].safe, !.start = start])
  <2> DEFINE r == [NoLocals EXCEPT !.safe = loc[p].safe, !.start = start]
  <2>1. r \in Locals /\ r.safe = loc[p].safe /\ r.start = start
    BY Busies, NoLocalsType DEF Locals
  <2>2. Keep(p, r)
    BY <1>2
  <2> HIDE DEF r
  <2>3. Moves(p) /\ pc'[p] = "query" /\ loc'[p] = r
    BY <1>2, <2>1, <2>2, Busies, Going DEF Pcs, SyncPcs
  <2>4. Match(cursor)'
    BY <1>2 DEF Match, Stored
  <2>5. Knows(p)'
    BY <1>2, <2>1, <2>3, <2>4 DEF Knows, SyncPcs, ForkPcs, ChunkPcs
  <2> QED BY <2>3, <2>5
<1> QED BY <1>1, <1>2 DEF Chunks

LEMMA ReadCursorStamp == ASSUME StampInv, NEW p \in Procs, ReadCursor(p) PROVE StampInv'
<1>1. /\ Busy(p) /\ cursor \in Nat /\ Chunks(p, cursor + 1)
      /\ UNCHANGED <<chain, top, holder, cursor, hash, stored, ledger>>
  <2>1. pc[p] = "cursor"
    BY DEF ReadCursor, At
  <2>2. Busy(p) /\ cursor \in Nat
    BY <2>1 DEF StampInv, Known, Knows, Busy, SyncPcs
  <2> QED BY <2>2, NoneAssumption DEF ReadCursor, chainVars, indexVars, Step
<1>2. cursor <= loc[p].safe => Match(cursor)
  BY DEF ReadCursor, At, StampInv, Known, Knows
<1>3. Moves(p) /\ Knows(p)'
  BY <1>1, <1>2, Busies, ChunksGo
<1> QED BY <1>1, <1>3, Reads

\* A chunk begins after the cursor and ends on a block that is there.
LEMMA AtChunk ==
  ASSUME StampInv, NEW p \in Procs, pc[p] \in ChunkPcs
  PROVE  /\ Busy(p) /\ cursor \in Nat /\ loc[p].start = cursor + 1 /\ loc[p].start <= loc[p].safe
         /\ Match(cursor) /\ End(p) \in loc[p].start..loc[p].safe /\ End(p) \in Heights
         /\ End(p) <= Len(chain) /\ loc[p].start \in Nat /\ loc[p].safe \in Nat
<1>1. Busy(p)
  BY DEF Busy, SyncPcs, ChunkPcs
<1>2. /\ cursor \in Nat /\ loc[p].start = cursor + 1 /\ loc[p].start <= loc[p].safe
      /\ Match(cursor)
  BY DEF StampInv, Known, Knows, ChunkPcs, SyncPcs
<1>3. End(p) \in loc[p].start..loc[p].safe
  BY <1>1, <1>2, Busies, SizesAssumption DEF End
<1>4. Len(chain) \in 0..MaxHeight
  BY ChainLength
<1> QED BY <1>1, <1>2, <1>3, <1>4, Busies, SizesAssumption DEF Heights

\* A transfer is at one height, and a query finds it there.
LEMMA WhereIs ==
  ASSUME chain \in Chains, NEW lo \in Nat \ {0}, NEW hi \in Nat, hi <= Len(chain), NEW t \in Txs
  PROVE  /\ Where(chain, lo, hi)[t] \in 0..hi
         /\ Where(chain, lo, hi)[t] # 0 => /\ Where(chain, lo, hi)[t] \in lo..hi
                                           /\ t \in chain[Where(chain, lo, hi)[t]]
         /\ \A b \in lo..hi : t \in chain[b] => Where(chain, lo, hi)[t] = b
<1> DEFINE B == {b \in lo..hi : b \in DOMAIN chain /\ t \in chain[b]}
           w == Where(chain, lo, hi)[t]
<1>1. w = IF B = {} THEN 0 ELSE CHOOSE b \in B : TRUE
  BY DEF Where
<1>2. Len(chain) \in Nat /\ DOMAIN chain = 1..Len(chain)
  BY ChainSeq
<1>3. \A i, j \in 1..Len(chain) : i # j => chain[i] \cap chain[j] = {}
  BY ChainSeq
<1>4. B # {} => w \in B
  BY <1>1
<1>5. \A b \in lo..hi : t \in chain[b] => b \in B /\ w = b
  BY <1>2, <1>3, <1>4
<1>6. w # 0 => w \in lo..hi /\ t \in chain[w]
  BY <1>1, <1>4
<1>7. w \in 0..hi
  BY <1>1, <1>6
<1> QED BY <1>5, <1>6, <1>7

LEMMA QueryStamp == ASSUME StampInv, NEW p \in Procs, Query(p) PROVE StampInv'
<1> DEFINE found == Where(chain, loc[p].start, End(p))
           r == [loc[p] EXCEPT !.events = found]
<1>1. /\ pc[p] = "query" /\ Goto(p, "apply") /\ Keep(p, r)
      /\ UNCHANGED <<chain, top, holder, cursor, hash, stored, ledger>>
  BY DEF Query, At, chainVars, indexVars, Step
<1>2. /\ Busy(p) /\ cursor \in Nat /\ loc[p].start = cursor + 1 /\ loc[p].start <= loc[p].safe
      /\ Match(cursor) /\ End(p) \in Heights /\ End(p) <= Len(chain)
  BY <1>1, AtChunk DEF ChunkPcs
<1>3. ASSUME NEW t \in Txs
      PROVE  /\ found[t] \in 0..MaxHeight
             /\ found[t] # 0 => found[t] \in loc[p].start..End(p) /\ t \in chain[found[t]]
             /\ \A b \in loc[p].start..End(p) : t \in chain[b] => found[t] = b
  <2>1. found[t] \in 0..End(p)
    BY <1>2, WhereIs, ChainLength, SizesAssumption DEF Heights
  <2>2. /\ found[t] # 0 => found[t] \in loc[p].start..End(p) /\ t \in chain[found[t]]
        /\ \A b \in loc[p].start..End(p) : t \in chain[b] => found[t] = b
    BY <1>2, WhereIs, ChainLength, SizesAssumption DEF Heights
  <2> QED BY <1>2, <2>1, <2>2, SizesAssumption DEF Heights
<1>4. found \in [Txs -> 0..MaxHeight]
  BY <1>3 DEF Where
<1> HIDE DEF found
<1>5. r \in Locals /\ r.safe = loc[p].safe /\ r.start = loc[p].start /\ r.events = found
  BY <1>2, <1>4, Busies DEF Locals
<1> HIDE DEF r
<1>6. Moves(p) /\ pc'[p] = "apply" /\ loc'[p] = r
  BY <1>1, <1>2, <1>5, Busies, Going DEF Pcs, SyncPcs
<1>7. End(p)' = End(p)
  BY <1>5, <1>6 DEF End
<1>8. Match(cursor)'
  BY <1>1, <1>2 DEF Match, Stored
<1>9. Knows(p)'
  BY <1>1, <1>2, <1>3, <1>5, <1>6, <1>7, <1>8 DEF Knows, SyncPcs, ForkPcs, ChunkPcs
<1> QED BY <1>1, <1>2, <1>6, <1>9, Reads

LEMMA EndBlockStamp == ASSUME StampInv, NEW p \in Procs, EndBlock(p) PROVE StampInv'
<1>1. /\ pc[p] = "endBlock" /\ Goto(p, "advance")
      /\ UNCHANGED <<chain, top, holder, cursor, hash, stored, ledger>>
  BY DEF EndBlock, At, chainVars, indexVars
<1>2. PICK h \in {Hash(End(p)), NoHash} : Keep(p, [loc[p] EXCEPT !.hash = h])
  BY DEF EndBlock
<1> DEFINE r == [loc[p] EXCEPT !.hash = h]
<1>3. /\ Busy(p) /\ cursor \in Nat /\ loc[p].start = cursor + 1 /\ loc[p].start <= loc[p].safe
      /\ Match(cursor)
  BY <1>1, AtChunk DEF ChunkPcs
<1>4. h \in Chains
  BY HashOf, EmptyChain, ChainLength
<1>5. r \in Locals /\ r.safe = loc[p].safe /\ r.start = loc[p].start /\ r.hash = h
  BY <1>3, <1>4, Busies DEF Locals
<1>6. Keep(p, r)
  BY <1>2
<1> HIDE DEF r
<1>7. Moves(p) /\ pc'[p] = "advance" /\ loc'[p] = r
  BY <1>1, <1>3, <1>5, <1>6, Busies, Going DEF Pcs, SyncPcs
<1>8. End(p)' = End(p)
  BY <1>5, <1>7 DEF End
<1>9. Match(End(p))
  BY <1>1 DEF StampInv, Known, Knows
<1>10. Match(cursor)' /\ Match(End(p))'
  BY <1>1, <1>3, <1>8, <1>9 DEF Match, Stored
<1>11. Hash(End(p))' = Hash(End(p))
  BY <1>1, <1>8 DEF Hash
<1>12. Knows(p)'
  BY <1>1, <1>2, <1>3, <1>5, <1>7, <1>10, <1>11 DEF Knows, SyncPcs, ForkPcs, ChunkPcs
<1> QED BY <1>1, <1>3, <1>7, <1>12, Reads

-----------------------------------------------------------------------------
(* The steps that write. *)

LEMMA Writes ==
  ASSUME StampInv, NEW p \in Procs, Busy(p), Moves(p), Typed', Stamped', AboveIsChain',
         RetainedMatches', Knows(p)'
  PROVE  StampInv'
BY Alone DEF StampInv

\* What the types say of the tables, for a step that keeps the chain.
LEMMA TypedNext ==
  ASSUME StampInv, NEW p \in Procs, Moves(p),
         cursor' \in 0..MaxHeight \cup {NoCursor}, hash' \in Chains,
         stored' \in [Txs -> 0..MaxHeight],
         ledger' \in [Heights -> Chains], \A b \in Heights : Len(ledger'[b]) \in {0, b}
  PROVE  Typed'
BY DEF StampInv, Typed, Moves, Pcs

\* Where the index is the chain up to n it is the chain up to less.
LEMMA MatchDown ==
  ASSUME NEW n \in Nat, NEW m \in Nat, m <= n, Match(n), chain \in Chains
  PROVE  Match(m)
BY ChainSeq DEF Match

LEMMA ResetStamp == ASSUME StampInv, NEW p \in Procs, ResetIndex(p) PROVE StampInv'
<1>1. /\ Busy(p) /\ Goto(p, "seed") /\ UNCHANGED <<chain, top, holder, loc>>
      /\ cursor' = NoCursor /\ hash' = NoHash /\ stored' = NoWhere
      /\ ledger' = [b \in Heights |-> NoHash]
  BY DEF ResetIndex, At, Busy, SyncPcs, chainVars, Step
<1>2. Moves(p) /\ pc'[p] = "seed"
  BY <1>1, Staying DEF Pcs, SyncPcs
<1>3. NoWhere \in [Txs -> 0..MaxHeight] /\ \A t \in Txs : NoWhere[t] = 0
  BY SizesAssumption DEF NoWhere
<1>4. Typed'
  BY <1>1, <1>2, <1>3, EmptyChain, TypedNext
<1>5. Stamped' /\ AboveIsChain' /\ RetainedMatches'
  BY <1>1, <1>3, NoneAssumption DEF Stamped, AboveIsChain, RetainedMatches
<1>6. Knows(p)'
  BY <1>2 DEF Knows, SyncPcs, ForkPcs, ChunkPcs
<1> QED BY <1>1, <1>2, <1>4, <1>5, <1>6, Writes

LEMMA SeedStamp == ASSUME StampInv, NEW p \in Procs, Seed(p) PROVE StampInv'
<1>1. /\ Busy(p) /\ Goto(p, "reorg") /\ UNCHANGED <<chain, top, holder, loc, hash, stored, ledger>>
      /\ cursor' = IF cursor = NoCursor THEN 0 ELSE cursor
  BY DEF Seed, At, Busy, SyncPcs, chainVars, Step
<1>2. Moves(p) /\ pc'[p] = "reorg" /\ cursor' \in Nat
  BY <1>1, Staying, SizesAssumption DEF Pcs, SyncPcs, StampInv, Typed
<1>3. Knows(p)'
  BY <1>2 DEF Knows, SyncPcs, ForkPcs, ChunkPcs
<1>4. CASE cursor # NoCursor
  BY <1>1, <1>2, <1>3, <1>4, Reads
<1>5. CASE cursor = NoCursor
  <2>1. cursor' = 0 /\ hash = NoHash /\ \A t \in Txs : stored[t] = 0
    BY <1>1, <1>5, NoneAssumption DEF StampInv, Stamped, AboveIsChain
  <2>2. Typed'
    BY <1>1, <1>2, <2>1, SizesAssumption, TypedNext DEF StampInv, Typed
  <2>3. Stamped'
    BY <1>1, <2>1, ChainLength DEF Stamped, Match
  <2>4. AboveIsChain'
    BY <1>1, <2>1, NoneAssumption DEF AboveIsChain
  <2>5. RetainedMatches'
    BY <2>1, SizesAssumption DEF RetainedMatches, Heights
  <2> QED BY <1>1, <1>2, <1>3, <2>2, <2>3, <2>4, <2>5, Writes
<1> QED BY <1>4, <1>5

\* A rewind leaves an index without stamp that is the chain up to the ancestor.
LEMMA RewindStamp == ASSUME StampInv, NEW p \in Procs, Rewind(p) PROVE StampInv'
<1> DEFINE anc == loc[p].ancestor
           gone == Above(anc)
<1>1. /\ pc[p] = "rewind" /\ Goto(p, "prune") /\ UNCHANGED <<chain, top, holder, loc, ledger>>
      /\ stored' = [t \in Txs |-> IF t \in gone THEN 0 ELSE stored[t]]
      /\ hash' = NoHash /\ cursor' = IF cursor = NoCursor THEN NoCursor ELSE anc
  BY DEF Rewind, At, chainVars, Step
<1>2. Busy(p) /\ cursor \in Nat /\ anc <= cursor /\ anc <= loc[p].safe /\ Match(anc) /\ anc \in Nat
  <2>1. Busy(p)
    BY <1>1 DEF Busy, SyncPcs
  <2> QED BY <1>1, <2>1, Busies DEF StampInv, Known, Knows, SyncPcs, Locals
<1>3. cursor' = anc /\ cursor \in 0..MaxHeight
  BY <1>1, <1>2, NoneAssumption DEF StampInv, Typed
<1>4. stored \in [Txs -> 0..MaxHeight]
  BY DEF StampInv, Typed
<1>5. \A t \in Txs : stored'[t] = IF stored[t] > anc THEN 0 ELSE stored[t]
  BY <1>1, <1>2, <1>4, SizesAssumption DEF Above, Rows
<1> HIDE DEF gone, anc
<1>6. \A b \in 1..anc : Stored(b)' = Stored(b)
  BY <1>2, <1>4, <1>5, SizesAssumption DEF Stored
<1>7. ASSUME NEW n \in Nat, n <= anc, Match(n) PROVE Match(n)'
  BY <1>1, <1>2, <1>6, <1>7 DEF Match
<1>8. Moves(p) /\ pc'[p] = "prune"
  BY <1>1, <1>2, Staying DEF Pcs, SyncPcs
<1>9. Typed'
  <2>1. stored' \in [Txs -> 0..MaxHeight]
    BY <1>1, <1>4, SizesAssumption
  <2>2. cursor' \in 0..MaxHeight
    BY <1>2, <1>3, SizesAssumption
  <2>3. hash' = NoHash /\ ledger' = ledger
    BY <1>1
  <2>4. ledger \in [Heights -> Chains] /\ \A b \in Heights : Len(ledger[b]) \in {0, b}
    BY DEF StampInv, Typed
  <2> QED BY <1>8, <2>1, <2>2, <2>3, <2>4, EmptyChain, TypedNext
<1>10. Stamped'
  <2>1. Match(cursor)'
    BY <1>2, <1>3, <1>7
  <2> QED BY <1>1, <2>1 DEF Stamped
<1>11. AboveIsChain'
  <2>1. cursor' # NoCursor
    BY <1>2, <1>3, NoneAssumption
  <2>2. ASSUME NEW t \in Txs PROVE ~(stored'[t] > cursor')
    BY <1>2, <1>3, <1>4, <1>5, SizesAssumption
  <2> QED BY <2>1, <2>2 DEF AboveIsChain
<1>12. RetainedMatches'
  <2>1. SUFFICES ASSUME NEW b \in Heights, b <= anc, ledger[b] # NoHash, ledger[b] = Hash(b)
                 PROVE  Match(b)'
    BY <1>1, <1>3 DEF RetainedMatches, Hash
  <2>2. Match(b) /\ b \in Nat
    BY <1>2, <2>1 DEF StampInv, RetainedMatches, Heights
  <2> QED BY <1>7, <2>1, <2>2
<1>13. Knows(p)'
  BY <1>1, <1>2, <1>3, <1>8 DEF Knows, SyncPcs, ForkPcs, ChunkPcs
<1> QED BY <1>2, <1>8, <1>9, <1>10, <1>11, <1>12, <1>13, Writes

LEMMA PruneStamp == ASSUME StampInv, NEW p \in Procs, Prune(p) PROVE StampInv'
<1>1. /\ pc[p] = "prune" /\ Goto(p, "cursor")
      /\ UNCHANGED <<chain, top, holder, loc, cursor, hash, stored>>
      /\ ledger' = [b \in Heights |-> IF b > loc[p].ancestor THEN NoHash ELSE ledger[b]]
  BY DEF Prune, At, chainVars, Step
<1>2. Busy(p) /\ cursor \in Nat /\ hash = NoHash
  BY <1>1 DEF StampInv, Known, Knows, Busy, SyncPcs
<1>3. Moves(p) /\ pc'[p] = "cursor"
  BY <1>1, <1>2, Staying DEF Pcs, SyncPcs
<1>4. Typed'
  BY <1>1, <1>3, EmptyChain, TypedNext DEF StampInv, Typed
<1>5. Stamped' /\ AboveIsChain'
  BY <1>1 DEF StampInv, Stamped, AboveIsChain, Match, Stored
<1>6. RetainedMatches'
  BY <1>1 DEF StampInv, RetainedMatches, Match, Stored, Hash
<1>7. Match(cursor)'
  BY <1>1, <1>2, <1>5 DEF Stamped
<1>8. Knows(p)'
  BY <1>1, <1>2, <1>3, <1>7 DEF Knows, SyncPcs, ForkPcs, ChunkPcs
<1> QED BY <1>2, <1>3, <1>4, <1>5, <1>6, <1>8, Writes

\* What a range adds is what the chain has there.
LEMMA ApplyStamp == ASSUME StampInv, NEW p \in Procs, Apply(p) PROVE StampInv'
<1> DEFINE found == loc[p].events
           new == {t \in Txs : found[t] # 0 /\ stored[t] = 0}
<1>1. /\ pc[p] = "apply" /\ Goto(p, "endBlock")
      /\ UNCHANGED <<chain, top, holder, loc, cursor, hash, ledger>>
      /\ stored' = [t \in Txs |-> IF t \in new THEN found[t] ELSE stored[t]]
  BY DEF Apply, At, chainVars, Step
<1>2. /\ Busy(p) /\ cursor \in Nat /\ loc[p].start = cursor + 1 /\ Match(cursor)
      /\ End(p) \in Heights /\ End(p) \in Nat /\ loc[p].start <= End(p) /\ End(p) <= Len(chain)
  BY <1>1, AtChunk DEF ChunkPcs, Heights
<1>3. ASSUME NEW t \in Txs
      PROVE  /\ found[t] # 0 => found[t] \in loc[p].start..End(p) /\ t \in chain[found[t]]
             /\ \A b \in loc[p].start..End(p) : t \in chain[b] => found[t] = b
  BY <1>1 DEF StampInv, Known, Knows
<1>4. stored \in [Txs -> 0..MaxHeight] /\ found \in [Txs -> 0..MaxHeight]
  BY <1>2, Busies DEF StampInv, Typed, Locals
<1>5. \A t \in Txs : stored'[t] = IF stored[t] = 0 THEN found[t] ELSE stored[t]
  BY <1>1, <1>4
<1>6. stored' \in [Txs -> 0..MaxHeight]
  BY <1>1, <1>4
<1> HIDE DEF new, found
<1>7. /\ Len(chain) \in Nat
      /\ \A i, j \in 1..Len(chain) : i # j => chain[i] \cap chain[j] = {}
  BY ChainLength, ChainSeq
<1>8. \A b \in 1..cursor : Stored(b)' = Stored(b)
  <2>1. ASSUME NEW b \in 1..cursor, NEW t \in Txs PROVE stored'[t] = b <=> stored[t] = b
    BY <1>2, <1>3, <1>4, <1>5, SizesAssumption
  <2> QED BY <2>1 DEF Stored
<1>9. ASSUME NEW n \in Nat, n <= cursor, Match(n) PROVE Match(n)'
  BY <1>1, <1>2, <1>8, <1>9 DEF Match
<1>10. ASSUME NEW t \in Txs, stored[t] > cursor
       PROVE  stored[t] \in 1..Len(chain) /\ t \in chain[stored[t]]
  BY <1>2, <1>4, <1>7, <1>10, SizesAssumption DEF StampInv, AboveIsChain
<1>11. Match(End(p))'
  <2>1. ASSUME NEW b \in loc[p].start..End(p) PROVE Stored(b)' = chain[b]
    <3>1. b \in 1..Len(chain) /\ b > cursor /\ chain[b] \in SUBSET Txs
      BY <1>2, <1>7, ChainLength, ChainSeq
    <3>2. ASSUME NEW t \in Txs, stored'[t] = b PROVE t \in chain[b]
      BY <1>3, <1>5, <1>10, <3>1, <3>2
    <3>3. ASSUME NEW t \in chain[b] PROVE stored'[t] = b
      <4>1. t \in Txs /\ found[t] = b
        BY <1>3, <3>1
      <4>2. CASE stored[t] = 0
        BY <1>5, <4>1, <4>2
      <4>3. CASE stored[t] \in 1..cursor
        <5>1. t \in chain[stored[t]]
          BY <1>2, <4>1, <4>3 DEF Match, Stored
        <5>2. stored[t] \in 1..Len(chain) /\ stored[t] # b
          BY <1>2, <1>7, <3>1, <4>3
        <5> QED BY <1>7, <3>1, <5>1, <5>2
      <4>4. CASE stored[t] > cursor
        <5>1. stored[t] \in 1..Len(chain) /\ t \in chain[stored[t]]
          BY <1>10, <4>1, <4>4
        <5>2. stored[t] = b
          BY <1>7, <3>1, <5>1
        <5>3. stored[t] # 0
          BY <1>2, <5>2
        <5> QED BY <1>5, <4>1, <5>2, <5>3
      <4> QED BY <1>2, <1>4, <4>1, <4>2, <4>3, <4>4, SizesAssumption
    <3> QED BY <3>1, <3>2, <3>3 DEF Stored
  <2>2. ASSUME NEW b \in 1..cursor PROVE Stored(b)' = chain[b]
    BY <1>2, <1>8 DEF Match
  <2>3. \A b \in 1..End(p) : Stored(b)' = chain[b]
    BY <1>2, <2>1, <2>2
  <2>4. End(p)' = End(p)
    BY <1>1 DEF End
  <2> QED BY <1>1, <1>2, <2>3, <2>4 DEF Match
<1>12. Moves(p) /\ pc'[p] = "endBlock" /\ loc'[p] = loc[p]
  BY <1>1, <1>2, Staying DEF Pcs, SyncPcs
<1>13. Typed'
  <2>1. UNCHANGED <<cursor, hash, ledger>>
    BY <1>1
  <2> QED BY <1>6, <1>12, <2>1, TypedNext DEF StampInv, Typed
<1>14. Stamped'
  <2>1. Match(cursor)'
    BY <1>1, <1>2, <1>9
  <2>2. hash # NoHash => \A b \in 1..cursor : Stored(b)' = hash[b]
    BY <1>8 DEF StampInv, Stamped
  <2> QED BY <1>1, <2>1, <2>2 DEF StampInv, Stamped
<1>15. AboveIsChain'
  <2>1. ASSUME NEW t \in Txs, stored'[t] > cursor
        PROVE  stored'[t] <= Len(chain) /\ t \in chain[stored'[t]]
    BY <1>2, <1>3, <1>4, <1>5, <1>7, <1>10, <2>1
  <2> QED BY <1>1, <1>2, <2>1, NoneAssumption DEF AboveIsChain
<1>16. RetainedMatches'
  <2>1. SUFFICES ASSUME NEW b \in Heights, b <= cursor, ledger[b] # NoHash, ledger[b] = Hash(b)
                 PROVE  Match(b)'
    BY <1>1 DEF RetainedMatches, Hash
  <2>2. Match(b) /\ b \in Nat
    BY <1>2, <2>1 DEF StampInv, RetainedMatches, Heights
  <2> QED BY <1>9, <2>1, <2>2
<1>17. Knows(p)'
  <2>1. Match(cursor)'
    BY <1>1, <1>2, <1>9
  <2>2. loc'[p].start = cursor' + 1 /\ loc'[p].start <= loc'[p].safe
    BY <1>1, <1>12, AtChunk DEF ChunkPcs
  <2>3. cursor' \in Nat
    BY <1>1, <1>2
  <2> QED BY <1>11, <1>12, <2>1, <2>2, <2>3 DEF Knows, SyncPcs, ForkPcs, ChunkPcs
<1> QED BY <1>2, <1>12, <1>13, <1>14, <1>15, <1>16, <1>17, Writes

\* The stamp is the hash of the block the range ended at, and the index agrees up to it.
LEMMA AdvanceStamp == ASSUME StampInv, NEW p \in Procs, Advance(p) PROVE StampInv'
<1> DEFINE end == End(p)
<1>1. /\ pc[p] = "advance" /\ Goto(p, "record")
      /\ UNCHANGED <<chain, top, holder, loc, stored, ledger>>
      /\ cursor # NoCursor => cursor' = end /\ hash' = loc[p].hash
  BY DEF Advance, At, chainVars, Step
<1>2. /\ Busy(p) /\ cursor \in Nat /\ loc[p].start = cursor + 1 /\ loc[p].start <= loc[p].safe
      /\ end \in Heights /\ end \in Nat /\ loc[p].start <= end /\ end <= Len(chain)
  BY <1>1, AtChunk DEF ChunkPcs, Heights
<1>3. loc[p].hash \in {Hash(end), NoHash} /\ Match(end)
  BY <1>1 DEF StampInv, Known, Knows
<1>4. cursor' = end /\ hash' = loc[p].hash
  BY <1>1, <1>2, NoneAssumption
<1>5. end' = end
  BY <1>1 DEF End
<1> HIDE DEF end
<1>6. Match(end)'
  BY <1>1, <1>3, <1>5 DEF Match, Stored
<1>7. chain \in Chains /\ Len(chain) \in Nat /\ Len(chain) <= top /\ top \in 0..MaxHeight
  BY ChainLength DEF StampInv, Typed
<1>8. Moves(p) /\ pc'[p] = "record" /\ loc'[p] = loc[p]
  BY <1>1, <1>2, Staying DEF Pcs, SyncPcs
<1>9. Typed'
  <2>1. hash' \in Chains
    BY <1>3, <1>4, <1>7, HashOf, EmptyChain
  <2>2. cursor' \in 0..MaxHeight
    BY <1>2, <1>4, SizesAssumption DEF Heights
  <2>3. stored' = stored /\ ledger' = ledger
    BY <1>1
  <2> QED BY <1>8, <2>1, <2>2, <2>3, TypedNext DEF StampInv, Typed
<1>10. Stamped'
  <2>1. Match(cursor)'
    BY <1>4, <1>5, <1>6
  <2>2. ASSUME hash' # NoHash
        PROVE  /\ Len(hash') = end /\ end <= top
               /\ \A b \in 1..end : Stored(b)' = hash'[b]
               /\ \A b \in 1..end - ReorgDepth : b <= Len(chain) /\ hash'[b] = chain[b]
    <3>1. hash' = Hash(end) /\ end \in 1..Len(chain)
      BY <1>3, <1>4, <1>7, <2>2, HashOf
    <3>2. Len(hash') = end /\ \A b \in 1..end : hash'[b] = chain[b]
      BY <1>7, <3>1, HashOf
    <3>3. \A b \in 1..end : Stored(b)' = chain[b]
      BY <1>1, <1>5, <1>6 DEF Match
    <3>4. \A b \in 1..end - ReorgDepth : b \in 1..end
      BY <1>2, SizesAssumption
    <3> QED BY <1>2, <1>7, <3>2, <3>3, <3>4
  <2>3. cursor' \in Nat /\ cursor' <= top'
    BY <1>1, <1>2, <1>4, <1>7
  <2> QED BY <1>1, <1>4, <2>1, <2>2, <2>3 DEF Stamped
<1>11. AboveIsChain'
  <2>1. cursor' # NoCursor
    BY <1>2, <1>4, NoneAssumption
  <2>2. ASSUME NEW t \in Txs, stored[t] > end PROVE stored[t] <= Len(chain) /\ t \in chain[stored[t]]
    BY <1>2, <2>2, SizesAssumption DEF StampInv, AboveIsChain, Typed
  <2> QED BY <1>1, <1>4, <2>1, <2>2 DEF AboveIsChain
<1>12. RetainedMatches'
  <2>1. ASSUME NEW b \in Heights, b <= end PROVE Match(b)'
    <3>1. Match(b)
      BY <1>2, <1>3, <1>7, <2>1, MatchDown DEF Heights
    <3> QED BY <1>1, <3>1 DEF Match, Stored
  <2> QED BY <1>4, <2>1 DEF RetainedMatches
<1>13. Knows(p)'
  <2>1. End(p)' = end /\ Hash(End(p))' = Hash(end)
    BY <1>1, <1>5 DEF end, Hash
  <2>2. loc'[p].hash \in {Hash(end), NoHash}
    BY <1>3, <1>8
  <2>3. cursor' \in Nat /\ Match(cursor)'
    BY <1>2, <1>4, <1>5, <1>6
  <2> QED BY <1>2, <1>4, <1>8, <2>1, <2>2, <2>3 DEF Knows, SyncPcs, ForkPcs, ChunkPcs
<1> QED BY <1>2, <1>8, <1>9, <1>10, <1>11, <1>12, <1>13, Writes

\* A recorded hash is the hash of a block up to which the index is the chain.
LEMMA RecordStamp == ASSUME StampInv, NEW p \in Procs, Record(p) PROVE StampInv'
<1>1. /\ pc[p] = "record" /\ Chunks(p, loc[p].start + Chunk)
      /\ UNCHANGED <<chain, top, holder, cursor, hash, stored>>
      /\ ledger' = IF loc[p].hash = NoHash THEN ledger
                   ELSE [b \in Heights |-> IF b = End(p) THEN loc[p].hash
                                           ELSE IF b < End(p) - Retention THEN NoHash ELSE ledger[b]]
  BY DEF Record, At, chainVars, Step
<1>2. /\ Busy(p) /\ cursor \in Nat /\ cursor = End(p) /\ loc[p].start <= loc[p].safe /\ Match(cursor)
      /\ loc[p].hash \in {Hash(End(p)), NoHash}
  BY <1>1 DEF StampInv, Known, Knows, Busy, SyncPcs
<1>3. loc[p].start \in Nat /\ loc[p].safe \in Nat /\ loc[p].start + Chunk \in Nat
  BY <1>2, Busies, SizesAssumption DEF Locals
<1>4. loc[p].start + Chunk <= loc[p].safe => loc[p].start + Chunk = cursor + 1 /\ Match(cursor)
  BY <1>2, <1>3, SizesAssumption DEF End
<1>5. Moves(p) /\ Knows(p)'
  BY <1>1, <1>2, <1>3, <1>4, ChunksGo
<1>6. chain \in Chains /\ ledger \in [Heights -> Chains] /\ \A b \in Heights : Len(ledger[b]) \in {0, b}
  BY DEF StampInv, Typed
<1>7. Typed'
  <2>1. loc[p].hash \in Chains /\ Len(loc[p].hash) \in {0, End(p)}
    BY <1>2, <1>6, HashOf, EmptyChain
  <2>2. \A b \in Heights : ledger'[b] \in Chains /\ Len(ledger'[b]) \in {0, b}
    BY <1>1, <1>6, <2>1, EmptyChain
  <2>3. ledger' \in [Heights -> Chains]
    BY <1>1, <1>6, <2>1, EmptyChain
  <2>4. UNCHANGED <<cursor, hash, stored>>
    BY <1>1
  <2> QED BY <1>5, <2>2, <2>3, <2>4, TypedNext DEF StampInv, Typed
<1>8. Stamped' /\ AboveIsChain'
  BY <1>1 DEF StampInv, Stamped, AboveIsChain, Match, Stored
<1>9. RetainedMatches'
  <2>1. ASSUME NEW b \in Heights, b <= cursor PROVE Match(b)'
    <3>1. Match(b)
      BY <1>2, <1>6, <2>1, MatchDown DEF Heights
    <3> QED BY <1>1, <3>1 DEF Match, Stored
  <2> QED BY <1>1, <2>1 DEF RetainedMatches
<1> QED BY <1>2, <1>5, <1>7, <1>8, <1>9, Writes

-----------------------------------------------------------------------------
(* Starts, stops and the lease. *)

\* What a process knows is of the tables, the chain and its own sync.
LEMMA KnowsKept ==
  ASSUME NEW q \in Procs, Knows(q), UNCHANGED <<chain, cursor, hash, stored, ledger>>,
         pc'[q] = pc[q], loc'[q] = loc[q]
  PROVE  Knows(q)'
<1>1. End(q)' = End(q) /\ Hash(End(q))' = Hash(End(q))
  BY DEF End, Hash
<1>2. /\ Match(cursor)' <=> Match(cursor)
      /\ Match(loc[q].ancestor)' <=> Match(loc[q].ancestor)
      /\ Match(End(q))' <=> Match(End(q))
  BY <1>1 DEF Match, Stored
<1> QED BY <1>1, <1>2 DEF Knows

\* p is between syncs, or begins one with the lease.
LEMMA Outside ==
  ASSUME StampInv, NEW p \in Procs, NEW here \in {"list", "head", "idle", "standby", "asleep", "down"}, Rest(p, here),
         UNCHANGED <<chain, top, cursor, hash, stored, ledger>>,
         \A q \in Procs \ {p} : Busy(q) => holder' = q, here \in {"list", "head"} => holder' = p
  PROVE  StampInv'
<1>1. pc \in [Procs -> Pcs] /\ loc \in [Procs -> Locals] /\ Len(chain) \in Nat
  BY ChainLength DEF StampInv, Typed, Pcs
<1>2. pc' = [pc EXCEPT ![p] = here] /\ loc' = [loc EXCEPT ![p] = NoLocals]
  BY DEF Rest, Goto, Keep
<1>3. pc' \in [Procs -> Pcs] /\ loc' \in [Procs -> Locals]
  BY <1>1, <1>2, NoLocalsType DEF Pcs, SyncPcs
<1>4. Typed' /\ Stamped' /\ AboveIsChain' /\ RetainedMatches'
  BY <1>3, Kept
<1>5. pc'[p] = here /\ loc'[p] = NoLocals
  BY <1>1, <1>2
<1>6. ASSUME NEW q \in Procs \ {p} PROVE pc'[q] = pc[q] /\ loc'[q] = loc[q]
  BY <1>1, <1>2
<1>7. OneSyncs'
  <2>1. ASSUME NEW q \in Procs \ {p}, Busy(q)' PROVE holder' = q /\ loc'[q].safe <= Len(chain)
    BY <1>6, <2>1 DEF Busy, StampInv, OneSyncs
  <2>2. Busy(p)' => holder' = p /\ loc'[p].safe <= Len(chain)
    BY <1>1, <1>5, NoLocalsType DEF Busy, SyncPcs
  <2> QED BY <2>1, <2>2 DEF OneSyncs
<1>8. Known'
  <2>1. Knows(p)'
    BY <1>5 DEF Knows, SyncPcs, ForkPcs, ChunkPcs
  <2>2. ASSUME NEW q \in Procs \ {p} PROVE Knows(q)'
    BY <1>6, KnowsKept DEF StampInv, Known
  <2> QED BY <2>1, <2>2 DEF Known
<1> QED BY <1>4, <1>7, <1>8 DEF StampInv

\* Only p starts, stops or gives a sync up.
LEMMA LeaseStamp ==
  ASSUME StampInv, NEW p \in Procs, Start(p) \/ List(p) \/ Tick(p) \/ Fail(p) \/ Crash(p)
  PROVE  StampInv'
<1>1. UNCHANGED <<chain, top, cursor, hash, stored, ledger>>
  BY DEF Start, List, Tick, Fail, Crash, chainVars, indexVars, Step
<1>2. \A q \in Procs : Busy(q) => holder = q
  BY DEF StampInv, OneSyncs
<1>3. CASE Start(p) \/ Tick(p)
  <2>1. ASSUME NEW here \in {"list", "head", "idle"}, Free(p) /\ holder' = p /\ Rest(p, here) PROVE StampInv'
    <3>1. \A q \in Procs \ {p} : ~Busy(q)
      BY <1>2, <2>1, NoneAssumption DEF Free
    <3> QED BY <1>1, <2>1, <3>1, Outside
  <2>2. CASE Rest(p, "standby") /\ UNCHANGED holder
    BY <1>1, <1>2, <2>2, Outside
  <2> QED BY <1>3, <2>1, <2>2 DEF Start, Tick
<1>6. CASE List(p)
  <2>1. holder = p /\ UNCHANGED holder
    BY <1>2, <1>6 DEF List, At, Busy, SyncPcs, Step
  <2>2. PICK here \in {"head", "asleep"} : Rest(p, here)
    BY <1>6 DEF List
  <2> QED BY <1>1, <1>2, <2>1, <2>2, Outside
<1>4. CASE Fail(p)
  BY <1>1, <1>2, <1>4, Outside DEF Fail
<1>5. CASE Crash(p)
  <2>1. Rest(p, "down") /\ (holder # p => holder' = holder)
    BY <1>5 DEF Crash
  <2>2. \A q \in Procs \ {p} : Busy(q) => holder' = q
    BY <1>2, <2>1
  <2> QED BY <1>1, <2>1, <2>2, Outside
<1> QED BY <1>3, <1>4, <1>5, <1>6

\* A lease lapses when its owner does not sync.
LEMMA StillStamp ==
  ASSUME StampInv, UNCHANGED <<chain, top, cursor, hash, stored, ledger, pc, loc>>,
         holder' = holder \/ holder = Dead \/ \E p \in Procs : holder = p /\ ~Busy(p)
  PROVE  StampInv'
<1>1. pc' \in [Procs -> Pcs] /\ loc' \in [Procs -> Locals]
  BY DEF StampInv, Typed, Pcs
<1>2. Typed' /\ Stamped' /\ AboveIsChain' /\ RetainedMatches'
  BY <1>1, Kept
<1>3. OneSyncs'
  BY NoneAssumption DEF StampInv, OneSyncs, Busy
<1>4. Known'
  BY KnowsKept DEF StampInv, Known
<1> QED BY <1>2, <1>3, <1>4 DEF StampInv

-----------------------------------------------------------------------------
(* The chain moves. *)

\* Blocks above k are others now: nothing an unfinished sync has read, nothing the
\* index rests on, and no hash in the ledger is of one of them.
LEMMA ChainStamp ==
  ASSUME StampInv, Sealing, NEW k \in Nat, NEW c \in Chains, k <= Len(chain), k <= Len(c),
         SubSeq(c, 1, k) = SubSeq(chain, 1, k), Become(k, c), Sealed(k),
         hash # NoHash => \A b \in 1..cursor - ReorgDepth : b <= k,
         UNCHANGED <<indexVars, procVars>>
  PROVE  StampInv'
<1>1. /\ chain' = c /\ UNCHANGED <<cursor, hash, stored, ledger, holder, pc, loc>>
      /\ \A b \in k + 1..Len(c) : ledger[b] # SubSeq(c, 1, b)
      /\ top' = IF Len(c) > top THEN Len(c) ELSE top
  BY DEF Become, Sealing, indexVars, procVars
<1>2. /\ chain \in Chains /\ Len(chain) \in 0..MaxHeight /\ Len(c) \in 0..MaxHeight
      /\ top \in 0..MaxHeight
  BY ChainLength, ChainSeq DEF StampInv, Typed
<1>3. \A b \in 1..k : c[b] = chain[b] /\ SubSeq(c, 1, b) = SubSeq(chain, 1, b)
  BY <1>2, SamePrefix
<1>4. ASSUME NEW n \in Nat, n <= k, Match(n) PROVE Match(n)'
  <2>1. \A b \in 1..n : Stored(b)' = chain'[b]
    BY <1>1, <1>3, <1>4 DEF Match, Stored
  <2>2. n <= Len(chain')
    BY <1>1, <1>2, <1>4
  <2> QED BY <2>1, <2>2 DEF Match
<1>5. ASSUME NEW b \in 1..k PROVE Hash(b)' = Hash(b)
  <2>1. b \in 1..Len(chain) /\ b \in 1..Len(c)
    BY <1>2
  <2>2. Hash(b) = SubSeq(chain, 1, b) /\ Hash(b)' = SubSeq(c, 1, b)
    BY <1>1, <2>1, Zenon DEF Hash
  <2> QED BY <1>3, <2>2
<1>6. Typed'
  <2>1. top' \in 0..MaxHeight /\ Len(chain') <= top'
    BY <1>1, <1>2, SizesAssumption
  <2> QED BY <1>1, <2>1 DEF StampInv, Typed
<1>7. \A p \in Procs : Busy(p) => holder = p /\ loc[p].safe <= k
  BY DEF StampInv, OneSyncs, Sealed
<1>8. OneSyncs'
  <2>1. ASSUME NEW p \in Procs, Busy(p) PROVE loc[p].safe <= Len(c)
    BY <1>2, <1>7, <2>1, Busies
  <2> QED BY <1>1, <1>7, <2>1 DEF OneSyncs, Busy
<1>9. Stamped'
  <2>1. ASSUME cursor \in Nat, hash = NoHash PROVE Match(cursor)'
    <3>1. Match(cursor) /\ cursor <= k
      BY <2>1 DEF StampInv, Stamped, Sealed
    <3> QED BY <1>1, <1>4, <2>1, <3>1
  <2>2. ASSUME hash # NoHash
        PROVE  /\ cursor \in Nat /\ Len(hash) = cursor /\ cursor <= top'
               /\ \A b \in 1..cursor : Stored(b)' = hash[b]
               /\ \A b \in 1..cursor - ReorgDepth : b <= Len(c) /\ hash[b] = c[b]
    <3>1. /\ cursor \in Nat /\ Len(hash) = cursor /\ cursor <= top
          /\ \A b \in 1..cursor : Stored(b) = hash[b]
          /\ \A b \in 1..cursor - ReorgDepth : b <= Len(chain) /\ hash[b] = chain[b]
      BY <2>2 DEF StampInv, Stamped
    <3>2. cursor <= top'
      BY <1>1, <1>2, <3>1
    <3>3. \A b \in 1..cursor : Stored(b)' = hash[b]
      BY <1>1, <3>1 DEF Stored
    <3>4. ASSUME NEW b \in 1..cursor - ReorgDepth PROVE b <= Len(c) /\ hash[b] = c[b]
      <4>1. b \in 1..k
        BY <2>2, <3>1, SizesAssumption
      <4> QED BY <1>2, <1>3, <3>1, <4>1
    <3> QED BY <3>1, <3>2, <3>3, <3>4
  <2> QED BY <1>1, <2>1, <2>2 DEF Stamped
<1>10. AboveIsChain'
  <2>1. ASSUME NEW t \in Txs, cursor \in Nat, stored[t] > cursor
        PROVE  stored[t] <= Len(c) /\ t \in c[stored[t]]
    <3>1. stored[t] <= k /\ t \in chain[stored[t]] /\ stored[t] \in Nat
      BY <2>1 DEF StampInv, Typed, AboveIsChain, Sealed
    <3> QED BY <1>2, <1>3, <2>1, <3>1
  <2> QED BY <1>1, <2>1 DEF StampInv, AboveIsChain
<1>11. RetainedMatches'
  <2>1. SUFFICES ASSUME NEW b \in Heights, cursor \in Nat, b <= cursor, ledger[b] # NoHash,
                        ledger[b] = Hash(b)'
                 PROVE  Match(b)'
    BY <1>1 DEF RetainedMatches
  <2>2. b \in 1..Len(c) /\ Hash(b)' = SubSeq(c, 1, b)
    BY <1>1, <2>1 DEF Hash
  <2>3. b \in 1..k
    BY <1>1, <1>2, <2>1, <2>2
  <2>4. Match(b)
    BY <1>5, <2>1, <2>3 DEF StampInv, RetainedMatches
  <2> QED BY <1>4, <2>3, <2>4
<1>12. ASSUME NEW p \in Procs PROVE Knows(p)'
  <2>1. CASE ~Busy(p)
    BY <1>1, <2>1 DEF Knows, Busy, SyncPcs, ForkPcs, ChunkPcs
  <2>2. CASE Busy(p)
    <3>1. loc[p] \in Locals /\ loc[p].safe <= k /\ End(p)' = End(p)
      BY <1>1, <1>7, <2>2, Busies DEF End
    <3>2. Knows(p) /\ UNCHANGED <<pc, loc, cursor, hash, ledger>>
      BY <1>1 DEF StampInv, Known
    <3>3. pc[p] = "rewind" => Match(loc[p].ancestor)'
      <4>1. ASSUME pc[p] = "rewind" PROVE Match(loc[p].ancestor)'
        <5>1. Match(loc[p].ancestor) /\ loc[p].ancestor \in Nat /\ loc[p].ancestor <= k
          BY <3>1, <3>2, <4>1 DEF Knows, Locals
        <5> QED BY <1>1, <1>4, <5>1
      <4> QED BY <4>1
    <3>4. pc[p] = "cursor" /\ cursor <= loc[p].safe => Match(cursor)'
      <4>1. ASSUME pc[p] = "cursor", cursor <= loc[p].safe PROVE Match(cursor)'
        <5>1. cursor \in Nat /\ Match(cursor) /\ cursor <= k
          BY <3>1, <3>2, <4>1 DEF Knows, SyncPcs, Locals
        <5> QED BY <1>1, <1>4, <5>1
      <4> QED BY <4>1
    <3>5. ASSUME pc[p] \in ChunkPcs
          PROVE  /\ Match(cursor)' /\ loc[p].start \in Nat \ {0} /\ End(p) \in 1..k
                 /\ Hash(End(p))' = Hash(End(p))
                 /\ pc[p] \in {"endBlock", "advance"} => Match(End(p))'
      <4>1. /\ Match(cursor) /\ cursor \in Nat /\ cursor <= k /\ loc[p].start \in Nat \ {0}
            /\ End(p) \in 1..k
        BY <3>1, <3>5, AtChunk DEF Locals, Heights
      <4>2. Match(cursor)' /\ Hash(End(p))' = Hash(End(p))
        BY <1>1, <1>4, <1>5, <3>1, <4>1
      <4>3. ASSUME pc[p] \in {"endBlock", "advance"} PROVE Match(End(p))'
        <5>1. Match(End(p))
          BY <3>2, <4>3 DEF Knows
        <5> QED BY <1>4, <3>1, <4>1, <5>1
      <4> QED BY <4>1, <4>2, <4>3
    <3>6. ASSUME pc[p] = "apply", NEW t \in Txs
          PROVE  /\ loc[p].events[t] # 0 => /\ loc[p].events[t] \in loc[p].start..End(p)
                                            /\ t \in c[loc[p].events[t]]
                 /\ \A b \in loc[p].start..End(p) : t \in c[b] => loc[p].events[t] = b
      <4>1. \A b \in loc[p].start..End(p) : c[b] = chain[b]
        BY <1>3, <3>5, <3>6 DEF ChunkPcs
      <4> QED BY <3>2, <3>6, <4>1 DEF Knows
    <3>7. ASSUME pc[p] = "record" PROVE Match(cursor)' /\ Hash(End(p))' = Hash(End(p))
      <4>1. Match(cursor) /\ cursor \in Nat /\ cursor = End(p) /\ loc[p].start <= loc[p].safe
        BY <3>2, <3>7 DEF Knows, SyncPcs
      <4>2. End(p) <= loc[p].safe
        BY <3>1, <4>1, SizesAssumption DEF End, Locals
      <4>3. cursor <= k
        BY <3>1, <4>1, <4>2 DEF Locals
      <4>4. Match(cursor)'
        BY <1>1, <1>4, <4>1, <4>3
      <4>5. Hash(End(p))' = Hash(End(p))
        <5>1. CASE cursor = 0
          BY <3>1, <4>1, <5>1, <1>2 DEF Hash
        <5>2. CASE cursor # 0
          BY <1>5, <3>1, <4>1, <4>3, <5>2
        <5> QED BY <5>1, <5>2
      <4> QED BY <4>4, <4>5
    <3> QED BY <1>1, <3>1, <3>2, <3>3, <3>4, <3>5, <3>6, <3>7 DEF Knows, ForkPcs, ChunkPcs
  <2> QED BY <2>1, <2>2
<1> QED BY <1>6, <1>8, <1>9, <1>10, <1>11, <1>12 DEF StampInv, Known

LEMMA MineStamp == ASSUME StampInv, Sealing, Mine PROVE StampInv'
<1>1. PICK block \in SUBSET Txs :
        Append(chain, block) \in Chains /\ Become(Len(chain), Append(chain, block))
  BY DEF Mine
<1> DEFINE c == Append(chain, block)
           k == Len(chain)
<1>2. chain \in Seq(SUBSET Txs) /\ chain \in Chains /\ k \in Nat
  BY ChainLength, ChainSeq
<1>3. k <= Len(c) /\ SubSeq(c, 1, k) = SubSeq(chain, 1, k)
  BY <1>2
<1>4. Sealed(k)
  <2>1. \A p \in Procs : Busy(p) => loc[p].safe <= k
    BY DEF StampInv, OneSyncs
  <2>2. cursor \in Nat /\ hash = NoHash => cursor <= k
    BY DEF StampInv, Stamped, Match
  <2>3. \A t \in Txs : cursor \in Nat /\ stored[t] > cursor => stored[t] <= k
    BY DEF StampInv, AboveIsChain
  <2> QED BY <2>1, <2>2, <2>3 DEF Sealed
<1>5. hash # NoHash => \A b \in 1..cursor - ReorgDepth : b <= k
  BY DEF StampInv, Stamped
<1>6. c \in Chains /\ Become(k, c) /\ k <= Len(chain) /\ UNCHANGED <<indexVars, procVars>>
  BY <1>1, <1>2 DEF Mine
<1> HIDE DEF c, k
<1> QED BY <1>2, <1>3, <1>4, <1>5, <1>6, ChainStamp

LEMMA ReorgStamp == ASSUME StampInv, Sealing, Reorg PROVE StampInv'
<1>1. PICK k \in 0..Len(chain) - 1, c \in Chains :
        /\ top - k <= ReorgDepth /\ Sealed(k) /\ Become(k, c)
        /\ Len(c) >= k /\ SubSeq(c, 1, k) = SubSeq(chain, 1, k)
  BY DEF Reorg, Sealing
<1>2. Len(chain) \in Nat /\ Len(c) \in Nat /\ k \in Nat /\ k <= Len(chain) /\ k <= Len(c)
  BY <1>1, ChainLength, ChainSeq
<1>3. hash # NoHash => \A b \in 1..cursor - ReorgDepth : b <= k
  <2>1. SUFFICES ASSUME hash # NoHash, NEW b \in 1..cursor - ReorgDepth PROVE b <= k
    OBVIOUS
  <2>2. cursor \in Nat /\ cursor <= top /\ top \in Nat
    BY <2>1, SizesAssumption DEF StampInv, Stamped, Typed
  <2> QED BY <1>1, <1>2, <2>1, <2>2, SizesAssumption
<1>4. UNCHANGED <<indexVars, procVars>>
  BY DEF Reorg
<1> QED BY <1>1, <1>2, <1>3, <1>4, ChainStamp

-----------------------------------------------------------------------------
LEMMA InitStamp == Init => StampInv
<1> SUFFICES ASSUME Init PROVE StampInv
  OBVIOUS
<1>1. NoWhere \in [Txs -> 0..MaxHeight] /\ \A t \in Txs : NoWhere[t] = 0
  BY SizesAssumption DEF NoWhere
<1>2. chain = NoHash /\ \A p \in Procs : pc[p] = "down"
  BY DEF Init, NoHash
<1>3. Typed
  <2>1. Len(chain) <= top /\ chain \in Chains /\ top \in 0..MaxHeight
    BY <1>2, EmptyChain, SizesAssumption DEF Init
  <2>2. pc \in [Procs -> Pcs] /\ loc \in [Procs -> Locals]
    BY NoLocalsType DEF Init, Pcs
  <2> QED BY <1>1, <2>1, <2>2, EmptyChain DEF Init, Typed, Pcs
<1>4. OneSyncs /\ Known
  BY <1>2 DEF OneSyncs, Known, Knows, Busy, SyncPcs, ForkPcs, ChunkPcs
<1>5. Stamped /\ AboveIsChain /\ RetainedMatches
  BY <1>1, NoneAssumption DEF Init, Stamped, AboveIsChain, RetainedMatches
<1> QED BY <1>3, <1>4, <1>5 DEF StampInv

LEMMA StepStamp == ASSUME StampInv, Sealing, [Next]_vars PROVE StampInv'
<1>1. CASE Mine
  BY <1>1, MineStamp
<1>2. CASE Reorg
  BY <1>2, ReorgStamp
<1>3. CASE Lapse \/ Deploy
  <2>1. holder' = holder \/ holder = Dead \/ \E p \in Procs : holder = p /\ ~Busy(p)
    BY <1>3 DEF Lapse, Deploy, procVars, At, Busy, SyncPcs
  <2>2. UNCHANGED <<chain, top, cursor, hash, stored, ledger, pc, loc>>
    BY <1>3 DEF Lapse, Deploy, chainVars, indexVars, procVars
  <2> QED BY <2>1, <2>2, StillStamp
<1>4. CASE Ripen
  BY <1>4, StillStamp DEF Ripen, chainVars, procVars
<1>5. ASSUME NEW p \in Procs, Start(p) \/ Tick(p) \/ Fail(p) \/ Crash(p) PROVE StampInv'
  BY <1>5, LeaseStamp
<1>6. ASSUME NEW p \in Procs, Sync(p) PROVE StampInv'
  <2>1. CASE List(p) \/ ReadHead(p) \/ Ensure(p) \/ Mark(p) \/ Clear(p) \/ ResetIndex(p) \/ Seed(p)
    BY <2>1, LeaseStamp, HeadStamp, EnsureStamp, MarkClearStamp, ResetStamp, SeedStamp
  <2>2. CASE ReorgRead(p) \/ Check(p) \/ ReadHashes(p) \/ Walk(p) \/ Rewind(p) \/ Prune(p)
    BY <2>2, ReorgReadStamp, CheckStamp, ReadHashesStamp, WalkStamp, RewindStamp, PruneStamp
  <2>3. CASE ReadCursor(p) \/ Query(p) \/ Apply(p) \/ EndBlock(p) \/ Advance(p) \/ Record(p)
    BY <2>3, ReadCursorStamp, QueryStamp, ApplyStamp, EndBlockStamp, AdvanceStamp, RecordStamp
  <2> QED BY <1>6, <2>1, <2>2, <2>3 DEF Sync
<1>7. CASE UNCHANGED vars
  BY <1>7, StillStamp DEF vars, chainVars, indexVars, procVars
<1> QED BY <1>1, <1>2, <1>3, <1>4, <1>5, <1>6, <1>7 DEF Next

\* As long as a reorg spares what an unfinished sync has read and no chain returns
\* to a dead fork, the index holds up to a stamped cursor what the chain of the
\* stamped block holds, however syncs are cut short, repeated and told stale answers.
THEOREM IndexStamped == ASSUME Sealing PROVE Spec => []IndexIsStamped
<1>1. Init => StampInv
  BY InitStamp
<1>2. StampInv /\ [Next]_vars => StampInv'
  BY StepStamp
<1>3. StampInv => IndexIsStamped
  BY DEF StampInv, Stamped, Stored, IndexIsStamped
<1> QED BY <1>1, <1>2, <1>3, PTL DEF Spec

-----------------------------------------------------------------------------
(* What is left of the types. *)

Counts ==
  /\ reorgs \in 0..MaxReorgs /\ fails \in 0..MaxFails /\ deployed \in BOOLEAN
  /\ behind \in {"no", "seen", "ripe"}
  /\ holder \in Procs \cup {NoProc, Dead}

LEMMA InitCounts == Init => Counts
<1> SUFFICES ASSUME Init PROVE Counts
  OBVIOUS
<1>1. reorgs \in 0..MaxReorgs /\ fails \in 0..MaxFails
  BY SizesAssumption DEF Init
<1>2. deployed \in BOOLEAN /\ behind \in {"no", "seen", "ripe"} /\ holder \in Procs \cup {NoProc, Dead}
  BY DEF Init
<1> QED BY <1>1, <1>2 DEF Counts

LEMMA StepCounts == ASSUME Counts, [Next]_vars PROVE Counts'
<1>1. CASE Mine
  BY <1>1 DEF Mine, Counts, indexVars, procVars
<1>2. CASE Reorg
  BY <1>2, SizesAssumption DEF Reorg, Counts, indexVars, procVars
<1>3. CASE Deploy \/ Lapse \/ Ripen
  BY <1>3 DEF Deploy, Lapse, Ripen, Counts, chainVars, indexVars, procVars
<1>4. ASSUME NEW p \in Procs, Start(p) \/ Tick(p) PROVE Counts'
  BY <1>4 DEF Start, Tick, Counts, chainVars, indexVars
<1>5. ASSUME NEW p \in Procs, Fail(p) \/ Crash(p) PROVE Counts'
  <2>1. fails' \in 0..MaxFails
    BY <1>5, SizesAssumption DEF Fail, Crash, Counts
  <2>2. holder' \in Procs \cup {NoProc, Dead} /\ UNCHANGED <<reorgs, deployed, behind>>
    BY <1>5 DEF Fail, Crash, Counts, chainVars, indexVars
  <2> QED BY <2>1, <2>2 DEF Counts
<1>6. ASSUME NEW p \in Procs, ReadHead(p) \/ Check(p) \/ Walk(p) \/ EndBlock(p) PROVE Counts'
  <2>1. UNCHANGED <<reorgs, deployed, behind, holder>>
    BY <1>6 DEF ReadHead, Check, Walk, EndBlock, chainVars, indexVars
  <2>2. \/ UNCHANGED fails
        \/ fails < MaxFails /\ fails' = fails + 1
    BY <1>6 DEF ReadHead, Check, Walk, EndBlock, Ask
  <2>3. fails' \in 0..MaxFails
    BY <2>2, SizesAssumption DEF Counts
  <2> QED BY <2>1, <2>3 DEF Counts
<1>7. ASSUME NEW p \in Procs, Sync(p), ~(ReadHead(p) \/ Check(p) \/ Walk(p) \/ EndBlock(p))
      PROVE  Counts'
  <2>1. CASE List(p) \/ Ensure(p) \/ ReorgRead(p) \/ ReadHashes(p) \/ ReadCursor(p) \/ Query(p)
    BY <2>1 DEF List, Ensure, ReorgRead, ReadHashes, ReadCursor, Query, Step, Counts, chainVars, indexVars
  <2>2. CASE Mark(p) \/ Clear(p) \/ ResetIndex(p) \/ Seed(p)
    BY <2>2 DEF Mark, Clear, ResetIndex, Seed, Step, Counts, chainVars
  <2>3. CASE Rewind(p) \/ Prune(p) \/ Apply(p) \/ Advance(p) \/ Record(p)
    BY <2>3 DEF Rewind, Prune, Apply, Advance, Record, Step, Counts, chainVars
  <2> QED BY <1>7, <2>1, <2>2, <2>3 DEF Sync
<1>8. CASE UNCHANGED vars
  BY <1>8 DEF vars, Counts, chainVars, indexVars, procVars
<1> QED BY <1>1, <1>2, <1>3, <1>4, <1>5, <1>6, <1>7, <1>8 DEF Next

\* Under the same assumption every variable keeps its type, and a stamp is the hash
\* of a block at the cursor.
THEOREM TypeCorrect == ASSUME Sealing PROVE Spec => []TypeOK
<1>1. Init => StampInv /\ Counts /\ Inv
  BY InitStamp, InitCounts, InitInv
<1>2. StampInv /\ Counts /\ Inv /\ [Next]_vars => (StampInv /\ Counts /\ Inv)'
  BY StepStamp, StepCounts, StepInv
<1>3. StampInv /\ Counts /\ Inv => TypeOK
  BY DEF StampInv, Typed, Stamped, Counts, Inv, TypeOK
<1> QED BY <1>1, <1>2, <1>3, PTL DEF Spec
=============================================================================
