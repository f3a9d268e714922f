------------------------------ MODULE MCIndexer ------------------------------
\* Instances of Indexer: a mint to one holder, who sends the unit to another.
EXTENDS Indexer

CONSTANTS p1, t1, t2, ann, bob

MCFrom == [t \in Txs |-> IF t = t1 THEN Zero ELSE ann]
MCTo == [t \in Txs |-> IF t = t1 THEN ann ELSE bob]
=============================================================================
