------------------------- MODULE MCOrderReservation -------------------------
\* Instances of OrderReservation: one person with two wallets, another with one.
EXTENDS OrderReservation

CONSTANTS o1, o2, o3, o4, w1, w2, w3

MCWalletOf == [o \in Orders |-> CASE o = o1 -> w1 [] o = o2 -> w2 [] OTHER -> w3]
MCPersonOf == [w \in Wallets |-> IF w = w3 THEN "bob" ELSE "ann"]
MCWant == [o \in Orders |-> IF o = o3 THEN 3 ELSE 2]
MCCap == [x \in {"ann", "bob"} |-> IF x = "ann" THEN 3 ELSE NoCap]
=============================================================================
