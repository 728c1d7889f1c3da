-------------------------- MODULE MCBusinessTools --------------------------
(* Two orders of one SKU with three units in a second warehouse: every write *)
(* under two keys, so that calls compete for stock, for orders and for keys; *)
(* refunds of more than was paid and of an order nobody asked to cancel.     *)
EXTENDS BusinessTools

CONSTANTS o1, o2, lax, sfo, sku, st, k1, k2

MCLanes == {<<sfo, lax>>}
MCStock == [w \in {lax, sfo} |-> [s \in {sku} |-> IF w = sfo THEN 3 ELSE 0]]
MCHome == [o \in {o1, o2} |-> lax]
MCItems == [o \in {o1, o2} |-> [s \in {sku} |-> 1]]
MCPrice == [o \in {o1, o2} |-> 2]

Transfer(f, t, q, k, dry) ==
    [op |-> "transfer", sku |-> sku, from |-> f, to |-> t, quantity |-> q, key |-> k, dryRun |-> dry]
Change(o, k) == [op |-> "warehouse", order |-> o, to |-> sfo, key |-> k, dryRun |-> FALSE]
Refund(o, a, k) == [op |-> "refund", order |-> o, amount |-> a, key |-> k, dryRun |-> FALSE]
Case(k) == [op |-> "reconciliation", statement |-> st, key |-> k, dryRun |-> FALSE]

MCRequests ==
    {Transfer(sfo, lax, 2, k1, FALSE), Transfer(sfo, lax, 2, k2, FALSE), Transfer(sfo, lax, 1, k1, TRUE),
     Transfer(sfo, sfo, 1, k2, FALSE), Change(o1, k1), Change(o2, k2), Refund(o2, 0, k1), Refund(o2, 2, k1),
     Refund(o2, 1, k2), Refund(o2, 3, k2), Refund(o1, 1, k1), Case(k1), Case(NoKey), [op |-> "inventory", sku |-> sku]}
=============================================================================
