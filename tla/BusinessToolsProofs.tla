------------------------ MODULE BusinessToolsProofs ------------------------
(***************************************************************************)
(* Proofs about the business service: whatever calls are repeated,         *)
(* abandoned or handled late, a key takes effect once, an order is         *)
(* refunded once and stays cancelled, no stock goes below zero, and the    *)
(* inventory tool offers no lane out of an empty warehouse.                *)
(***************************************************************************)
EXTENDS BusinessTools, WellFoundedInduction, TLAPS

Balance == [available : Nat, reserved : Nat, inbound : Nat]

\* The part of the type invariant that is about the service.
ShopTypeOK ==
    /\ orders \in [Orders -> [status : {"awaiting_shipment", "partially_shipped", "cancelled"},
                              wh : Warehouses]]
    /\ inventory \in [Warehouses -> [Skus -> Balance]]
    /\ records \in [Writes -> Seq(Requests)]
    /\ idempotency \in [Writes -> [Keys -> Nat]]

\* A write that takes effect, of each kind.
Effective(r, st, id) ==
    /\ r.op \in Writes /\ Enters(r, st, id)
    /\ \/ r.op = "transfer" /\ ~Malformed(r) /\ CanTransfer(r) /\ MoveStock(r) /\ UNCHANGED orders
       \/ /\ r.op = "warehouse" /\ CanChange(r)
          /\ inventory' = [inventory EXCEPT ![r.to] = [s \in Skus |->
                 [inventory[r.to][s] EXCEPT !.available = @ - Items[r.order][s],
                                             !.reserved = @ + Items[r.order][s]]]]
          /\ orders' = [orders EXCEPT ![r.order].wh = r.to]
       \/ /\ r.op = "refund" /\ CanRefund(r)
          /\ orders' = [orders EXCEPT ![r.order].status = "cancelled"]
          /\ UNCHANGED inventory
       \/ r.op = "reconciliation" /\ UNCHANGED <<orders, inventory>>

\* A handler changes nothing, and then it says "done" only of a key that took
\* effect before, or it is effective.
LEMMA HandleCases ==
    ASSUME NEW r \in Requests, NEW st, NEW id, Handle(r, st, id)
    PROVE  /\ r.op \in Writes
           /\ \/ /\ UNCHANGED shop
                 /\ st = "done" => Known(r) /\ id = idempotency[r.op][r.key]
              \/ Effective(r, st, id)
<1>1. CASE r.op = "transfer" /\ CreateTransfer(r, st, id)
  BY <1>1 DEF CreateTransfer, Settles, Effective, Writes
<1>2. CASE r.op = "warehouse" /\ ChangeFulfillmentWarehouse(r, st, id)
  BY <1>2 DEF ChangeFulfillmentWarehouse, Settles, Effective, Writes
<1>3. CASE r.op = "refund" /\ ApproveRefund(r, st, id)
  BY <1>3 DEF ApproveRefund, Settles, Effective, Writes
<1>4. CASE r.op = "reconciliation" /\ CreateReconciliation(r, st, id)
  BY <1>4 DEF CreateReconciliation, Settles, Effective, Writes
<1> QED BY <1>1, <1>2, <1>3, <1>4 DEF Handle

LEMMA KeyTyped ==
    ASSUME NEW r \in Requests, r.op \in Writes
    PROVE  r.key \in Keys
BY DEF Keys

\* An effective write leaves the stock a number and never raises what is
\* available anywhere.
LEMMA EffectOnStock ==
    ASSUME ShopTypeOK, NEW r \in Requests, NEW st, NEW id, Effective(r, st, id)
    PROVE  /\ inventory' \in [Warehouses -> [Skus -> Balance]]
           /\ \A w \in Warehouses, s \in Skus :
                 inventory'[w][s].available <= inventory[w][s].available
<1>1. CASE r.op = "transfer" /\ ~Malformed(r) /\ CanTransfer(r) /\ MoveStock(r)
  <2>1. /\ r.sku \in Skus /\ r.from \in Warehouses /\ r.to \in Warehouses
        /\ r.quantity \in Int
    BY <1>1, RequestsAssumption
  <2>2. r.quantity \in Nat /\ r.from # r.to
    BY <1>1, <2>1 DEF Malformed
  <2>3. inventory[r.from][r.sku].available >= r.quantity
    BY <1>1 DEF CanTransfer
  <2>4. inventory[r.from][r.sku] \in Balance /\ inventory[r.to][r.sku] \in Balance
    BY <2>1 DEF ShopTypeOK
  <2> DEFINE a == inventory[r.from][r.sku].available - r.quantity
             i == inventory[r.to][r.sku].inbound + r.quantity
  <2>5. a \in Nat /\ a <= inventory[r.from][r.sku].available /\ i \in Nat
    BY <2>2, <2>3, <2>4 DEF Balance
  <2>6. inventory' = [inventory EXCEPT ![r.from][r.sku].available = a, ![r.to][r.sku].inbound = i]
    BY <1>1, <2>1, <2>2 DEF MoveStock, ShopTypeOK
  <2> HIDE DEF a, i
  <2>7. ASSUME NEW w \in Warehouses, NEW s \in Skus
        PROVE  /\ inventory'[w][s] \in Balance
               /\ inventory'[w][s].available <= inventory[w][s].available
    <3>1. inventory[w][s] \in Balance
      BY DEF ShopTypeOK
    <3>2. CASE w = r.from /\ s = r.sku
      <4>1. inventory'[w][s] = [inventory[w][s] EXCEPT !.available = a]
        BY <2>1, <2>2, <2>6, <3>2 DEF ShopTypeOK
      <4> QED BY <4>1, <2>5, <3>1, <3>2 DEF Balance
    <3>3. CASE w = r.to /\ s = r.sku
      <4>1. inventory'[w][s] = [inventory[w][s] EXCEPT !.inbound = i]
        BY <2>1, <2>2, <2>6, <3>3 DEF ShopTypeOK
      <4> QED BY <4>1, <2>5, <3>1, <3>3 DEF Balance
    <3>4. CASE ~(w = r.from /\ s = r.sku) /\ ~(w = r.to /\ s = r.sku)
      <4>1. inventory'[w][s] = inventory[w][s]
        BY <2>1, <2>2, <2>6, <3>4 DEF ShopTypeOK
      <4> QED BY <4>1, <3>1 DEF Balance
    <3> QED BY <3>2, <3>3, <3>4
  <2>8. /\ inventory' = [w \in Warehouses |-> inventory'[w]]
        /\ \A w \in Warehouses : inventory'[w] = [s \in Skus |-> inventory'[w][s]]
    BY <2>6, <2>1, <2>2 DEF ShopTypeOK
  <2> QED BY <2>7, <2>8
<1>2. CASE /\ r.op = "warehouse" /\ CanChange(r)
           /\ inventory' = [inventory EXCEPT ![r.to] = [s \in Skus |->
                 [inventory[r.to][s] EXCEPT !.available = @ - Items[r.order][s],
                                            !.reserved = @ + Items[r.order][s]]]]
  <2>1. r.order \in Orders /\ r.to \in Warehouses /\ Items[r.order] \in [Skus -> Nat]
    BY <1>2, RequestsAssumption, SeedAssumption
  <2>2. ASSUME NEW w \in Warehouses, NEW s \in Skus
        PROVE  /\ inventory'[w][s] \in Balance
               /\ inventory'[w][s].available <= inventory[w][s].available
    <3>1. inventory[w][s] \in Balance /\ Items[r.order][s] \in Nat
      BY <2>1 DEF ShopTypeOK
    <3>2. CASE w # r.to
      <4>1. inventory'[w][s] = inventory[w][s]
        BY <1>2, <2>1, <3>2 DEF ShopTypeOK
      <4> QED BY <4>1, <3>1 DEF Balance
    <3>3. CASE w = r.to
      <4>2. inventory[w][s].available >= Items[r.order][s]
        BY <1>2, <3>3 DEF CanChange
      <4> DEFINE a == inventory[w][s].available - Items[r.order][s]
                 v == inventory[w][s].reserved + Items[r.order][s]
      <4>3. a \in Nat /\ v \in Nat /\ a <= inventory[w][s].available
        BY <4>2, <3>1 DEF Balance
      <4>4. inventory'[w][s] = [inventory[w][s] EXCEPT !.available = a, !.reserved = v]
        BY <1>2, <2>1, <3>3, <3>1 DEF Balance, ShopTypeOK
      <4> HIDE DEF a, v
      <4> QED BY <4>3, <4>4, <3>1 DEF Balance
    <3> QED BY <3>2, <3>3
  <2>3. /\ inventory' = [w \in Warehouses |-> inventory'[w]]
        /\ \A w \in Warehouses : inventory'[w] = [s \in Skus |-> inventory'[w][s]]
    BY <1>2, <2>1 DEF ShopTypeOK
  <2> QED BY <2>2, <2>3
<1>3. CASE UNCHANGED inventory
  <2>1. \A w \in Warehouses, s \in Skus : inventory[w][s] \in Balance
    BY DEF ShopTypeOK
  <2> QED BY <1>3, <2>1 DEF ShopTypeOK, Balance
<1> QED BY <1>1, <1>2, <1>3 DEF Effective

\* What any handler does to the service, whatever it answers.
LEMMA EffectOnShop ==
    ASSUME ShopTypeOK, NEW r \in Requests, NEW st, NEW id, Effective(r, st, id)
    PROVE  /\ ShopTypeOK'
           /\ r.op \in Writes /\ r.key \in Keys /\ idempotency[r.op][r.key] = 0
           /\ id = Len(records[r.op]) + 1 /\ st = "done"
           /\ records' = [records EXCEPT ![r.op] = Append(records[r.op], r)]
           /\ idempotency' = [idempotency EXCEPT ![r.op][r.key] = id]
<1>1. r.op \in Writes /\ r.key \in Keys
  BY KeyTyped DEF Effective
<1>2. Enters(r, st, id)
  BY DEF Effective
<1>3. records[r.op] \in Seq(Requests)
  BY <1>1 DEF ShopTypeOK
<1>4. id = Len(records[r.op]) + 1 /\ id \in Nat
  BY <1>2, <1>3 DEF Enters
<1>5. records' \in [Writes -> Seq(Requests)]
  BY <1>1, <1>2, <1>3 DEF Enters, ShopTypeOK
<1>6. idempotency' \in [Writes -> [Keys -> Nat]]
  BY <1>1, <1>2, <1>4 DEF Enters, ShopTypeOK
<1>7. inventory' \in [Warehouses -> [Skus -> Balance]]
  BY EffectOnStock
<1>8. orders' \in [Orders -> [status : {"awaiting_shipment", "partially_shipped", "cancelled"},
                              wh : Warehouses]]
  <2>1. CASE r.op = "warehouse" /\ orders' = [orders EXCEPT ![r.order].wh = r.to]
    BY <2>1, RequestsAssumption DEF ShopTypeOK
  <2>2. CASE r.op = "refund" /\ orders' = [orders EXCEPT ![r.order].status = "cancelled"]
    BY <2>2, RequestsAssumption DEF ShopTypeOK
  <2>3. CASE UNCHANGED orders
    BY <2>3 DEF ShopTypeOK
  <2> QED BY <2>1, <2>2, <2>3 DEF Effective
<1> QED BY <1>1, <1>2, <1>4, <1>5, <1>6, <1>7, <1>8 DEF ShopTypeOK, Enters, Known

LEMMA HandleOnShop ==
    ASSUME ShopTypeOK, NEW r \in Requests, NEW st, NEW id, Handle(r, st, id)
    PROVE  ShopTypeOK'
<1>1. CASE UNCHANGED shop
  BY <1>1 DEF shop, ShopTypeOK
<1>2. CASE Effective(r, st, id)
  BY <1>2, EffectOnShop
<1> QED BY <1>1, <1>2, HandleCases

CallRec == [st : {"idle", "sent", "reading", "failed", "validated", "done", "read"},
            req : Requests, id : Nat, seen : [Warehouses -> Nat],
            lanes : SUBSET Lanes, epoch : Nat]

PlatformTypeOK ==
    /\ call \in [Executors -> CallRec]
    /\ stray \in [Requests -> Nat] /\ calls \in 0 .. MaxCalls /\ epoch \in 0 .. MaxRestarts

LEMMA TypeParts == TypeOK <=> ShopTypeOK /\ PlatformTypeOK
BY DEF TypeOK, ShopTypeOK, PlatformTypeOK, Balance, CallRec

LEMMA SeedTyped ==
    /\ SeededOrders \in [Orders -> [status : {"awaiting_shipment", "partially_shipped", "cancelled"},
                                    wh : Warehouses]]
    /\ SeededInventory \in [Warehouses -> [Skus -> Balance]]
    /\ NoRecords \in [Writes -> Seq(Requests)] /\ NoKeys \in [Writes -> [Keys -> Nat]]
<1>1. SeededOrders \in [Orders -> [status : {"awaiting_shipment", "partially_shipped", "cancelled"},
                                   wh : Warehouses]]
  BY SeedAssumption DEF SeededOrders
<1>2. SeededInventory \in [Warehouses -> [Skus -> Balance]]
  <2>1. ASSUME NEW w \in Warehouses, NEW s \in Skus
        PROVE  [available |-> Stock[w][s], reserved |-> 0, inbound |-> 0] \in Balance
    BY SeedAssumption DEF Balance
  <2> QED BY <2>1 DEF SeededInventory
<1> QED BY <1>1, <1>2 DEF NoRecords, NoKeys

LEMMA InitTyped == Init => TypeOK
<1> SUFFICES ASSUME Init PROVE ShopTypeOK /\ PlatformTypeOK
  BY TypeParts
<1>1. ShopTypeOK
  BY SeedTyped DEF Init, ShopTypeOK
<1>2. PlatformTypeOK
  <2>1. (CHOOSE r \in Requests : TRUE) \in Requests
    BY RequestsAssumption
  <2>2. Nothing \in [Warehouses -> Nat]
    BY DEF Nothing
  <2>3. Unused \in CallRec
    BY <2>1, <2>2 DEF Unused, CallRec
  <2> QED BY <2>3, SeedAssumption DEF Init, NoStray, PlatformTypeOK
<1> QED BY <1>1, <1>2

LEMMA NextTyped == TypeOK /\ [Next]_vars => TypeOK'
<1> SUFFICES ASSUME ShopTypeOK, PlatformTypeOK, [Next]_vars PROVE ShopTypeOK' /\ PlatformTypeOK'
  BY DEF TypeOK, ShopTypeOK, PlatformTypeOK, Balance, CallRec
<1>n. Nothing \in [Warehouses -> Nat]
  BY DEF Nothing
<1>1. ASSUME NEW x \in Executors, NEW r \in Requests, Execute(x, r)
      PROVE  ShopTypeOK' /\ PlatformTypeOK'
  <2>1. call[x] \in CallRec /\ epoch \in Nat /\ calls \in Nat
    BY DEF PlatformTypeOK
  <2>2. calls' \in 0 .. MaxCalls
    BY <1>1, <2>1, SeedAssumption DEF Execute, PlatformTypeOK
  <2>3. call' \in [Executors -> CallRec]
    BY <1>1, <1>n, <2>1 DEF Execute, PlatformTypeOK, CallRec
  <2> QED BY <1>1, <2>2, <2>3 DEF Execute, shop, ShopTypeOK, PlatformTypeOK
<1>2. ASSUME NEW x \in Executors, Respond(x)
      PROVE  ShopTypeOK' /\ PlatformTypeOK'
  <2>1. PICK st \in {"failed", "validated", "done"}, id \in 0 .. MaxCalls :
            /\ Handle(call[x].req, st, id)
            /\ call' = [call EXCEPT ![x].st = st, ![x].id = id]
    BY <1>2 DEF Respond
  <2>2. PICK r \in Requests : r = call[x].req
    BY DEF PlatformTypeOK, CallRec
  <2>3. ShopTypeOK'
    BY <2>1, <2>2, HandleOnShop
  <2>4. id \in Nat /\ st \in {"failed", "validated", "done"}
    BY SeedAssumption
  <2>5. call' \in [Executors -> CallRec]
    BY <2>1, <2>4, ZenonT(40) DEF PlatformTypeOK, CallRec
  <2> QED BY <1>2, <2>3, <2>5 DEF Respond, PlatformTypeOK
<1>3. ASSUME NEW x \in Executors, ReadBalances(x)
      PROVE  ShopTypeOK' /\ PlatformTypeOK'
  <2>1. call[x].req \in Requests /\ call[x].req.op = "inventory"
    BY <1>3 DEF ReadBalances, PlatformTypeOK, CallRec
  <2>2. PICK s \in Skus : s = call[x].req.sku
    BY <2>1, RequestsAssumption
  <2>3. Balances(s) \in [Warehouses -> Nat]
    BY DEF Balances, ShopTypeOK, Balance
  <2>4. call' \in [Executors -> CallRec]
    BY <1>3, <2>2, <2>3, ZenonT(40) DEF ReadBalances, PlatformTypeOK, CallRec
  <2> QED BY <1>3, <2>4 DEF ReadBalances, shop, ShopTypeOK, PlatformTypeOK
<1>4. ASSUME NEW x \in Executors, ReadLanes(x)
      PROVE  ShopTypeOK' /\ PlatformTypeOK'
  <2>1. TransferLanes(call[x].req.sku) \in SUBSET Lanes
    BY DEF TransferLanes
  <2>2. call' \in [Executors -> CallRec]
    BY <1>4, <2>1, ZenonT(40) DEF ReadLanes, PlatformTypeOK, CallRec
  <2> QED BY <1>4, <2>2 DEF ReadLanes, shop, ShopTypeOK, PlatformTypeOK
<1>5. ASSUME NEW x \in Executors, GiveUp(x)
      PROVE  ShopTypeOK' /\ PlatformTypeOK'
  <2>1. call' \in [Executors -> CallRec]
    BY <1>5, <1>n, ZenonT(40) DEF GiveUp, PlatformTypeOK, CallRec
  <2>2. stray' \in [Requests -> Nat]
    BY <1>5 DEF GiveUp, PlatformTypeOK, CallRec
  <2> QED BY <1>5, <2>1, <2>2 DEF GiveUp, shop, ShopTypeOK, PlatformTypeOK
<1>6. ASSUME NEW r \in Requests, HandleStray(r)
      PROVE  ShopTypeOK' /\ PlatformTypeOK'
  <2>1. ShopTypeOK'
    <3>1. CASE UNCHANGED shop
      BY <3>1 DEF shop, ShopTypeOK
    <3>2. ASSUME NEW st, NEW id, Handle(r, st, id) PROVE ShopTypeOK'
      BY <3>2, HandleOnShop
    <3> QED BY <1>6, <3>1, <3>2 DEF HandleStray
  <2> QED BY <1>6, <2>1 DEF HandleStray, PlatformTypeOK
<1>7. ASSUME NEW r \in Requests, LoseStray(r)
      PROVE  ShopTypeOK' /\ PlatformTypeOK'
  BY <1>7 DEF LoseStray, shop, ShopTypeOK, PlatformTypeOK
<1>8. ASSUME Restart
      PROVE  ShopTypeOK' /\ PlatformTypeOK'
  <2>1. ShopTypeOK'
    BY <1>8, SeedTyped DEF Restart, ShopTypeOK
  <2>2. call' \in [Executors -> CallRec]
    BY <1>8, <1>n DEF Restart, PlatformTypeOK, CallRec
  <2>3. epoch \in Nat /\ MaxRestarts \in Nat
    BY SeedAssumption DEF PlatformTypeOK
  <2>4. epoch' \in 0 .. MaxRestarts
    <3>1. epoch < MaxRestarts /\ epoch' = epoch + 1
      BY <1>8 DEF Restart
    <3> QED BY <2>3, <3>1
  <2> QED BY <1>8, <2>1, <2>2, <2>4 DEF Restart, NoStray, PlatformTypeOK
<1>9. CASE UNCHANGED vars
  BY <1>9 DEF vars, shop, ShopTypeOK, PlatformTypeOK
<1> QED BY <1>1, <1>2, <1>3, <1>4, <1>5, <1>6, <1>7, <1>8, <1>9 DEF Next, Quiet

\* The type invariant of the service and its callers; with it, that no balance
\* goes below zero however transfers and warehouse changes are interleaved
\* (the checks of CreateTransfer and ChangeFulfillmentWarehouse).
THEOREM ShopTypeSafe == Spec => []TypeOK
BY InitTyped, NextTyped, PTL DEF Spec

-----------------------------------------------------------------------------
(* Keys, refunds and stock *)

\* Every entry is of its operation and the key map leads to it; every key used
\* leads to an entry of that key.
RecordsInv ==
    /\ \A op \in Writes : \A i \in DOMAIN records[op] :
          /\ records[op][i].op = op
          /\ idempotency[op][records[op][i].key] = i
    /\ \A op \in Writes, k \in Keys : idempotency[op][k] # 0 =>
          /\ idempotency[op][k] \in DOMAIN records[op]
          /\ records[op][idempotency[op][k]].key = k

\* What an executor knows: a call that is done has the entry of its key, unless
\* the service was restarted since, and balances that were read are still upper
\* bounds.
Knows(x) ==
    /\ call[x].epoch <= epoch
    /\ call[x].st = "done" => call[x].req.op \in Writes
    /\ call[x].st = "done" /\ call[x].epoch = epoch =>
          /\ call[x].id = idempotency[call[x].req.op][call[x].req.key]
          /\ call[x].id # 0
    /\ call[x].st = "reading" =>
          /\ call[x].req.op = "inventory"
          /\ \A w \in Warehouses : inventory[w][call[x].req.sku].available <= call[x].seen[w]
    /\ call[x].st = "read" => \A l \in call[x].lanes : call[x].seen[l[1]] > 0

LEMMA InventoryHasSku ==
    ASSUME NEW r \in Requests, r.op = "inventory"
    PROVE  r.sku \in Skus
BY RequestsAssumption

\* What a handler leaves of the service's bookkeeping.
LEMMA EffectKeepsRecords ==
    ASSUME ShopTypeOK, RecordsInv, NEW r \in Requests, NEW st, NEW id, Effective(r, st, id)
    PROVE  /\ RecordsInv'
           /\ \A op \in Writes, k \in Keys : idempotency[op][k] # 0 =>
                 idempotency'[op][k] = idempotency[op][k]
           /\ id = idempotency'[r.op][r.key] /\ id # 0
<1>1. /\ r.op \in Writes /\ r.key \in Keys /\ idempotency[r.op][r.key] = 0
      /\ id = Len(records[r.op]) + 1
      /\ records' = [records EXCEPT ![r.op] = Append(records[r.op], r)]
      /\ idempotency' = [idempotency EXCEPT ![r.op][r.key] = id]
  BY EffectOnShop
<1>2. records[r.op] \in Seq(Requests)
  BY <1>1 DEF ShopTypeOK
<1>3. /\ id \in Nat /\ id # 0 /\ id \notin DOMAIN records[r.op]
      /\ DOMAIN records'[r.op] = DOMAIN records[r.op] \cup {id}
      /\ records'[r.op][id] = r
      /\ \A i \in DOMAIN records[r.op] : records'[r.op][i] = records[r.op][i]
  <2>1. records'[r.op] = Append(records[r.op], r)
    BY <1>1 DEF ShopTypeOK
  <2> QED BY <1>1, <1>2, <2>1
<1>4. \A op \in Writes : op # r.op => records'[op] = records[op]
  BY <1>1 DEF ShopTypeOK
<1>5. \A op \in Writes, k \in Keys :
         idempotency'[op][k] = IF op = r.op /\ k = r.key THEN id ELSE idempotency[op][k]
  BY <1>1 DEF ShopTypeOK
<1>6. ASSUME NEW op \in Writes, NEW i \in DOMAIN records'[op]
      PROVE  /\ records'[op][i].op = op
             /\ idempotency'[op][records'[op][i].key] = i
  <2>1. CASE op = r.op /\ i = id
    BY <1>1, <1>3, <1>5, <2>1
  <2>2. CASE ~(op = r.op /\ i = id)
    <3>1. i \in DOMAIN records[op] /\ records'[op][i] = records[op][i]
      BY <1>3, <1>4, <2>2
    <3>2. records[op][i] \in Requests
      BY <3>1 DEF ShopTypeOK
    <3>3. records[op][i].op = op /\ idempotency[op][records[op][i].key] = i /\ i # 0
      BY <3>1 DEF RecordsInv, ShopTypeOK
    <3>4. records[op][i].key \in Keys
      BY <3>2, <3>3, KeyTyped
    <3>5. ~(op = r.op /\ records[op][i].key = r.key)
      BY <3>3, <1>1
    <3> QED BY <1>5, <3>1, <3>3, <3>4, <3>5
  <2> QED BY <2>1, <2>2
<1>7. ASSUME NEW op \in Writes, NEW k \in Keys, idempotency'[op][k] # 0
      PROVE  /\ idempotency'[op][k] \in DOMAIN records'[op]
             /\ records'[op][idempotency'[op][k]].key = k
  <2>1. CASE op = r.op /\ k = r.key
    BY <1>3, <1>5, <2>1
  <2>2. CASE ~(op = r.op /\ k = r.key)
    <3>1. idempotency'[op][k] = idempotency[op][k]
      BY <1>5, <2>2
    <3>2. /\ idempotency[op][k] \in DOMAIN records[op]
          /\ records[op][idempotency[op][k]].key = k
      BY <1>7, <3>1 DEF RecordsInv
    <3> QED BY <1>3, <1>4, <3>1, <3>2
  <2> QED BY <2>1, <2>2
<1> QED BY <1>1, <1>3, <1>5, <1>6, <1>7, SMTT(60) DEF RecordsInv

\* An order is cancelled by the refund that is entered with it, and by nothing
\* else.
LEMMA EffectKeepsRefunds ==
    ASSUME ShopTypeOK, RecordsInv, RefundedOnce,
           NEW r \in Requests, NEW st, NEW id, Effective(r, st, id)
    PROVE  RefundedOnce'
<1>1. /\ r.op \in Writes
      /\ records' = [records EXCEPT ![r.op] = Append(records[r.op], r)]
  BY EffectOnShop
<1>2. "refund" \in Writes
  BY DEF Writes
<1>3. CASE r.op # "refund"
  <2>1. records'["refund"] = records["refund"]
    BY <1>1, <1>2, <1>3 DEF ShopTypeOK
  <2>2. \A o \in Orders : orders'[o].status = orders[o].status
    <3>1. CASE UNCHANGED orders
      BY <3>1
    <3>2. CASE r.op = "warehouse" /\ orders' = [orders EXCEPT ![r.order].wh = r.to]
      <4>1. r.order \in Orders
        BY <3>2, RequestsAssumption
      <4> QED BY <3>2, <4>1 DEF ShopTypeOK
    <3> QED BY <1>3, <3>1, <3>2 DEF Effective
  <2> QED BY <2>1, <2>2 DEF RefundedOnce, Entries
<1>4. CASE r.op = "refund"
  <2>1. /\ r.order \in Orders /\ orders[r.order].status = "awaiting_shipment"
        /\ r.order \in Cancels /\ r.amount <= Price[r.order]
        /\ orders' = [orders EXCEPT ![r.order].status = "cancelled"]
    BY <1>4, RequestsAssumption DEF Effective, CanRefund
  <2>2. records["refund"] \in Seq(Requests)
    BY <1>2 DEF ShopTypeOK
  <2>3. records'["refund"] = Append(records["refund"], r)
    BY <1>1, <1>2, <1>4 DEF ShopTypeOK
  <2> DEFINE n == Len(records["refund"]) + 1
  <2>4. /\ DOMAIN records'["refund"] = DOMAIN records["refund"] \cup {n}
        /\ records'["refund"][n] = r
        /\ \A i \in DOMAIN records["refund"] : records'["refund"][i] = records["refund"][i]
    BY <2>2, <2>3
  <2> HIDE DEF n
  <2>5. \A i \in DOMAIN records["refund"] : records["refund"][i].order # r.order
    BY <2>1 DEF RefundedOnce, Entries
  <2>6. \A i, j \in DOMAIN records'["refund"] :
           records'["refund"][i].order = records'["refund"][j].order => i = j
    BY <2>4, <2>5 DEF RefundedOnce, Entries
  <2>7. ASSUME NEW o \in Orders
        PROVE  orders'[o].status = "cancelled" <=>
                  \E i \in DOMAIN records'["refund"] : records'["refund"][i].order = o
    <3>1. CASE o = r.order
      BY <3>1, <2>1, <2>4 DEF ShopTypeOK
    <3>2. CASE o # r.order
      BY <3>2, <2>1, <2>4 DEF ShopTypeOK, RefundedOnce, Entries
    <3> QED BY <3>1, <3>2
  <2>8. \A i \in DOMAIN records'["refund"] :
           /\ records'["refund"][i].order \in Cancels
           /\ records'["refund"][i].amount <= Price[records'["refund"][i].order]
    BY <2>1, <2>4 DEF RefundedOnce, Entries
  <2> QED BY <2>6, <2>7, <2>8 DEF RefundedOnce, Entries
<1> QED BY <1>3, <1>4

ShopInv == RecordsInv /\ RefundedOnce /\ \A x \in Executors : Knows(x)

\* What one handler, answered or not, keeps and gives.
LEMMA HandleKeeps ==
    ASSUME ShopTypeOK, RecordsInv, RefundedOnce,
           NEW r \in Requests, NEW st, NEW id, Handle(r, st, id)
    PROVE  /\ r.op \in Writes
           /\ RecordsInv' /\ RefundedOnce'
           /\ \A op \in Writes, k \in Keys : idempotency[op][k] # 0 =>
                 idempotency'[op][k] = idempotency[op][k]
           /\ st = "done" => id = idempotency'[r.op][r.key] /\ id # 0
           /\ \A w \in Warehouses, s \in Skus :
                 inventory'[w][s].available <= inventory[w][s].available
<1>1. r.op \in Writes
  BY HandleCases
<1>2. CASE UNCHANGED shop /\ (st = "done" => Known(r) /\ id = idempotency[r.op][r.key])
  <2>1. RecordsInv' /\ RefundedOnce'
    BY <1>2 DEF shop, RecordsInv, RefundedOnce, Entries
  <2>2. \A w \in Warehouses, s \in Skus : inventory[w][s].available \in Nat
    BY DEF ShopTypeOK, Balance
  <2> QED BY <1>1, <1>2, <2>1, <2>2 DEF shop, Known
<1>3. CASE Effective(r, st, id)
  BY <1>1, <1>3, EffectKeepsRecords, EffectKeepsRefunds, EffectOnStock
<1> QED BY <1>2, <1>3, HandleCases

\* An executor whose record is untouched keeps its knowledge over a handler.
LEMMA KnowsKept ==
    ASSUME ShopTypeOK, PlatformTypeOK, NEW x \in Executors, Knows(x),
           call'[x] = call[x], epoch' = epoch,
           \A op \in Writes, k \in Keys : idempotency[op][k] # 0 =>
                 idempotency'[op][k] = idempotency[op][k],
           inventory' \in [Warehouses -> [Skus -> Balance]],
           \A w \in Warehouses, s \in Skus :
                 inventory'[w][s].available <= inventory[w][s].available
    PROVE  Knows(x)'
<1> DEFINE c == call[x]
<1>1. c \in CallRec
  BY DEF PlatformTypeOK
<1>2. /\ c.epoch <= epoch
      /\ c.st = "done" => c.req.op \in Writes
      /\ c.st = "done" /\ c.epoch = epoch =>
            /\ c.id = idempotency[c.req.op][c.req.key]
            /\ c.id # 0
      /\ c.st = "reading" =>
            /\ c.req.op = "inventory"
            /\ \A w \in Warehouses : inventory[w][c.req.sku].available <= c.seen[w]
      /\ c.st = "read" => \A l \in c.lanes : c.seen[l[1]] > 0
  BY DEF Knows
<1>3. call'[x] = c
  OBVIOUS
<1>4. c.req \in Requests /\ c.seen \in [Warehouses -> Nat]
  BY <1>1 DEF CallRec
<1> HIDE DEF c
<1>5. c.st = "done" /\ c.epoch = epoch => c.id = idempotency'[c.req.op][c.req.key]
  BY <1>2, <1>4, KeyTyped
<1>6. ASSUME c.st = "reading", NEW w \in Warehouses
      PROVE  inventory'[w][c.req.sku].available <= c.seen[w]
  <2>1. c.req.sku \in Skus
    BY <1>2, <1>4, <1>6, InventoryHasSku
  <2>2. /\ inventory'[w][c.req.sku].available \in Nat
        /\ inventory[w][c.req.sku].available \in Nat
        /\ c.seen[w] \in Nat
    BY <1>4, <2>1 DEF ShopTypeOK, Balance
  <2>3. /\ inventory'[w][c.req.sku].available <= inventory[w][c.req.sku].available
        /\ inventory[w][c.req.sku].available <= c.seen[w]
    BY <1>2, <1>6, <2>1
  <2> QED BY <2>2, <2>3
<1> QED BY <1>2, <1>3, <1>5, <1>6 DEF Knows

LEMMA ShopInvInit == Init => ShopInv
<1> SUFFICES ASSUME Init PROVE ShopInv
  OBVIOUS
<1>1. \A op \in Writes : records[op] = <<>>
  BY DEF Init, NoRecords
<1>2. \A op \in Writes, k \in Keys : idempotency[op][k] = 0
  BY DEF Init, NoKeys
<1>3. RecordsInv
  BY <1>1, <1>2 DEF RecordsInv
<1>4. RefundedOnce
  <2>1. records["refund"] = <<>>
    BY <1>1 DEF Writes
  <2>2. \A o \in Orders : orders[o].status = "awaiting_shipment"
    BY DEF Init, SeededOrders
  <2> QED BY <2>1, <2>2 DEF RefundedOnce, Entries
<1>5. ASSUME NEW x \in Executors PROVE Knows(x)
  <2>1. call[x].st = "idle" /\ call[x].epoch = 0 /\ epoch = 0
    BY DEF Init, Unused
  <2> QED BY <2>1 DEF Knows
<1> QED BY <1>3, <1>4, <1>5 DEF ShopInv

\* A step that leaves the service alone and the other executors too.
LEMMA OthersKnow ==
    ASSUME TypeOK, ShopInv, UNCHANGED shop, epoch' = epoch,
           NEW x \in Executors, call'[x] = call[x]
    PROVE  Knows(x)'
BY DEF ShopInv, Knows, shop

LEMMA ShopInvNext == TypeOK /\ ShopInv /\ [Next]_vars => ShopInv'
<1> SUFFICES ASSUME TypeOK, ShopInv, [Next]_vars PROVE ShopInv'
  OBVIOUS
<1>t. ShopTypeOK /\ PlatformTypeOK
  BY TypeParts
<1>i. RecordsInv /\ RefundedOnce /\ \A x \in Executors : Knows(x)
  BY DEF ShopInv
<1>u. UNCHANGED shop => RecordsInv' /\ RefundedOnce'
  BY <1>i DEF shop, RecordsInv, RefundedOnce, Entries
<1>1. ASSUME NEW x \in Executors, NEW r \in Requests, Execute(x, r)
      PROVE  ShopInv'
  <2>1. Knows(x)'
    BY <1>1, <1>t DEF Execute, Knows, PlatformTypeOK, CallRec
  <2>2. \A y \in Executors : y # x => Knows(y)'
    BY <1>1, <1>t, OthersKnow DEF Execute, PlatformTypeOK
  <2> QED BY <1>1, <1>u, <2>1, <2>2 DEF Execute, ShopInv
<1>2. ASSUME NEW x \in Executors, Respond(x)
      PROVE  ShopInv'
  <2>1. PICK st \in {"failed", "validated", "done"}, id \in 0 .. MaxCalls :
            /\ Handle(call[x].req, st, id)
            /\ call' = [call EXCEPT ![x].st = st, ![x].id = id]
    BY <1>2 DEF Respond
  <2>2. PICK r \in Requests : r = call[x].req
    BY <1>t DEF PlatformTypeOK, CallRec
  <2>3. /\ r.op \in Writes
        /\ RecordsInv' /\ RefundedOnce'
        /\ \A op \in Writes, k \in Keys : idempotency[op][k] # 0 =>
              idempotency'[op][k] = idempotency[op][k]
        /\ st = "done" => id = idempotency'[r.op][r.key] /\ id # 0
        /\ \A w \in Warehouses, s \in Skus :
              inventory'[w][s].available <= inventory[w][s].available
    BY <1>t, <1>i, <2>1, <2>2, HandleKeeps
  <2>4. inventory' \in [Warehouses -> [Skus -> Balance]]
    BY <1>t, <2>1, <2>2, HandleOnShop DEF ShopTypeOK
  <2>5. epoch' = epoch
    BY <1>2 DEF Respond
  <2>6. Knows(x)'
    <3>1. /\ call'[x].st = st /\ call'[x].id = id /\ call'[x].req = r
          /\ call'[x].epoch = call[x].epoch
      BY <1>t, <2>1, <2>2 DEF PlatformTypeOK, CallRec
    <3>2. call[x].epoch <= epoch
      BY <1>i DEF Knows
    <3> QED BY <2>3, <2>5, <3>1, <3>2 DEF Knows
  <2>7. ASSUME NEW y \in Executors, y # x PROVE Knows(y)'
    <3>1. call'[y] = call[y]
      BY <1>t, <2>1, <2>7 DEF PlatformTypeOK
    <3> QED BY <1>t, <1>i, <2>3, <2>4, <2>5, <3>1, KnowsKept
  <2> QED BY <2>3, <2>6, <2>7 DEF ShopInv
<1>3. ASSUME NEW x \in Executors, ReadBalances(x)
      PROVE  ShopInv'
  <2>1. PICK r \in Requests : r = call[x].req
    BY <1>t DEF PlatformTypeOK, CallRec
  <2>2. r.op = "inventory" /\ r.sku \in Skus
    BY <1>3, <2>1, InventoryHasSku DEF ReadBalances
  <2>3. /\ call'[x].st = "reading" /\ call'[x].req = r /\ call'[x].epoch = call[x].epoch
        /\ call'[x].seen = Balances(r.sku)
    BY <1>3, <1>t, <2>1 DEF ReadBalances, PlatformTypeOK, CallRec
  <2>4. \A w \in Warehouses : inventory'[w][r.sku].available <= Balances(r.sku)[w]
    <3>1. \A w \in Warehouses : inventory[w][r.sku].available \in Nat
      BY <1>t, <2>2 DEF ShopTypeOK, Balance
    <3> QED BY <1>3, <3>1 DEF ReadBalances, Balances, shop
  <2>5. call[x].epoch <= epoch /\ epoch' = epoch
    BY <1>3, <1>i DEF Knows, ReadBalances
  <2>6. Knows(x)'
    BY <2>2, <2>3, <2>4, <2>5 DEF Knows
  <2>7. \A y \in Executors : y # x => Knows(y)'
    BY <1>3, <1>t, OthersKnow DEF ReadBalances, PlatformTypeOK
  <2> QED BY <1>3, <1>u, <2>6, <2>7 DEF ReadBalances, ShopInv
<1>4. ASSUME NEW x \in Executors, ReadLanes(x)
      PROVE  ShopInv'
  <2>1. PICK r \in Requests : r = call[x].req
    BY <1>t DEF PlatformTypeOK, CallRec
  <2>2. /\ r.op = "inventory" /\ r.sku \in Skus
        /\ \A w \in Warehouses : inventory[w][r.sku].available <= call[x].seen[w]
    BY <1>4, <1>i, <2>1, InventoryHasSku DEF ReadLanes, Knows
  <2>3. /\ call'[x].st = "read" /\ call'[x].epoch = call[x].epoch
        /\ call'[x].seen = call[x].seen /\ call'[x].lanes = TransferLanes(r.sku)
    BY <1>4, <1>t, <2>1 DEF ReadLanes, PlatformTypeOK, CallRec
  <2>4. ASSUME NEW l \in TransferLanes(r.sku) PROVE call[x].seen[l[1]] > 0
    <3>1. l[1] \in Warehouses /\ inventory[l[1]][r.sku].available > 0
      BY SeedAssumption DEF TransferLanes
    <3>2. inventory[l[1]][r.sku].available \in Nat /\ call[x].seen[l[1]] \in Nat
      BY <1>t, <2>2, <3>1 DEF ShopTypeOK, Balance, PlatformTypeOK, CallRec
    <3>3. inventory[l[1]][r.sku].available <= call[x].seen[l[1]]
      BY <2>2, <3>1
    <3> QED BY <3>1, <3>2, <3>3
  <2>5. call[x].epoch <= epoch /\ epoch' = epoch
    BY <1>4, <1>i DEF Knows, ReadLanes
  <2>6. Knows(x)'
    BY <2>3, <2>4, <2>5 DEF Knows
  <2>7. \A y \in Executors : y # x => Knows(y)'
    BY <1>4, <1>t, OthersKnow DEF ReadLanes, PlatformTypeOK
  <2> QED BY <1>4, <1>u, <2>6, <2>7 DEF ReadLanes, ShopInv
<1>5. ASSUME NEW x \in Executors, GiveUp(x)
      PROVE  ShopInv'
  <2>1. /\ call'[x].st = "failed" /\ call'[x].epoch = call[x].epoch
        /\ epoch' = epoch
    BY <1>5, <1>t DEF GiveUp, PlatformTypeOK, CallRec
  <2>2. Knows(x)'
    BY <1>i, <2>1 DEF Knows
  <2>3. \A y \in Executors : y # x => Knows(y)'
    BY <1>5, <1>t, OthersKnow DEF GiveUp, PlatformTypeOK
  <2> QED BY <1>5, <1>u, <2>2, <2>3 DEF GiveUp, ShopInv
<1>6. ASSUME NEW r \in Requests, HandleStray(r)
      PROVE  ShopInv'
  <2>1. CASE UNCHANGED shop
    <3>1. \A y \in Executors : Knows(y)'
      BY <1>6, <2>1, OthersKnow DEF HandleStray
    <3> QED BY <1>u, <2>1, <3>1 DEF ShopInv
  <2>2. ASSUME NEW st, NEW id, Handle(r, st, id) PROVE ShopInv'
    <3>1. /\ RecordsInv' /\ RefundedOnce'
          /\ \A op \in Writes, k \in Keys : idempotency[op][k] # 0 =>
                idempotency'[op][k] = idempotency[op][k]
          /\ \A w \in Warehouses, s \in Skus :
                inventory'[w][s].available <= inventory[w][s].available
      BY <1>t, <1>i, <2>2, HandleKeeps
    <3>2. inventory' \in [Warehouses -> [Skus -> Balance]]
      BY <1>t, <2>2, HandleOnShop DEF ShopTypeOK
    <3>3. \A y \in Executors : Knows(y)'
      BY <1>6, <1>t, <1>i, <3>1, <3>2, KnowsKept DEF HandleStray
    <3> QED BY <3>1, <3>3 DEF ShopInv
  <2> QED BY <1>6, <2>1, <2>2 DEF HandleStray
<1>7. ASSUME NEW r \in Requests, LoseStray(r)
      PROVE  ShopInv'
  <2>1. \A y \in Executors : Knows(y)'
    BY <1>7, OthersKnow DEF LoseStray
  <2> QED BY <1>7, <1>u, <2>1 DEF LoseStray, ShopInv
<1>8. ASSUME Restart
      PROVE  ShopInv'
  <2>1. \A op \in Writes : records'[op] = <<>>
    BY <1>8 DEF Restart, NoRecords
  <2>2. \A op \in Writes, k \in Keys : idempotency'[op][k] = 0
    BY <1>8 DEF Restart, NoKeys
  <2>3. RecordsInv'
    BY <2>1, <2>2 DEF RecordsInv
  <2>4. RefundedOnce'
    <3>1. records'["refund"] = <<>>
      BY <2>1 DEF Writes
    <3>2. \A o \in Orders : orders'[o].status = "awaiting_shipment"
      BY <1>8 DEF Restart, SeededOrders
    <3> QED BY <3>1, <3>2 DEF RefundedOnce, Entries
  <2>5. ASSUME NEW x \in Executors PROVE Knows(x)'
    <3>0. call[x] \in CallRec
      BY <1>t DEF PlatformTypeOK
    <3>1. epoch' = epoch + 1 /\ epoch \in Nat /\ call[x].epoch \in Nat /\ call[x].epoch <= epoch
      <4>1. epoch' = epoch + 1
        BY <1>8 DEF Restart
      <4> QED BY <4>1, <1>t, <1>i, <3>0 DEF PlatformTypeOK, CallRec, Knows
    <3>2. CASE call[x].st \in Ended
      <4>1. call'[x] = call[x] /\ call[x].st # "reading"
        BY <1>8, <3>2 DEF Restart, Ended
      <4> QED BY <1>i, <3>1, <4>1 DEF Knows
    <3>3. CASE call[x].st \notin Ended
      <4>1. call'[x].st = "failed" /\ call'[x].epoch = call[x].epoch
        BY <1>8, <3>0, <3>3 DEF Restart, CallRec
      <4> QED BY <3>1, <4>1 DEF Knows
    <3> QED BY <3>2, <3>3
  <2> QED BY <2>3, <2>4, <2>5 DEF ShopInv
<1>9. CASE UNCHANGED vars
  <2>1. UNCHANGED shop /\ UNCHANGED call /\ epoch' = epoch
    BY <1>9 DEF vars
  <2>2. \A y \in Executors : Knows(y)'
    BY <2>1, OthersKnow
  <2> QED BY <1>u, <2>1, <2>2 DEF ShopInv
<1> QED BY <1>1, <1>2, <1>3, <1>4, <1>5, <1>6, <1>7, <1>8, <1>9 DEF Next, Quiet

LEMMA ShopIsInvariant == Spec => [](TypeOK /\ ShopInv)
BY InitTyped, NextTyped, ShopInvInit, ShopInvNext, PTL DEF Spec

\* However often a call is retried, abandoned or handled late, its key takes
\* effect once, and who is told "done" is told that entry (the idempotency map
\* that every write handler reads and extends under the mutex).
THEOREM ShopKeyTakesEffectOnce == Spec => []KeyTakesEffectOnce
<1> SUFFICES ASSUME TypeOK, ShopInv PROVE KeyTakesEffectOnce
  BY ShopIsInvariant, PTL
<1>1. \A op \in Writes : \A i, j \in Entries(op) :
         records[op][i].key = records[op][j].key => i = j
  BY DEF ShopInv, RecordsInv, Entries
<1>2. ASSUME NEW x \in Executors, call[x].st = "done", call[x].epoch = epoch
      PROVE  /\ call[x].id \in Entries(call[x].req.op)
             /\ records[call[x].req.op][call[x].id].key = call[x].req.key
  <2>1. call[x].req \in Requests
    BY TypeParts DEF PlatformTypeOK, CallRec
  <2>2. /\ call[x].req.op \in Writes
        /\ call[x].id = idempotency[call[x].req.op][call[x].req.key] /\ call[x].id # 0
    BY <1>2 DEF ShopInv, Knows
  <2>3. call[x].req.key \in Keys
    BY <2>1, <2>2, KeyTyped
  <2> QED BY <2>2, <2>3 DEF ShopInv, RecordsInv, Entries
<1> QED BY <1>1, <1>2 DEF KeyTakesEffectOnce

\* An order is refunded at most once and cancelled exactly when it was refunded
\* (ApproveRefund).
THEOREM ShopRefundsOnce == Spec => []RefundedOnce
BY ShopIsInvariant, PTL DEF ShopInv

\* The two reads of the inventory tool may straddle other calls, but what is
\* available never grows, so a lane it offers starts where it saw stock
\* (GetInventory and TransferLanes in router.go).
THEOREM ShopLanesHaveStock == Spec => []LanesHaveStock
<1> SUFFICES ASSUME ShopInv PROVE LanesHaveStock
  BY ShopIsInvariant, PTL
<1> QED BY DEF ShopInv, Knows, LanesHaveStock

\* A cancelled order stays as it is until a restart and no warehouse change of
\* it is entered any more (the status check of ChangeFulfillmentWarehouse).
THEOREM ShopCancelledIsFinal == Spec => CancelledIsFinal
<1> DEFINE Final ==
       \A o \in Orders : orders[o].status = "cancelled" /\ epoch' = epoch
          => /\ orders'[o] = orders[o]
             /\ \A i \in DOMAIN records'["warehouse"] \ Entries("warehouse") :
                   records'["warehouse"][i].order # o
<1>1. ASSUME TypeOK, [Next]_vars PROVE [Final]_vars
  <2>t. ShopTypeOK /\ PlatformTypeOK /\ "warehouse" \in Writes
    BY <1>1, TypeParts DEF Writes
  <2>1. ASSUME UNCHANGED shop PROVE Final
    BY <2>1 DEF shop, Entries
  <2>2. ASSUME NEW r \in Requests, NEW st, NEW id, Handle(r, st, id) PROVE Final
    <3>1. CASE UNCHANGED shop
      BY <2>1, <3>1
    <3>2. CASE Effective(r, st, id)
      <4>1. records' = [records EXCEPT ![r.op] = Append(records[r.op], r)] /\ r.op \in Writes
        BY <2>t, <3>2, EffectOnShop
      <4>2. CASE r.op = "warehouse"
        <5>1. /\ r.order \in Orders /\ orders[r.order].status # "cancelled"
              /\ orders' = [orders EXCEPT ![r.order].wh = r.to]
          BY <3>2, <4>2, RequestsAssumption DEF Effective, CanChange, Open
        <5>2. records["warehouse"] \in Seq(Requests)
          BY <2>t DEF ShopTypeOK
        <5>3. records'["warehouse"] = Append(records["warehouse"], r)
          BY <2>t, <4>1, <4>2 DEF ShopTypeOK
        <5>4. \A i \in DOMAIN records'["warehouse"] \ Entries("warehouse") :
                 records'["warehouse"][i] = r
          BY <5>2, <5>3 DEF Entries
        <5>5. \A o \in Orders : o # r.order => orders'[o] = orders[o]
          BY <2>t, <5>1 DEF ShopTypeOK
        <5> QED BY <5>1, <5>4, <5>5
      <4>3. CASE r.op # "warehouse"
        <5>1. records'["warehouse"] = records["warehouse"]
          BY <2>t, <4>1, <4>3 DEF ShopTypeOK
        <5>2. ASSUME NEW o \in Orders, orders[o].status = "cancelled"
              PROVE  orders'[o] = orders[o]
          <6>1. CASE UNCHANGED orders
            BY <6>1
          <6>2. CASE /\ r.op = "refund" /\ CanRefund(r)
                     /\ orders' = [orders EXCEPT ![r.order].status = "cancelled"]
            BY <2>t, <5>2, <6>2 DEF CanRefund, ShopTypeOK
          <6> QED BY <3>2, <4>3, <6>1, <6>2 DEF Effective
        <5> QED BY <5>1, <5>2 DEF Entries
      <4> QED BY <4>2, <4>3
    <3> QED BY <2>2, <3>1, <3>2, HandleCases
  <2>3. ASSUME NEW x \in Executors, Respond(x) PROVE Final
    <3>1. PICK r \in Requests : r = call[x].req
      BY <2>t DEF PlatformTypeOK, CallRec
    <3> QED BY <2>2, <2>3, <3>1 DEF Respond
  <2>4. ASSUME NEW r \in Requests, HandleStray(r) PROVE Final
    BY <2>1, <2>2, <2>4 DEF HandleStray
  <2>5. ASSUME Restart PROVE Final
    <3>1. epoch' = epoch + 1
      BY <2>5 DEF Restart
    <3>2. epoch \in Nat
      BY <2>t DEF PlatformTypeOK
    <3> QED BY <3>1, <3>2
  <2> HIDE DEF Final
  <2> QED BY <1>1, <2>1, <2>3, <2>4, <2>5
          DEF Next, Execute, ReadBalances, ReadLanes, GiveUp, LoseStray, Quiet, vars
<1> QED BY <1>1, ShopTypeSafe, PTL DEF Spec, CancelledIsFinal

-----------------------------------------------------------------------------
(* Totals *)

\* A non-empty set of natural numbers has a least element: the induction that
\* the facts about Total need.
LEMMA LeastNat ==
    ASSUME NEW T, T \subseteq Nat, T # {}
    PROVE  \E x \in T : \A y \in T : ~(y < x)
<1> DEFINE R == OpToRel(<, Nat)
<1>1. IsWellFoundedOn(R, Nat)
  BY NatLessThanWellFounded DEF OpToRel
<1>2. \A x, y \in Nat : <<y, x>> \in R <=> y < x
  BY DEF OpToRel
<1> HIDE DEF R
<1>3. \E x \in T : \A y \in T : ~ (<<y, x>> \in R)
  BY <1>1, WFMin
<1> QED BY <1>2, <1>3

\* f[n] is the sum of the first n elements of q.
PartialSums(f, q) == f = [n \in 0 .. Len(q) |-> IF n = 0 THEN 0 ELSE f[n - 1] + q[n]]

LEMMA SumsExist ==
    ASSUME NEW q \in Seq(Int)
    PROVE  \E f \in [0 .. Len(q) -> Int] : PartialSums(f, q)
<1> DEFINE Sums(f, n) == f[0] = 0 /\ \A i \in 1 .. n : f[i] = f[i - 1] + q[i]
           T == {n \in 0 .. Len(q) : ~ \E f \in [0 .. n -> Int] : Sums(f, n)}
<1>0. Len(q) \in Nat /\ \A i \in 1 .. Len(q) : q[i] \in Int
  OBVIOUS
<1>1. T = {}
  <2> SUFFICES ASSUME T # {} PROVE FALSE
    OBVIOUS
  <2>0. T \subseteq Nat
    BY <1>0
  <2>1. PICK n \in T : \A m \in T : ~(m < n)
    <3> HIDE DEF T
    <3> QED BY <2>0, LeastNat
  <2>2. n \in 0 .. Len(q) /\ ~ \E f \in [0 .. n -> Int] : Sums(f, n)
    OBVIOUS
  <2>3. CASE n = 0
    <3> DEFINE z == [i \in 0 .. 0 |-> 0]
    <3>1. z \in [0 .. n -> Int] /\ Sums(z, n)
      BY <2>3
    <3> QED BY <2>2, <3>1
  <2>4. CASE n > 0
    <3>0. n - 1 \in 0 .. Len(q) /\ n - 1 < n
      BY <1>0, <2>2, <2>4
    <3>1. n - 1 \notin T
      <4> HIDE DEF T
      <4> QED BY <2>1, <3>0
    <3>2. PICK f \in [0 .. n - 1 -> Int] : Sums(f, n - 1)
      BY <3>0, <3>1
    <3> DEFINE g == [i \in 0 .. n |-> IF i = n THEN f[n - 1] + q[n] ELSE f[i]]
    <3>3. f[n - 1] \in Int /\ q[n] \in Int
      BY <1>0, <2>2, <2>4
    <3>4. g \in [0 .. n -> Int]
      BY <2>2, <3>3
    <3>5. Sums(g, n)
      BY <2>2, <2>4, <3>2
    <3> QED BY <2>2, <3>4, <3>5
  <2> QED BY <1>0, <2>2, <2>3, <2>4
<1>2. PICK f \in [0 .. Len(q) -> Int] : Sums(f, Len(q))
  <2>1. Len(q) \in 0 .. Len(q)
    BY <1>0
  <2>2. Len(q) \notin T
    BY <1>1
  <2> HIDE DEF Sums
  <2> QED BY <2>1, <2>2
<1>3. \A n \in 0 .. Len(q) : f[n] = IF n = 0 THEN 0 ELSE f[n - 1] + q[n]
  BY <1>0, <1>2
<1> QED BY <1>3 DEF PartialSums

LEMMA SumsAgree ==
    ASSUME NEW q \in Seq(Int), NEW f, NEW g, PartialSums(f, q), PartialSums(g, q)
    PROVE  f = g
<1> DEFINE T == {n \in 0 .. Len(q) : f[n] # g[n]}
<1>0. Len(q) \in Nat
  OBVIOUS
<1>1. \A n \in 0 .. Len(q) : /\ f[n] = IF n = 0 THEN 0 ELSE f[n - 1] + q[n]
                             /\ g[n] = IF n = 0 THEN 0 ELSE g[n - 1] + q[n]
  BY DEF PartialSums
<1>2. T = {}
  <2> SUFFICES ASSUME T # {} PROVE FALSE
    OBVIOUS
  <2>0. T \subseteq Nat
    BY <1>0
  <2>1. PICK n \in T : \A m \in T : ~(m < n)
    <3> HIDE DEF T
    <3> QED BY <2>0, LeastNat
  <2>2. CASE n = 0
    BY <1>1, <2>2
  <2>3. CASE n > 0
    <3>1. n - 1 \in 0 .. Len(q) /\ n - 1 \notin T
      BY <1>0, <2>1, <2>3
    <3> QED BY <1>1, <2>3, <3>1
  <2> QED BY <1>0, <2>2, <2>3
<1>3. f = [n \in 0 .. Len(q) |-> f[n]] /\ g = [n \in 0 .. Len(q) |-> g[n]]
  BY DEF PartialSums
<1> QED BY <1>2, <1>3

\* So the recursive definition of Total defines the last partial sum.
LEMMA TotalIs ==
    ASSUME NEW q \in Seq(Int), NEW f, PartialSums(f, q)
    PROVE  Total(q) = f[Len(q)]
<1>1. Total(q) = (CHOOSE g : PartialSums(g, q))[Len(q)]
  BY DEF Total, PartialSums
<1>2. PartialSums(CHOOSE g : PartialSums(g, q), q)
  OBVIOUS
<1> QED BY <1>1, <1>2, SumsAgree

LEMMA TotalOfNone ==
    ASSUME NEW q \in Seq(Int), Len(q) = 0
    PROVE  Total(q) = 0
<1>1. PICK f : PartialSums(f, q)
  BY SumsExist
<1>2. f[0] = 0
  BY <1>1 DEF PartialSums
<1> QED BY <1>1, <1>2, TotalIs

LEMMA TotalExtends ==
    ASSUME NEW q \in Seq(Int), NEW p \in Seq(Int), Len(p) = Len(q) + 1,
           \A i \in 1 .. Len(q) : p[i] = q[i]
    PROVE  Total(p) = Total(q) + p[Len(p)]
<1>1. PICK f \in [0 .. Len(q) -> Int] : PartialSums(f, q)
  BY SumsExist
<1>2. PICK g \in [0 .. Len(p) -> Int] : PartialSums(g, p)
  BY SumsExist
<1> DEFINE h == [n \in 0 .. Len(q) |-> g[n]]
<1>0. Len(q) \in Nat
  OBVIOUS
<1>3. \A n \in 0 .. Len(p) : g[n] = IF n = 0 THEN 0 ELSE g[n - 1] + p[n]
  BY <1>2 DEF PartialSums
<1>4. \A n \in 0 .. Len(q) : h[n] = IF n = 0 THEN 0 ELSE h[n - 1] + q[n]
  BY <1>0, <1>3
<1>5. PartialSums(h, q)
  BY <1>4 DEF PartialSums
<1>6. g[Len(q)] = f[Len(q)] /\ g[Len(p)] = g[Len(q)] + p[Len(p)]
  BY <1>0, <1>1, <1>3, <1>5, SumsAgree
<1>7. Total(q) = f[Len(q)] /\ Total(p) = g[Len(p)]
  BY <1>1, <1>2, TotalIs
<1> QED BY <1>0, <1>1, <1>6, <1>7

\* A total of integers is an integer.
LEMMA TotalTyped ==
    ASSUME NEW q \in Seq(Int)
    PROVE  Total(q) \in Int
<1>1. PICK f \in [0 .. Len(q) -> Int] : PartialSums(f, q)
  BY SumsExist
<1>2. f[Len(q)] \in Int
  OBVIOUS
<1> QED BY <1>1, <1>2, TotalIs

-----------------------------------------------------------------------------
(* Stock *)

Transfers == {r \in Requests : r.op = "transfer"}
Changes == {r \in Requests : r.op = "warehouse"}

LEMMA TransfersTyped ==
    ASSUME NEW t \in Seq(Transfers), NEW w, NEW s \in Skus
    PROVE  /\ Outbound(t, w, s) \in Seq(Int) /\ Len(Outbound(t, w, s)) = Len(t)
           /\ Inbound(t, w, s) \in Seq(Int) /\ Len(Inbound(t, w, s)) = Len(t)
<1>1. DOMAIN t = 1 .. Len(t) /\ Len(t) \in Nat
  OBVIOUS
<1>2. \A i \in 1 .. Len(t) : t[i].quantity \in Int
  BY RequestsAssumption DEF Transfers
<1> QED BY <1>1, <1>2 DEF Outbound, Inbound

LEMMA ChangesTyped ==
    ASSUME NEW c \in Seq(Changes), NEW w, NEW s \in Skus
    PROVE  Reserved(c, w, s) \in Seq(Int) /\ Len(Reserved(c, w, s)) = Len(c)
<1>1. DOMAIN c = 1 .. Len(c) /\ Len(c) \in Nat
  OBVIOUS
<1>2. \A i \in 1 .. Len(c) : c[i].order \in Orders
  BY RequestsAssumption DEF Changes
<1>3. \A i \in 1 .. Len(c) : Items[c[i].order][s] \in Int
  BY <1>2, SeedAssumption
<1> QED BY <1>1, <1>3 DEF Reserved

\* One more transfer, or one more change of warehouse, adds its own amount.
LEMMA TransferAdds ==
    ASSUME NEW t \in Seq(Transfers), NEW r \in Transfers, NEW w, NEW s \in Skus
    PROVE  /\ Total(Outbound(Append(t, r), w, s)) =
                 Total(Outbound(t, w, s)) + IF r.from = w /\ r.sku = s THEN r.quantity ELSE 0
           /\ Total(Inbound(Append(t, r), w, s)) =
                 Total(Inbound(t, w, s)) + IF r.to = w /\ r.sku = s THEN r.quantity ELSE 0
<1> DEFINE u == Append(t, r)
<1>1. /\ u \in Seq(Transfers) /\ Len(u) = Len(t) + 1 /\ u[Len(u)] = r
      /\ Len(t) \in Nat /\ DOMAIN u = 1 .. Len(u) /\ DOMAIN t = 1 .. Len(t)
      /\ \A i \in 1 .. Len(t) : u[i] = t[i]
  OBVIOUS
<1> HIDE DEF u
<1>2. /\ Outbound(t, w, s) \in Seq(Int) /\ Len(Outbound(t, w, s)) = Len(t)
      /\ Inbound(t, w, s) \in Seq(Int) /\ Len(Inbound(t, w, s)) = Len(t)
      /\ Outbound(u, w, s) \in Seq(Int) /\ Len(Outbound(u, w, s)) = Len(u)
      /\ Inbound(u, w, s) \in Seq(Int) /\ Len(Inbound(u, w, s)) = Len(u)
  BY <1>1, TransfersTyped
<1>3. /\ \A i \in 1 .. Len(t) : Outbound(u, w, s)[i] = Outbound(t, w, s)[i]
      /\ Outbound(u, w, s)[Len(u)] = IF r.from = w /\ r.sku = s THEN r.quantity ELSE 0
  BY <1>1 DEF Outbound
<1>4. /\ \A i \in 1 .. Len(t) : Inbound(u, w, s)[i] = Inbound(t, w, s)[i]
      /\ Inbound(u, w, s)[Len(u)] = IF r.to = w /\ r.sku = s THEN r.quantity ELSE 0
  BY <1>1 DEF Inbound
<1>5. Total(Outbound(u, w, s)) = Total(Outbound(t, w, s)) + Outbound(u, w, s)[Len(u)]
  BY <1>1, <1>2, <1>3, TotalExtends
<1>6. Total(Inbound(u, w, s)) = Total(Inbound(t, w, s)) + Inbound(u, w, s)[Len(u)]
  BY <1>1, <1>2, <1>4, TotalExtends
<1> QED BY <1>3, <1>4, <1>5, <1>6 DEF u

LEMMA ChangeAdds ==
    ASSUME NEW c \in Seq(Changes), NEW r \in Changes, NEW w, NEW s \in Skus
    PROVE  Total(Reserved(Append(c, r), w, s)) =
              Total(Reserved(c, w, s)) + IF r.to = w THEN Items[r.order][s] ELSE 0
<1> DEFINE u == Append(c, r)
<1>1. /\ u \in Seq(Changes) /\ Len(u) = Len(c) + 1 /\ u[Len(u)] = r
      /\ Len(c) \in Nat /\ DOMAIN u = 1 .. Len(u) /\ DOMAIN c = 1 .. Len(c)
      /\ \A i \in 1 .. Len(c) : u[i] = c[i]
  OBVIOUS
<1> HIDE DEF u
<1>2. /\ Reserved(c, w, s) \in Seq(Int) /\ Len(Reserved(c, w, s)) = Len(c)
      /\ Reserved(u, w, s) \in Seq(Int) /\ Len(Reserved(u, w, s)) = Len(u)
  BY <1>1, ChangesTyped
<1>3. /\ \A i \in 1 .. Len(c) : Reserved(u, w, s)[i] = Reserved(c, w, s)[i]
      /\ Reserved(u, w, s)[Len(u)] = IF r.to = w THEN Items[r.order][s] ELSE 0
  BY <1>1 DEF Reserved
<1>4. Total(Reserved(u, w, s)) = Total(Reserved(c, w, s)) + Reserved(u, w, s)[Len(u)]
  BY <1>1, <1>2, <1>3, TotalExtends
<1> QED BY <1>3, <1>4 DEF u

\* Every entry is of its operation, so the lists have their types.
LEMMA RecordLists ==
    ASSUME ShopTypeOK, RecordsInv
    PROVE  records["transfer"] \in Seq(Transfers) /\ records["warehouse"] \in Seq(Changes)
<1>1. records["transfer"] \in Seq(Requests) /\ records["warehouse"] \in Seq(Requests)
  BY DEF ShopTypeOK, Writes
<1>2. /\ \A i \in 1 .. Len(records["transfer"]) : records["transfer"][i] \in Transfers
      /\ \A i \in 1 .. Len(records["warehouse"]) : records["warehouse"][i] \in Changes
  BY <1>1 DEF RecordsInv, Writes, Transfers, Changes
<1> QED BY <1>1, <1>2
LEMMA EffectKeepsStock ==
    ASSUME ShopTypeOK, RecordsInv, StockMatchesRecords,
           NEW r \in Requests, NEW st, NEW id, Effective(r, st, id)
    PROVE  StockMatchesRecords'
<1> SUFFICES ASSUME NEW w \in Warehouses, NEW s \in Skus
             PROVE  inventory'[w][s] =
                 [available |-> Stock[w][s] - Total(Outbound(records'["transfer"], w, s))
                                            - Total(Reserved(records'["warehouse"], w, s)),
                  reserved  |-> Total(Reserved(records'["warehouse"], w, s)),
                  inbound   |-> Total(Inbound(records'["transfer"], w, s))]
  BY DEF StockMatchesRecords
<1> DEFINE t == records["transfer"]
           c == records["warehouse"]
           out == Total(Outbound(t, w, s))
           in == Total(Inbound(t, w, s))
           res == Total(Reserved(c, w, s))
<1>1. t \in Seq(Transfers) /\ c \in Seq(Changes)
  BY RecordLists
<1>2. inventory[w][s] = [available |-> Stock[w][s] - out - res, reserved |-> res, inbound |-> in]
  BY DEF StockMatchesRecords
<1>3. records' = [records EXCEPT ![r.op] = Append(records[r.op], r)] /\ r.op \in Writes
  BY EffectOnShop
<1>4. out \in Int /\ in \in Int /\ res \in Int /\ Stock[w][s] \in Int
  BY <1>1, TransfersTyped, ChangesTyped, TotalTyped, SeedAssumption
<1>5. r.op # "transfer" => records'["transfer"] = t
  BY <1>3 DEF ShopTypeOK, Writes
<1>6. r.op # "warehouse" => records'["warehouse"] = c
  BY <1>3 DEF ShopTypeOK, Writes
<1>7. CASE r.op = "transfer" /\ ~Malformed(r) /\ MoveStock(r)
  <2>1. r \in Transfers
    BY <1>7 DEF Transfers
  <2>2. records'["transfer"] = Append(t, r)
    BY <1>3, <1>7 DEF ShopTypeOK
  <2>3. /\ Total(Outbound(records'["transfer"], w, s)) =
              out + IF r.from = w /\ r.sku = s THEN r.quantity ELSE 0
        /\ Total(Inbound(records'["transfer"], w, s)) =
              in + IF r.to = w /\ r.sku = s THEN r.quantity ELSE 0
    BY <1>1, <2>1, <2>2, TransferAdds
  <2>4. Total(Reserved(records'["warehouse"], w, s)) = res
    BY <1>6, <1>7
  <2>5. /\ r.sku \in Skus /\ r.from \in Warehouses /\ r.to \in Warehouses
        /\ r.quantity \in Int /\ r.from # r.to
    BY <1>7, RequestsAssumption DEF Malformed
  <2> HIDE DEF out, in, res
  <2>6. inventory' = [inventory EXCEPT ![r.from][r.sku].available = @ - r.quantity,
                                       ![r.to][r.sku].inbound = @ + r.quantity]
    BY <1>7 DEF MoveStock
  <2>7. CASE w = r.from /\ s = r.sku
    <3>1. inventory'[w][s] = [inventory[w][s] EXCEPT !.available = @ - r.quantity]
      BY <2>5, <2>6, <2>7 DEF ShopTypeOK
    <3>2. inventory'[w][s] = [available |-> Stock[w][s] - (out + r.quantity) - res,
                              reserved |-> res, inbound |-> in]
      BY <1>2, <1>4, <2>5, <3>1
    <3>3. /\ Total(Outbound(records'["transfer"], w, s)) = out + r.quantity
          /\ Total(Inbound(records'["transfer"], w, s)) = in
      BY <1>4, <2>3, <2>5, <2>7
    <3> QED BY <2>4, <3>2, <3>3
  <2>8. CASE w = r.to /\ s = r.sku
    <3>1. inventory'[w][s] = [inventory[w][s] EXCEPT !.inbound = @ + r.quantity]
      BY <2>5, <2>6, <2>8 DEF ShopTypeOK
    <3>2. inventory'[w][s] = [available |-> Stock[w][s] - out - res,
                              reserved |-> res, inbound |-> in + r.quantity]
      BY <1>2, <1>4, <2>5, <3>1
    <3>3. /\ Total(Outbound(records'["transfer"], w, s)) = out
          /\ Total(Inbound(records'["transfer"], w, s)) = in + r.quantity
      BY <1>4, <2>3, <2>5, <2>8
    <3> QED BY <2>4, <3>2, <3>3
  <2>9. CASE ~(w = r.from /\ s = r.sku) /\ ~(w = r.to /\ s = r.sku)
    <3>1. inventory'[w][s] = inventory[w][s]
      BY <2>5, <2>6, <2>9 DEF ShopTypeOK
    <3>2. /\ Total(Outbound(records'["transfer"], w, s)) = out
          /\ Total(Inbound(records'["transfer"], w, s)) = in
      BY <1>4, <2>3, <2>9
    <3> QED BY <1>2, <2>4, <3>1, <3>2
  <2> QED BY <2>7, <2>8, <2>9
<1>8. CASE /\ r.op = "warehouse"
           /\ inventory' = [inventory EXCEPT ![r.to] = [x \in Skus |->
                 [inventory[r.to][x] EXCEPT !.available = @ - Items[r.order][x],
                                            !.reserved = @ + Items[r.order][x]]]]
  <2>1. r \in Changes
    BY <1>8 DEF Changes
  <2>2. records'["warehouse"] = Append(c, r)
    BY <1>3, <1>8 DEF ShopTypeOK
  <2>3. Total(Reserved(records'["warehouse"], w, s)) =
           res + IF r.to = w THEN Items[r.order][s] ELSE 0
    BY <1>1, <2>1, <2>2, ChangeAdds
  <2>4. /\ Total(Outbound(records'["transfer"], w, s)) = out
        /\ Total(Inbound(records'["transfer"], w, s)) = in
    BY <1>5, <1>8
  <2>5. r.to \in Warehouses /\ Items[r.order][s] \in Int
    <3>1. r.to \in Warehouses /\ r.order \in Orders
      BY <1>8, RequestsAssumption
    <3> QED BY <3>1, SeedAssumption
  <2> HIDE DEF out, in, res
  <2>6. CASE w = r.to
    <3>1. inventory'[w][s] = [inventory[w][s] EXCEPT !.available = @ - Items[r.order][s],
                                                     !.reserved = @ + Items[r.order][s]]
      BY <1>8, <2>5, <2>6 DEF ShopTypeOK
    <3>2. inventory'[w][s] = [available |-> Stock[w][s] - out - (res + Items[r.order][s]),
                              reserved |-> res + Items[r.order][s], inbound |-> in]
      <4> DEFINE n == Items[r.order][s]
                 a == Stock[w][s] - out - res
      <4>1. a \in Int /\ n \in Int /\ a - n = Stock[w][s] - out - (res + n)
        BY <1>4, <2>5
      <4>2. /\ inventory[w][s] = [available |-> a, reserved |-> res, inbound |-> in]
            /\ inventory'[w][s] = [inventory[w][s] EXCEPT !.available = a - n, !.reserved = res + n]
        BY <1>2, <3>1
      <4> HIDE DEF n, a
      <4>3. inventory'[w][s] = [available |-> a - n, reserved |-> res + n, inbound |-> in]
        <5>1. inventory[w][s] \in Balance /\ inventory'[w][s] \in Balance
          BY EffectOnStock DEF ShopTypeOK
        <5>2. /\ inventory'[w][s].available = a - n
              /\ inventory'[w][s].reserved = res + n
              /\ inventory'[w][s].inbound = in
          BY <4>2, <5>1 DEF Balance
        <5> QED BY <5>1, <5>2 DEF Balance
      <4> QED BY <4>1, <4>3 DEF n
    <3> QED BY <2>3, <2>4, <2>6, <3>2
  <2>7. CASE w # r.to
    <3>1. inventory'[w][s] = inventory[w][s]
      BY <1>8, <2>5, <2>7 DEF ShopTypeOK
    <3> QED BY <1>2, <1>4, <2>3, <2>4, <2>7, <3>1
  <2> QED BY <2>6, <2>7
<1>9. CASE r.op \in {"refund", "reconciliation"} /\ UNCHANGED inventory
  <2>1. records'["transfer"] = t /\ records'["warehouse"] = c
    BY <1>5, <1>6, <1>9
  <2> HIDE DEF out, in, res
  <2> QED BY <1>2, <1>9, <2>1 DEF out, in, res
<1> QED BY <1>7, <1>8, <1>9 DEF Effective

LEMMA SeedMatches ==
    ASSUME NEW w \in Warehouses, NEW s \in Skus
    PROVE  SeededInventory[w][s] =
             [available |-> Stock[w][s] - Total(Outbound(NoRecords["transfer"], w, s))
                                        - Total(Reserved(NoRecords["warehouse"], w, s)),
              reserved  |-> Total(Reserved(NoRecords["warehouse"], w, s)),
              inbound   |-> Total(Inbound(NoRecords["transfer"], w, s))]
<1>1. NoRecords["transfer"] = <<>> /\ NoRecords["warehouse"] = <<>>
  BY DEF NoRecords, Writes
<1>2. /\ Outbound(<<>>, w, s) \in Seq(Int) /\ Len(Outbound(<<>>, w, s)) = 0
      /\ Inbound(<<>>, w, s) \in Seq(Int) /\ Len(Inbound(<<>>, w, s)) = 0
      /\ Reserved(<<>>, w, s) \in Seq(Int) /\ Len(Reserved(<<>>, w, s)) = 0
  <2>1. <<>> \in Seq(Transfers) /\ <<>> \in Seq(Changes) /\ Len(<<>>) = 0
    OBVIOUS
  <2>2. /\ Outbound(<<>>, w, s) \in Seq(Int) /\ Len(Outbound(<<>>, w, s)) = Len(<<>>)
        /\ Inbound(<<>>, w, s) \in Seq(Int) /\ Len(Inbound(<<>>, w, s)) = Len(<<>>)
    BY <2>1, TransfersTyped
  <2>3. Reserved(<<>>, w, s) \in Seq(Int) /\ Len(Reserved(<<>>, w, s)) = Len(<<>>)
    BY <2>1, ChangesTyped
  <2> QED BY <2>1, <2>2, <2>3
<1>3. /\ Total(Outbound(<<>>, w, s)) = 0 /\ Total(Inbound(<<>>, w, s)) = 0
      /\ Total(Reserved(<<>>, w, s)) = 0
  BY <1>2, TotalOfNone
<1>4. SeededInventory[w][s] = [available |-> Stock[w][s], reserved |-> 0, inbound |-> 0]
  BY DEF SeededInventory
<1>5. Stock[w][s] \in Int
  BY SeedAssumption
<1>6. Stock[w][s] - 0 - 0 = Stock[w][s]
  BY <1>5
<1> QED BY <1>1, <1>3, <1>4, <1>6

LEMMA StockNext == TypeOK /\ ShopInv /\ StockMatchesRecords /\ [Next]_vars => StockMatchesRecords'
<1> SUFFICES ASSUME TypeOK, ShopInv, StockMatchesRecords, [Next]_vars PROVE StockMatchesRecords'
  OBVIOUS
<1>1. CASE UNCHANGED shop
  BY <1>1 DEF shop, StockMatchesRecords
<1>2. ASSUME NEW r \in Requests, NEW st, NEW id, Handle(r, st, id) PROVE StockMatchesRecords'
  BY <1>1, <1>2, HandleCases, EffectKeepsStock, TypeParts DEF ShopInv
<1>3. ASSUME NEW x \in Executors, Respond(x) PROVE StockMatchesRecords'
  <2>1. call[x].req \in Requests
    BY TypeParts DEF PlatformTypeOK, CallRec
  <2> QED BY <1>2, <1>3, <2>1 DEF Respond
<1>4. ASSUME NEW r \in Requests, HandleStray(r) PROVE StockMatchesRecords'
  BY <1>1, <1>2, <1>4 DEF HandleStray
<1>5. CASE Restart
  <2>1. inventory' = SeededInventory /\ records' = NoRecords
    BY <1>5 DEF Restart
  <2> QED BY <2>1, SeedMatches DEF StockMatchesRecords
<1> QED
  BY <1>1, <1>3, <1>4, <1>5 DEF Next, vars, Quiet, Execute, ReadBalances, ReadLanes, GiveUp, LoseStray

\* The stock of every warehouse is the seed, less what the recorded transfers
\* took and the recorded changes of warehouse promised, for every number of
\* calls, executors and restarts (CreateTransfer, ChangeFulfillmentWarehouse).
THEOREM ShopStockMatchesRecords == Spec => []StockMatchesRecords
<1>1. Init => StockMatchesRecords
  <2> SUFFICES ASSUME Init PROVE StockMatchesRecords
    OBVIOUS
  <2>1. inventory = SeededInventory /\ records = NoRecords
    BY DEF Init
  <2> QED BY <2>1, SeedMatches DEF StockMatchesRecords
<1> QED
  BY <1>1, ShopIsInvariant, InitTyped, NextTyped, ShopInvInit, ShopInvNext, StockNext, PTL DEF Spec
===========================================================================
