--------------------------- MODULE BusinessTools ---------------------------
(***************************************************************************)
(* The business service behind the REST tools (projects/crossborder) and   *)
(* the executors of runtime/tooling that call it: transfers of stock,      *)
(* changes of the fulfilment warehouse, refunds and reconciliation cases,  *)
(* each under an idempotency key.                                          *)
(*                                                                         *)
(* A handler that writes holds the service's mutex, so it is one step; the *)
(* inventory tool reads twice, with the mutex released in between.  An     *)
(* executor gives up after 30 seconds, and the handler it leaves behind    *)
(* goes on.  All state is in memory: a restart seeds it again.             *)
(*                                                                         *)
(* A balance that does not exist is a balance of zero: every operation     *)
(* refuses both, with different status codes.                              *)
(***************************************************************************)
EXTENDS Integers, Sequences

CONSTANTS
    Executors,      \* tool calls of the platform that may run together
    Orders, Warehouses, Skus,
    Lanes,          \* pairs <<from, to>> of warehouses
    Disputed,       \* statements in status difference_detected
    Stock,          \* Stock[w][s]: seeded available quantity
    Home,           \* Home[o]: seeded fulfilment warehouse
    Items,          \* Items[o][s]: quantity of s in o, 0 when not an item; one line
                    \* per SKU and order, as in every seeded order
    Price,          \* Price[o]: amount paid
    Cancels,        \* orders whose buyer asked for cancellation
    NoKey,          \* the empty idempotency key
    Requests,       \* the calls the model may make
    MaxCalls,       \* bound: calls made
    MaxRestarts     \* bound: restarts of the service

Writes == {"transfer", "warehouse", "refund", "reconciliation"}

ASSUME SeedAssumption ==
    /\ Lanes \subseteq Warehouses \X Warehouses /\ Cancels \subseteq Orders
    /\ Stock \in [Warehouses -> [Skus -> Nat]] /\ Home \in [Orders -> Warehouses]
    /\ Items \in [Orders -> [Skus -> Nat]] /\ Price \in [Orders -> Nat \ {0}]
    /\ MaxCalls \in Nat /\ MaxRestarts \in Nat

ASSUME RequestsAssumption ==
    /\ Requests # {}
    /\ \A r \in Requests :
           /\ r.op \in Writes \cup {"inventory"}
           /\ r.op = "inventory" => r.sku \in Skus
           /\ r.op = "transfer" => /\ r.sku \in Skus /\ r.quantity \in Int
                                   /\ r.from \in Warehouses /\ r.to \in Warehouses
           /\ r.op = "warehouse" => r.order \in Orders /\ r.to \in Warehouses
           /\ r.op = "refund" => r.order \in Orders /\ r.amount \in Int
           /\ r.op \in Writes => r.dryRun \in BOOLEAN

VARIABLES
    orders,         \* orders[o]: status and fulfilment warehouse
    inventory,      \* inventory[w][s]
    records,        \* records[op]: what op created, the index is the number in the ID
    idempotency,    \* the keys used, with the index of what they created
    call,           \* call[x]: the last call of executor x
    stray,          \* stray[r]: how many executors gave up r before it was handled
    calls, epoch    \* calls made, restarts so far

shop == <<orders, inventory, records, idempotency>>
vars == <<shop, call, stray, calls, epoch>>

Keys == {r.key : r \in {q \in Requests : q.op \in Writes}}

SeededOrders == [o \in Orders |-> [status |-> "awaiting_shipment", wh |-> Home[o]]]
SeededInventory ==
    [w \in Warehouses |-> [s \in Skus |-> [available |-> Stock[w][s], reserved |-> 0, inbound |-> 0]]]
NoRecords == [op \in Writes |-> <<>>]
NoKeys == [op \in Writes |-> [k \in Keys |-> 0]]
NoStray == [r \in Requests |-> 0]

Nothing == [w \in Warehouses |-> 0]
Unused == [st |-> "idle", req |-> CHOOSE r \in Requests : TRUE, id |-> 0, seen |-> Nothing,
           lanes |-> {}, epoch |-> 0]

Init ==
    /\ orders = SeededOrders /\ inventory = SeededInventory
    /\ records = NoRecords /\ idempotency = NoKeys
    /\ call = [x \in Executors |-> Unused]
    /\ stray = NoStray /\ calls = 0 /\ epoch = 0

TypeOK ==
    /\ orders \in [Orders -> [status : {"awaiting_shipment", "partially_shipped", "cancelled"},
                              wh : Warehouses]]
    /\ inventory \in [Warehouses -> [Skus -> [available : Nat, reserved : Nat, inbound : Nat]]]
    /\ records \in [Writes -> Seq(Requests)]
    /\ idempotency \in [Writes -> [Keys -> Nat]]
    /\ call \in [Executors -> [st : {"idle", "sent", "reading", "failed", "validated", "done", "read"},
                               req : Requests, id : Nat, seen : [Warehouses -> Nat],
                               lanes : SUBSET Lanes, epoch : Nat]]
    /\ stray \in [Requests -> Nat] /\ calls \in 0 .. MaxCalls /\ epoch \in 0 .. MaxRestarts

-----------------------------------------------------------------------------
(* The service *)

Known(r) == idempotency[r.op][r.key] # 0

\* The ways out of a write that change nothing, in their order.
Settles(r, st, id, permitted) ==
    /\ \/ r.key = NoKey /\ st = "failed" /\ id = 0
       \/ r.key # NoKey /\ Known(r) /\ st = "done" /\ id = idempotency[r.op][r.key]
       \/ r.key # NoKey /\ ~Known(r) /\ ~permitted /\ st = "failed" /\ id = 0
       \/ r.key # NoKey /\ ~Known(r) /\ permitted /\ r.dryRun /\ st = "validated" /\ id = 0
    /\ UNCHANGED shop

\* A faulty Enters that does not keep the key.
EntersUnkept(r, st, id) ==
    /\ r.key # NoKey /\ ~Known(r) /\ ~r.dryRun
    /\ st = "done" /\ id = Len(records[r.op]) + 1
    /\ records' = [records EXCEPT ![r.op] = Append(@, r)]
    /\ UNCHANGED idempotency

\* The entry a write creates, its number and its key.
Enters(r, st, id) ==
    /\ r.key # NoKey /\ ~Known(r) /\ ~r.dryRun
    /\ st = "done" /\ id = Len(records[r.op]) + 1
    /\ records' = [records EXCEPT ![r.op] = Append(@, r)]
    /\ idempotency' = [idempotency EXCEPT ![r.op][r.key] = id]

Malformed(r) == r.quantity <= 0 \/ r.from = r.to

CanTransfer(r) == <<r.from, r.to>> \in Lanes /\ inventory[r.from][r.sku].available >= r.quantity

\* A faulty MoveStock that makes the stock available where it is going.
MoveStockAtOnce(r) ==
    inventory' = [inventory EXCEPT ![r.from][r.sku].available = @ - r.quantity,
                                   ![r.to][r.sku].available = @ + r.quantity]

MoveStock(r) ==
    inventory' = [inventory EXCEPT ![r.from][r.sku].available = @ - r.quantity,
                                   ![r.to][r.sku].inbound = @ + r.quantity]

CreateTransfer(r, st, id) ==
    \/ Malformed(r) /\ st = "failed" /\ id = 0 /\ UNCHANGED shop
    \/ ~Malformed(r) /\ Settles(r, st, id, CanTransfer(r))
    \/ ~Malformed(r) /\ CanTransfer(r) /\ Enters(r, st, id) /\ MoveStock(r) /\ UNCHANGED orders

\* A faulty Open that also takes a cancelled order.
OpenAlways(o) == o \in Orders

Open(o) == orders[o].status \in {"awaiting_shipment", "partially_shipped"}

CanChange(r) ==
    /\ Open(r.order) /\ r.to # orders[r.order].wh
    /\ \A s \in Skus : inventory[r.to][s].available >= Items[r.order][s]

ChangeFulfillmentWarehouse(r, st, id) ==
    \/ Settles(r, st, id, CanChange(r))
    \/ /\ CanChange(r) /\ Enters(r, st, id)
       /\ inventory' = [inventory EXCEPT ![r.to] = [s \in Skus |->
              [inventory[r.to][s] EXCEPT !.available = @ - Items[r.order][s],
                                          !.reserved = @ + Items[r.order][s]]]]
       /\ orders' = [orders EXCEPT ![r.order].wh = r.to]

\* A faulty CanRefund that does not look at the cancellation request.
CanRefundUnasked(r) ==
    /\ orders[r.order].status = "awaiting_shipment"
    /\ r.amount > 0 /\ r.amount <= Price[r.order]

CanRefund(r) ==
    /\ orders[r.order].status = "awaiting_shipment" /\ r.order \in Cancels
    /\ r.amount > 0 /\ r.amount <= Price[r.order]

ApproveRefund(r, st, id) ==
    \/ Settles(r, st, id, CanRefund(r))
    \/ /\ CanRefund(r) /\ Enters(r, st, id)
       /\ orders' = [orders EXCEPT ![r.order].status = "cancelled"]
       /\ UNCHANGED inventory

CreateReconciliation(r, st, id) ==
    \/ Settles(r, st, id, r.statement \in Disputed)
    \/ r.statement \in Disputed /\ Enters(r, st, id) /\ UNCHANGED <<orders, inventory>>

Handle(r, st, id) ==
    \/ r.op = "transfer" /\ CreateTransfer(r, st, id)
    \/ r.op = "warehouse" /\ ChangeFulfillmentWarehouse(r, st, id)
    \/ r.op = "refund" /\ ApproveRefund(r, st, id)
    \/ r.op = "reconciliation" /\ CreateReconciliation(r, st, id)

\* A faulty TransferLanes that only looks whether a balance exists.
TransferLanesAll(sku) == {l \in Lanes : inventory[l[1]][sku].available >= 0}

Balances(sku) == [w \in Warehouses |-> inventory[w][sku].available]
TransferLanes(sku) == {l \in Lanes : inventory[l[1]][sku].available > 0}

-----------------------------------------------------------------------------
(* The executors *)

\* The JSON Schema of the tool: quantity at least 1, amount above 0.
SchemaAccepts(r) ==
    /\ r.op = "transfer" => r.quantity >= 1
    /\ r.op = "refund" => r.amount > 0

Ended == {"idle", "failed", "validated", "done", "read"}

Execute(x, r) ==
    /\ call[x].st \in Ended /\ calls < MaxCalls
    /\ calls' = calls + 1
    /\ call' = [call EXCEPT ![x] = [@ EXCEPT !.st = IF SchemaAccepts(r) THEN "sent" ELSE "failed",
                                            !.req = r, !.id = 0, !.seen = Nothing, !.lanes = {},
                                            !.epoch = epoch]]
    /\ UNCHANGED <<shop, stray, epoch>>

\* The handler runs and its answer arrives.
Respond(x) ==
    /\ call[x].st = "sent"
    /\ \E st \in {"failed", "validated", "done"}, id \in 0 .. MaxCalls :
          /\ Handle(call[x].req, st, id)
          /\ call' = [call EXCEPT ![x].st = st, ![x].id = id]
    /\ UNCHANGED <<stray, calls, epoch>>

\* POST /tools/get_inventory: balances first, then the lanes.
ReadBalances(x) ==
    /\ call[x].st = "sent" /\ call[x].req.op = "inventory"
    /\ call' = [call EXCEPT ![x].st = "reading", ![x].seen = Balances(call[x].req.sku)]
    /\ UNCHANGED <<shop, stray, calls, epoch>>

ReadLanes(x) ==
    /\ call[x].st = "reading"
    /\ call' = [call EXCEPT ![x].st = "read", ![x].lanes = TransferLanes(call[x].req.sku)]
    /\ UNCHANGED <<shop, stray, calls, epoch>>

\* The client's timeout, the end of the run, or an answer too long to read: an
\* error, whether or not the request is, was or will be handled.
GiveUp(x) ==
    /\ call[x].st \in {"sent", "reading"}
    /\ call' = [call EXCEPT ![x].st = "failed", ![x].seen = Nothing]
    /\ stray' = IF call[x].st = "sent" THEN [stray EXCEPT ![call[x].req] = @ + 1] ELSE stray
    /\ UNCHANGED <<shop, calls, epoch>>

HandleStray(r) ==
    /\ stray[r] > 0 /\ stray' = [stray EXCEPT ![r] = @ - 1]
    /\ \/ \E st \in {"failed", "validated", "done"}, id \in 0 .. MaxCalls : Handle(r, st, id)
       \/ r.op = "inventory" /\ UNCHANGED shop
    /\ UNCHANGED <<call, calls, epoch>>

\* A request that never reached the service.
LoseStray(r) ==
    /\ stray[r] > 0 /\ stray' = [stray EXCEPT ![r] = @ - 1]
    /\ UNCHANGED <<shop, call, calls, epoch>>

\* The process dies and main seeds a new service: open calls fail.
Restart ==
    /\ epoch < MaxRestarts /\ epoch' = epoch + 1
    /\ orders' = SeededOrders /\ inventory' = SeededInventory
    /\ records' = NoRecords /\ idempotency' = NoKeys
    /\ call' = [x \in Executors |-> IF call[x].st \in Ended THEN call[x]
                                    ELSE [call[x] EXCEPT !.st = "failed", !.seen = Nothing]]
    /\ stray' = NoStray
    /\ UNCHANGED calls

\* No call open and none left to make.
Quiet ==
    /\ calls = MaxCalls /\ \A x \in Executors : call[x].st \in Ended
    /\ stray = NoStray
    /\ UNCHANGED vars

Next ==
    \/ \E x \in Executors, r \in Requests : Execute(x, r)
    \/ \E x \in Executors : Respond(x) \/ ReadBalances(x) \/ ReadLanes(x) \/ GiveUp(x)
    \/ \E r \in Requests : HandleStray(r) \/ LoseStray(r)
    \/ Restart
    \/ Quiet

Spec == Init /\ [][Next]_vars

-----------------------------------------------------------------------------
(* Properties *)

Entries(op) == DOMAIN records[op]

\* What the transfers t take from and bring to warehouse w of SKU s, and what
\* the changes of warehouse c promise there, entry by entry.
Outbound(t, w, s) ==
    [i \in DOMAIN t |-> IF t[i].from = w /\ t[i].sku = s THEN t[i].quantity ELSE 0]
Inbound(t, w, s) ==
    [i \in DOMAIN t |-> IF t[i].to = w /\ t[i].sku = s THEN t[i].quantity ELSE 0]
Reserved(c, w, s) ==
    [i \in DOMAIN c |-> IF c[i].to = w THEN Items[c[i].order][s] ELSE 0]

Total(q) ==
    LET sum[n \in 0 .. Len(q)] == IF n = 0 THEN 0 ELSE sum[n - 1] + q[n]
    IN  sum[Len(q)]

\* The stock is what the recorded operations make of the seed: whatever calls
\* are repeated, abandoned or handled late, no unit is moved twice, promised
\* twice or counted at the target before it is in (CreateTransfer,
\* ChangeFulfillmentWarehouse).
StockMatchesRecords ==
    \A w \in Warehouses, s \in Skus :
        LET out == Total(Outbound(records["transfer"], w, s))
            in  == Total(Inbound(records["transfer"], w, s))
            res == Total(Reserved(records["warehouse"], w, s))
        IN  inventory[w][s] = [available |-> Stock[w][s] - out - res, reserved |-> res, inbound |-> in]

\* A key takes effect once per operation, however often its call is retried and
\* whichever handler of it finishes first, and whoever is told that it is done
\* is told the same entry (the idempotency map of the service).
KeyTakesEffectOnce ==
    /\ \A op \in Writes : \A i, j \in Entries(op) :
          records[op][i].key = records[op][j].key => i = j
    /\ \A x \in Executors :
          call[x].st = "done" /\ call[x].epoch = epoch =>
             LET r == call[x].req IN /\ call[x].id \in Entries(r.op)
                                     /\ records[r.op][call[x].id].key = r.key

\* An order is refunded once, under however many keys it is asked for, only when
\* its buyer asked for cancellation and never for more than was paid; and it is
\* cancelled exactly when it was refunded (ApproveRefund).
RefundedOnce ==
    /\ \A i, j \in Entries("refund") :
          records["refund"][i].order = records["refund"][j].order => i = j
    /\ \A i \in Entries("refund") :
          LET r == records["refund"][i] IN r.order \in Cancels /\ r.amount <= Price[r.order]
    /\ \A o \in Orders : orders[o].status = "cancelled" <=>
          \E i \in Entries("refund") : records["refund"][i].order = o

\* A cancelled order keeps its warehouse and takes no more stock: a warehouse
\* change approved before the refund and handled after it is refused.
CancelledIsFinal ==
    [][\A o \in Orders : orders[o].status = "cancelled" /\ epoch' = epoch
          => /\ orders'[o] = orders[o]
             /\ \A i \in DOMAIN records'["warehouse"] \ Entries("warehouse") :
                   records'["warehouse"][i].order # o]_vars

\* The inventory tool never offers a lane out of a warehouse that its own answer
\* shows as empty, although it reads balances and lanes at different moments.
LanesHaveStock ==
    \A x \in Executors : call[x].st = "read" => \A l \in call[x].lanes : call[x].seen[l[1]] > 0
=============================================================================
