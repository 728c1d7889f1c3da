SPECIFICATION Spec
CONSTANTS
    Executors = {x1, x2}
    Orders = {o1, o2}
    Warehouses = {lax, sfo}
    Skus = {sku}
    Disputed = {st}
    Lanes <- MCLanes
    Stock <- MCStock
    Home <- MCHome
    Items <- MCItems
    Price <- MCPrice
    Cancels = {o2}
    NoKey = NoKey
    Requests <- MCRequests
    MaxCalls = 3
    MaxRestarts = 1
    o1 = o1
    o2 = o2
    lax = lax
    sfo = sfo
    sku = sku
    st = st
    k1 = k1
    k2 = k2
INVARIANTS StockMatchesRecords KeyTakesEffectOnce RefundedOnce LanesHaveStock
PROPERTY CancelledIsFinal
