CONSTANTS
    o1 = o1
    o2 = o2
    Orders = {o1, o2}
    Products = {1, 2}
    Baskets <- MCBaskets
    StockLevels = {0, 2}
    Txs = {t1, t2}
SPECIFICATION TxSpec
INVARIANTS StockTxTypeOK NoLockCycle CommittedUnitsConserved
PROPERTIES ImplementsLedger
