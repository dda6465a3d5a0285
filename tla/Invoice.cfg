SPECIFICATION FairSpec
CONSTANTS
    i1 = i1
    p1 = p1
    p2 = p2
    t1 = t1
    t2 = t2
    t3 = t3
    c1 = c1
    c2 = c2
    Invoices = {i1}
    Handlers = {p1, p2}
    Txs = {t1, t2, t3}
    TxOutputs <- Outputs
    Clients = {c1, c2}
    NoInv = NoInv
    NoTx = NoTx
    MaxOutputs = 1
    MaxScripts = 1
INVARIANT PaidIsBacked
PROPERTIES PaymentIsFinalUnlessRaced BookKept AckIsAnnounced EveryPaymentAnswered
