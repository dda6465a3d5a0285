------------------------ MODULE InvoiceServerProofs ------------------------
(* Theorems about InvoiceServer, for any number of invoices, handlers, transactions and  *)
(* websocket clients.                                                                     *)
EXTENDS InvoiceServer, FiniteSetTheorems, TLAPS

\* A handler past its check works on an existing invoice that has outputs, with a transaction
\* that pays them.
HandlerInv ==
    \A p \in Handlers :
      /\ h[p].pc = "idle" => h[p].inv = NoInv
      /\ h[p].pc # "idle" =>
           /\ h[p].inv \in Invoices /\ h[p].tx \in Txs
           /\ Exists(h[p].inv) /\ Matches(h[p].inv, h[p].tx)
           /\ db[h[p].inv].outs # {}
      /\ h[p].pc \in {"settle", "notify"} => h[p].tx \in accepted
      /\ h[p].pc = "notify" => db[h[p].inv].tx # NoTx

\* Without a race an invoice has one handler at a time, and it is unpaid until that settles.
RaceInv ==
    \A p \in Handlers :
      (h[p].pc # "idle" /\ h[p].inv \notin raced) =>
        /\ \A q \in Handlers : h[q].inv = h[p].inv => q = p
        /\ h[p].pc # "notify" => db[h[p].inv].tx = NoTx

\* Scripts in use were derived in this life of the server, each for one invoice.
ScriptInv ==
    ~restarted =>
      /\ \A i \in Invoices : \A o \in db[i].outs : o.script < xpubIndex
      /\ \A i, j \in Invoices : i # j => db[i].outs \cap db[j].outs = {}

\* A uid that is not in the database has no payment.
AbsentInv == \A i \in Invoices : ~Exists(i) => db[i].tx = NoTx

\* Pages a handler has sent to have been told of its invoice.
SentInv == \A p \in Handlers : \A c \in h[p].sent : h[p].inv \in told[c]

\* The inductive invariant behind the theorems.
Inv == TypeOK /\ HandlerInv /\ PaidIsBacked /\ ToldIsDurable /\ AbsentInv

\* An idle handler is a handler state.
LEMMA IdleType == IdleHandler \in HandlerStates
  BY DEF IdleHandler, HandlerStates

\* A set of connections has a size.
LEMMA ClientCount == ASSUME NEW S \in SUBSET Clients PROVE Cardinality(S) \in Nat
  BY InvoiceAssumption, FS_Subset, FS_CardinalityType

\* Changing the state or the payment of an invoice leaves it an invoice.
LEMMA RequestUpdate ==
    ASSUME NEW r \in Requests, NEW s \in {"UNPAID", "PAID", "CLOSED"}, NEW t \in Txs \cup {NoTx}
    PROVE  /\ [r EXCEPT !.state = s, !.tx = t] \in Requests
           /\ [r EXCEPT !.state = s] \in Requests
  BY DEF Requests

\* The invariant holds initially.
LEMMA InitInv == Init => Inv
  <1> SUFFICES ASSUME Init PROVE Inv
    OBVIOUS
  <1>1. TypeOK
    BY IdleType DEF Init, TypeOK, Requests, NoRequest
  <1> QED
    BY <1>1 DEF Init, Inv, HandlerInv, PaidIsBacked, ToldIsDurable, AbsentInv, NoRequest,
       IdleHandler, Exists

\* A handler that answers or raises keeps the invariant.
LEMMA RespondInv ==
    ASSUME Inv, NEW p \in Handlers, NEW s \in {200, 400, 500}, Respond(p, s),
           UNCHANGED <<db, xpubIndex, clients, closed, told, accepted, raced, restarted>>
    PROVE  Inv'
  <1> USE DEF Inv, Respond
  <1>1. TypeOK'
    BY IdleType DEF TypeOK
  <1>2. HandlerInv'
    BY DEF HandlerInv, TypeOK, IdleHandler, Exists, Matches
  <1> QED
    BY <1>1, <1>2 DEF PaidIsBacked, ToldIsDurable, AbsentInv, Exists, Matches

\* create_invoice keeps the invariant: it touches a uid that no handler works on.
LEMMA CreateInv ==
    ASSUME Inv, NEW i \in Invoices, NEW n \in 0 .. MaxOutputs, CreateInvoice(i, n)
    PROVE  Inv'
  <1> USE DEF Inv, CreateInvoice
  <1>1. {Output(k) : k \in xpubIndex .. (xpubIndex + n - 1)} \subseteq [script : Nat, amount : Nat]
    BY InvoiceAssumption DEF Output, TypeOK
  <1>2. TypeOK'
    BY <1>1, InvoiceAssumption DEF TypeOK, Requests
  <1>3. \A j \in Invoices : j # i => db'[j] = db[j]
    BY DEF TypeOK
  <1>4. db'[i].state = "UNPAID" /\ db'[i].tx = NoTx /\ db[i].tx = NoTx
    BY DEF TypeOK, AbsentInv
  <1>5. HandlerInv'
    <2> SUFFICES ASSUME NEW p \in Handlers PROVE HandlerInv!(p)'
      BY DEF HandlerInv
    <2>1. h[p].pc # "idle" => h[p].inv # i
      BY DEF HandlerInv
    <2> QED
      BY <2>1, <1>3 DEF HandlerInv, Exists, Matches
  <1>6. PaidIsBacked'
    BY <1>3, <1>4 DEF PaidIsBacked, Matches
  <1>7. ToldIsDurable'
    BY <1>3, <1>4 DEF ToldIsDurable, TypeOK
  <1>8. AbsentInv'
    BY <1>3, <1>4 DEF AbsentInv, Exists
  <1> QED
    BY <1>2, <1>5, <1>6, <1>7, <1>8

\* cancel_invoice keeps the invariant: the payment and the outputs stay.
LEMMA CancelInv ==
    ASSUME Inv, NEW i \in Invoices, CancelInvoice(i)
    PROVE  Inv'
  <1> USE DEF Inv, CancelInvoice
  <1>1. \A j \in Invoices : /\ db'[j].tx = db[j].tx /\ db'[j].outs = db[j].outs
                            /\ db'[j].state = IF j = i THEN "CLOSED" ELSE db[j].state
    BY DEF TypeOK, Requests
  <1>2. TypeOK'
    <2>1. db[i] \in Requests
      BY DEF TypeOK
    <2>2. [db[i] EXCEPT !.state = "CLOSED"] \in Requests
      BY <2>1, RequestUpdate
    <2> QED
      BY <2>2 DEF TypeOK
  <1>3. HandlerInv'
    BY <1>1 DEF HandlerInv, Exists, Matches
  <1> QED
    BY <1>1, <1>2, <1>3 DEF PaidIsBacked, ToldIsDurable, AbsentInv, Exists, Matches, TypeOK

\* A payment that begins keeps the invariant: its transaction has been matched.
LEMMA SubmitFirstInv ==
    ASSUME Inv, NEW p \in Handlers, NEW i \in Invoices, NEW t \in Txs, SubmitFirst(p, i, t)
    PROVE  Inv'
  <1> USE DEF Inv, SubmitFirst, Submits
  <1>1. TypeOK'
    <2>1. [IdleHandler EXCEPT !.pc = "key", !.inv = i, !.tx = t] \in HandlerStates
      BY DEF IdleHandler, HandlerStates
    <2>2. h' \in [Handlers -> HandlerStates]
      BY <2>1 DEF TypeOK
    <2>3. raced' \subseteq Invoices
      BY DEF TypeOK
    <2> QED
      BY <2>2, <2>3 DEF TypeOK
  <1>2. HandlerInv'
    BY DEF HandlerInv, TypeOK, IdleHandler, Exists, Matches
  <1> QED
    BY <1>1, <1>2 DEF PaidIsBacked, ToldIsDurable, AbsentInv, Exists, Matches

\* An await ends and the handler goes on to the next one.
LEMMA AwaitInv ==
    ASSUME Inv, NEW p \in Handlers, NEW pc \in {"channel", "broadcast", "settle"}, Await(p, pc),
           h[p].pc # "idle", accepted \subseteq accepted', accepted' \subseteq Txs,
           pc = "settle" => h[p].tx \in accepted', reply' = 0,
           UNCHANGED <<db, xpubIndex, clients, closed, told, raced, restarted>>
    PROVE  Inv'
  <1> USE DEF Inv, Await
  <1>1. TypeOK'
    BY DEF TypeOK, HandlerStates
  <1>2. HandlerInv'
    BY DEF HandlerInv, TypeOK, HandlerStates, Exists, Matches
  <1> QED
    BY <1>1, <1>2 DEF PaidIsBacked, ToldIsDurable, AbsentInv, Exists, Matches

\* The UPDATE keeps the invariant: the outputs have not changed since they were matched.
LEMMA SettleInv ==
    ASSUME Inv, NEW p \in Handlers, Settle(p)
    PROVE  Inv'
  <1> DEFINE i == h[p].inv
             t == h[p].tx
  <1>1. i \in Invoices /\ t \in Txs /\ t \in accepted /\ t # NoTx
        /\ db[i].state # "none" /\ db[i].outs \subseteq TxOutputs[t]
    BY InvoiceAssumption DEF Inv, HandlerInv, Settle, Exists, Matches
  <1>2. db[i] \in Requests /\ h[p] \in HandlerStates
    BY <1>1 DEF Inv, TypeOK
  <1>3. db' = [db EXCEPT ![i] = [db[i] EXCEPT !.state = "PAID", !.tx = t]]
    BY DEF Settle
  <1>4. \A j \in Invoices :
          /\ db'[j].outs = db[j].outs
          /\ db'[j].state = IF j = i THEN "PAID" ELSE db[j].state
          /\ db'[j].tx = IF j = i THEN t ELSE db[j].tx
    BY <1>1, <1>3 DEF Inv, TypeOK, Requests
  <1>5. \A q \in Handlers : /\ h'[q].inv = h[q].inv /\ h'[q].tx = h[q].tx
                            /\ h'[q].pc = IF q = p THEN "notify" ELSE h[q].pc
    BY DEF Settle, Inv, TypeOK, HandlerStates
  <1>6. UNCHANGED <<accepted, told>>
    BY DEF Settle
  <1>7. TypeOK'
    <2>1. [db[i] EXCEPT !.state = "PAID", !.tx = t] \in Requests
      BY <1>1, <1>2 DEF Requests
    <2>2. db' \in [Invoices -> Requests]
      BY <1>3, <2>1 DEF Inv, TypeOK
    <2>3. Cardinality(clients) \in Nat
      BY ClientCount DEF Inv, TypeOK
    <2>4. [h[p] EXCEPT !.pc = "notify", !.size = Cardinality(clients), !.audience = clients]
            \in HandlerStates
      BY <1>2, <2>3 DEF HandlerStates, Inv, TypeOK
    <2>5. h' = [h EXCEPT ![p] =
            [h[p] EXCEPT !.pc = "notify", !.size = Cardinality(clients), !.audience = clients]]
      BY DEF Settle
    <2>6. h' \in [Handlers -> HandlerStates]
      BY <2>4, <2>5 DEF Inv, TypeOK
    <2> QED
      BY <2>2, <2>6 DEF Settle, Inv, TypeOK
  <1> HIDE DEF i, t
  <1>8. i = h[p].inv /\ t = h[p].tx /\ h[p].pc = "settle"
    BY DEF i, t, Settle
  <1>9. HandlerInv'
    <2> SUFFICES ASSUME NEW q \in Handlers PROVE HandlerInv!(q)'
      BY DEF HandlerInv
    <2>1. h[q].pc = "idle" => h[q].inv = NoInv
      BY DEF Inv, HandlerInv
    <2>2. h[q].pc # "idle" =>
            /\ h[q].inv \in Invoices /\ h[q].tx \in Txs
            /\ db'[h[q].inv].state # "none" /\ db'[h[q].inv].outs \subseteq TxOutputs[h[q].tx]
            /\ db'[h[q].inv].outs # {}
      BY <1>4 DEF Inv, HandlerInv, Exists, Matches
    <2>3. h'[q].pc \in {"settle", "notify"} => h[q].tx \in accepted
      BY <1>1, <1>5, <1>8 DEF Inv, HandlerInv
    <2>4. h'[q].pc = "notify" => db'[h[q].inv].tx # NoTx
      BY <1>1, <1>4, <1>5, <1>8 DEF Inv, HandlerInv
    <2>5. (h'[q].pc = "idle") <=> (h[q].pc = "idle")
      BY <1>5, <1>8
    <2> QED
      BY <2>1, <2>2, <2>3, <2>4, <2>5, <1>5, <1>6 DEF Exists, Matches
  <1>10. PaidIsBacked'
    BY <1>1, <1>4, <1>6 DEF PaidIsBacked, Matches, Inv
  <1>11. ToldIsDurable' /\ AbsentInv'
    BY <1>1, <1>4, <1>6 DEF ToldIsDurable, AbsentInv, Exists, Inv, TypeOK
  <1> QED
    BY <1>7, <1>9, <1>10, <1>11 DEF Inv

\* Telling a page keeps the invariant: the UPDATE has been made.
LEMMA NotifyOneInv ==
    ASSUME Inv, NEW p \in Handlers, NEW c \in Clients, NotifyOne(p, c)
    PROVE  Inv'
  <1> USE DEF Inv, NotifyOne
  <1>1. h[p].inv \in Invoices /\ db[h[p].inv].tx # NoTx
    BY DEF HandlerInv
  <1>2. TypeOK'
    <2>1. told' \in [Clients -> SUBSET Invoices]
      BY <1>1 DEF TypeOK
    <2>2. h[p] \in HandlerStates /\ h[p].sent \cup {c} \in SUBSET Clients
      BY DEF TypeOK, HandlerStates
    <2>3. [h[p] EXCEPT !.sent = h[p].sent \cup {c}] \in HandlerStates
      BY <2>2 DEF HandlerStates
    <2>4. h' = [h EXCEPT ![p] = [h[p] EXCEPT !.sent = h[p].sent \cup {c}]]
      OBVIOUS
    <2>5. h' \in [Handlers -> HandlerStates]
      BY <2>3, <2>4 DEF TypeOK
    <2> QED
      BY <2>1, <2>5 DEF TypeOK
  <1>3. HandlerInv'
    BY DEF HandlerInv, TypeOK, HandlerStates, Exists, Matches
  <1>4. ToldIsDurable'
    BY <1>1 DEF ToldIsDurable, TypeOK
  <1> QED
    BY <1>2, <1>3, <1>4 DEF PaidIsBacked, AbsentInv, Exists, Matches

\* A create_invoice that raises keeps the invariant.
LEMMA CreateRaisesInv ==
    ASSUME Inv, NEW n \in 1 .. MaxOutputs, CreateRaises(n)
    PROVE  Inv'
  <1>1. xpubIndex + n \in Nat
    BY DEF Inv, TypeOK
  <1> QED
    BY <1>1 DEF Inv, TypeOK, CreateRaises, HandlerInv, PaidIsBacked, ToldIsDurable, AbsentInv,
       Exists, Matches

\* A page that joins is noted by the handlers that are notifying; they go on as they were.
LEMMA ConnectHandlers ==
    ASSUME Inv, NEW c \in Clients, Connect(c)
    PROVE  /\ h' \in [Handlers -> HandlerStates]
           /\ \A p \in Handlers : /\ h'[p].pc = h[p].pc /\ h'[p].inv = h[p].inv
                                  /\ h'[p].tx = h[p].tx
  <1>1. \A p \in Handlers : h[p] \in HandlerStates
    BY DEF Inv, TypeOK
  <1>2. \A p \in Handlers : [h[p] EXCEPT !.joined = TRUE] \in HandlerStates
    BY <1>1 DEF HandlerStates
  <1>3. h' = [p \in Handlers |-> IF h[p].pc = "notify" THEN [h[p] EXCEPT !.joined = TRUE]
                                 ELSE h[p]]
    BY DEF Connect
  <1> QED
    BY <1>1, <1>2, <1>3 DEF HandlerStates

\* Connections and restarts leave the database, and what handlers are left, as they are.
LEMMA EnvironmentInv ==
    ASSUME Inv, (\E c \in Clients : Connect(c) \/ Disconnect(c)) \/ Restart
    PROVE  Inv'
  <1>1. ASSUME NEW c \in Clients, Connect(c) PROVE Inv'
    <2>1. TypeOK'
      BY <1>1, ConnectHandlers DEF Inv, TypeOK, Connect
    <2>2. HandlerInv'
      BY <1>1, ConnectHandlers DEF Inv, HandlerInv, Connect, Exists, Matches
    <2> QED
      BY <1>1, <2>1, <2>2 DEF Inv, Connect, PaidIsBacked, ToldIsDurable, AbsentInv, Exists,
         Matches
  <1>2. CASE Restart
    <2>1. h' \in [Handlers -> HandlerStates]
      BY <1>2, IdleType DEF Restart
    <2>2. TypeOK'
      BY <1>2, <2>1 DEF Restart, Inv, TypeOK
    <2> QED
      BY <1>2, <2>2 DEF Restart, Inv, HandlerInv, IdleHandler, PaidIsBacked, ToldIsDurable,
         AbsentInv, Exists, Matches
  <1>3. ASSUME NEW c \in Clients, Disconnect(c) PROVE Inv'
    <2>1. TypeOK'
      BY <1>3 DEF Disconnect, Inv, TypeOK
    <2> QED
      BY <1>3, <2>1 DEF Disconnect, Inv, HandlerInv, PaidIsBacked, ToldIsDurable, AbsentInv,
         Exists, Matches
  <1> QED
    BY <1>1, <1>2, <1>3

\* Every step of a payment handler keeps the invariant.
LEMMA HandleInv ==
    ASSUME Inv, NEW p \in Handlers, Handle(p)
    PROVE  Inv'
  <1>1. CASE KeyArrives(p) \/ ChannelArrives(p)
    BY <1>1, AwaitInv DEF KeyArrives, ChannelArrives, Inv, TypeOK
  <1>2. CASE BroadcastAccepted(p)
    <2>1. h[p].tx \in Txs
      BY <1>2 DEF BroadcastAccepted, Inv, HandlerInv
    <2> QED
      BY <1>2, <2>1, AwaitInv DEF BroadcastAccepted, Inv, TypeOK
  <1>3. CASE CallFails(p) \/ AnswerLost(p) \/ BroadcastRejected(p) \/ NotifyRaises(p)
             \/ Acknowledge(p)
    BY <1>3, RespondInv DEF CallFails, AnswerLost, BroadcastRejected, NotifyRaises, Acknowledge
  <1> QED
    BY <1>1, <1>2, <1>3, SettleInv, NotifyOneInv DEF Handle

\* Every step keeps the invariant.
LEMMA StepInv == Inv /\ [Next]_vars => Inv'
  <1> SUFFICES ASSUME Inv, [Next]_vars PROVE Inv'
    OBVIOUS
  <1>1. CASE UNCHANGED vars
    BY <1>1 DEF vars, Inv, TypeOK, HandlerInv, PaidIsBacked, ToldIsDurable, AbsentInv, Exists,
       Matches
  <1>2. ASSUME NEW p \in Handlers, NEW i \in Invoices, NEW t \in Txs,
               SubmitNotFound(p, i) \/ SubmitMismatch(p, i, t) \/ SubmitAgain(p, i, t)
        PROVE  Inv'
    BY <1>2, RespondInv DEF SubmitNotFound, SubmitMismatch, SubmitAgain
  <1>3. ASSUME NEW p \in Handlers, NEW i \in Invoices, SubmitNotFound(p, i) PROVE Inv'
    BY <1>3, RespondInv DEF SubmitNotFound
  <1> QED
    BY <1>1, <1>2, <1>3, CreateInv, CreateRaisesInv, CancelInv, SubmitFirstInv, HandleInv,
       EnvironmentInv DEF Next

\* The invariant holds in every reachable state.
LEMMA Invariance == Spec => []Inv
  BY InitInv, StepInv, PTL DEF Spec

\* Every variable keeps its type.
THEOREM TypeCorrect == Spec => []TypeOK
  BY Invariance, PTL DEF Inv

\* Whatever runs during its awaits, a handler marks an invoice paid only by an accepted
\* transaction that pays all its outputs.
THEOREM Backed == Spec => []PaidIsBacked
  BY Invariance, PTL DEF Inv

\* No page is told of a payment that a crash could take back.
THEOREM Told == Spec => []ToldIsDurable
  BY Invariance, PTL DEF Inv
-----------------------------------------------------------------------------
(* A payment is final unless two payments of the invoice were in progress at a time. *)

\* No payment is in progress initially.
LEMMA RaceInit == Init => RaceInv
  BY DEF Init, RaceInv, IdleHandler

\* A handler that ends, or goes on without touching the database, disturbs no other.
LEMMA RaceQuiet ==
    ASSUME Inv, RaceInv, raced \subseteq raced',
           \A j \in Invoices : db[j].tx = NoTx /\ Exists(j) => db'[j].tx = NoTx,
           \A q \in Handlers : \/ h'[q] = IdleHandler
                               \/ /\ h'[q].inv = h[q].inv /\ h[q].pc # "idle"
                                  /\ h[q].pc = "notify" => h'[q].pc = "notify"
                               \/ h'[q].inv = h[q].inv /\ h'[q].pc = "idle" /\ h[q].pc = "idle"
    PROVE  RaceInv'
  <1> SUFFICES ASSUME NEW p \in Handlers, h'[p].pc # "idle", h'[p].inv \notin raced'
               PROVE  /\ \A q \in Handlers : h'[q].inv = h'[p].inv => q = p
                      /\ h'[p].pc # "notify" => db'[h'[p].inv].tx = NoTx
    BY DEF RaceInv
  <1>1. h[p].pc # "idle" /\ h'[p].inv = h[p].inv /\ h[p].inv \in Invoices /\ Exists(h[p].inv)
        /\ h[p].inv \notin raced /\ (h[p].pc = "notify" => h'[p].pc = "notify")
    BY DEF IdleHandler, Inv, HandlerInv
  <1>2. \A q \in Handlers : h[q].inv = h[p].inv => q = p
    BY <1>1 DEF RaceInv
  <1>3. \A q \in Handlers : h'[q].inv = h'[p].inv => q = p
    <2>1. h[p].inv # NoInv
      BY <1>1, InvoiceAssumption
    <2> QED
      BY <1>1, <1>2, <2>1 DEF IdleHandler
  <1>4. h'[p].pc # "notify" => db'[h'[p].inv].tx = NoTx
    BY <1>1 DEF RaceInv
  <1> QED
    BY <1>3, <1>4

\* Every step keeps it that an unraced invoice has one handler at most.
LEMMA RaceStep == Inv /\ RaceInv /\ [Next]_vars => RaceInv'
  <1> SUFFICES ASSUME Inv, RaceInv, [Next]_vars PROVE RaceInv'
    OBVIOUS
  <1>0. CASE UNCHANGED vars
    BY <1>0 DEF vars, RaceInv
  <1>1. ASSUME NEW p \in Handlers, NEW s, Respond(p, s), UNCHANGED <<db, raced>>
        PROVE  RaceInv'
    BY <1>1, RaceQuiet DEF Respond, Inv, TypeOK, Exists
  <1>2. ASSUME NEW i \in Invoices, NEW n \in 0 .. MaxOutputs, CreateInvoice(i, n)
        PROVE  RaceInv'
    BY <1>2, RaceQuiet DEF CreateInvoice, Inv, TypeOK, Exists
  <1>3. ASSUME NEW i \in Invoices, CancelInvoice(i)
        PROVE  RaceInv'
    <2>1. \A j \in Invoices : db'[j].tx = db[j].tx
      BY <1>3 DEF CancelInvoice, Inv, TypeOK, Requests
    <2> QED
      BY <1>3, <2>1, RaceQuiet DEF CancelInvoice, Exists
  <1>4. ASSUME NEW p \in Handlers, NEW i \in Invoices, NEW t \in Txs, SubmitFirst(p, i, t)
        PROVE  RaceInv'
    <2>1. \A q \in Handlers : q # p => h'[q] = h[q]
      BY <1>4 DEF SubmitFirst, Inv, TypeOK
    <2>2. h'[p].inv = i /\ h'[p].pc = "key" /\ h[p].inv = NoInv /\ db[i].tx = NoTx
      BY <1>4 DEF SubmitFirst, Submits, IdleHandler, Inv, TypeOK, HandlerInv
    <2>3. i \notin raced' => \A q \in Handlers : h[q].inv # i
      BY <1>4 DEF SubmitFirst, InProgress
    <2>4. raced \subseteq raced' /\ db' = db
      BY <1>4 DEF SubmitFirst
    <2> SUFFICES ASSUME NEW q \in Handlers, h'[q].pc # "idle", h'[q].inv \notin raced'
                 PROVE  /\ \A r \in Handlers : h'[r].inv = h'[q].inv => r = q
                        /\ h'[q].pc # "notify" => db'[h'[q].inv].tx = NoTx
      BY DEF RaceInv
    <2>5. CASE q = p
      BY <2>1, <2>2, <2>3, <2>4, <2>5
    <2>6. CASE q # p
      BY <2>1, <2>2, <2>3, <2>4, <2>6 DEF RaceInv
    <2> QED
      BY <2>5, <2>6
  <1>5. ASSUME NEW p \in Handlers, NEW pc, Await(p, pc), h[p].pc \notin {"idle", "notify"},
               UNCHANGED <<db, raced>>
        PROVE  RaceInv'
    BY <1>5, RaceQuiet DEF Await, Inv, TypeOK, HandlerStates, Exists
  <1>6. ASSUME NEW p \in Handlers, Settle(p)
        PROVE  RaceInv'
    <2>1. \A q \in Handlers : /\ h'[q].inv = h[q].inv
                              /\ h'[q].pc = IF q = p THEN "notify" ELSE h[q].pc
      BY <1>6 DEF Settle, Inv, TypeOK, HandlerStates
    <2>2. \A j \in Invoices : j # h[p].inv => db'[j].tx = db[j].tx
      BY <1>6 DEF Settle, Inv, TypeOK
    <2>3. \A q \in Handlers : h[q].pc # "idle" => h[q].inv \in Invoices
      BY DEF Inv, HandlerInv
    <2>4. raced' = raced /\ h[p].pc = "settle"
      BY <1>6 DEF Settle
    <2> QED
      BY <2>1, <2>2, <2>3, <2>4 DEF RaceInv
  <1>7. ASSUME NEW p \in Handlers, NEW c \in Clients, NotifyOne(p, c)
        PROVE  RaceInv'
    <2>1. \A q \in Handlers : h'[q].inv = h[q].inv /\ h'[q].pc = h[q].pc
      BY <1>7 DEF NotifyOne, Inv, TypeOK, HandlerStates
    <2> QED
      BY <1>7, <2>1 DEF NotifyOne, RaceInv
  <1>8. CASE (\E c \in Clients : Disconnect(c)) \/ Restart \/ \E n \in 1 .. MaxOutputs : CreateRaises(n)
    BY <1>8 DEF Disconnect, Restart, CreateRaises, RaceInv, IdleHandler
  <1>12. ASSUME NEW c \in Clients, Connect(c) PROVE RaceInv'
    <2>1. UNCHANGED <<db, raced>>
      BY <1>12 DEF Connect
    <2> QED
      BY <1>12, <2>1, ConnectHandlers DEF RaceInv
  <1>9. ASSUME NEW p \in Handlers, Handle(p)
        PROVE  RaceInv'
    BY <1>9, <1>1, <1>5, <1>6, <1>7 DEF Handle, KeyArrives, ChannelArrives, CallFails,
       BroadcastAccepted, AnswerLost, BroadcastRejected, NotifyRaises, Acknowledge
  <1>10. ASSUME NEW p \in Handlers, NEW i \in Invoices, NEW t \in Txs,
                SubmitMismatch(p, i, t) \/ SubmitAgain(p, i, t)
         PROVE  RaceInv'
    BY <1>10, <1>1 DEF SubmitMismatch, SubmitAgain
  <1>11. ASSUME NEW p \in Handlers, NEW i \in Invoices, SubmitNotFound(p, i) PROVE RaceInv'
    BY <1>11, <1>1 DEF SubmitNotFound
  <1> QED
    BY <1>0, <1>2, <1>3, <1>4, <1>8, <1>9, <1>10, <1>11, <1>12 DEF Next

\* An invoice changes its payment only after two payments of it were in progress at a time.
THEOREM PaymentFinal == Spec => PaymentIsFinalUnlessRaced
  <1>1. Inv /\ RaceInv /\ [Next]_vars =>
          \A i \in Invoices : (db[i].tx # NoTx /\ i \notin raced') => db'[i].tx = db[i].tx
    <2> SUFFICES ASSUME Inv, RaceInv, [Next]_vars, NEW i \in Invoices,
                        db[i].tx # NoTx, i \notin raced'
                 PROVE  db'[i].tx = db[i].tx
      OBVIOUS
    <2>1. ASSUME db' = db PROVE db'[i].tx = db[i].tx
      BY <2>1
    <2>2. ASSUME NEW j \in Invoices, NEW n \in 0 .. MaxOutputs, CreateInvoice(j, n)
          PROVE  db'[i].tx = db[i].tx
      BY <2>2 DEF CreateInvoice, Inv, AbsentInv, TypeOK
    <2>3. ASSUME NEW j \in Invoices, CancelInvoice(j) PROVE db'[i].tx = db[i].tx
      BY <2>3 DEF CancelInvoice, Inv, TypeOK, Requests
    <2>4. ASSUME NEW p \in Handlers, Settle(p) PROVE db'[i].tx = db[i].tx
      <3>1. h[p].inv # i
        BY <2>4 DEF Settle, RaceInv
      <3> QED
        BY <2>4, <3>1 DEF Settle, Inv, TypeOK
    <2>5. ASSUME NEW p \in Handlers, Handle(p) PROVE db' = db \/ Settle(p)
      BY <2>5 DEF Handle, KeyArrives, ChannelArrives, CallFails, BroadcastAccepted, AnswerLost,
         BroadcastRejected, NotifyOne, NotifyRaises, Acknowledge
    <2>6. CASE UNCHANGED vars
      BY <2>6, <2>1 DEF vars
    <2>7. ASSUME NEW p \in Handlers, Handle(p) PROVE db'[i].tx = db[i].tx
      BY <2>7, <2>1, <2>4, <2>5
    <2>8. ASSUME NEW p \in Handlers, NEW j \in Invoices,
                 \/ SubmitNotFound(p, j)
                 \/ \E t \in Txs : SubmitFirst(p, j, t) \/ SubmitMismatch(p, j, t)
                                   \/ SubmitAgain(p, j, t)
          PROVE  db'[i].tx = db[i].tx
      <3>1. db' = db
        BY <2>8 DEF SubmitNotFound, SubmitFirst, SubmitMismatch, SubmitAgain
      <3> QED
        BY <3>1
    <2>9. CASE \/ \E c \in Clients : Connect(c) \/ Disconnect(c)
               \/ Restart
               \/ \E n \in 1 .. MaxOutputs : CreateRaises(n)
      BY <2>9, <2>1 DEF Connect, Disconnect, Restart, CreateRaises
    <2>10. CASE Next
      BY <2>10, <2>2, <2>3, <2>7, <2>8, <2>9 DEF Next
    <2> QED
      BY <2>6, <2>10
  <1> QED
    BY <1>1, Invariance, RaceInit, RaceStep, PTL DEF Spec, PaymentIsFinalUnlessRaced
-----------------------------------------------------------------------------
(* In one life of the server no two invoices have an output in common. *)

\* No script is in use initially.
LEMMA ScriptInit == Init => ScriptInv
  BY DEF Init, ScriptInv, NoRequest

\* Every step keeps the scripts of different invoices apart, in one life of the server.
LEMMA ScriptStep == Inv /\ ScriptInv /\ [Next]_vars => ScriptInv'
  <1> SUFFICES ASSUME Inv, ScriptInv, [Next]_vars, ~restarted' PROVE ScriptInv'
    BY DEF ScriptInv
  <1>1. ASSUME \A i \in Invoices : db'[i].outs = db[i].outs, ~restarted,
               xpubIndex' \in Nat, xpubIndex' >= xpubIndex
        PROVE  ScriptInv'
    <2>1. \A i \in Invoices : \A o \in db[i].outs : o.script \in Nat
      BY DEF Inv, TypeOK, Requests
    <2>2. xpubIndex \in Nat
      BY DEF Inv, TypeOK
    <2> QED
      BY <1>1, <2>1, <2>2 DEF ScriptInv
  <1>2. ASSUME NEW i \in Invoices, NEW n \in 0 .. MaxOutputs, CreateInvoice(i, n)
        PROVE  ScriptInv'
    <2> DEFINE New == {Output(k) : k \in xpubIndex .. (xpubIndex + n - 1)}
    <2>1. xpubIndex \in Nat /\ n \in Nat /\ xpubIndex' = xpubIndex + n /\ ~restarted
      BY <1>2, InvoiceAssumption DEF CreateInvoice, Inv, TypeOK
    <2>2. db'[i].outs = New /\ \A j \in Invoices : j # i => db'[j].outs = db[j].outs
      BY <1>2 DEF CreateInvoice, Inv, TypeOK
    <2>3. \A o \in New : o.script \in Nat /\ o.script >= xpubIndex /\ o.script < xpubIndex + n
      BY <2>1 DEF Output
    <2>4. \A j \in Invoices : \A o \in db[j].outs : o.script \in Nat /\ o.script < xpubIndex
      BY <2>1 DEF Inv, TypeOK, Requests, ScriptInv
    <2>5. \A j \in Invoices : j # i => db[j].outs \cap New = {}
      BY <2>1, <2>3, <2>4
    <2> HIDE DEF New
    <2>6. \A j \in Invoices : \A o \in db'[j].outs : o.script < xpubIndex'
      BY <2>1, <2>2, <2>3, <2>4
    <2>7. \A j, k \in Invoices : j # k => db'[j].outs \cap db'[k].outs = {}
      BY <2>1, <2>2, <2>5 DEF ScriptInv
    <2> QED
      BY <2>6, <2>7 DEF ScriptInv
  <1>3. ASSUME NEW i \in Invoices, CancelInvoice(i) PROVE ScriptInv'
    <2>1. \A j \in Invoices : db'[j].outs = db[j].outs
      BY <1>3 DEF CancelInvoice, Inv, TypeOK, Requests
    <2> QED
      BY <1>1, <1>3, <2>1 DEF CancelInvoice, Inv, TypeOK
  <1>4. ASSUME NEW n \in 1 .. MaxOutputs, CreateRaises(n) PROVE ScriptInv'
    BY <1>1, <1>4 DEF CreateRaises, Inv, TypeOK
  <1>5. ASSUME UNCHANGED <<db, xpubIndex, restarted>> PROVE ScriptInv'
    BY <1>5 DEF ScriptInv
  <1>6. ASSUME NEW p \in Handlers, Settle(p) PROVE ScriptInv'
    <2>1. \A j \in Invoices : db'[j].outs = db[j].outs
      BY <1>6 DEF Settle, Inv, TypeOK, Requests
    <2> QED
      BY <1>1, <1>6, <2>1 DEF Settle, Inv, TypeOK
  <1>7. ASSUME NEW p \in Handlers, Handle(p) PROVE ScriptInv'
    <2>1. UNCHANGED <<db, xpubIndex, restarted>> \/ Settle(p)
      BY <1>7 DEF Handle, KeyArrives, ChannelArrives, CallFails, BroadcastAccepted, AnswerLost,
         BroadcastRejected, NotifyOne, NotifyRaises, Acknowledge
    <2> QED
      BY <1>5, <1>6, <2>1
  <1>8. ASSUME NEW p \in Handlers, NEW j \in Invoices,
               \/ SubmitNotFound(p, j)
               \/ \E t \in Txs : SubmitFirst(p, j, t) \/ SubmitMismatch(p, j, t)
                                 \/ SubmitAgain(p, j, t)
        PROVE  ScriptInv'
    <2>1. UNCHANGED <<db, xpubIndex, restarted>>
      BY <1>8 DEF SubmitNotFound, SubmitFirst, SubmitMismatch, SubmitAgain
    <2> QED
      BY <1>5, <2>1
  <1>9. CASE UNCHANGED vars \/ \E c \in Clients : Connect(c) \/ Disconnect(c)
    BY <1>5, <1>9 DEF vars, Connect, Disconnect
  <1>10. CASE Restart
    BY <1>10 DEF Restart
  <1> QED
    BY <1>2, <1>3, <1>4, <1>7, <1>8, <1>9, <1>10 DEF Next

\* Within one life of the server no output of a transaction settles two invoices.
THEOREM OutputOnce == Spec => []OutputPaysOnce
  <1>1. ScriptInv => OutputPaysOnce
    BY DEF ScriptInv, OutputPaysOnce
  <1> QED
    BY <1>1, Invariance, ScriptInit, ScriptStep, PTL DEF Spec
-----------------------------------------------------------------------------
(* A page a handler has sent to has been told of the handler's invoice. *)

\* Every step keeps what handlers have sent among what pages were told.
LEMMA SentStep == TypeOK /\ SentInv /\ [Next]_vars => SentInv'
  <1> SUFFICES ASSUME TypeOK, SentInv, [Next]_vars PROVE SentInv'
    OBVIOUS
  <1>1. ASSUME told' = told,
               \A q \in Handlers : \/ h'[q].sent = {}
                                   \/ h'[q].sent = h[q].sent /\ h'[q].inv = h[q].inv
        PROVE  SentInv'
    BY <1>1 DEF SentInv
  <1>2. ASSUME UNCHANGED <<h, told>> PROVE SentInv'
    BY <1>2 DEF SentInv
  <1>3. ASSUME NEW p \in Handlers, NEW s \in Nat, Respond(p, s), told' = told PROVE SentInv'
    <2>1. \A q \in Handlers : h'[q] = h[q] \/ h'[q].sent = {}
      BY <1>3 DEF Respond, IdleHandler, TypeOK
    <2> QED
      BY <1>1, <1>3, <2>1
  <1>4. ASSUME NEW p \in Handlers, NEW c \in Clients, NotifyOne(p, c) PROVE SentInv'
    <2>1. h[p] \in HandlerStates /\ told \in [Clients -> SUBSET Invoices]
      BY DEF TypeOK
    <2>2. /\ told' = [told EXCEPT ![c] = @ \cup {h[p].inv}]
          /\ h' = [h EXCEPT ![p].sent = @ \cup {c}]
      BY <1>4 DEF NotifyOne
    <2>3. \A d \in Clients : told[d] \subseteq told'[d]
      BY <2>1, <2>2
    <2>4. h'[p].inv = h[p].inv /\ h'[p].sent = h[p].sent \cup {c} /\ h[p].inv \in told'[c]
      BY <2>1, <2>2 DEF TypeOK, HandlerStates
    <2>5. \A q \in Handlers \ {p} : h'[q] = h[q]
      BY <2>2 DEF TypeOK
    <2>6. \A q \in Handlers : h[q].sent \subseteq Clients
      BY DEF TypeOK, HandlerStates
    <2>7. ASSUME NEW q \in Handlers, NEW d \in h'[q].sent PROVE h'[q].inv \in told'[d]
      BY <2>3, <2>4, <2>5, <2>6, <2>7 DEF SentInv
    <2> QED
      BY <2>7 DEF SentInv
  <1>5. ASSUME NEW p \in Handlers, Handle(p) PROVE SentInv'
    <2>1. CASE KeyArrives(p) \/ ChannelArrives(p) \/ BroadcastAccepted(p) \/ Settle(p)
      <3>1. told' = told /\ \A q \in Handlers : h'[q].sent = h[q].sent /\ h'[q].inv = h[q].inv
        BY <2>1 DEF KeyArrives, ChannelArrives, BroadcastAccepted, Settle, Await, TypeOK,
           HandlerStates
      <3> QED
        BY <1>1, <3>1
    <2>2. CASE CallFails(p) \/ AnswerLost(p) \/ BroadcastRejected(p) \/ NotifyRaises(p)
               \/ Acknowledge(p)
      BY <2>2, <1>3 DEF CallFails, AnswerLost, BroadcastRejected, NotifyRaises, Acknowledge
    <2> QED
      BY <1>5, <1>4, <2>1, <2>2 DEF Handle
  <1>6. ASSUME NEW p \in Handlers, NEW i \in Invoices, NEW t \in Txs,
               \/ SubmitNotFound(p, i) \/ SubmitFirst(p, i, t)
               \/ SubmitMismatch(p, i, t) \/ SubmitAgain(p, i, t)
        PROVE  SentInv'
    <2>1. CASE SubmitFirst(p, i, t)
      <3>1. told' = told /\ \A q \in Handlers : h'[q] = h[q] \/ h'[q].sent = {}
        BY <2>1 DEF SubmitFirst, IdleHandler, TypeOK
      <3> QED
        BY <1>1, <3>1
    <2>2. CASE SubmitNotFound(p, i) \/ SubmitMismatch(p, i, t) \/ SubmitAgain(p, i, t)
      BY <2>2, <1>3 DEF SubmitNotFound, SubmitMismatch, SubmitAgain
    <2> QED
      BY <1>6, <2>1, <2>2
  <1>7. ASSUME NEW p \in Handlers, NEW i \in Invoices, SubmitNotFound(p, i) PROVE SentInv'
    BY <1>3, <1>7 DEF SubmitNotFound
  <1>8. ASSUME NEW c \in Clients, Connect(c) PROVE SentInv'
    <2>1. told' = told /\ \A q \in Handlers : h'[q].sent = h[q].sent /\ h'[q].inv = h[q].inv
      BY <1>8 DEF Connect, TypeOK, HandlerStates
    <2> QED
      BY <1>1, <2>1
  <1>9. CASE Restart
    BY <1>9 DEF Restart, SentInv, IdleHandler
  <1>10. ASSUME \/ UNCHANGED vars
                \/ \E n \in 1 .. MaxOutputs : CreateRaises(n)
                \/ \E i \in Invoices, n \in 0 .. MaxOutputs : CreateInvoice(i, n)
                \/ \E i \in Invoices : CancelInvoice(i)
                \/ \E c \in Clients : Disconnect(c)
         PROVE  SentInv'
    BY <1>2, <1>10 DEF vars, CreateRaises, CreateInvoice, CancelInvoice, Disconnect
  <1> QED
    BY <1>5, <1>6, <1>7, <1>8, <1>9, <1>10 DEF Next

\* A payer who gets the acknowledgement knows that every page that was open from the UPDATE
\* to the answer has been told, if none was opened meanwhile (submit_invoice_payment awaits
\* notify_listeners).
THEOREM AckAnnounced == Spec => AckIsAnnounced
  <1>1. Init => SentInv
    BY DEF Init, SentInv, IdleHandler
  <1>2. SentInv /\ [Next]_vars =>
          [\A p \in Handlers : (Acknowledge(p) /\ ~h[p].joined) =>
             \A c \in h[p].audience \cap clients : h[p].inv \in told[c]]_vars
    BY DEF SentInv, Acknowledge
  <1> QED
    BY <1>1, <1>2, TypeCorrect, SentStep, PTL DEF Spec, AckIsAnnounced
-----------------------------------------------------------------------------
(* The server implements InvoiceBook: every step is one on the book, or none.              *)

\* An empty database is an empty book.
LEMMA BookInit == Init => Book!Init
  BY DEF Init, Book!Init, NoRequest

\* A new invoice has outputs of its own, in one life of the server.
LEMMA BookOpen ==
    ASSUME Inv, ScriptInv, NEW i \in Invoices, NEW n \in 0 .. MaxOutputs, CreateInvoice(i, n)
    PROVE  Book!Next
  <1> DEFINE New == {Output(k) : k \in xpubIndex .. (xpubIndex + n - 1)}
  <1>1. xpubIndex \in Nat /\ n \in Nat /\ xpubIndex + n <= MaxScripts /\ MaxScripts \in Nat
    BY InvoiceAssumption DEF CreateInvoice, Inv, TypeOK
  <1>2. New \in SUBSET {Output(k) : k \in 0 .. MaxScripts}
    BY <1>1
  <1>3. \A o \in New : o.script \in Nat /\ o.script >= xpubIndex
    BY <1>1 DEF Output
  <1>4. ~restarted => \A j \in Invoices : \A o \in db[j].outs : o.script < xpubIndex
    BY DEF ScriptInv
  <1>5. restarted \/ \A j \in Invoices \ {i} : New \cap db[j].outs = {}
    BY <1>1, <1>3, <1>4 DEF Inv, TypeOK, Requests
  <1>6. /\ db[i].state = "none"
        /\ db' = [db EXCEPT ![i] = [state |-> "UNPAID", tx |-> NoTx, outs |-> New]]
        /\ UNCHANGED <<accepted, raced, restarted>>
    BY DEF CreateInvoice, Exists
  <1> HIDE DEF New
  <1>7. Book!Open(i, New)
    BY <1>5, <1>6 DEF Book!Open
  <1> QED
    BY <1>2, <1>7 DEF Book!Next

\* The UPDATE is an atomic payment: what the handler checked before its awaits still holds.
LEMMA BookPay ==
    ASSUME Inv, RaceInv, NEW p \in Handlers, Settle(p)
    PROVE  Book!Next
  <1>1. /\ h[p].inv \in Invoices /\ h[p].tx \in Txs /\ h[p].tx \in accepted
        /\ db[h[p].inv].outs # {} /\ db[h[p].inv].outs \subseteq TxOutputs[h[p].tx]
    BY DEF Settle, Inv, HandlerInv, Matches
  <1>2. db[h[p].inv].tx = NoTx \/ h[p].inv \in raced
    BY DEF Settle, RaceInv
  <1>3. Book!Pay(h[p].inv, h[p].tx)
    BY <1>1, <1>2 DEF Settle, Book!Pay
  <1> QED
    BY <1>1, <1>3 DEF Book!Next

\* An accepted broadcast is an acceptance; the other steps of a handler leave the book alone.
LEMMA BookHandle ==
    ASSUME Inv, RaceInv, NEW p \in Handlers, Handle(p)
    PROVE  [Book!Next]_(Book!vars)
  <1>1. CASE BroadcastAccepted(p)
    <2>1. h[p].tx \in Txs
      BY <1>1 DEF BroadcastAccepted, Inv, HandlerInv
    <2>2. Book!Accept(h[p].tx)
      BY <1>1 DEF BroadcastAccepted, Book!Accept
    <2> QED
      BY <2>1, <2>2 DEF Book!Next
  <1>2. CASE Settle(p)
    BY <1>2, BookPay
  <1>3. CASE UNCHANGED <<db, accepted, raced, restarted>>
    BY <1>3 DEF Book!vars
  <1> QED
    BY <1>1, <1>2, <1>3 DEF Handle, KeyArrives, ChannelArrives, CallFails, AnswerLost,
       BroadcastRejected, NotifyOne, NotifyRaises, Acknowledge

\* A payment that begins while another is in progress contests the invoice, which is unpaid.
LEMMA BookSubmit ==
    ASSUME Inv, NEW p \in Handlers, NEW i \in Invoices, NEW t \in Txs, SubmitFirst(p, i, t)
    PROVE  [Book!Next]_(Book!vars)
  <1>1. CASE InProgress(i)
    <2>1. Book!Contest(i)
      BY <1>1 DEF SubmitFirst, Submits, Exists, Book!Contest
    <2> QED
      BY <2>1 DEF Book!Next
  <1>2. CASE ~InProgress(i)
    BY <1>2 DEF SubmitFirst, Book!vars
  <1> QED
    BY <1>1, <1>2

\* Every step of the server is a step on the book, or none.
LEMMA BookStep == Inv /\ RaceInv /\ ScriptInv /\ [Next]_vars => [Book!Next]_(Book!vars)
  <1> SUFFICES ASSUME Inv, RaceInv, ScriptInv, [Next]_vars PROVE [Book!Next]_(Book!vars)
    OBVIOUS
  <1>1. CASE UNCHANGED <<db, accepted, raced, restarted>>
    BY <1>1 DEF Book!vars
  <1>2. ASSUME NEW i \in Invoices, CancelInvoice(i) PROVE [Book!Next]_(Book!vars)
    <2>1. Book!Close(i)
      BY <1>2 DEF CancelInvoice, Exists, Book!Close
    <2> QED
      BY <2>1 DEF Book!Next
  <1>3. ASSUME NEW p \in Handlers, NEW i \in Invoices,
               \/ SubmitNotFound(p, i)
               \/ \E t \in Txs : SubmitMismatch(p, i, t) \/ SubmitAgain(p, i, t)
        PROVE  UNCHANGED <<db, accepted, raced, restarted>>
    BY <1>3 DEF SubmitNotFound, SubmitMismatch, SubmitAgain
  <1>4. CASE Restart
    <2>1. Book!Reuse
      BY <1>4 DEF Restart, Book!Reuse
    <2> QED
      BY <2>1 DEF Book!Next
  <1>5. CASE \/ \E c \in Clients : Connect(c) \/ Disconnect(c)
             \/ \E n \in 1 .. MaxOutputs : CreateRaises(n)
             \/ UNCHANGED vars
    BY <1>1, <1>5 DEF Connect, Disconnect, CreateRaises, vars
  <1> QED
    BY <1>1, <1>2, <1>3, <1>4, <1>5, BookOpen, BookHandle, BookSubmit DEF Next

\* The server keeps a book of invoices: opened once with outputs of their own, and paid, over
\* several awaits among any other handlers, as if in one step.
THEOREM Refinement == Spec => BookKept
  BY BookInit, BookStep, Invariance, RaceInit, RaceStep, ScriptInit, ScriptStep, PTL
     DEF Spec, BookKept, Book!Spec
=============================================================================
