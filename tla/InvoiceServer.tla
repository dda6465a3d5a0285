--------------------------- MODULE InvoiceServer ---------------------------
(***************************************************************************)
(* electrumsv-server: creating, cancelling and paying invoices             *)
(* (application.py), the scripts they are paid to (payment_requests.py)    *)
(* and the websocket clients that are told (txstatewebsocket.py).  One     *)
(* asyncio loop runs all handlers: a step runs from one await to the next, *)
(* other handlers run between.  The database survives a restart, module    *)
(* globals and handlers do not.  The reference server and the merchant API *)
(* are external: they answer, refuse, or fail.  A transaction is accepted  *)
(* when the merchant API has answered its broadcast with status 200 (the   *)
(* code does not read the answer's own verdict); that is not taken back.   *)
(***************************************************************************)
EXTENDS Naturals, FiniteSets

CONSTANTS Invoices, \* uids
          Handlers, \* submit requests that may be in progress at a time
          Txs,
          TxOutputs,\* per transaction: the outputs {script_pubkey: value}
          Clients,  \* websocket connections, each with a uuid of its own
          NoInv, NoTx,
          MaxOutputs,  \* bound: outputs of one invoice
          MaxScripts   \* bound: scripts derived in one life of the server

Output(n) == [script |-> n, amount |-> 1]

ASSUME InvoiceAssumption ==
    /\ NoTx \notin Txs
    /\ NoInv \notin Invoices
    /\ IsFiniteSet(Clients)
    /\ MaxOutputs \in Nat /\ MaxScripts \in Nat
    /\ TxOutputs \in [Txs -> SUBSET [script : Nat, amount : Nat]]

VARIABLES db,        \* PaymentRequest and PaymentRequestOutput
          xpubIndex, \* XPUB_INDEX
          h,         \* submit_invoice_payment handlers
          clients,   \* web_app['ws_clients']
          closed,    \* connections that have ended
          told,      \* per client: invoices it has been told are paid
          accepted,  \* transactions whose broadcast was answered with 200
          reply,     \* status of the response sent by the last step, 0 if it sent none
          raced,     \* history: invoices with two payments in progress at a time
          restarted  \* history: the server has been restarted

vars == <<db, xpubIndex, h, clients, closed, told, accepted, reply, raced, restarted>>

NoRequest == [state |-> "none", tx |-> NoTx, outs |-> {}]
IdleHandler == [pc |-> "idle", inv |-> NoInv, tx |-> NoTx, size |-> 0, sent |-> {},
                audience |-> {}, joined |-> FALSE]

Init ==
    /\ db = [i \in Invoices |-> NoRequest]
    /\ xpubIndex = 0
    /\ h = [p \in Handlers |-> IdleHandler]
    /\ clients = {}
    /\ closed = {}
    /\ told = [c \in Clients |-> {}]
    /\ accepted = {}
    /\ reply = 0
    /\ raced = {}
    /\ restarted = FALSE

Exists(i) == db[i].state # "none"
Matches(i, t) == db[i].outs \subseteq TxOutputs[t]
InProgress(i) == \E p \in Handlers : h[p].inv = i

Respond(p, status) ==
    /\ h' = [h EXCEPT ![p] = IdleHandler]
    /\ reply' = status

Await(p, pc) == h' = [h EXCEPT ![p].pc = pc]

\* create_invoice: a new script for each output.
CreateInvoice(i, n) ==
    /\ ~Exists(i)
    /\ xpubIndex + n <= MaxScripts
    /\ xpubIndex' = xpubIndex + n
    /\ db' = [db EXCEPT ![i] = [state |-> "UNPAID", tx |-> NoTx,
                outs |-> {Output(k) : k \in xpubIndex .. (xpubIndex + n - 1)}]]
    /\ reply' = 0
    /\ UNCHANGED <<h, clients, closed, told, accepted, raced, restarted>>

\* An entry of the list is malformed: the scripts of those before it are used up.
CreateRaises(n) ==
    /\ xpubIndex + n <= MaxScripts
    /\ xpubIndex' = xpubIndex + n
    /\ reply' = 500
    /\ UNCHANGED <<db, h, clients, closed, told, accepted, raced, restarted>>

\* Mutant of CancelInvoice: the row is deleted.
CancelInvoiceDeletes(i) ==
    /\ Exists(i)
    /\ db' = [db EXCEPT ![i] = NoRequest]
    /\ reply' = 0
    /\ UNCHANGED <<xpubIndex, h, clients, closed, told, accepted, raced, restarted>>

\* cancel_invoice closes the invoice in whatever state it is.
CancelInvoice(i) ==
    /\ Exists(i)
    /\ db' = [db EXCEPT ![i].state = "CLOSED"]
    /\ reply' = 0
    /\ UNCHANGED <<xpubIndex, h, clients, closed, told, accepted, raced, restarted>>

-----------------------------------------------------------------------------
(* submit_invoice_payment *)

Submits(p, i) == h[p].pc = "idle" /\ Exists(i)

\* The select joins the outputs: an invoice without any is not found.
SubmitNotFound(p, i) ==
    /\ Submits(p, i)
    /\ db[i].outs = {}
    /\ Respond(p, 500)
    /\ UNCHANGED <<db, xpubIndex, clients, closed, told, accepted, raced, restarted>>

\* Mutant of SubmitFirst: tx_hash is not looked at.
SubmitFirstAlways(p, i, t) ==
    /\ Submits(p, i)
    /\ db[i].outs # {}
    /\ Matches(i, t)
    /\ h' = [h EXCEPT ![p] = [IdleHandler EXCEPT !.pc = "key", !.inv = i, !.tx = t]]
    /\ raced' = IF InProgress(i) THEN raced \cup {i} ELSE raced
    /\ reply' = 0
    /\ UNCHANGED <<db, xpubIndex, clients, closed, told, accepted, restarted>>

\* Not paid yet and the outputs are there: ask the reference server for an API key.
SubmitFirst(p, i, t) ==
    /\ Submits(p, i)
    /\ db[i].outs # {}
    /\ db[i].tx = NoTx
    /\ Matches(i, t)
    /\ h' = [h EXCEPT ![p] = [IdleHandler EXCEPT !.pc = "key", !.inv = i, !.tx = t]]
    /\ raced' = IF InProgress(i) THEN raced \cup {i} ELSE raced
    /\ reply' = 0
    /\ UNCHANGED <<db, xpubIndex, clients, closed, told, accepted, restarted>>

SubmitMismatch(p, i, t) ==
    /\ Submits(p, i)
    /\ db[i].outs # {}
    /\ db[i].tx = NoTx
    /\ ~Matches(i, t)
    /\ Respond(p, 400)
    /\ UNCHANGED <<db, xpubIndex, clients, closed, told, accepted, raced, restarted>>

\* Paid already: another transaction is refused; for the same one the acknowledgement is
\* built from peer_channel_json, which this path never assigns (UnboundLocalError).
SubmitAgain(p, i, t) ==
    /\ Submits(p, i)
    /\ db[i].outs # {}
    /\ db[i].tx # NoTx
    /\ Respond(p, IF db[i].tx = t THEN 500 ELSE 400)
    /\ UNCHANGED <<db, xpubIndex, clients, closed, told, accepted, raced, restarted>>

\* The API key, then the peer channel arrive.
KeyArrives(p) ==
    /\ h[p].pc = "key"
    /\ Await(p, "channel")
    /\ reply' = 0
    /\ UNCHANGED <<db, xpubIndex, clients, closed, told, accepted, raced, restarted>>

ChannelArrives(p) ==
    /\ h[p].pc = "channel"
    /\ Await(p, "broadcast")
    /\ reply' = 0
    /\ UNCHANGED <<db, xpubIndex, clients, closed, told, accepted, raced, restarted>>

\* Mutant of CallFails: the handler begins again, without a limit.
CallFailsRetried(p) ==
    /\ h[p].pc \in {"key", "channel", "broadcast"}
    /\ Await(p, "key")
    /\ reply' = 0
    /\ UNCHANGED <<db, xpubIndex, clients, closed, told, accepted, raced, restarted>>

\* A call to a server fails or times out: the handler raises.
CallFails(p) ==
    /\ h[p].pc \in {"key", "channel", "broadcast"}
    /\ Respond(p, 500)
    /\ UNCHANGED <<db, xpubIndex, clients, closed, told, accepted, raced, restarted>>

\* The merchant API accepts the transaction; its answer may still get lost.
BroadcastAccepted(p) ==
    /\ h[p].pc = "broadcast"
    /\ accepted' = accepted \cup {h[p].tx}
    /\ Await(p, "settle")
    /\ reply' = 0
    /\ UNCHANGED <<db, xpubIndex, clients, closed, told, raced, restarted>>

AnswerLost(p) ==
    /\ h[p].pc = "settle"
    /\ Respond(p, 500)
    /\ UNCHANGED <<db, xpubIndex, clients, closed, told, accepted, raced, restarted>>

\* Mutant of BroadcastRejected: the status of the response is not checked.
BroadcastUnchecked(p) ==
    /\ h[p].pc = "broadcast"
    /\ Await(p, "settle")
    /\ reply' = 0
    /\ UNCHANGED <<db, xpubIndex, clients, closed, told, accepted, raced, restarted>>

BroadcastRejected(p) ==
    /\ h[p].pc = "broadcast"
    /\ Respond(p, 400)
    /\ UNCHANGED <<db, xpubIndex, clients, closed, told, accepted, raced, restarted>>

\* UPDATE ... tx_hash, PAID, whatever the row holds by now; then notify_listeners starts.
Settle(p) ==
    /\ h[p].pc = "settle"
    /\ db' = [db EXCEPT ![h[p].inv].state = "PAID", ![h[p].inv].tx = h[p].tx]
    /\ h' = [h EXCEPT ![p].pc = "notify", ![p].size = Cardinality(clients),
                      ![p].audience = clients]
    /\ reply' = 0
    /\ UNCHANGED <<xpubIndex, clients, closed, told, accepted, raced, restarted>>

\* await send_str for the next client of the dict.
NotifyOne(p, c) ==
    /\ h[p].pc = "notify"
    /\ Cardinality(clients) = h[p].size
    /\ c \in clients \ h[p].sent
    /\ told' = [told EXCEPT ![c] = @ \cup {h[p].inv}]
    /\ h' = [h EXCEPT ![p].sent = @ \cup {c}]
    /\ reply' = 0
    /\ UNCHANGED <<db, xpubIndex, clients, closed, accepted, raced, restarted>>

\* send_str raises, or the dict has another size than when the iteration began.
NotifyRaises(p) ==
    /\ h[p].pc = "notify"
    /\ \/ Cardinality(clients) # h[p].size
       \/ clients \cup h[p].sent # {}
    /\ Respond(p, 500)
    /\ UNCHANGED <<db, xpubIndex, clients, closed, told, accepted, raced, restarted>>

\* Mutant of Acknowledge: notify_listeners is not awaited.
AcknowledgeAtOnce(p) ==
    /\ h[p].pc = "notify"
    /\ Respond(p, 200)
    /\ UNCHANGED <<db, xpubIndex, clients, closed, told, accepted, raced, restarted>>

\* The iteration ends.  It has reached every page, unless one joined meanwhile (and another
\* left): the insertion may compact the dict and move pages past the iterator.
Acknowledge(p) ==
    /\ h[p].pc = "notify"
    /\ Cardinality(clients) = h[p].size
    /\ h[p].joined \/ clients \subseteq h[p].sent
    /\ Respond(p, 200)
    /\ UNCHANGED <<db, xpubIndex, clients, closed, told, accepted, raced, restarted>>

-----------------------------------------------------------------------------
\* TxStateWebSocket.get: registered after prepare(), deleted in `finally`.
Connect(c) ==
    /\ c \notin clients \cup closed
    /\ clients' = clients \cup {c}
    /\ h' = [p \in Handlers |-> IF h[p].pc = "notify" THEN [h[p] EXCEPT !.joined = TRUE]
                               ELSE h[p]]
    /\ reply' = 0
    /\ UNCHANGED <<db, xpubIndex, closed, told, accepted, raced, restarted>>

Disconnect(c) ==
    /\ c \in clients
    /\ clients' = clients \ {c}
    /\ closed' = closed \cup {c}
    /\ reply' = 0
    /\ UNCHANGED <<db, xpubIndex, h, told, accepted, raced, restarted>>

\* The server stops or crashes at any point and is started again.
Restart ==
    /\ h' = [p \in Handlers |-> IdleHandler]
    /\ xpubIndex' = 0
    /\ clients' = {}
    /\ closed' = closed \cup clients
    /\ restarted' = TRUE
    /\ reply' = 0
    /\ UNCHANGED <<db, told, accepted, raced>>

Handle(p) ==
    \/ KeyArrives(p) \/ ChannelArrives(p) \/ CallFails(p)
    \/ BroadcastAccepted(p) \/ AnswerLost(p) \/ BroadcastRejected(p)
    \/ Settle(p) \/ (\E c \in Clients : NotifyOne(p, c))
    \/ NotifyRaises(p) \/ Acknowledge(p)

Next ==
    \/ \E i \in Invoices :
         \/ \E n \in 0 .. MaxOutputs : CreateInvoice(i, n)
         \/ CancelInvoice(i)
    \/ \E n \in 1 .. MaxOutputs : CreateRaises(n)
    \/ \E p \in Handlers :
         \/ \E i \in Invoices :
              \/ SubmitNotFound(p, i)
              \/ \E t \in Txs : SubmitFirst(p, i, t) \/ SubmitMismatch(p, i, t)
                                \/ SubmitAgain(p, i, t)
         \/ Handle(p)
    \/ \E c \in Clients : Connect(c) \/ Disconnect(c)
    \/ Restart

\* The loop resumes a handler whose await has ended; every call to a server ends (aiohttp's
\* total timeout of five minutes).
Fairness == \A p \in Handlers : WF_vars(Handle(p))

Spec == Init /\ [][Next]_vars
FairSpec == Spec /\ Fairness
-----------------------------------------------------------------------------
Requests == [state : {"none", "UNPAID", "PAID", "CLOSED"}, tx : Txs \cup {NoTx},
             outs : SUBSET [script : Nat, amount : Nat]]
HandlerStates == [pc : {"idle", "key", "channel", "broadcast", "settle", "notify"},
                  inv : Invoices \cup {NoInv}, tx : Txs \cup {NoTx}, size : Nat,
                  sent : SUBSET Clients, audience : SUBSET Clients, joined : BOOLEAN]

\* Every variable keeps its type.
TypeOK ==
    /\ db \in [Invoices -> Requests]
    /\ xpubIndex \in Nat
    /\ h \in [Handlers -> HandlerStates]
    /\ clients \subseteq Clients /\ closed \subseteq Clients
    /\ told \in [Clients -> SUBSET Invoices]
    /\ accepted \subseteq Txs
    /\ reply \in {0, 200, 400, 500}
    /\ raced \subseteq Invoices
    /\ restarted \in BOOLEAN

\* An invoice is only marked paid by a transaction that pays every output of it and that the
\* merchant API has accepted; without one it is never PAID.  This spans the whole handler: the
\* check, three awaits during which anything else runs, and the UPDATE.
PaidIsBacked ==
    \A i \in Invoices :
      /\ db[i].tx # NoTx => db[i].tx \in accepted /\ Matches(i, db[i].tx)
      /\ db[i].state = "PAID" => db[i].tx # NoTx
      /\ db[i].state = "UNPAID" => db[i].tx = NoTx

\* No client is told that an invoice is paid before that is in the database, so that a crash
\* cannot take it back.
ToldIsDurable == \A c \in Clients : \A i \in told[c] : db[i].tx # NoTx

\* The payment of an invoice is final, unless two payments of it were in progress at a time.
PaymentIsFinalUnlessRaced ==
    [][\A i \in Invoices :
         (db[i].tx # NoTx /\ i \notin raced') => db'[i].tx = db[i].tx]_vars

\* Within one life of the server no output of a transaction settles two invoices.
OutputPaysOnce ==
    ~restarted =>
      \A i, j \in Invoices :
        (i # j /\ db[i].tx # NoTx /\ db[j].tx = db[i].tx) => db[i].outs \cap db[j].outs = {}

\* A payer who gets the acknowledgement knows that every page that was open all the time
\* from the UPDATE to the answer has been told, if none was opened meanwhile.
AckIsAnnounced ==
    [][\A p \in Handlers : (Acknowledge(p) /\ ~h[p].joined) =>
         \A c \in h[p].audience \cap clients : h[p].inv \in told[c]]_vars

\* The server keeps a book of invoices: every step of it is one step on the book, or none.
Book == INSTANCE InvoiceBook WITH book <- db, contested <- raced, reused <- restarted,
                                  Outputs <- {Output(n) : n \in 0 .. MaxScripts}

\* What the handlers do over several awaits looks like the atomic payments of InvoiceBook.
BookKept == Book!Spec

\* Every submitted payment is answered, with a status or an exception, or lost in a restart.
EveryPaymentAnswered == \A p \in Handlers : h[p].pc # "idle" ~> h[p].pc = "idle"
=============================================================================
