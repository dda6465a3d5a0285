----------------------------- MODULE InvoicePage -----------------------------
(***************************************************************************)
(* The page of electrumsv-server that creates and shows invoices           *)
(* (wwwroot/index.html): the form, the payment page, its fetches, whose    *)
(* answers come in any order or not at all, and the websocket on which the *)
(* server says that an invoice is paid.  A step is one event handler or    *)
(* one step of the server.  The server here is what its handlers do to an  *)
(* invoice's state; InvoiceServer has them in detail.                      *)
(***************************************************************************)
EXTENDS Naturals, FiniteSets

CONSTANTS Invoices,    \* uids
          Calls,       \* fetches that may be in progress at a time
          NoInv,
          Earlier,     \* invoices made before the page was loaded
          MaxOpens     \* bound: invoices opened

ASSUME PageAssumption ==
    /\ IsFiniteSet(Invoices) /\ IsFiniteSet(Calls) /\ NoInv \notin Invoices
    /\ Earlier \subseteq Invoices /\ MaxOpens \in Nat

VARIABLES inv,       \* server: the state of each invoice
          paid,      \* server: invoices with a transaction
          notices,   \* server: payments whose notify_listeners has not come to this page
          socket,    \* the websocket is open
          inbox,     \* InvoicePaid messages on their way to the page
          call,      \* fetches: kind, invoice, the answer when there is one, number
          view,      \* which page is visible
          form,      \* the inputs enabled, an amount filled in
          data,      \* makePaymentPage: id and state of the invoice it has
          items,     \* per invoice: how often its items are on the page
          asked,     \* history: the invoice the user opened last
          opens,     \* number of display requests
          newest,    \* history: number of the newest answer that was shown
          disorder,  \* history: what came in the way since the last opening
          missed     \* history: invoices whose InvoicePaid could not help the page

server == <<inv, paid, notices>>
network == <<socket, inbox, call>>
page == <<view, form, data, items>>
history == <<asked, opens, newest, disorder, missed>>
vars == <<server, network, page, history>>

States == {"UNPAID", "PAID", "CLOSED"}
NoCall == [kind |-> "idle", inv |-> NoInv, answer |-> "none", n |-> 0]
NoData == [id |-> NoInv, state |-> "none"]
FreshForm == {"enabled"}

\* The websocket names an invoice as the payer's request did: with or without dashes.
Spellings == {"dashed", "plain"}
Messages == [inv : Invoices, id : Spellings]

Displaying == {k \in Calls : call[k].kind = "display"}

-----------------------------------------------------------------------------
\* The page is loaded.
Init ==
    /\ inv \in {f \in [Invoices -> States \cup {"none"}] : \A i \in Invoices :
                    f[i] = "none" <=> i \notin Earlier}
    /\ paid = {i \in Earlier : inv[i] = "PAID"} /\ notices = {}
    /\ socket = TRUE /\ inbox = {}
    /\ call = [k \in Calls |-> NoCall]
    /\ view = "dashboard" /\ form = FreshForm
    /\ data = NoData /\ items = [i \in Invoices |-> 0]
    /\ asked = NoInv /\ opens = 0 /\ newest = 0 /\ disorder = {} /\ missed = {}

(* NewInvoicePage                                                          *)
\* reset: the lines are cleared; inputs that are disabled stay so, the template's too.
Reset == form' = form \ {"filled"}

AddInvoice ==
    /\ view = "dashboard"
    /\ view' = "new" /\ Reset
    /\ UNCHANGED <<server, network, data, items, history>>
ClearForm ==
    /\ view = "new" /\ Reset
    /\ UNCHANGED <<server, network, view, data, items, history>>
FillIn ==
    /\ view = "new" /\ "enabled" \in form /\ "filled" \notin form
    /\ form' = form \cup {"filled"}
    /\ UNCHANGED <<server, network, view, data, items, history>>
\* onSubmitClick disables the inputs; the button stays and can be pressed again.
Submit(k) ==
    /\ view = "new" /\ "filled" \in form
    /\ call[k] = NoCall
    /\ call' = [call EXCEPT ![k] = [NoCall EXCEPT !.kind = "create"]]
    /\ form' = form \ {"enabled"}
    /\ UNCHANGED <<server, socket, inbox, view, data, items, history>>

(* MakePaymentPage                                                         *)
\* Mutant of Populate: the items of the last invoice are not removed.
PopulateUncleared(k, i) ==
    /\ opens < MaxOpens
    /\ opens' = opens + 1
    /\ call' = [call EXCEPT ![k] = [kind |-> "display", inv |-> i, answer |-> "none", n |-> opens']]
    /\ view' = "payment"
    /\ asked' = i
    /\ disorder' = IF Displaying # {} THEN {"overlap"} ELSE {}
    /\ UNCHANGED items
\* populateInvoiceFromId and show: the items go, the rest of the last invoice stays.
Populate(k, i) ==
    /\ opens < MaxOpens
    /\ opens' = opens + 1
    /\ call' = [call EXCEPT ![k] = [kind |-> "display", inv |-> i, answer |-> "none", n |-> opens']]
    /\ view' = "payment"
    /\ items' = [j \in Invoices |-> 0]
    /\ asked' = i
    /\ disorder' = IF Displaying # {} THEN {"overlap"} ELSE {}

\* A row of the dashboard's table or of the list of past invoices is clicked.
OpenInvoice(k, i) ==
    /\ inv[i] # "none" /\ call[k] = NoCall
    /\ Populate(k, i)
    /\ UNCHANGED <<server, socket, inbox, form, data, newest, missed>>
ViewAll ==
    /\ view # "dashboard"
    /\ view' = "dashboard"
    /\ UNCHANGED <<server, network, form, data, items, history>>
\* The button is enabled while the invoice the page has is unpaid.
CancelInvoice(k) ==
    /\ view = "payment" /\ data.state = "UNPAID" /\ call[k] = NoCall
    /\ call' = [call EXCEPT ![k] = [NoCall EXCEPT !.kind = "cancel", !.inv = data.id]]
    /\ UNCHANGED <<server, socket, inbox, page, history>>

\* setData appends the items to those that are there.
SetData(i, state) ==
    /\ data' = [id |-> i, state |-> state]
    /\ items' = [items EXCEPT ![i] = IF @ < 2 THEN @ + 1 ELSE @]

-----------------------------------------------------------------------------
\* An answer older than a payment is still to come.
Outdated(i) == \E k \in Displaying : call[k].inv = i /\ call[k].answer \in {"UNPAID", "CLOSED"}

(* Fetches: the server answers, the answer arrives, or the fetch fails.    *)
Answer(k, i, state) == call' = [call EXCEPT ![k].inv = i, ![k].answer = state]

ServeCreate(k, i) ==
    /\ call[k].kind = "create" /\ call[k].answer = "none" /\ inv[i] = "none"
    /\ inv' = [inv EXCEPT ![i] = "UNPAID"]
    /\ Answer(k, i, "UNPAID")
    /\ UNCHANGED <<paid, notices, socket, inbox, page, history>>
ServeDisplay(k) ==
    /\ call[k].kind = "display" /\ call[k].answer = "none"
    /\ Answer(k, call[k].inv, inv[call[k].inv])
    /\ UNCHANGED <<server, socket, inbox, page, history>>
\* Whatever the invoice's state is: InvoiceServer!CancelInvoice.
ServeCancel(k) ==
    /\ call[k].kind = "cancel" /\ call[k].answer = "none"
    /\ inv' = [inv EXCEPT ![call[k].inv] = "CLOSED"]
    /\ Answer(k, call[k].inv, "CLOSED")
    /\ UNCHANGED <<paid, notices, socket, inbox, page, history>>

Created(k) ==
    /\ call[k].kind = "create" /\ call[k].answer # "none"
    /\ Populate(k, call[k].inv)
    /\ UNCHANGED <<server, socket, inbox, form, data, newest, missed>>
\* Mutant of Displayed: data that is there is kept.
DisplayedFirst(k) ==
    /\ call[k].kind = "display" /\ call[k].answer # "none"
    /\ call' = [call EXCEPT ![k] = NoCall]
    /\ IF data = NoData THEN SetData(call[k].inv, call[k].answer) ELSE UNCHANGED <<data, items>>
    /\ newest' = IF call[k].n > newest THEN call[k].n ELSE newest
    /\ disorder' = IF call[k].n < newest THEN disorder \cup {"crossed"} ELSE disorder
    /\ missed' = IF call[k].answer = "PAID" /\ ~Outdated(call[k].inv)
                 THEN missed \ {call[k].inv} ELSE missed
    /\ UNCHANGED <<server, socket, inbox, view, form, asked, opens>>
Displayed(k) ==
    /\ call[k].kind = "display" /\ call[k].answer # "none"
    /\ call' = [call EXCEPT ![k] = NoCall]
    /\ SetData(call[k].inv, call[k].answer)
    /\ newest' = IF call[k].n > newest THEN call[k].n ELSE newest
    /\ disorder' = IF call[k].n < newest THEN disorder \cup {"crossed"} ELSE disorder
    /\ missed' = IF call[k].answer = "PAID" /\ ~Outdated(call[k].inv)
                 THEN missed \ {call[k].inv} ELSE missed
    /\ UNCHANGED <<server, socket, inbox, view, form, asked, opens>>
Cancelled(k) ==
    /\ call[k].kind = "cancel" /\ call[k].answer # "none"
    /\ call' = [call EXCEPT ![k] = NoCall]
    /\ view' = "dashboard"
    /\ UNCHANGED <<server, socket, inbox, form, data, items, history>>
\* No handler for a failed fetch or an answer that is not JSON.
CallFails(k) ==
    /\ call[k] # NoCall
    /\ call' = [call EXCEPT ![k] = NoCall]
    /\ disorder' = IF call[k].kind = "display" THEN disorder \cup {"failure"} ELSE disorder
    /\ UNCHANGED <<server, socket, inbox, page, asked, opens, newest, missed>>

-----------------------------------------------------------------------------
(* ServerConnection                                                        *)
\* A payment, posted under one spelling of the id; a closed invoice can be paid too.  The row
\* is updated, and notify_listeners begins.
Pay(i, spelled) ==
    /\ inv[i] # "none" /\ i \notin paid
    /\ inv' = [inv EXCEPT ![i] = "PAID"] /\ paid' = paid \cup {i}
    /\ notices' = notices \cup {[inv |-> i, id |-> spelled]}
    /\ UNCHANGED <<network, page, history>>

\* The loop over the open pages comes to this one.
Notify(m) ==
    /\ m \in notices /\ socket
    /\ notices' = notices \ {m}
    /\ inbox' = inbox \cup {m}
    /\ UNCHANGED <<inv, paid, socket, call, page, history>>

\* The loop ends before it comes to this page: a send to another page fails, pages came or
\* left while it awaited, this page is not connected, or the server was restarted.
NotifyEnds(m) ==
    /\ m \in notices
    /\ notices' = notices \ {m}
    /\ missed' = missed \cup {m.inv}
    /\ UNCHANGED <<inv, paid, network, page, asked, opens, newest, disorder>>

\* Mutant of InvoicePaid: the state is not set.
InvoicePaidUnset(m) ==
    /\ m \in inbox
    /\ inbox' = inbox \ {m}
    /\ UNCHANGED <<server, socket, call, page, history>>
\* onMessage: only the invoice whose data the page has, spelled as in that data.
InvoicePaid(m) ==
    /\ m \in inbox
    /\ inbox' = inbox \ {m}
    /\ IF data.id = m.inv /\ m.id = "dashed"
       THEN SetData(m.inv, "PAID") /\ disorder' = disorder \cup {"repaint"}
       ELSE UNCHANGED <<data, items, disorder>>
    /\ missed' = IF data.id = m.inv /\ m.id = "dashed" /\ ~Outdated(m.inv) THEN missed
                 ELSE missed \cup {m.inv}
    /\ UNCHANGED <<server, socket, call, view, form, asked, opens, newest>>

\* onClose; what was on its way is lost.
SocketCloses ==
    /\ socket
    /\ socket' = FALSE /\ inbox' = {}
    /\ missed' = missed \cup {m.inv : m \in inbox}
    /\ UNCHANGED <<server, call, page, asked, opens, newest, disorder>>
\* connect, 5 s later.
Reconnect ==
    /\ ~socket
    /\ socket' = TRUE
    /\ UNCHANGED <<server, inbox, call, page, history>>

User ==
    \/ AddInvoice \/ ClearForm \/ FillIn \/ ViewAll
    \/ \E k \in Calls : Submit(k) \/ CancelInvoice(k) \/ \E i \in Invoices : OpenInvoice(k, i)
Progress(k) ==
    \/ (\E i \in Invoices : ServeCreate(k, i)) \/ ServeDisplay(k) \/ ServeCancel(k)
    \/ Created(k) \/ Displayed(k) \/ Cancelled(k)
Hear == (\E m \in inbox : InvoicePaid(m)) \/ Reconnect
Trouble == SocketCloses \/ \E k \in Calls : CallFails(k)
Next ==
    \/ User \/ Hear \/ Trouble
    \/ \E k \in Calls : Progress(k)
    \/ \E i \in Invoices, spelled \in Spellings : Pay(i, spelled)
    \/ \E m \in notices : Notify(m) \/ NotifyEnds(m)

Spec == Init /\ [][Next]_vars

-----------------------------------------------------------------------------
TypeOK ==
    /\ inv \in [Invoices -> States \cup {"none"}] /\ paid \subseteq Invoices
    /\ notices \subseteq Messages
    /\ socket \in BOOLEAN /\ inbox \subseteq Messages
    /\ call \in [Calls -> [kind : {"idle", "create", "display", "cancel"},
                           inv : Invoices \cup {NoInv}, answer : States \cup {"none"},
                           n : 0..MaxOpens]]
    /\ view \in {"dashboard", "new", "payment"}
    /\ form \subseteq {"enabled", "filled"}
    /\ data \in [id : Invoices, state : States] \cup {NoData}
    /\ items \in [Invoices -> 0..2]
    /\ asked \in Invoices \cup {NoInv} /\ opens \in 0..MaxOpens /\ newest \in 0..MaxOpens
    /\ disorder \subseteq {"overlap", "crossed", "repaint", "failure"}
    /\ missed \subseteq Invoices

Settled == view = "payment" /\ Displaying = {}

(* When no answer is outstanding the page has the invoice the user opened  *)
(* last, unless answers overtook each other or the last one never came.    *)
ShownIsAsked == Settled => data.id = asked \/ disorder \cap {"crossed", "failure"} # {}

(* It then shows the items of that invoice, once each; a second request    *)
(* before the first is answered adds the items of both, and the notice of  *)
(* a payment adds the items again.                                         *)
ItemsShownOnce ==
    Settled => \/ disorder # {}
               \/ items = [i \in Invoices |-> IF i = data.id THEN 1 ELSE 0]

\* The server's loop for this invoice is over and its message has been handled.
ToldOf(i) == \A m \in notices \cup inbox : m.inv # i

(* A paid invoice is shown as paid once the server's loop is over and all  *)
(* that was sent has arrived, unless its notice could not help: it was not *)
(* sent to this page (another page's failing send ends the loop, pages     *)
(* came or left meanwhile, the page was not connected, a restart), it was  *)
(* lost with the connection, spelled without dashes, or it came before the *)
(* invoice's data or before an answer that is older than the payment.  A   *)
(* later answer that says PAID makes it good.                              *)
PaidIsShown ==
    Settled /\ data.id # NoInv /\ ToldOf(data.id) /\ data.id \notin missed
        => (inv[data.id] = "PAID" => data.state = "PAID")

=============================================================================
