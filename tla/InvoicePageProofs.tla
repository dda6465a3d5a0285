------------------------- MODULE InvoicePageProofs -------------------------
(***************************************************************************)
(* Proofs of the safety properties of InvoicePage for any invoices,        *)
(* fetches and number of openings.  Display requests are numbered          *)
(* (Numbered); the last one is under way, was shown, or was crossed or     *)
(* lost (LastAsked), and without trouble it alone fills the page           *)
(* (ItemsFit).  Whoever will not be told of a payment is in `missed`       *)
(* (PaidKnown).                                                            *)
(***************************************************************************)
EXTENDS InvoicePage, TLAPS

\* What is displayed, cancelled or answered is about an invoice.
Answered == \A k \in Calls :
    /\ call[k].answer # "none" => call[k].inv \in Invoices
    /\ call[k].kind \in {"display", "cancel"} => call[k].inv \in Invoices

\* Display requests have different numbers, none that of an answer shown.
Numbered ==
    /\ newest <= opens
    /\ \A k \in Displaying : call[k].n <= opens /\ call[k].n # newest
    /\ \A k, l \in Displaying : call[k].n = call[l].n => k = l

\* What has become of the last display request.
LastAsked ==
    /\ view = "payment" => opens > 0
    /\ opens > 0 =>
         \/ \E k \in Displaying : call[k].n = opens /\ call[k].inv = asked
         \/ disorder \cap {"crossed", "failure"} # {}
         \/ newest = opens /\ data.id = asked

\* Items are added once for the one request.
ItemsFit ==
    (opens > 0 /\ disorder = {}) =>
        \/ (\E k \in Calls : Displaying = {k}) /\ items = [i \in Invoices |-> 0]
        \/ Displaying = {} /\ items = [i \in Invoices |-> IF i = data.id THEN 1 ELSE 0]

\* A paid invoice that is not missed will be, or is, known to the page.
PaidKnown ==
    \A i \in Invoices : (inv[i] = "PAID" /\ i \notin missed) =>
        \/ \E m \in notices \cup inbox : m.inv = i
        \/ ~Outdated(i) /\ (data.id = i => data.state = "PAID")

PageInv == TypeOK /\ Answered /\ Numbered /\ LastAsked /\ ItemsFit /\ PaidKnown
-----------------------------------------------------------------------------
\* Nothing has been asked for when the page is loaded.
LEMMA InitPage == Init => PageInv
<1> SUFFICES ASSUME Init PROVE PageInv
  OBVIOUS
<1> USE PageAssumption
<1>1. Displaying = {}
  BY DEF Init, Displaying, NoCall
<1>2. TypeOK
  BY DEF Init, TypeOK, NoCall, NoData, FreshForm, States
<1>3. Numbered /\ LastAsked /\ ItemsFit /\ PaidKnown
  BY <1>1 DEF Init, Numbered, LastAsked, ItemsFit, PaidKnown, Outdated, NoData
<1>4. Answered
  BY DEF Init, Answered, NoCall
<1>5. QED
  BY <1>2, <1>3, <1>4 DEF PageInv

\* A fetch that starts, is answered or ends has the type of one.
CallRecords == [kind : {"idle", "create", "display", "cancel"}, inv : Invoices \cup {NoInv},
                answer : States \cup {"none"}, n : 0..MaxOpens]
LEMMA PutCall ==
    ASSUME TypeOK, NEW k \in Calls
    PROVE  /\ [call EXCEPT ![k] = NoCall] \in [Calls -> CallRecords]
           /\ [call EXCEPT ![k] = [NoCall EXCEPT !.kind = "create"]] \in [Calls -> CallRecords]
           /\ \A i \in Invoices : [call EXCEPT ![k] = [NoCall EXCEPT !.kind = "cancel", !.inv = i]]
                                    \in [Calls -> CallRecords]
           /\ \A i \in Invoices, n \in 0..MaxOpens :
                [call EXCEPT ![k] = [kind |-> "display", inv |-> i, answer |-> "none", n |-> n]]
                    \in [Calls -> CallRecords]
           /\ \A i \in Invoices \cup {NoInv}, a \in States \cup {"none"} :
                [call EXCEPT ![k].inv = i, ![k].answer = a] \in [Calls -> CallRecords]
<1> USE PageAssumption
<1>1. call \in [Calls -> CallRecords]
  BY DEF TypeOK, CallRecords
<1>2. ASSUME NEW c \in CallRecords PROVE [call EXCEPT ![k] = c] \in [Calls -> CallRecords]
  BY <1>1
<1>3. /\ NoCall \in CallRecords /\ [NoCall EXCEPT !.kind = "create"] \in CallRecords
      /\ \A i \in Invoices : [NoCall EXCEPT !.kind = "cancel", !.inv = i] \in CallRecords
      /\ \A i \in Invoices, n \in 0..MaxOpens :
           [kind |-> "display", inv |-> i, answer |-> "none", n |-> n] \in CallRecords
  <2>1. 0 \in 0..MaxOpens
    OBVIOUS
  <2>2. NoCall \in CallRecords
    BY <2>1 DEF NoCall, CallRecords
  <2>3. ASSUME NEW i \in Invoices
        PROVE  /\ [NoCall EXCEPT !.kind = "create"] \in CallRecords
               /\ [NoCall EXCEPT !.kind = "cancel", !.inv = i] \in CallRecords
    BY <2>2 DEF CallRecords
  <2>4. [NoCall EXCEPT !.kind = "create"] \in CallRecords
    BY <2>2 DEF CallRecords
  <2>5. ASSUME NEW i \in Invoices, NEW n \in 0..MaxOpens
        PROVE  [kind |-> "display", inv |-> i, answer |-> "none", n |-> n] \in CallRecords
    BY DEF CallRecords
  <2>6. QED
    BY <2>2, <2>3, <2>4, <2>5
<1>4. ASSUME NEW i \in Invoices \cup {NoInv}, NEW a \in States \cup {"none"}
      PROVE  [call EXCEPT ![k].inv = i, ![k].answer = a] \in [Calls -> CallRecords]
  BY <1>1 DEF CallRecords
<1>5. QED
  BY <1>2, <1>3, <1>4

\* The page's data and items keep their types when an answer or a notice is shown.
LEMMA SetDataType ==
    ASSUME TypeOK, NEW i \in Invoices, NEW a \in States, SetData(i, a)
    PROVE  /\ data' \in [id : Invoices, state : States] \cup {NoData}
           /\ items' \in [Invoices -> 0..2]
           /\ data' = [id |-> i, state |-> a]
BY DEF TypeOK, SetData

\* One step preserves the types; cases as in Next.
LEMMA StepType == TypeOK /\ Answered /\ [Next]_vars => TypeOK'
<1> SUFFICES ASSUME TypeOK, Answered, [Next]_vars PROVE TypeOK'
  OBVIOUS
<1> USE PageAssumption
<1>1. CASE AddInvoice \/ ClearForm \/ FillIn \/ ViewAll
  BY <1>1 DEF TypeOK, AddInvoice, ClearForm, FillIn, ViewAll, Reset, server, network, history
<1>2. ASSUME NEW k \in Calls, Submit(k) PROVE TypeOK'
  <2>1. call' \in [Calls -> CallRecords]
    BY <1>2, PutCall DEF Submit
  <2>2. form' \subseteq {"enabled", "filled"}
    BY <1>2 DEF TypeOK, Submit
  <2>3. QED
    BY <1>2, <2>1, <2>2 DEF TypeOK, CallRecords, Submit, server, history
<1>3. ASSUME NEW k \in Calls, CancelInvoice(k) PROVE TypeOK'
  <2>1. data.id \in Invoices
    BY <1>3 DEF TypeOK, CancelInvoice, NoData
  <2>2. call' \in [Calls -> CallRecords]
    BY <1>3, <2>1, PutCall DEF CancelInvoice
  <2>3. QED
    BY <1>3, <2>2 DEF TypeOK, CallRecords, CancelInvoice, server, page, history
<1>4. ASSUME NEW k \in Calls, NEW i \in Invoices, Populate(k, i),
             UNCHANGED <<server, socket, inbox, form, data, newest, missed>>
      PROVE  TypeOK'
  <2>1. opens' \in 0..MaxOpens
    BY <1>4 DEF TypeOK, Populate
  <2>2. call' \in [Calls -> CallRecords]
    BY <1>4, <2>1, PutCall DEF Populate
  <2>3. QED
    BY <1>4, <2>1, <2>2 DEF TypeOK, CallRecords, Populate, server
<1>5. ASSUME NEW k \in Calls, NEW i \in Invoices, OpenInvoice(k, i) PROVE TypeOK'
  BY <1>4, <1>5 DEF OpenInvoice
<1>6. ASSUME NEW k \in Calls, Created(k) PROVE TypeOK'
  BY <1>4, <1>6 DEF Created, Answered
<1>7. ASSUME NEW k \in Calls, NEW i \in Invoices, ServeCreate(k, i) PROVE TypeOK'
  <2>1. call' \in [Calls -> CallRecords]
    BY <1>7, PutCall DEF ServeCreate, Answer, States
  <2>2. QED
    BY <1>7, <2>1 DEF TypeOK, CallRecords, ServeCreate, States, page, history
<1>8. ASSUME NEW k \in Calls, ServeDisplay(k) PROVE TypeOK'
  <2>1. call[k].inv \in Invoices
    BY <1>8 DEF ServeDisplay, Answered
  <2>2. inv[call[k].inv] \in States \cup {"none"}
    BY <2>1 DEF TypeOK
  <2>3. call' \in [Calls -> CallRecords]
    BY <1>8, <2>1, <2>2, PutCall DEF ServeDisplay, Answer
  <2>4. QED
    BY <1>8, <2>3 DEF TypeOK, CallRecords, ServeDisplay, server, page, history
<1>9. ASSUME NEW k \in Calls, ServeCancel(k) PROVE TypeOK'
  <2>1. call[k].inv \in Invoices
    BY <1>9 DEF ServeCancel, Answered
  <2>2. call' \in [Calls -> CallRecords]
    BY <1>9, <2>1, PutCall DEF ServeCancel, Answer, States
  <2>3. inv' \in [Invoices -> States \cup {"none"}]
    BY <1>9, <2>1 DEF TypeOK, ServeCancel, States
  <2>4. QED
    BY <1>9, <2>2, <2>3 DEF TypeOK, CallRecords, ServeCancel, page, history
<1>10. ASSUME NEW k \in Calls, Displayed(k) PROVE TypeOK'
  <2>1. call[k].inv \in Invoices /\ call[k].answer \in States /\ call[k].n \in 0..MaxOpens
    BY <1>10 DEF TypeOK, Displayed, Answered
  <2>2. call' \in [Calls -> CallRecords]
    BY <1>10, PutCall DEF Displayed
  <2>3. /\ data' \in [id : Invoices, state : States] \cup {NoData}
        /\ items' \in [Invoices -> 0..2]
    BY <1>10, <2>1, SetDataType DEF Displayed
  <2>4. newest' \in 0..MaxOpens
    BY <1>10, <2>1 DEF TypeOK, Displayed
  <2>5. QED
    BY <1>10, <2>2, <2>3, <2>4 DEF TypeOK, CallRecords, Displayed, server
<1>11. ASSUME NEW k \in Calls, Cancelled(k) \/ CallFails(k) PROVE TypeOK'
  <2>1. call' \in [Calls -> CallRecords]
    BY <1>11, PutCall DEF Cancelled, CallFails
  <2>2. QED
    BY <1>11, <2>1 DEF TypeOK, CallRecords, Cancelled, CallFails, server, page, history
<1>12. ASSUME NEW i \in Invoices, NEW s \in Spellings, Pay(i, s) PROVE TypeOK'
  <2>1. notices' \subseteq Messages
    BY <1>12 DEF TypeOK, Pay, Messages
  <2>2. QED
    BY <1>12, <2>1 DEF TypeOK, Pay, network, page, history, States
<1>13. ASSUME NEW m \in inbox, InvoicePaid(m) PROVE TypeOK'
  <2>1. m.inv \in Invoices
    BY DEF TypeOK, Messages
  <2>2. /\ data' \in [id : Invoices, state : States] \cup {NoData}
        /\ items' \in [Invoices -> 0..2]
    BY <1>13, <2>1, SetDataType DEF InvoicePaid, TypeOK, States
  <2>3. QED
    BY <1>13, <2>1, <2>2 DEF TypeOK, InvoicePaid, server
<1>14. ASSUME NEW m \in notices, Notify(m) \/ NotifyEnds(m) PROVE TypeOK'
  <2>1. m \in Messages /\ m.inv \in Invoices
    BY DEF TypeOK, Messages
  <2>2. CASE Notify(m)
    BY <2>1, <2>2 DEF TypeOK, Notify, page, history
  <2>3. CASE NotifyEnds(m)
    BY <2>1, <2>3 DEF TypeOK, NotifyEnds, network, page
  <2>4. QED
    BY <1>14, <2>2, <2>3
<1>15. CASE SocketCloses
  <2>1. missed' \subseteq Invoices
    BY <1>15 DEF TypeOK, SocketCloses, Messages
  <2>2. QED
    BY <1>15, <2>1 DEF TypeOK, SocketCloses, server, page
<1>16. CASE Reconnect
  BY <1>16 DEF TypeOK, Reconnect, server, page, history
<1>17. CASE UNCHANGED vars
  BY <1>17 DEF TypeOK, vars, server, network, page, history
<1>18. QED
  BY <1>1, <1>2, <1>3, <1>5, <1>6, <1>7, <1>8, <1>9, <1>10, <1>11, <1>12, <1>13, <1>14, <1>15, <1>16,
     <1>17
     DEF Next, User, Hear, Trouble, Progress

-----------------------------------------------------------------------------
(* What the handlers do to the fetches.                                    *)

\* One fetch is put in place of another.
LEMMA Put ==
    ASSUME TypeOK, NEW k \in Calls, NEW c, call' = [call EXCEPT ![k] = c]
    PROVE  /\ call'[k] = c /\ \A l \in Calls : l # k => call'[l] = call[l]
           /\ c.kind = "display" => Displaying' = Displaying \cup {k}
           /\ c.kind # "display" => Displaying' = Displaying \ {k}
BY DEF TypeOK, Displaying

\* The server answers one.
LEMMA PutAnswer ==
    ASSUME TypeOK, NEW k \in Calls, NEW i, NEW a, Answer(k, i, a)
    PROVE  /\ Displaying' = Displaying
           /\ call'[k].inv = i /\ call'[k].answer = a /\ call'[k].kind = call[k].kind
           /\ call'[k].n = call[k].n
           /\ \A l \in Calls : l # k => call'[l] = call[l]
BY DEF TypeOK, Displaying, Answer

\* No display request starts, ends or is answered.
Calm == /\ Displaying' = Displaying /\ \A l \in Displaying : call'[l] = call[l]
        /\ UNCHANGED <<opens, newest, asked>>
        /\ view' = "payment" => view = "payment"
        /\ disorder \subseteq disorder'
        /\ data'.id = data.id /\ (disorder' = {} => items' = items)

\* A display request is answered by the server.
Served(k) == /\ Displaying' = Displaying /\ k \in Displaying
             /\ \A l \in Calls : l # k => call'[l] = call[l]
             /\ call'[k].inv = call[k].inv /\ call'[k].n = call[k].n
             /\ call'[k].answer = inv[call[k].inv]
             /\ UNCHANGED <<server, socket, inbox, page, history>>

\* A display request fails.
Lost(k) == /\ k \in Displaying /\ Displaying' = Displaying \ {k}
           /\ \A l \in Calls : l # k => call'[l] = call[l]
           /\ disorder' = disorder \cup {"failure"}
           /\ UNCHANGED <<server, socket, inbox, page, asked, opens, newest, missed>>

\* A payment page is opened.
Opened(k, i) == /\ k \notin Displaying /\ i \in Invoices
                /\ Displaying' = Displaying \cup {k}
                /\ \A l \in Calls : l # k => call'[l] = call[l]
                /\ call'[k] = [kind |-> "display", inv |-> i, answer |-> "none", n |-> opens + 1]
                /\ opens' = opens + 1 /\ view' = "payment" /\ asked' = i
                /\ items' = [j \in Invoices |-> 0]
                /\ disorder' = IF Displaying # {} THEN {"overlap"} ELSE {}
                /\ UNCHANGED <<server, socket, inbox, form, data, newest, missed>>

\* The handlers of the page and the server's that change no display request.
LEMMA CalmSteps ==
    ASSUME TypeOK
    PROVE  /\ AddInvoice \/ ClearForm \/ FillIn \/ ViewAll => Calm
           /\ \A k \in Calls : Submit(k) \/ CancelInvoice(k) => Calm
           /\ \A k \in Calls, i \in Invoices : ServeCreate(k, i) => Calm
           /\ \A k \in Calls : ServeCancel(k) \/ Cancelled(k) => Calm
           /\ \A k \in Calls : CallFails(k) => Calm \/ Lost(k)
           /\ \A i \in Invoices, s \in Spellings : Pay(i, s) => Calm
           /\ \A m \in notices : Notify(m) \/ NotifyEnds(m) => Calm
           /\ \A m \in inbox : InvoicePaid(m) => Calm
           /\ SocketCloses \/ Reconnect \/ UNCHANGED vars => Calm
<1>1. ASSUME UNCHANGED call
      PROVE  Displaying' = Displaying /\ \A l \in Displaying : call'[l] = call[l]
  BY <1>1 DEF Displaying
<1>2. ASSUME AddInvoice \/ ClearForm \/ FillIn \/ ViewAll PROVE Calm
  BY <1>1, <1>2 DEF AddInvoice, ClearForm, FillIn, ViewAll, Reset, Calm, network, history
<1>3. ASSUME NEW k \in Calls, Submit(k) \/ CancelInvoice(k) PROVE Calm
  <2>1. k \notin Displaying
    BY <1>3 DEF Submit, CancelInvoice, NoCall, Displaying
  <2>2. CASE Submit(k)
    BY <2>1, <2>2, Put DEF Submit, NoCall, Displaying, Calm, history
  <2>3. CASE CancelInvoice(k)
    <3>1. [NoCall EXCEPT !.kind = "cancel", !.inv = data.id].kind = "cancel"
      BY DEF NoCall
    <3>2. Displaying' = Displaying \ {k} /\ \A l \in Calls : l # k => call'[l] = call[l]
      BY <2>3, <3>1, Put DEF CancelInvoice
    <3>3. QED
      BY <2>1, <2>3, <3>2 DEF CancelInvoice, Displaying, Calm, page, history
  <2>4. QED
    BY <1>3, <2>2, <2>3
<1>4. ASSUME NEW k \in Calls, NEW i \in Invoices, ServeCreate(k, i) PROVE Calm
  <2>1. Answer(k, i, "UNPAID") /\ k \notin Displaying
    BY <1>4 DEF ServeCreate, Displaying
  <2>2. Displaying' = Displaying /\ \A l \in Displaying : call'[l] = call[l]
    BY <2>1, PutAnswer DEF Displaying
  <2>3. QED
    BY <1>4, <2>2 DEF ServeCreate, Calm, page, history
<1>5. ASSUME NEW k \in Calls, ServeCancel(k) PROVE Calm
  <2>1. Answer(k, call[k].inv, "CLOSED") /\ k \notin Displaying
    BY <1>5 DEF ServeCancel, Displaying
  <2>2. Displaying' = Displaying /\ \A l \in Displaying : call'[l] = call[l]
    BY <2>1, PutAnswer DEF Displaying
  <2>3. QED
    BY <1>5, <2>2 DEF ServeCancel, Calm, page, history
<1>6. ASSUME NEW k \in Calls, Cancelled(k) PROVE Calm
  <2>1. k \notin Displaying
    BY <1>6 DEF Cancelled, Displaying
  <2>2. Displaying' = Displaying /\ \A l \in Displaying : call'[l] = call[l]
    BY <1>6, <2>1, Put DEF Displaying, Cancelled, NoCall
  <2>3. QED
    BY <1>6, <2>2 DEF Cancelled, Calm, history
<1>7. ASSUME NEW k \in Calls, CallFails(k) PROVE Calm \/ Lost(k)
  <2>1. /\ \A l \in Calls : l # k => call'[l] = call[l]
        /\ Displaying' = Displaying \ {k}
    BY <1>7, Put DEF CallFails, NoCall
  <2>2. CASE k \in Displaying
    BY <1>7, <2>1, <2>2 DEF CallFails, Lost, Displaying
  <2>3. CASE k \notin Displaying
    BY <1>7, <2>1, <2>3 DEF CallFails, Calm, Displaying, page
  <2>4. QED
    BY <2>2, <2>3
<1>8. ASSUME NEW i \in Invoices, NEW s \in Spellings, Pay(i, s) PROVE Calm
  BY <1>1, <1>8 DEF Pay, Calm, network, page, history
<1>9. ASSUME NEW m \in notices, Notify(m) \/ NotifyEnds(m) PROVE Calm
  <2>1. CASE Notify(m)
    BY <1>1, <2>1 DEF Notify, Calm, page, history
  <2>2. CASE NotifyEnds(m)
    BY <1>1, <2>2 DEF NotifyEnds, Calm, network, page
  <2>3. QED
    BY <1>9, <2>1, <2>2
<1>10. ASSUME NEW m \in inbox, InvoicePaid(m) PROVE Calm
  BY <1>1, <1>10 DEF InvoicePaid, SetData, Calm
<1>11. ASSUME SocketCloses \/ Reconnect \/ UNCHANGED vars PROVE Calm
  BY <1>1, <1>11 DEF SocketCloses, Reconnect, Calm, vars, network, page, history
<1>12. QED
  BY <1>2, <1>3, <1>4, <1>5, <1>6, <1>7, <1>8, <1>9, <1>10, <1>11

\* Opening a page and answering a display request.
LEMMA DisplaySteps ==
    ASSUME TypeOK, Answered, NEW k \in Calls
    PROVE  /\ \A i \in Invoices : OpenInvoice(k, i) => Opened(k, i)
           /\ Created(k) => call[k].inv \in Invoices /\ Opened(k, call[k].inv)
           /\ ServeDisplay(k) => Served(k)
<1>1. ASSUME NEW i \in Invoices, Populate(k, i), k \notin Displaying,
             UNCHANGED <<server, socket, inbox, form, data, newest, missed>>
      PROVE  Opened(k, i)
  <2>1. call' = [call EXCEPT ![k] = [kind |-> "display", inv |-> i, answer |-> "none",
                                     n |-> opens + 1]]
    BY <1>1 DEF Populate
  <2>2. [kind |-> "display", inv |-> i, answer |-> "none", n |-> opens + 1].kind = "display"
    OBVIOUS
  <2>3. /\ Displaying' = Displaying \cup {k}
        /\ \A l \in Calls : l # k => call'[l] = call[l]
        /\ call'[k] = [kind |-> "display", inv |-> i, answer |-> "none", n |-> opens + 1]
    BY <2>1, <2>2, Put
  <2>4. QED
    BY <1>1, <2>3 DEF Populate, Opened
<1>2. ASSUME NEW i \in Invoices, OpenInvoice(k, i) PROVE Opened(k, i)
  BY <1>1, <1>2 DEF OpenInvoice, Displaying, NoCall
<1>3. ASSUME Created(k) PROVE call[k].inv \in Invoices /\ Opened(k, call[k].inv)
  <2>1. call[k].inv \in Invoices /\ k \notin Displaying
    BY <1>3 DEF Created, Displaying, Answered
  <2>2. QED
    BY <1>1, <1>3, <2>1 DEF Created
<1>4. ASSUME ServeDisplay(k) PROVE Served(k)
  <2>1. Answer(k, call[k].inv, inv[call[k].inv]) /\ k \in Displaying
    BY <1>4 DEF ServeDisplay, Displaying
  <2>2. QED
    BY <1>4, <2>1, PutAnswer DEF ServeDisplay, Served
<1>5. QED
  BY <1>2, <1>3, <1>4

\* So every step is calm, or starts, answers, shows or loses one display request.
LEMMA StepCases ==
    ASSUME TypeOK, Answered, [Next]_vars
    PROVE  \/ Calm
           \/ \E k \in Calls :
                Served(k) \/ Lost(k) \/ Displayed(k) \/ \E i \in Invoices : Opened(k, i)
BY CalmSteps, DisplaySteps DEF Next, User, Hear, Trouble, Progress

\* An answer to a display request is shown.
LEMMA Shows ==
    ASSUME TypeOK, Answered, NEW k \in Calls, Displayed(k)
    PROVE  /\ k \in Displaying /\ Displaying' = Displaying \ {k}
           /\ \A l \in Calls : l # k => call'[l] = call[l]
           /\ call[k].inv \in Invoices /\ data'.id = call[k].inv
           /\ call[k].answer \in States /\ call[k].n \in Nat
BY Put DEF TypeOK, Answered, Displayed, SetData, NoCall, Displaying
-----------------------------------------------------------------------------
LEMMA StepAnswered ==
    ASSUME TypeOK, Answered, [Next]_vars
    PROVE  Answered'
<1> SUFFICES ASSUME NEW l \in Calls
             PROVE  /\ call'[l].answer # "none" => call'[l].inv \in Invoices
                    /\ call'[l].kind \in {"display", "cancel"} => call'[l].inv \in Invoices
  BY DEF Answered
<1>1. ASSUME NEW k \in Calls, NEW c, call' = [call EXCEPT ![k] = c],
             c.answer # "none" \/ c.kind \in {"display", "cancel"} => c.inv \in Invoices
      PROVE  /\ call'[l].answer # "none" => call'[l].inv \in Invoices
             /\ call'[l].kind \in {"display", "cancel"} => call'[l].inv \in Invoices
  BY <1>1, Put DEF Answered
<1>2. ASSUME NEW k \in Calls, NEW i \in Invoices, NEW a, Answer(k, i, a)
      PROVE  /\ call'[l].answer # "none" => call'[l].inv \in Invoices
             /\ call'[l].kind \in {"display", "cancel"} => call'[l].inv \in Invoices
  BY <1>2, PutAnswer DEF Answered
<1>3. CASE UNCHANGED call
  BY <1>3 DEF Answered
<1>4. ASSUME NEW k \in Calls, Submit(k) PROVE
             /\ call'[l].answer # "none" => call'[l].inv \in Invoices
             /\ call'[l].kind \in {"display", "cancel"} => call'[l].inv \in Invoices
  BY <1>1, <1>4 DEF Submit, NoCall
<1>5. ASSUME NEW k \in Calls, CancelInvoice(k) PROVE
             /\ call'[l].answer # "none" => call'[l].inv \in Invoices
             /\ call'[l].kind \in {"display", "cancel"} => call'[l].inv \in Invoices
  <2>1. data.id \in Invoices
    BY <1>5 DEF TypeOK, CancelInvoice, NoData
  <2>2. [NoCall EXCEPT !.kind = "cancel", !.inv = data.id].inv = data.id
    BY DEF NoCall
  <2>3. QED
    BY <1>1, <1>5, <2>1, <2>2 DEF CancelInvoice
<1>6. ASSUME NEW k \in Calls, NEW i \in Invoices, Populate(k, i) PROVE
             /\ call'[l].answer # "none" => call'[l].inv \in Invoices
             /\ call'[l].kind \in {"display", "cancel"} => call'[l].inv \in Invoices
  BY <1>1, <1>6 DEF Populate
<1>7. ASSUME NEW k \in Calls, Displayed(k) \/ Cancelled(k) \/ CallFails(k) PROVE
             /\ call'[l].answer # "none" => call'[l].inv \in Invoices
             /\ call'[l].kind \in {"display", "cancel"} => call'[l].inv \in Invoices
  BY <1>1, <1>7 DEF Displayed, Cancelled, CallFails, NoCall
<1>8. ASSUME NEW k \in Calls, ServeDisplay(k) \/ ServeCancel(k) PROVE
             /\ call'[l].answer # "none" => call'[l].inv \in Invoices
             /\ call'[l].kind \in {"display", "cancel"} => call'[l].inv \in Invoices
  BY <1>2, <1>8 DEF ServeDisplay, ServeCancel, Answered
<1>9. ASSUME NEW k \in Calls, Created(k) PROVE Populate(k, call[k].inv) /\ call[k].inv \in Invoices
  BY <1>9 DEF Created, Answered
<1>10. QED
  BY <1>2, <1>3, <1>4, <1>5, <1>6, <1>7, <1>8, <1>9
     DEF Next, User, Hear, Trouble, Progress, AddInvoice, ClearForm, FillIn, ViewAll, OpenInvoice,
         ServeCreate, Pay, Notify, NotifyEnds, InvoicePaid, SocketCloses, Reconnect, vars,
         network

LEMMA StepNumbered ==
    ASSUME TypeOK, Answered, Numbered, [Next]_vars
    PROVE  Numbered'
<1>1. ASSUME Displaying' \subseteq Displaying, UNCHANGED <<opens, newest>>,
             \A l \in Displaying' : call'[l].n = call[l].n
      PROVE  Numbered'
  BY <1>1 DEF Numbered
<1>2. CASE Calm
  BY <1>1, <1>2 DEF Calm
<1>3. ASSUME NEW k \in Calls, Served(k) \/ Lost(k) PROVE Numbered'
  BY <1>1, <1>3 DEF Served, Lost, history, Displaying
<1>4. ASSUME NEW k \in Calls, NEW i \in Invoices, Opened(k, i) PROVE Numbered'
  <2>1. /\ call'[k].n = opens + 1 /\ opens' = opens + 1 /\ newest' = newest
        /\ \A l \in Displaying : l # k /\ call'[l].n = call[l].n
    BY <1>4 DEF Opened, Displaying
  <2>2. opens \in Nat /\ newest \in Nat /\ \A l \in Displaying : call[l].n \in Nat
    BY DEF TypeOK, Displaying
  <2>3. Displaying' = Displaying \cup {k}
    BY <1>4 DEF Opened
  <2>4. QED
    BY <2>1, <2>2, <2>3 DEF Numbered
<1>5. ASSUME NEW k \in Calls, Displayed(k) PROVE Numbered'
  <2>1. /\ k \in Displaying /\ Displaying' = Displaying \ {k}
        /\ \A l \in Displaying' : call'[l].n = call[l].n
    BY <1>5, Shows DEF Displaying
  <2>2. newest' <= opens /\ opens' = opens
    BY <1>5, <2>1 DEF Displayed, Numbered
  <2>3. newest' \in {newest, call[k].n}
    BY <1>5 DEF Displayed
  <2>4. \A l \in Displaying' : call[l].n # call[k].n /\ call[l].n # newest /\ call[l].n <= opens
    BY <2>1 DEF Numbered
  <2>5. QED
    BY <2>1, <2>2, <2>3, <2>4 DEF Numbered
<1>6. QED
  BY <1>2, <1>3, <1>4, <1>5, StepCases

LEMMA StepLastAsked ==
    ASSUME TypeOK, Answered, Numbered, LastAsked, [Next]_vars
    PROVE  LastAsked'
<1>1. CASE Calm
  BY <1>1 DEF Calm, LastAsked
<1>2. ASSUME NEW k \in Calls, Served(k) PROVE LastAsked'
  <2>1. \A l \in Displaying : call'[l].n = call[l].n /\ call'[l].inv = call[l].inv
    BY <1>2 DEF Served, Displaying
  <2>2. QED
    BY <1>2, <2>1 DEF Served, LastAsked, page, history
<1>3. ASSUME NEW k \in Calls, Lost(k) PROVE LastAsked'
  <2>1. disorder' \cap {"crossed", "failure"} # {}
    BY <1>3 DEF Lost
  <2>2. QED
    BY <1>3, <2>1 DEF Lost, LastAsked, page
<1>4. ASSUME NEW k \in Calls, NEW i \in Invoices, Opened(k, i) PROVE LastAsked'
  <2>1. k \in Displaying' /\ call'[k].n = opens' /\ call'[k].inv = asked'
    BY <1>4 DEF Opened
  <2>2. opens' > 0
    BY <1>4 DEF Opened, TypeOK
  <2>3. QED
    BY <2>1, <2>2 DEF LastAsked
<1>5. ASSUME NEW k \in Calls, Displayed(k) PROVE LastAsked'
  <2>1. UNCHANGED <<opens, view, asked>> /\ opens \in Nat /\ newest \in Nat
    BY <1>5 DEF Displayed, TypeOK
  <2>2. ASSUME opens > 0
        PROVE  \/ \E l \in Displaying' : call'[l].n = opens /\ call'[l].inv = asked
               \/ disorder' \cap {"crossed", "failure"} # {}
               \/ newest' = opens /\ data'.id = asked
    <3>1. CASE disorder \cap {"crossed", "failure"} # {}
      BY <1>5, <3>1 DEF Displayed
    <3>2. ASSUME NEW l \in Displaying, call[l].n = opens, call[l].inv = asked, l # k
          PROVE  l \in Displaying' /\ call'[l].n = opens /\ call'[l].inv = asked
      BY <1>5, <3>2, Shows DEF Displaying
    <3>3. CASE call[k].n = opens /\ call[k].inv = asked
      <4>1. newest' = opens
        BY <1>5, <2>1, <3>3 DEF Displayed, Numbered
      <4>2. QED
        BY <1>5, <3>3, <4>1, Shows
    <3>4. CASE newest = opens /\ data.id = asked
      <4>1. call[k].n <= opens /\ call[k].n \in Nat
        BY <1>5, Shows DEF Numbered
      <4>2. CASE call[k].n < newest
        BY <1>5, <4>2 DEF Displayed
      <4>3. call[k].n # newest
        BY <1>5, Shows DEF Numbered
      <4>4. QED
        BY <2>1, <3>4, <4>1, <4>2, <4>3
    <3>5. QED
      BY <2>2, <3>1, <3>2, <3>3, <3>4 DEF LastAsked
  <2>3. QED
    BY <2>1, <2>2 DEF LastAsked
<1>6. QED
  BY <1>1, <1>2, <1>3, <1>4, <1>5, StepCases

LEMMA StepItemsFit ==
    ASSUME TypeOK, Answered, ItemsFit, [Next]_vars
    PROVE  ItemsFit'
<1>1. CASE Calm
  BY <1>1 DEF Calm, ItemsFit
<1>2. ASSUME NEW k \in Calls, Served(k) PROVE ItemsFit'
  BY <1>2 DEF Served, ItemsFit, page, history
<1>3. ASSUME NEW k \in Calls, Lost(k) PROVE ItemsFit'
  BY <1>3 DEF Lost, ItemsFit
<1>4. ASSUME NEW k \in Calls, NEW i \in Invoices, Opened(k, i) PROVE ItemsFit'
  BY <1>4 DEF Opened, ItemsFit
<1>5. ASSUME NEW k \in Calls, Displayed(k) PROVE ItemsFit'
  <2>1. SUFFICES ASSUME opens > 0, disorder' = {}
                 PROVE  /\ Displaying' = {}
                        /\ items' = [i \in Invoices |-> IF i = data'.id THEN 1 ELSE 0]
    BY <1>5 DEF Displayed, ItemsFit
  <2>2. disorder = {} /\ k \in Displaying
    BY <1>5, <2>1, Shows DEF Displayed
  <2>3. Displaying = {k} /\ items = [i \in Invoices |-> 0]
    BY <2>1, <2>2 DEF ItemsFit
  <2>4. Displaying' = {} /\ data'.id = call[k].inv /\ call[k].inv \in Invoices
    BY <1>5, <2>3, Shows
  <2>5. items' = [items EXCEPT ![call[k].inv] = IF @ < 2 THEN @ + 1 ELSE @]
    BY <1>5 DEF Displayed, SetData
  <2>6. QED
    BY <2>3, <2>4, <2>5
<1>6. QED
  BY <1>1, <1>2, <1>3, <1>4, <1>5, StepCases

\* The calm steps that leave the server's and the page's knowledge alone.
LEMMA Unlearned ==
    ASSUME PaidKnown, UNCHANGED <<notices, inbox, data, missed>>,
           \A i \in Invoices : inv'[i] = "PAID" => inv[i] = "PAID" /\ (Outdated(i)' => Outdated(i))
    PROVE  PaidKnown'
BY DEF PaidKnown

LEMMA StepPaidKnown ==
    ASSUME TypeOK, Answered, PaidKnown, [Next]_vars
    PROVE  PaidKnown'
<1>1. ASSUME Calm PROVE \A i \in Invoices : Outdated(i)' <=> Outdated(i)
  BY <1>1 DEF Calm, Outdated
<1>2. CASE AddInvoice \/ ClearForm \/ FillIn \/ ViewAll \/ UNCHANGED vars
  <2>1. UNCHANGED <<inv, notices, inbox, data, missed>>
    BY <1>2 DEF AddInvoice, ClearForm, FillIn, ViewAll, vars, server, network, page, history
  <2>2. \A i \in Invoices : Outdated(i)' <=> Outdated(i)
    BY <1>1, <1>2, CalmSteps
  <2>3. QED
    BY <2>1, <2>2, Unlearned
<1>3. ASSUME NEW k \in Calls, Submit(k) \/ CancelInvoice(k) \/ Cancelled(k) PROVE PaidKnown'
  <2>1. Calm
    BY <1>3, CalmSteps
  <2>2. QED
    BY <1>1, <1>3, <2>1, Unlearned DEF Submit, CancelInvoice, Cancelled, server, page, history
<1>4. ASSUME NEW k \in Calls, NEW i \in Invoices, ServeCreate(k, i) PROVE PaidKnown'
  <2>1. Calm
    BY <1>4, CalmSteps
  <2>2. \A j \in Invoices : inv'[j] = "PAID" => inv[j] = "PAID"
    BY <1>4 DEF ServeCreate, TypeOK
  <2>3. QED
    BY <1>1, <1>4, <2>1, <2>2, Unlearned DEF ServeCreate, page, history
<1>5. ASSUME NEW k \in Calls, ServeCancel(k) PROVE PaidKnown'
  <2>1. Calm
    BY <1>5, CalmSteps
  <2>2. \A j \in Invoices : inv'[j] = "PAID" => inv[j] = "PAID"
    BY <1>5 DEF ServeCancel, TypeOK
  <2>3. QED
    BY <1>1, <1>5, <2>1, <2>2, Unlearned DEF ServeCancel, page, history
<1>6. ASSUME NEW k \in Calls, Lost(k) PROVE PaidKnown'
  <2>1. \A i \in Invoices : Outdated(i)' => Outdated(i)
    BY <1>6 DEF Lost, Outdated, Displaying
  <2>2. QED
    BY <1>6, <2>1, Unlearned DEF Lost, server, page
<1>7. ASSUME NEW k \in Calls, CallFails(k) PROVE PaidKnown'
  <2>1. CASE Calm
    BY <1>1, <1>7, <2>1, Unlearned DEF CallFails, server, page
  <2>2. QED
    BY <1>6, <1>7, <2>1, CalmSteps
<1>8. ASSUME NEW k \in Calls, NEW i \in Invoices, Opened(k, i) PROVE PaidKnown'
  <2>1. \A j \in Invoices : Outdated(j)' => Outdated(j)
    BY <1>8 DEF Opened, Outdated, Displaying
  <2>2. QED
    BY <1>8, <2>1, Unlearned DEF Opened, server
<1>9. ASSUME NEW k \in Calls, ServeDisplay(k) PROVE PaidKnown'
  <2>1. Served(k)
    BY <1>9, DisplaySteps
  <2>2. \A j \in Invoices : inv[j] = "PAID" /\ Outdated(j)' => Outdated(j)
    BY <2>1 DEF Served, Outdated, Displaying
  <2>3. QED
    BY <2>1, <2>2, Unlearned DEF Served, server, page, history
<1>10. ASSUME NEW k \in Calls, Displayed(k) PROVE PaidKnown'
  <2> SUFFICES ASSUME NEW i \in Invoices, inv'[i] = "PAID", i \notin missed'
               PROVE  \/ \E m \in (notices \cup inbox)' : m.inv = i
                      \/ ~Outdated(i)' /\ (data'.id = i => data'.state = "PAID")
    BY DEF PaidKnown
  <2>1. inv[i] = "PAID" /\ inbox' = inbox /\ notices' = notices
    BY <1>10 DEF Displayed, server
  <2>2. Outdated(i)' => Outdated(i)
    BY <1>10, Shows DEF Outdated, Displaying
  <2>3. CASE i # call[k].inv
    <3>1. i \notin missed
      BY <1>10, <2>3 DEF Displayed
    <3>2. data'.id # i
      BY <1>10, <2>3, Shows
    <3>3. QED
      BY <2>1, <2>2, <3>1, <3>2 DEF PaidKnown
  <2>4. CASE i = call[k].inv /\ call[k].answer = "PAID" /\ ~Outdated(i)
    <3>1. data'.state = "PAID"
      BY <1>10, <2>4 DEF Displayed, SetData
    <3>2. QED
      BY <2>2, <2>4, <3>1
  <2>5. CASE i = call[k].inv /\ Outdated(i)
    <3>1. i \notin missed
      BY <1>10, <2>5 DEF Displayed
    <3>2. QED
      BY <2>1, <2>5, <3>1 DEF PaidKnown
  <2>6. i = call[k].inv /\ call[k].answer # "PAID" => Outdated(i)
    BY <1>10, Shows DEF Outdated, States
  <2>7. QED
    BY <2>3, <2>4, <2>5, <2>6
<1>11. ASSUME NEW i \in Invoices, NEW s \in Spellings, Pay(i, s) PROVE PaidKnown'
  <2>1. Calm
    BY <1>11, CalmSteps
  <2>2. /\ notices' = notices \cup {[inv |-> i, id |-> s]}
        /\ UNCHANGED <<inbox, data, missed>>
        /\ \A j \in Invoices : j # i => inv'[j] = inv[j]
    BY <1>11 DEF Pay, network, page, history, TypeOK
  <2>3. [inv |-> i, id |-> s].inv = i
    OBVIOUS
  <2>4. QED
    BY <1>1, <2>1, <2>2, <2>3 DEF PaidKnown
<1>12. ASSUME NEW m \in notices, Notify(m) \/ NotifyEnds(m) PROVE PaidKnown'
  <2>1. \A j \in Invoices : Outdated(j)' <=> Outdated(j)
    BY <1>1, <1>12, CalmSteps
  <2>2. CASE Notify(m)
    <3>1. UNCHANGED <<inv, data, missed>> /\ (notices \cup inbox)' = notices \cup inbox
      BY <2>2 DEF Notify, page, history
    <3>2. QED
      BY <2>1, <3>1 DEF PaidKnown
  <2>3. CASE NotifyEnds(m)
    <3>1. /\ UNCHANGED <<inv, data, inbox>> /\ notices' = notices \ {m}
          /\ missed' = missed \cup {m.inv}
      BY <2>3 DEF NotifyEnds, network, page
    <3>2. QED
      BY <2>1, <3>1 DEF PaidKnown
  <2>4. QED
    BY <1>12, <2>2, <2>3
<1>13. ASSUME NEW m \in inbox, InvoicePaid(m) PROVE PaidKnown'
  <2>1. \A j \in Invoices : Outdated(j)' <=> Outdated(j)
    BY <1>1, <1>13, CalmSteps
  <2>2. /\ inv' = inv /\ notices' = notices /\ inbox' = inbox \ {m}
        /\ data'.id = data.id
        /\ missed \subseteq missed'
    BY <1>13 DEF InvoicePaid, SetData, server
  <2>3. ASSUME m.inv \notin missed'
        PROVE  ~Outdated(m.inv) /\ data'.state = "PAID"
    BY <1>13, <2>3 DEF InvoicePaid, SetData
  <2>4. data.id # m.inv => data' = data
    BY <1>13 DEF InvoicePaid
  <2> SUFFICES ASSUME NEW i \in Invoices, inv'[i] = "PAID", i \notin missed'
               PROVE  \/ \E q \in (notices \cup inbox)' : q.inv = i
                      \/ ~Outdated(i)' /\ (data'.id = i => data'.state = "PAID")
    BY DEF PaidKnown
  <2>5. CASE i = m.inv
    BY <2>1, <2>3, <2>5
  <2>6. CASE i # m.inv
    <3>1. \/ \E q \in notices \cup inbox : q.inv = i
          \/ ~Outdated(i) /\ (data.id = i => data.state = "PAID")
      BY <2>2 DEF PaidKnown
    <3>2. QED
      BY <2>1, <2>2, <2>4, <2>6, <3>1
  <2>7. QED
    BY <2>5, <2>6
<1>14. CASE SocketCloses
  <2>1. \A j \in Invoices : Outdated(j)' <=> Outdated(j)
    BY <1>1, <1>14, CalmSteps
  <2>2. /\ UNCHANGED <<inv, data, notices>> /\ inbox' = {}
        /\ missed' = missed \cup {m.inv : m \in inbox}
    BY <1>14 DEF SocketCloses, server, page
  <2>3. QED
    BY <2>1, <2>2 DEF PaidKnown
<1>15. CASE Reconnect
  BY <1>1, <1>15, CalmSteps, Unlearned DEF Reconnect, server, page, history
<1>16. ASSUME NEW k \in Calls, (\E i \in Invoices : OpenInvoice(k, i)) \/ Created(k)
       PROVE  \E i \in Invoices : Opened(k, i)
  BY <1>16, DisplaySteps
<1>17. QED
  BY <1>2, <1>3, <1>4, <1>5, <1>7, <1>8, <1>9, <1>10, <1>11, <1>12, <1>13, <1>14, <1>15, <1>16
     DEF Next, User, Hear, Trouble, Progress
-----------------------------------------------------------------------------
LEMMA Inductive == Spec => []PageInv
<1>1. PageInv /\ [Next]_vars => PageInv'
  BY StepType, StepAnswered, StepNumbered, StepLastAsked, StepItemsFit, StepPaidKnown
     DEF PageInv
<1>2. QED
  BY <1>1, InitPage, PTL DEF Spec

\* The state always has the declared form.
THEOREM TypeCorrect == Spec => []TypeOK
BY Inductive, PTL DEF PageInv

\* Whatever is opened, once no answer is outstanding the page has the invoice opened last,
\* unless answers crossed or were lost.
THEOREM Shown == Spec => []ShownIsAsked
<1>1. PageInv => ShownIsAsked
  BY DEF PageInv, LastAsked, ShownIsAsked, Settled
<1>2. QED
  BY <1>1, Inductive, PTL

\* Its items are on the page once unless requests overlapped, failed or a notice repainted them.
THEOREM ItemsOnce == Spec => []ItemsShownOnce
<1>1. PageInv => ItemsShownOnce
  BY DEF PageInv, LastAsked, ItemsFit, ItemsShownOnce, Settled
<1>2. QED
  BY <1>1, Inductive, PTL

\* A paid invoice is shown as paid once the server's loop is over and everything has arrived,
\* unless its notice was not sent to this page or could not help.
THEOREM PaidShown == Spec => []PaidIsShown
<1>1. PageInv => PaidIsShown
  BY DEF PageInv, TypeOK, NoData, PaidKnown, ToldOf, PaidIsShown
<1>2. QED
  BY <1>1, Inductive, PTL

=============================================================================
