--------------------------------- MODULE Shop ---------------------------------
(***************************************************************************)
(* The checkout page of an event: tickets and offers, the buyer's data     *)
(* with the recognition of a phone, review, coupon, the order, and the     *)
(* payment screen.  The page works on the prices it was loaded with, and   *)
(* on a masked preview of the customer; the server decides on both anew.   *)
(***************************************************************************)
EXTENDS Customers, Pricing

CONSTANTS
    Buyers,            \* browser tabs at the checkout
    FirstShelf,        \* what is on sale at first
    Prices, MaxUnits   \* prices staff may set; tickets per order

NoPrice == -1
Offers == {"ticket", "product"}       \* by target
Shelves == [batch : [price : Nat, open : BOOLEAN], product : [price : Nat, open : BOOLEAN],
            offer : [Offers -> [own : Nat \cup {NoPrice}, active : BOOLEAN]],
            inWindow : BOOLEAN, valid : BOOLEAN,
            coupon : [kind : {"PERCENT", "FIXED"}, value : Nat],
            fee : [bps : 0..Bps, mode : {"BUYER", "PRODUCER"}]]

ASSUME ShopAssumption ==
    /\ FirstShelf \in Shelves /\ Prices \subseteq Nat /\ MaxUnits \in Nat
    /\ IsFiniteSet(Orders) /\ "none" \notin Orders

VARIABLES
    shelf,             \* the batch, the product, the offers, the coupon and the fee
    buy,               \* each tab: what it shows and holds
    req,               \* the order it has asked for
    pay                \* the payment screen of a tab

shopVars == <<shelf, buy, req, pay>>

Nobody == Email(NoPerson)
NoLead == [who |-> Nobody, phone |-> NoPhone]
Fresh == [step |-> 0, seen |-> FirstShelf, qty |-> 0, picked |-> {}, phone |-> NoPhone,
          asks |-> {}, look |-> "idle", who |-> Nobody, other |-> FALSE, typed |-> Nobody,
          code |-> FALSE, preview |-> FALSE, applied |-> {}, lead |-> NoLead, leadSent |-> FALSE]
NoReq == [at |-> "none"]
NoScreen == [order |-> "none", status |-> "NONE", method |-> "pix", pix |-> "none", card |-> "idle"]

(***************************************************************************)
(* What is on sale                                                         *)
(***************************************************************************)
target(s, k) == IF k = "ticket" THEN s.batch ELSE s.product
offerPrice(s, k) == IF s.offer[k].own = NoPrice THEN target(s, k).price ELSE s.offer[k].own

(* An offer out of its batch's sales window is listed, and refused.        *)
listForCheckout(s) == {k \in Offers : s.offer[k].active /\ target(s, k).open}
resolveSelections(s, picked) ==
    picked \subseteq {k \in listForCheckout(s) : k = "ticket" => s.inWindow}

ticketCents(s, qty, picked) ==
    qty * s.batch.price + (IF "ticket" \in picked THEN offerPrice(s, "ticket") ELSE 0)
productCents(s, picked) == IF "product" \in picked THEN offerPrice(s, "product") ELSE 0

stock(s) ==
    /\ Spend("desk") /\ s # shelf /\ shelf' = s
    /\ UNCHANGED <<buy, req, pay, customerVars>>
updateSalesBatch(price) == stock([shelf EXCEPT !.batch.price = price])
updateProduct(price, open) == stock([shelf EXCEPT !.product = [price |-> price, open |-> open]])
updateOffer(k, own, active) == stock([shelf EXCEPT !.offer[k] = [own |-> own, active |-> active]])
couponEnds == stock([shelf EXCEPT !.valid = FALSE])
salesWindowEnds == stock([shelf EXCEPT !.inWindow = FALSE])

(***************************************************************************)
(* Tickets and offers                                                      *)
(***************************************************************************)
Became(b, t) ==
    /\ buy' = [buy EXCEPT ![b] = t]
    /\ UNCHANGED <<shelf, req, pay>>
Touched(b, t) == Became(b, t) /\ Spend("shop") /\ UNCHANGED customerVars
On(b, step) == buy[b].step = step /\ req[b] = NoReq


setQuantity(b, n) == On(b, 1) /\ n # buy[b].qty /\ Touched(b, [buy[b] EXCEPT !.qty = n])

(* Offers of tickets beside the quantities, those of products at review.   *)
toggleOffer(b, k) ==
    /\ k \in listForCheckout(buy[b].seen)
    /\ IF k = "ticket" THEN On(b, 1) /\ buy[b].qty > 0 ELSE On(b, 3)
    /\ Touched(b, [buy[b] EXCEPT !.picked = (@ \ {k}) \cup ({k} \ @)])

goToData(b) ==
    /\ On(b, 1) /\ buy[b].qty > 0
    /\ Became(b, [buy[b] EXCEPT !.step = 2]) /\ UNCHANGED <<customerVars, left>>
back(b) == (On(b, 2) \/ On(b, 3)) /\ Touched(b, [buy[b] EXCEPT !.step = @ - 1])

(***************************************************************************)
(* The buyer                                                               *)
(***************************************************************************)
(* Mutant: the answer to a look-up counts, though the phone was changed.   *)
stillAwaited(asks) == asks

(* The look-ups that are still awaited when the phone is changed: none.    *)
cancelled(asks) == {}

withPhone(t, phone) ==
    [t EXCEPT !.phone = phone,
              !.look = IF phone = NoPhone THEN "idle" ELSE "checking",
              !.asks = cancelled(@) \cup
                  IF phone = NoPhone THEN {} ELSE {[phone |-> phone, at |-> "sent", who |-> {}]}]

(* A phone remembered from an earlier purchase is looked up at once.       *)
buildPublicEventView(b, savedPhone) ==
    /\ buy[b].step = 0 /\ left.shop > 0
    /\ Became(b, withPhone([Fresh EXCEPT !.step = 1, !.seen = shelf], savedPhone))
    /\ UNCHANGED <<customerVars, left>>
typePhone(b, phone) ==
    /\ On(b, 2) /\ phone # buy[b].phone
    /\ Touched(b, withPhone(buy[b], phone))

lookupByPhone(b) ==
    \E a \in buy[b].asks :
        /\ a.at = "sent"
        /\ Became(b, [buy[b] EXCEPT !.asks = (@ \ {a}) \cup
                         {[a EXCEPT !.at = "answer", !.who = findByPhone(a.phone)]}])
        /\ quiet' = quiet \cup {b}
        /\ UNCHANGED <<cust, order, job, erased, given, left>>

(* An answer that finds someone also takes back "use other data", on       *)
(* whatever step the buyer is by then.                                     *)
lookupAnswered(b) ==
    \E a \in buy[b].asks :
        /\ a.at = "answer"
        /\ Became(b, IF a.who = {}
               THEN [buy[b] EXCEPT !.asks = @ \ {a}, !.look = "none"]
               ELSE [buy[b] EXCEPT !.asks = @ \ {a}, !.look = "found", !.other = FALSE,
                                   !.who = CHOOSE m \in a.who : TRUE])
        /\ UNCHANGED <<customerVars, left>>
lookupFails(b) ==
    \E a \in buy[b].asks :
        /\ Spend("faults")
        /\ Became(b, [buy[b] EXCEPT !.asks = @ \ {a}, !.look = "none"])
        /\ UNCHANGED customerVars

reuseActive(b) == buy[b].look = "found" /\ ~buy[b].other
showIdentityFields(b) == ~reuseActive(b) /\ (buy[b].look = "none" \/ buy[b].other)
dataStepValid(b) ==
    buy[b].phone # NoPhone /\ (reuseActive(b) \/ (showIdentityFields(b) /\ buy[b].typed # Nobody))
Comprador(b) == IF reuseActive(b) THEN buy[b].who ELSE buy[b].typed

setUseOther(b) ==
    On(b, 2) /\ reuseActive(b) /\ Touched(b, [buy[b] EXCEPT !.other = TRUE])
typeIdentity(b, p) ==
    /\ On(b, 2) /\ showIdentityFields(b) /\ buy[b].typed # Email(p)
    /\ Touched(b, [buy[b] EXCEPT !.typed = Email(p)])

(* A new contact is kept at once, even if nothing is bought.               *)
goToReview(b) ==
    /\ On(b, 2) /\ dataStepValid(b)
    /\ IF showIdentityFields(b) /\ ~buy[b].leadSent
       THEN Became(b, [buy[b] EXCEPT !.step = 3, !.leadSent = TRUE,
                          !.lead = [who |-> buy[b].typed, phone |-> buy[b].phone]])
       ELSE Became(b, [buy[b] EXCEPT !.step = 3])
    /\ UNCHANGED <<customerVars, left>>
lead(b, w) ==
    LET l == buy[b].lead
    IN /\ l # NoLead
       /\ \/ /\ captureLead(w, l.who[2], l.phone) /\ UNCHANGED left
             /\ Became(b, [buy[b] EXCEPT !.lead = NoLead])
          \/ /\ known(l.who) /\ UNCHANGED <<customerVars, left>>
             /\ Became(b, [buy[b] EXCEPT !.lead = NoLead])
          \/ /\ Spend("faults") /\ UNCHANGED customerVars
             /\ Became(b, [buy[b] EXCEPT !.lead = NoLead, !.leadSent = FALSE])

(***************************************************************************)
(* Review: the coupon, the total, the order                                *)
(***************************************************************************)
typeCoupon(b) ==
    /\ On(b, 3) /\ buy[b].applied = {}
    /\ Touched(b, [buy[b] EXCEPT !.code = ~@])
applyCoupon(b) ==
    /\ On(b, 3) /\ buy[b].code /\ ~buy[b].preview /\ buy[b].applied = {}
    /\ Touched(b, [buy[b] EXCEPT !.preview = TRUE])
previewCoupon(b) ==
    /\ buy[b].preview
    /\ Became(b, [buy[b] EXCEPT !.preview = FALSE,
                     !.applied = IF shelf.valid THEN {shelf.coupon} ELSE {}])
    /\ UNCHANGED <<customerVars, left>>
removeCoupon(b) ==
    /\ On(b, 3) /\ buy[b].applied # {}
    /\ Touched(b, [buy[b] EXCEPT !.applied = {}, !.code = FALSE])

totalCents(b) ==
    LET t == buy[b]
    IN shownTotal(ticketCents(t.seen, t.qty, t.picked), productCents(t.seen, t.picked),
                  t.applied, t.seen.fee)

(* A buyer who was recognised sends the phone alone; a code that was typed *)
(* and never applied is sent all the same.                                 *)
submit(b) ==
    /\ On(b, 3)
    /\ req' = [req EXCEPT ![b] = [at |-> "server", reuse |-> reuseActive(b), who |-> Comprador(b),
                   coupon |-> buy[b].applied # {} \/ buy[b].code, shown |-> totalCents(b)]]
    /\ UNCHANGED <<shelf, buy, pay, customerVars, left>>

Refused(b) == req' = [req EXCEPT ![b] = NoReq]

(* The server prices the order, and refuses all of it for an offer or a    *)
(* coupon that no longer holds.  Its refusals for the event's status and   *)
(* window, a batch's window and the units per order leave no order either: *)
(* without them more orders are placed than the code places.               *)
priceOrder(b) ==
    LET t == buy[b]
        tickets == ticketCents(shelf, t.qty, t.picked)
        discount == IF req[b].coupon THEN couponDiscountCents(shelf.coupon, tickets) ELSE 0
        total == orderTotals(tickets, productCents(shelf, t.picked), discount, shelf.fee).total
    IN /\ req[b].at = "server"
       /\ IF resolveSelections(shelf, t.picked) /\ shelf.batch.open /\ (req[b].coupon => shelf.valid)
          THEN req' = [req EXCEPT ![b] = [at |-> "priced", reuse |-> req[b].reuse, who |-> req[b].who,
                                          shown |-> req[b].shown, total |-> total]]
          ELSE Refused(b)
       /\ UNCHANGED <<shelf, buy, pay, customerVars, left>>

(* The buyer is found by the phone once more.                              *)
createOrder(b, o) ==
    LET r == req[b]
        found == IF r.reuse THEN findByPhone(buy[b].phone) ELSE {r.who}
    IN /\ r.at = "priced" /\ order[o] = NoOrder
       /\ \/ /\ found = {} /\ Refused(b) /\ UNCHANGED <<order, given>>
          \/ \E m \in found :
               /\ placeOrder(o, m, buy[b].phone)
               /\ req' = [req EXCEPT ![b] = [at |-> "answer", order |-> o]]
       /\ UNCHANGED <<shelf, buy, pay, cust, job, erased, quiet, left>>

(* The order is in hand; a Pix, if that is the method, is asked for before *)
(* the screen changes, and may fail.                                       *)
orderCreated(b, method, pix) ==
    /\ req[b].at = "answer" /\ Refused(b)
    /\ pix = "shown" => method = "pix" /\ order[req[b].order].status = "AWAITING_PAYMENT"
    /\ buy' = [buy EXCEPT ![b].step = 4]
    /\ pay' = [pay EXCEPT ![b] = [NoScreen EXCEPT !.order = req[b].order, !.method = method,
                  !.pix = pix, !.status = "AWAITING_PAYMENT"]]
    /\ UNCHANGED <<shelf, customerVars, left>>

(* The answer is lost: the order stands, and the buyer may ask for another.*)
loseOrder(b) ==
    /\ req[b].at \in {"server", "answer"} /\ Spend("faults") /\ Refused(b)
    /\ UNCHANGED <<shelf, buy, pay, customerVars>>

(***************************************************************************)
(* The payment screen                                                      *)
(***************************************************************************)
Shows(b, s) ==
    /\ pay' = [pay EXCEPT ![b] = s]
    /\ UNCHANGED <<shelf, buy, req, customerVars>>
Waiting(b) == pay[b].status = "AWAITING_PAYMENT"

(* Asked for once, when Pix is the method; after a failure, only when the  *)
(* buyer changes the method to Pix again.                                  *)
startPix(b) ==
    /\ Waiting(b) /\ pay[b].method = "pix" /\ pay[b].pix = "none"
    /\ Shows(b, [pay[b] EXCEPT !.pix = "asked"]) /\ UNCHANGED left
pixAnswered(b) ==
    /\ pay[b].pix = "asked"
    /\ \/ /\ order[pay[b].order].status = "AWAITING_PAYMENT"
          /\ Shows(b, [pay[b] EXCEPT !.pix = "shown"]) /\ UNCHANGED left
       \/ /\ order[pay[b].order].status # "AWAITING_PAYMENT"
          /\ Shows(b, [pay[b] EXCEPT !.pix = "failed"]) /\ UNCHANGED left
       \/ Spend("faults") /\ Shows(b, [pay[b] EXCEPT !.pix = "failed"])
switchMethod(b) ==
    /\ Waiting(b) /\ pay[b].card = "idle" /\ Spend("shop")
    /\ Shows(b, [pay[b] EXCEPT !.method = IF @ = "pix" THEN "card" ELSE "pix",
                               !.pix = IF @ = "failed" THEN "none" ELSE @])

(* A card is approved, still examined, or refused.                         *)
submitCard(b) ==
    LET o == pay[b].order
    IN /\ Waiting(b) /\ pay[b].method = "card" /\ pay[b].card = "idle" /\ Spend("shop")
       /\ order[o].status = "AWAITING_PAYMENT"
       /\ \/ /\ order' = markOrderPaid(o)
             /\ pay' = [pay EXCEPT ![b].status = "PAID"]
             /\ UNCHANGED <<shelf, buy, req, cust, job, erased, given, quiet>>
          \/ Shows(b, [pay[b] EXCEPT !.card = "processing"])

(* The order is looked up on its own page later, or the page reloaded: Pix *)
(* is the method again, and is asked for anew.                             *)
OrderTracker(b) ==
    /\ pay[b].order # "none" /\ Spend("shop")
    /\ Shows(b, [NoScreen EXCEPT !.order = pay[b].order, !.status = order[pay[b].order].status])

(* Every ten seconds, and when the time left is over; no more once the     *)
(* order is shown paid or expired.                                         *)
track(b) ==
    /\ Waiting(b) /\ order[pay[b].order].status # "AWAITING_PAYMENT"
    /\ Shows(b, [pay[b] EXCEPT !.status = order[pay[b].order].status]) /\ UNCHANGED left
expire(o) ==
    /\ order[o].status = "AWAITING_PAYMENT" /\ Spend("desk")
    /\ order' = [order EXCEPT ![o].status = "EXPIRED"]
    /\ UNCHANGED <<shelf, buy, req, pay, cust, job, erased, given, quiet>>

(***************************************************************************)
(* The whole                                                               *)
(***************************************************************************)
ShopInit ==
    /\ shelf = FirstShelf
    /\ buy = [b \in Buyers |-> Fresh]
    /\ req = [b \in Buyers |-> NoReq]
    /\ pay = [b \in Buyers |-> NoScreen]

ShopNext ==
    \/ \E b \in Buyers :
         \/ goToData(b) \/ back(b) \/ lookupByPhone(b) \/ lookupAnswered(b)
         \/ lookupFails(b) \/ setUseOther(b) \/ goToReview(b) \/ typeCoupon(b) \/ applyCoupon(b)
         \/ previewCoupon(b) \/ removeCoupon(b) \/ submit(b) \/ priceOrder(b) \/ loseOrder(b)
         \/ startPix(b) \/ pixAnswered(b) \/ switchMethod(b) \/ submitCard(b) \/ track(b)
         \/ OrderTracker(b)
         \/ \E n \in 0..MaxUnits : setQuantity(b, n)
         \/ \E k \in Offers : toggleOffer(b, k)
         \/ \E phone \in Phones \cup {NoPhone} : typePhone(b, phone) \/ buildPublicEventView(b, phone)
         \/ \E p \in People : typeIdentity(b, p)
         \/ \E w \in Workers : lead(b, w)
         \/ \E o \in Orders : createOrder(b, o)
         \/ \E method \in {"pix", "card"}, pix \in {"none", "shown"} : orderCreated(b, method, pix)
    \/ \E price \in Prices :
         \/ updateSalesBatch(price) \/ \E open \in BOOLEAN : updateProduct(price, open)
         \/ \E k \in Offers, active \in BOOLEAN : updateOffer(k, price, active)
    \/ couponEnds \/ salesWindowEnds \/ \E o \in Orders : expire(o)

ShopTypeOK ==
    \A b \in Buyers :
        /\ buy[b].step \in 0..4 /\ buy[b].picked \subseteq Offers
        /\ Cardinality(buy[b].asks) <= 1
        /\ buy[b].step = 4 <=> pay[b].order # "none"

(* The order is the one that was reviewed: for the buyer the review step   *)
(* showed, typed or recognised, unless a customer was written since the    *)
(* phone was looked up; and for no more than the total it showed, unless   *)
(* what is on sale changed since the page was loaded.                      *)
OrderAsReviewed ==
    [][\A b \in Buyers :
         LET r == req[b]
         IN /\ r.at = "server" /\ req'[b].at = "priced" /\ shelf = buy[b].seen
                => req'[b].total <= r.shown
            /\ r.at = "priced" /\ req'[b].at = "answer" /\ (r.reuse => b \in quiet)
                => order'[req'[b].order].email = r.who]_<<req, order, buy, shelf, quiet>>
================================================================================
