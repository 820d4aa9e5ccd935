------------------------------- MODULE Checkout -------------------------------
(***************************************************************************)
(* How one browser buys: a new review refused for the plan opens the       *)
(* paywall, its links lead to the checkout, the checkout orders and pays   *)
(* in two calls, and the billing pages show what the stores hold.  Calls   *)
(* go on when their page is left; an answer may be lost after the server   *)
(* has acted.                                                              *)
(***************************************************************************)
EXTENDS Integers, FiniteSets, Sequences

CONSTANTS Links,       \* addresses of the checkout: [item, plan, period], Absent where a parameter is missing
          Absent,
          Contents,    \* what can be pasted: [long, scene], scene "CUSTOM" a contract of no common kind
          Renewed,     \* no order, no item, no answer yet
          VisitsMax,   \* visits of the checkout, and of the page for a new review
          UnledMax,    \* contracts made on a visit and then not led to, because an answer failed
          PackCoupons, \* coupons of a pack
          FreeReviews  \* reviews of a month on the free plan
ASSUME CheckoutAssumption == PackCoupons \in Nat /\ FreeReviews \in Nat

VARIABLES space,       \* the server: [plan, coupons, used, cancel]
          orders,      \* its orders, oldest first: [item, status]
          entShown,    \* entitlement of the store, Renewed before the first answer
          ordersShown, \* orders of the store, newest first
          asks,        \* calls under way: entitlement, orders, cancel
          at,          \* the page open: home, new, checkout, billing, team, review
          visit,       \* visit of the checkout -> [link, phase, order]
          draft,       \* the page for a new review: [content, busy, paywall, using]
          starts,      \* its starts under way: [n, visit, content, coupon, wall, phase]
          made,        \* visit of that page -> contracts made from it
          unled,       \* visit of that page -> those of them it did not lead to, as an answer failed
          dialog,      \* a dialog of a billing page is open
          lostAnswer,  \* an answer to an order or a payment was lost
          hasty        \* done in haste: "coupon", its link followed while a start was under way; "left", the
                       \* checkout left while an order or a payment was
checkoutVars == <<space, orders, entShown, ordersShown, asks, at, visit, draft, starts, made, unled, dialog, lostAnswer, hasty>>

OrderItems == {"PERSONAL_MONTHLY", "PERSONAL_YEARLY", "COUPON_PACK", "TEAM_MONTHLY"}
SpaceType(plan) == IF plan = "TEAM" THEN "TEAM" ELSE "PERSONAL"
DeepPlan(plan) == plan # "FREE"
NoDraft == [content |-> Renewed, busy |-> FALSE, paywall |-> FALSE, using |-> FALSE]
CheckoutInit ==
  /\ space = [plan |-> "FREE", coupons |-> 0, used |-> 0, cancel |-> FALSE] /\ orders = <<>>
  /\ entShown = Renewed /\ ordersShown = <<>> /\ asks = {}
  /\ at = "home" /\ visit = <<>> /\ draft = NoDraft /\ starts = {} /\ made = <<>> /\ unled = <<>> /\ dialog = FALSE
  /\ lostAnswer = FALSE /\ hasty = {}

----------------------------------------------------------------------------
(* The stores.                                                             *)
EntitlementNow == [plan |-> space.plan, coupons |-> space.coupons, cancel |-> space.cancel]
LoadEntitlement == asks \cup {"entitlement"}
LoadOrders == asks \cup {"orders"}
EntitlementAnswers ==
  /\ "entitlement" \in asks /\ asks' = asks \ {"entitlement"} /\ entShown' = EntitlementNow
  /\ UNCHANGED <<space, orders, ordersShown, at, visit, draft, starts, made, unled, dialog, lostAnswer, hasty>>
Newest(list) == [i \in DOMAIN list |-> list[Len(list) + 1 - i]]
OrdersAnswer ==
  /\ "orders" \in asks /\ asks' = asks \ {"orders"}
  /\ ordersShown' = Newest(orders)
  /\ UNCHANGED <<space, orders, entShown, at, visit, draft, starts, made, unled, dialog, lostAnswer, hasty>>

ShownPlan == IF entShown = Renewed THEN "FREE" ELSE entShown.plan
ShownCoupons == IF entShown = Renewed THEN 0 ELSE entShown.coupons
Paying == \E v \in DOMAIN visit : visit[v].phase \in {"ordering", "paying"}
AsLeft == IF Paying THEN hasty \cup {"left"} ELSE hasty

----------------------------------------------------------------------------
(* The page for a new review and the paywall.                              *)
OpenNew ==
  /\ at \in {"home", "review"} /\ Len(made) < VisitsMax
  /\ at' = "new" /\ draft' = NoDraft /\ asks' = LoadEntitlement
  /\ made' = Append(made, 0) /\ unled' = Append(unled, 0)
  /\ UNCHANGED <<space, orders, entShown, ordersShown, visit, starts, dialog, lostAnswer, hasty>>
\* pickScene: a contract of no common kind brings the paywall up at once.
Paste(c) ==
  /\ at = "new" /\ draft.content = Renewed
  /\ draft' = [draft EXCEPT !.content = c, !.paywall = @ \/ (c.scene = "CUSTOM" /\ ~DeepPlan(ShownPlan))]
  /\ UNCHANGED <<space, orders, entShown, ordersShown, asks, at, visit, starts, made, unled, dialog, lostAnswer, hasty>>

\* The button is disabled while a start is under way, the link of coupon holders is not.
OffersStart == ~draft.busy
OffersCouponLink == ~DeepPlan(ShownPlan)
FreeNumber == CHOOSE n \in 1..2 : \A s \in starts : s.n # n
Begin(coupon, wall) ==
  starts \cup {[n |-> FreeNumber, visit |-> Len(made), content |-> draft.content, coupon |-> coupon, wall |-> wall, phase |-> "check"]}
Start(coupon) ==
  /\ at = "new" /\ draft.content # Renewed /\ ~draft.paywall /\ Cardinality(starts) < 2
  /\ IF coupon THEN OffersCouponLink ELSE OffersStart
  /\ starts' = Begin(coupon, FALSE)
  /\ draft' = [draft EXCEPT !.busy = TRUE]
  /\ hasty' = IF coupon /\ draft.busy THEN hasty \cup {"coupon"} ELSE hasty
  /\ UNCHANGED <<space, orders, entShown, ordersShown, asks, at, visit, made, unled, dialog, lostAnswer>>
ClosePaywall ==
  /\ at = "new" /\ draft.paywall
  /\ draft' = [draft EXCEPT !.paywall = FALSE]
  /\ UNCHANGED <<space, orders, entShown, ordersShown, asks, at, visit, starts, made, unled, dialog, lostAnswer, hasty>>
\* Paywall.useCoupon: without a coupon it leads to the pack, with one it starts again and closes.
UseCoupon ==
  /\ at = "new" /\ draft.paywall /\ ~draft.using /\ ShownCoupons > 0 /\ Cardinality(starts) < 2
  /\ IF draft.content = Renewed
       THEN starts' = starts /\ draft' = [draft EXCEPT !.paywall = FALSE]
       ELSE starts' = Begin(TRUE, TRUE) /\ draft' = [draft EXCEPT !.busy = TRUE, !.using = TRUE]
  /\ hasty' = IF draft.busy THEN hasty \cup {"coupon"} ELSE hasty
  /\ UNCHANGED <<space, orders, entShown, ordersShown, asks, at, visit, made, unled, dialog, lostAnswer>>

\* assertStartReview, as the eligibility call meets it.
Allowed(s) ==
  IF s.coupon THEN space.coupons > 0
  ELSE DeepPlan(space.plan) \/ (space.used < FreeReviews /\ ~s.content.long /\ s.content.scene # "CUSTOM")
\* The page the start was made on is still the one open.
OnItsPage(s) == at = "new" /\ s.visit = Len(made)
\* start ends: its finally, then what the paywall does after the callback it awaited.
Ended(s, paywall) ==
  IF OnItsPage(s)
    THEN [draft EXCEPT !.busy = FALSE, !.paywall = IF s.wall THEN FALSE ELSE @ \/ paywall, !.using = @ /\ ~s.wall]
    ELSE draft
CheckAnswers(s) ==
  /\ s \in starts /\ s.phase = "check"
  /\ IF Allowed(s)
       THEN starts' = (starts \ {s}) \cup {[s EXCEPT !.phase = "upload"]} /\ draft' = draft
       ELSE starts' = starts \ {s} /\ draft' = Ended(s, TRUE)
  /\ UNCHANGED <<space, orders, entShown, ordersShown, asks, at, visit, made, unled, dialog, lostAnswer, hasty>>
\* The contract is made; when the answer comes the list of contracts is asked for, and awaited.
UploadAnswers(s, lost) ==
  /\ s \in starts /\ s.phase = "upload" /\ (lost => unled[s.visit] < UnledMax)
  /\ made' = [made EXCEPT ![s.visit] = @ + 1]
  /\ IF lost
       THEN starts' = starts \ {s} /\ draft' = Ended(s, FALSE) /\ unled' = [unled EXCEPT ![s.visit] = @ + 1]
       ELSE starts' = (starts \ {s}) \cup {[s EXCEPT !.phase = "list"]} /\ UNCHANGED <<draft, unled>>
  /\ UNCHANGED <<space, orders, entShown, ordersShown, asks, at, visit, dialog, lostAnswer, hasty>>
\* With the list the address of the contract's page follows, wherever the user is by now.
ListAnswers(s) ==
  /\ s \in starts /\ s.phase = "list"
  /\ starts' = starts \ {s}
  /\ at' = "review" /\ draft' = NoDraft /\ dialog' = FALSE /\ hasty' = AsLeft
  /\ UNCHANGED <<space, orders, entShown, ordersShown, asks, visit, made, unled, lostAnswer>>
\* Any other failure of a call: the toast is the interceptor's.  A contract made before it stays made.
StartFails(s) ==
  /\ s \in starts /\ (s.phase = "list" => unled[s.visit] < UnledMax)
  /\ starts' = starts \ {s} /\ draft' = Ended(s, FALSE)
  /\ unled' = IF s.phase = "list" THEN [unled EXCEPT ![s.visit] = @ + 1] ELSE unled
  /\ UNCHANGED <<space, orders, entShown, ordersShown, asks, at, visit, made, dialog, lostAnswer, hasty>>
\* The result page starts the review it was opened for.
ReviewBegins ==
  /\ at = "review" /\ space.used < FreeReviews /\ ~DeepPlan(space.plan)
  /\ space' = [space EXCEPT !.used = @ + 1]
  /\ UNCHANGED <<orders, entShown, ordersShown, asks, at, visit, draft, starts, made, unled, dialog, lostAnswer, hasty>>

----------------------------------------------------------------------------
(* The checkout.                                                           *)

\* resolveItem: a parameter nobody knows yields no item; item goes before plan and period.
ResolveItem(link) ==
  IF link.item # Absent THEN (IF link.item = "COUPON_PACK" THEN "COUPON_PACK" ELSE Renewed)
  ELSE LET plan == IF link.plan = Absent THEN "PERSONAL" ELSE link.plan
           period == IF link.period = Absent THEN "monthly" ELSE link.period
       IN IF plan \notin {"PERSONAL", "TEAM"} \/ period \notin {"monthly", "yearly"} THEN Renewed
          ELSE IF plan = "TEAM" THEN (IF period = "monthly" THEN "TEAM_MONTHLY" ELSE Renewed)
          ELSE IF period = "yearly" THEN "PERSONAL_YEARLY" ELSE "PERSONAL_MONTHLY"
\* The pages a link to the checkout is on: the paywall, the billing page of each kind of space, the prices.
PaywallLinks == IF draft.paywall THEN {l \in Links : l.plan # "TEAM"} ELSE {}
PersonalLinks == IF ShownPlan = "TEAM" THEN {} ELSE Links
TeamLinks == IF entShown # Renewed /\ ShownPlan # "TEAM" THEN {l \in Links : l.plan = "TEAM"} ELSE {}
LinksOn(page) ==
  IF page = "new" THEN PaywallLinks ELSE IF page = "billing" THEN PersonalLinks
  ELSE IF page = "team" THEN TeamLinks ELSE IF page = "home" THEN Links ELSE {}
OpenCheckout(link) ==
  /\ link \in LinksOn(at) /\ Len(visit) < VisitsMax
  /\ visit' = Append(visit, [link |-> link, phase |-> "idle", order |-> 0])
  /\ at' = "checkout" /\ draft' = NoDraft /\ dialog' = FALSE /\ asks' = LoadEntitlement
  /\ UNCHANGED <<space, orders, entShown, ordersShown, starts, made, unled, lostAnswer, hasty>>

Item(v) == ResolveItem(visit[v].link)
\* A page whose address names no item has nothing to click.
NoSuchItem(v) == Item(v) = Renewed
\* The button shows that a payment is under way and takes no click; the page of a paid order has none.
OffersPay(v) == visit[v].phase = "idle"
\* doPay.
Pay(v) ==
  /\ at = "checkout" /\ v = Len(visit) /\ ~NoSuchItem(v) /\ OffersPay(v) /\ Len(orders) < VisitsMax + 1
  /\ visit' = [visit EXCEPT ![v].phase = "ordering"]
  /\ UNCHANGED <<space, orders, entShown, ordersShown, asks, at, draft, starts, made, unled, dialog, lostAnswer, hasty>>
Purchasable(item) == item = "COUPON_PACK" \/ SpaceType(space.plan) = "PERSONAL"
OrderAnswers(v, lost) ==
  /\ visit[v].phase = "ordering"
  /\ IF Purchasable(Item(v))
       THEN /\ orders' = Append(orders, [item |-> Item(v), status |-> "PENDING", by |-> v])
            /\ visit' = [visit EXCEPT ![v].phase = IF lost THEN "idle" ELSE "paying", ![v].order = IF lost THEN @ ELSE Len(orders) + 1]
            /\ lostAnswer' = (lostAnswer \/ lost)
       ELSE visit' = [visit EXCEPT ![v].phase = "idle"] /\ UNCHANGED <<orders, lostAnswer>>
  /\ UNCHANGED <<space, entShown, ordersShown, asks, at, draft, starts, made, unled, dialog, hasty>>
\* The effect of a paid order: coupons are added, a plan replaces the plan.
Applied(item) ==
  IF item = "COUPON_PACK" THEN [space EXCEPT !.coupons = @ + PackCoupons]
  ELSE [space EXCEPT !.plan = IF item = "TEAM_MONTHLY" THEN "TEAM" ELSE "PERSONAL", !.cancel = FALSE]
\* The result is set before the entitlement is asked for, so that nothing but a lost answer brings the button back.
AfterEntitlement(lost) == "idle"
AfterPayment(lost) == IF lost THEN "idle" ELSE "paid"
PaymentAnswers(v, lost) ==
  /\ visit[v].phase = "paying"
  /\ orders' = [orders EXCEPT ![visit[v].order].status = "PAID"]
  /\ space' = Applied(orders[visit[v].order].item)
  /\ visit' = [visit EXCEPT ![v].phase = AfterPayment(lost)]
  /\ asks' = IF lost THEN asks ELSE LoadEntitlement
  /\ lostAnswer' = (lostAnswer \/ lost)
  /\ UNCHANGED <<entShown, ordersShown, at, draft, starts, made, unled, dialog, hasty>>
\* The payment is refused or does not get through: the order stays, the next click makes another.
PaymentFails(v) ==
  /\ visit[v].phase = "paying" /\ visit' = [visit EXCEPT ![v].phase = "idle"]
  /\ UNCHANGED <<space, orders, entShown, ordersShown, asks, at, draft, starts, made, unled, dialog, lostAnswer, hasty>>
\* The buttons of the success panel go by the item that was paid.
FromSuccess(item) == IF item = "TEAM_MONTHLY" THEN {"dashboard", "team"} ELSE {"home", "billing"}

----------------------------------------------------------------------------
(* The billing pages.                                                      *)
Opened(page) == IF page \in {"billing", "team"} THEN LoadEntitlement \cup LoadOrders ELSE asks
Goes(page) ==
  /\ at' = page /\ draft' = NoDraft /\ dialog' = FALSE /\ asks' = Opened(page) /\ hasty' = AsLeft
  /\ UNCHANGED <<space, orders, entShown, ordersShown, visit, starts, made, unled, lostAnswer>>
Leaves(page) ==
  /\ at # page /\ page \in {"home", "billing", "team"}
  /\ at = "checkout" => \/ visit[Len(visit)].phase # "paid"
                        \/ page \in FromSuccess(Item(Len(visit)))
  /\ Goes(page)

\* The personal page offers to cancel the plan it shows, the team page to write to sales.
OffersCancel == at = "billing" /\ ShownPlan = "PERSONAL"
OffersLead == at = "team" /\ ShownPlan = "TEAM"
OpenDialog ==
  /\ ~dialog /\ (OffersCancel \/ OffersLead) /\ dialog' = TRUE
  /\ UNCHANGED <<space, orders, entShown, ordersShown, asks, at, visit, draft, starts, made, unled, lostAnswer, hasty>>
\* doCancel: its button shows that the call is under way.  doSubmit writes to sales and closes the dialog.
Confirm ==
  /\ dialog /\ "cancel" \notin asks
  /\ IF at = "billing" THEN asks' = asks \cup {"cancel"} /\ dialog' = dialog ELSE asks' = asks /\ dialog' = FALSE
  /\ UNCHANGED <<space, orders, entShown, ordersShown, at, visit, draft, starts, made, unled, lostAnswer, hasty>>
\* The server cancels a personal plan once; its refusal leaves the dialog open.
CancelAnswers ==
  /\ "cancel" \in asks
  /\ IF space.plan = "PERSONAL" /\ ~space.cancel
       THEN /\ space' = [space EXCEPT !.cancel = TRUE] /\ asks' = (asks \ {"cancel"}) \cup {"entitlement"}
            /\ dialog' = (dialog /\ at # "billing")
       ELSE space' = space /\ asks' = asks \ {"cancel"} /\ dialog' = dialog
  /\ UNCHANGED <<orders, entShown, ordersShown, at, visit, draft, starts, made, unled, lostAnswer, hasty>>
\* The period named on the personal page: that of the newest personal order that is paid.
PeriodShown ==
  LET paid == {i \in DOMAIN ordersShown : ordersShown[i].status = "PAID" /\ ordersShown[i].item \in {"PERSONAL_MONTHLY", "PERSONAL_YEARLY"}}
  IN IF paid = {} THEN Renewed ELSE ordersShown[CHOOSE i \in paid : \A j \in paid : i <= j].item

CheckoutNext ==
  \/ EntitlementAnswers \/ OrdersAnswer
  \/ OpenNew \/ ClosePaywall \/ UseCoupon \/ ReviewBegins
  \/ \E c \in Contents : Paste(c)
  \/ \E coupon \in BOOLEAN : Start(coupon)
  \/ \E s \in starts : CheckAnswers(s) \/ ListAnswers(s) \/ StartFails(s) \/ \E lost \in BOOLEAN : UploadAnswers(s, lost)
  \/ \E l \in Links : OpenCheckout(l)
  \/ \E v \in DOMAIN visit : \/ Pay(v) \/ PaymentFails(v)
                             \/ \E lost \in BOOLEAN : OrderAnswers(v, lost) \/ PaymentAnswers(v, lost)
  \/ \E page \in {"home", "billing", "team"} : Leaves(page)
  \/ OpenDialog \/ Confirm \/ CancelAnswers

----------------------------------------------------------------------------
CheckoutTypeOK ==
  /\ space \in [plan : {"FREE", "PERSONAL", "TEAM"}, coupons : Nat, used : 0..FreeReviews, cancel : BOOLEAN]
  /\ asks \subseteq {"entitlement", "orders", "cancel"}
  /\ \A v \in DOMAIN visit : visit[v].phase \in {"idle", "ordering", "paying", "paid"}
  /\ \A i \in DOMAIN orders : orders[i].item \in OrderItems /\ orders[i].status \in {"PENDING", "PAID"}
  /\ \A s \in starts : s.phase \in {"check", "upload", "list"}

\* However the calls of the checkout interleave with leaving it, opening it again and refusals, a visit pays for at
\* most one order, of the item its address names, unless an answer was lost and the user clicked again.
PaidAsAsked ==
  \A v \in DOMAIN visit :
    LET paid == {i \in DOMAIN orders : orders[i].by = v /\ orders[i].status = "PAID"}
    IN /\ Cardinality(paid) <= 1 \/ lostAnswer
       /\ \A i \in paid : orders[i].item = Item(v)
       /\ visit[v].phase = "paid" => paid # {}
\* One visit of the page for a new review makes one contract, whichever of button, link and paywall began it,
\* unless the coupon link was followed while a start was under way.  A contract that was made while the answer or
\* the list after it failed is no more led to, and a further click makes another.
OneContractAsked == \A v \in DOMAIN made : made[v] - unled[v] <= 1 \/ "coupon" \in hasty
\* With every answer in, the personal billing page shows the plan, the cancellation and the orders the server holds, and
\* names the period paid for last, unless the checkout was left in the middle of a payment or an answer was lost.
BilledAsShown ==
  at = "billing" /\ asks = {} /\ "left" \notin hasty /\ ~lostAnswer =>
    /\ entShown = EntitlementNow
    /\ ordersShown = Newest(orders)
    /\ ShownPlan = "PERSONAL" => PeriodShown \in {"PERSONAL_MONTHLY", "PERSONAL_YEARLY"}
===============================================================================
