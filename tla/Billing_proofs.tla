--------------------------- MODULE Billing_proofs ---------------------------
(***************************************************************************)
(* Proofs about Billing: for any number of orders, payments, cancellations *)
(* and uploads, rows and locals keep their types, each paid pack is        *)
(* credited once, a plan never lasts longer than what was paid for it, a   *)
(* renewal keeps the time that is left, a plan is kept to its date and the *)
(* records of a paying tenant are kept.                                    *)
(***************************************************************************)
EXTENDS Billing, FiniteSetTheorems, TLAPS

-----------------------------------------------------------------------------
(* The inductive invariants *)

(* an order that was not created yet has no status *)
OrdersAreNew ==
  \A o \in Orders : pc[o] \in {"idle", "done"} /\ (pc[o] = "idle" => order[o].status = "NEW")

(* a payment under way holds an order and a "now" of the past *)
PaysHoldOrders ==
  \A p \in Pays : pc[p] \in {"claim", "settle"} =>
                    local[p].order \in Orders /\ local[p].now <= month

(* a transaction has claimed an order that is still pending, alone *)
ClaimsArePending ==
  \A p \in Pays : pc[p] = "settle" =>
    /\ order[local[p].order].status = "PENDING"
    /\ \A q \in Pays : pc[q] = "settle" /\ local[q].order = local[p].order => q = p

CallInv == TypeOK /\ OrdersAreNew /\ PaysHoldOrders /\ ClaimsArePending

(* what the tenant has was paid for, and so was what a transaction read of it *)
PlanIsPaid ==
  \A plan \in Plans \ {"FREE"} : tenant.plan = plan =>
    tenant.expires <= month + Cardinality(PaidMonths(plan))

ReadsArePaid ==
  \A plan \in Plans \ {"FREE"} : \A p \in Pays : pc[p] = "settle" /\ local[p].plan = plan =>
    local[p].expires <= month + Cardinality(PaidMonths(plan))

MonthsInv == PlanIsPaid /\ ReadsArePaid

(* a contract uploaded under a paid plan has no date *)
PaidIsUndated == \A c \in Contracts : file[c].paid => file[c].status # "GONE" /\ file[c].until = Null

(* the job found a date that has passed *)
DueIsPast == expiry = "due" => dueDate # Null /\ dueDate < month

-----------------------------------------------------------------------------
(* What calls hold *)

LEMMA InitCall == Init => CallInv
<1> SUFFICES ASSUME Init PROVE CallInv
  OBVIOUS
<1>1. TypeOK
  BY BoundsAssumption DEF Init, TypeOK, NoLocals, PCs, Plans, Items, Null, Calls
<1>2. OrdersAreNew /\ PaysHoldOrders /\ ClaimsArePending
  BY DEF Init, OrdersAreNew, PaysHoldOrders, ClaimsArePending, Calls
<1> QED
  BY <1>1, <1>2 DEF CallInv

LEMMA CreateOrderCall ==
  ASSUME CallInv, NEW o \in Orders, CreateOrder(o)
  PROVE  CallInv'
<1> USE DEF CallInv, CreateOrder, Goto, Calls
<1>1. TypeOK'
  BY DEF TypeOK, PCs, jobs
<1>2. /\ \A x \in Calls : x # o => pc'[x] = pc[x]
      /\ \A q \in Orders : q # o => order'[q] = order[q]
      /\ pc'[o] = "done"
  BY DEF TypeOK
<1>3. OrdersAreNew'
  BY <1>2 DEF OrdersAreNew
<1>4. PaysHoldOrders'
  BY <1>2, CallsDistinct DEF PaysHoldOrders
<1>5. ClaimsArePending'
  BY <1>2, CallsDistinct DEF ClaimsArePending, PaysHoldOrders, OrdersAreNew
<1> QED
  BY <1>1, <1>3, <1>4, <1>5

(* What a payment holds after a step that leaves orders as they are. *)
Locals == [order: {None} \cup Orders, now: Nat, plan: Plans, expires: Nat]

LEMMA PayLocal ==
  ASSUME CallInv, NEW p \in Pays, FindOrder(p) \/ Claim(p) \/ RollBack(p)
  PROVE  \E l \in Locals :
           /\ local' = [local EXCEPT ![p] = l]
           /\ \/ pc' = [pc EXCEPT ![p] = "claim"] /\ l.order \in Orders /\ l.now = month
              \/ /\ pc[p] = "claim" /\ pc' = [pc EXCEPT ![p] = "settle"]
                 /\ order[local[p].order].status = "PENDING" /\ ~Locked(local[p].order)
                 /\ l.order = local[p].order /\ l.now = local[p].now
                 /\ l.plan = tenant.plan /\ l.expires = tenant.expires
              \/ pc' = [pc EXCEPT ![p] = "idle"]
<1>1. /\ local[p] \in Locals /\ tenant.plan \in Plans /\ tenant.expires \in Nat /\ month \in Nat
  BY DEF CallInv, TypeOK, Calls, Locals
<1>2. CASE FindOrder(p)
  <2>1. PICK o \in Orders : local' = [local EXCEPT ![p] = [local[p] EXCEPT !.order = o, !.now = month]]
    BY <1>2 DEF FindOrder
  <2> DEFINE l == [local[p] EXCEPT !.order = o, !.now = month]
  <2>2. l \in Locals /\ l.order = o /\ l.now = month
    BY <1>1 DEF Locals
  <2>3. local' = [local EXCEPT ![p] = l] /\ pc' = [pc EXCEPT ![p] = "claim"]
    BY <1>2, <2>1 DEF FindOrder, Goto
  <2> HIDE DEF l
  <2> QED
    BY <2>2, <2>3
<1>3. CASE Claim(p) /\ ClaimMatches(local[p].order)
  <2> DEFINE l == [local[p] EXCEPT !.plan = tenant.plan, !.expires = tenant.expires]
  <2>1. /\ l \in Locals /\ l.order = local[p].order /\ l.now = local[p].now
        /\ l.plan = tenant.plan /\ l.expires = tenant.expires
    BY <1>1 DEF Locals
  <2>2. /\ local' = [local EXCEPT ![p] = l] /\ pc' = [pc EXCEPT ![p] = "settle"]
        /\ pc[p] = "claim" /\ ~Locked(local[p].order)
    BY <1>3 DEF Claim, Goto
  <2>3. order[local[p].order].status = "PENDING"
    BY <1>3 DEF ClaimMatches
  <2> HIDE DEF l
  <2> QED
    BY <2>1, <2>2, <2>3
<1>4. CASE (Claim(p) /\ ~ClaimMatches(local[p].order)) \/ RollBack(p)
  <2>1. NoLocals \in Locals
    BY DEF NoLocals, Locals, Plans, Null
  <2>2. local' = [local EXCEPT ![p] = NoLocals] /\ pc' = [pc EXCEPT ![p] = "idle"]
    BY <1>4 DEF Claim, RollBack, Return, Goto
  <2> QED
    BY <2>1, <2>2
<1> QED
  BY <1>2, <1>3, <1>4

LEMMA PayCall ==
  ASSUME CallInv, NEW p \in Pays, FindOrder(p) \/ Claim(p) \/ RollBack(p)
  PROVE  CallInv'
<1>1. PICK l \in Locals :
         /\ local' = [local EXCEPT ![p] = l]
         /\ \/ pc' = [pc EXCEPT ![p] = "claim"] /\ l.order \in Orders /\ l.now = month
            \/ /\ pc[p] = "claim" /\ pc' = [pc EXCEPT ![p] = "settle"]
               /\ order[local[p].order].status = "PENDING" /\ ~Locked(local[p].order)
               /\ l.order = local[p].order /\ l.now = local[p].now
            \/ pc' = [pc EXCEPT ![p] = "idle"]
  BY PayLocal
<1>2. UNCHANGED <<tenant, order, file, month, jobs, redeemed, saved>>
  BY DEF FindOrder, Claim, RollBack
<1> USE DEF CallInv, Calls
<1>3. TypeOK'
  BY <1>1, <1>2 DEF TypeOK, PCs, jobs, Locals
<1>4. /\ \A x \in Calls : x # p => pc'[x] = pc[x] /\ local'[x] = local[x]
      /\ local'[p] = l
      /\ pc'[p] = "claim" \/ (pc[p] = "claim" /\ pc'[p] = "settle") \/ pc'[p] = "idle"
  BY <1>1 DEF TypeOK
<1>5. OrdersAreNew'
  BY <1>2, <1>4, CallsDistinct DEF OrdersAreNew
<1>6. PaysHoldOrders'
  BY <1>1, <1>2, <1>4, CallsDistinct DEF PaysHoldOrders, TypeOK
<1>7. ClaimsArePending'
  BY <1>1, <1>2, <1>4, CallsDistinct DEF ClaimsArePending, Locked, TypeOK
<1> QED
  BY <1>3, <1>5, <1>6, <1>7

(* The effect of an item on a tenant that has the types of its columns. *)
LEMMA EffectType ==
  ASSUME TypeOK, NEW p \in Pays, NEW o \in Orders
  PROVE  Effect(local[p], order[o].item)
           \in [plan: Plans, workspace: {"PERSONAL", "TEAM"}, expires: Nat,
                cancelling: BOOLEAN, coupons: Nat]
<1> DEFINE l == local[p]  item == order[o].item
<1>1. /\ item \in Items /\ l.now \in Nat /\ l.expires \in Nat
      /\ tenant \in [plan: Plans, workspace: {"PERSONAL", "TEAM"}, expires: Nat,
                     cancelling: BOOLEAN, coupons: Nat]
  BY DEF TypeOK, Calls
<1>2. Base(l, item) \in Nat /\ Period(item) \in Nat /\ TargetPlan(item) \in Plans
  BY <1>1 DEF Base, Period, TargetPlan, Plans
<1>3. CASE IsSubscription(item)
  <2> DEFINE w == IF TargetPlan(item) = "TEAM" THEN "TEAM" ELSE "PERSONAL"
             e == Base(l, item) + Period(item)
  <2>1. w \in {"PERSONAL", "TEAM"} /\ e \in Nat
    BY <1>2
  <2>2. Effect(l, item) = [tenant EXCEPT !.plan = TargetPlan(item), !.workspace = w,
                                         !.expires = e, !.cancelling = FALSE]
    BY <1>3 DEF Effect
  <2> HIDE DEF w, e
  <2> QED
    BY <1>1, <1>2, <2>1, <2>2
<1>4. CASE ~IsSubscription(item)
  BY <1>1, <1>4, BoundsAssumption DEF Effect
<1> QED
  BY <1>3, <1>4

LEMMA SettleCall ==
  ASSUME CallInv, NEW p \in Pays, Settle(p)
  PROVE  CallInv'
<1> USE DEF CallInv, Settle, Return, Goto, Calls
<1>1. local[p].order \in Orders
  BY DEF PaysHoldOrders
<1>2. tenant' \in [plan: Plans, workspace: {"PERSONAL", "TEAM"}, expires: Nat,
                   cancelling: BOOLEAN, coupons: Nat]
  BY <1>1, EffectType
<1>3. saved' \subseteq Contracts
  BY DEF TypeOK, Kept
<1>4. TypeOK'
  BY <1>1, <1>2, <1>3 DEF TypeOK, PCs, jobs, NoLocals, Plans, Null, None
<1>5. /\ \A x \in Calls : x # p => pc'[x] = pc[x] /\ local'[x] = local[x]
      /\ \A o \in Orders : o # local[p].order => order'[o] = order[o]
      /\ pc'[p] = "idle" /\ month' = month
  BY <1>1 DEF TypeOK
<1>6. OrdersAreNew'
  BY <1>1, <1>5, CallsDistinct DEF OrdersAreNew, ClaimsArePending
<1>7. PaysHoldOrders'
  BY <1>5, CallsDistinct DEF PaysHoldOrders
<1>8. ClaimsArePending'
  BY <1>1, <1>5, CallsDistinct DEF ClaimsArePending, PaysHoldOrders
<1> QED
  BY <1>4, <1>6, <1>7, <1>8

(* Steps of cancellations and uploads touch neither orders nor payments. *)
LEMMA OtherCall ==
  ASSUME CallInv, NEW x \in Cancels \cup Contracts, TypeOK',
         UNCHANGED <<order, month>>,
         \A y \in Calls : y # x => pc'[y] = pc[y] /\ local'[y] = local[y]
  PROVE  CallInv'
BY CallsDistinct DEF CallInv, Calls, OrdersAreNew, PaysHoldOrders, ClaimsArePending

LEMMA CancelCall ==
  ASSUME CallInv, NEW x \in Cancels, CheckCancel(x) \/ WriteCancel(x)
  PROVE  CallInv'
<1> USE DEF CheckCancel, WriteCancel, Goto, Calls
<1>1. TypeOK'
  BY DEF CallInv, TypeOK, PCs, jobs
<1>2. /\ UNCHANGED <<order, month>>
      /\ \A y \in Calls : y # x => pc'[y] = pc[y] /\ local'[y] = local[y]
  BY DEF CallInv, TypeOK
<1> QED
  BY <1>1, <1>2, OtherCall

LEMMA UploadCall ==
  ASSUME CallInv, NEW c \in Contracts, ReadPlan(c) \/ Upload(c)
  PROVE  CallInv'
<1> USE DEF ReadPlan, Upload, Goto, Calls
<1>1. TypeOK'
  <2> USE DEF CallInv, TypeOK, PCs, jobs
  <2>1. CASE ReadPlan(c)
    BY <2>1
  <2>2. CASE Upload(c)
    <3>1. RetainUntil(local[c].plan) \in Nat /\ IsDeep(local[c].plan) \in BOOLEAN
      BY DEF RetainUntil, IsDeep, Null
    <3>2. NoLocals \in [order: {None} \cup Orders, now: Nat, plan: Plans, expires: Nat]
      BY DEF NoLocals, Plans, Null
    <3> QED
      BY <2>2, <3>1, <3>2
  <2> QED
    BY <2>1, <2>2
<1>2. /\ UNCHANGED <<order, month>>
      /\ \A y \in Calls : y # c => pc'[y] = pc[y] /\ local'[y] = local[y]
  BY DEF CallInv, TypeOK
<1> QED
  BY <1>1, <1>2, OtherCall

(* Jobs, reviews, the clock and restarts touch neither orders nor calls. *)
LEMMA RestCall ==
  ASSUME CallInv, Jobs \/ Redeem \/ Refund \/ Tick \/ Restart \/ UNCHANGED vars
  PROVE  CallInv'
<1>1. UNCHANGED <<order, pc, local>> /\ (month' = month \/ month' = month + 1)
  BY DEF Jobs, FindDue, Downgrade, FindTenants, DeleteStale, Redeem, Refund, Tick, Restart,
     vars, jobs
<1>2. TypeOK'
  <2> USE DEF CallInv, TypeOK, Null, Plans
  <2>1. CASE FindDue \/ FindTenants \/ Tick \/ Restart
    BY <2>1 DEF FindDue, FindTenants, Tick, Restart, jobs
  <2>4. CASE Downgrade
    BY <2>4 DEF Downgrade
  <2>2. CASE DeleteStale
    BY <2>2 DEF DeleteStale
  <2>3. CASE Redeem \/ Refund \/ UNCHANGED vars
    BY <2>3 DEF Redeem, Redeemable, Refund, vars, jobs
  <2> QED
    BY <2>1, <2>2, <2>3, <2>4 DEF Jobs
<1>3. PaysHoldOrders'
  BY <1>1 DEF CallInv, PaysHoldOrders, TypeOK, Calls
<1> QED
  BY <1>1, <1>2, <1>3 DEF CallInv, OrdersAreNew, ClaimsArePending

LEMMA StepCall == CallInv /\ [Next]_vars => CallInv'
BY CreateOrderCall, PayCall, SettleCall, CancelCall, UploadCall, RestCall DEF Next, PayStep

LEMMA CallInvariance == Spec => []CallInv
BY InitCall, StepCall, PTL DEF Spec

(* Rows and locals keep the types of their columns: the conditional         *)
(* decrement of a review (contract.controller.ts, startReviewStream) never  *)
(* overdraws the coupons.                                                   *)
THEOREM TypeCorrect == Spec => []TypeOK
BY CallInvariance, PTL DEF CallInv

-----------------------------------------------------------------------------
(* What was paid *)

LEMMA PaidIsFinite ==
  /\ IsFiniteSet(PaidPacks) /\ Cardinality(PaidPacks) \in Nat
  /\ \A plan : IsFiniteSet(PaidMonths(plan)) /\ Cardinality(PaidMonths(plan)) \in Nat
<1>1. IsFiniteSet(Orders)
  BY OrdersAssumption
<1>2. IsFiniteSet(PaidPacks)
  BY <1>1, FS_Subset DEF PaidPacks
<1>3. IsFiniteSet(1..12)
  <2>1. 1 \in Int /\ 12 \in Int
    OBVIOUS
  <2> QED
    BY <2>1, FS_Interval, Zenon
<1>4. IsFiniteSet(Orders \X (1..12))
  BY <1>1, <1>3, FS_Product
<1>5. ASSUME NEW plan PROVE IsFiniteSet(PaidMonths(plan))
  <2>1. PaidMonths(plan) \in SUBSET (Orders \X (1..12))
    BY DEF PaidMonths
  <2> QED
    BY <1>4, <2>1, FS_Subset
<1> QED
  BY <1>2, <1>5, FS_CardinalityType

(* The same orders are paid before and after a step. *)
SamePaid ==
  \A o \in Orders : /\ order'[o].status = "PAID" <=> order[o].status = "PAID"
                    /\ order[o].status = "PAID" => order'[o].item = order[o].item

LEMMA SamePaidSets ==
  ASSUME SamePaid
  PROVE  PaidPacks' = PaidPacks /\ \A plan : PaidMonths(plan)' = PaidMonths(plan)
<1>1. PaidPacks' = PaidPacks
  BY DEF SamePaid, PaidPacks
<1>2. ASSUME NEW plan PROVE PaidMonths(plan)' = PaidMonths(plan)
  <2>1. ASSUME NEW m \in Orders \X (1..12)
        PROVE  m \in PaidMonths(plan)' <=> m \in PaidMonths(plan)
    <3>1. m[1] \in Orders
      OBVIOUS
    <3> QED
      BY <2>1, <3>1 DEF SamePaid, PaidMonths
  <2>2. PaidMonths(plan)' \subseteq Orders \X (1..12) /\ PaidMonths(plan) \subseteq Orders \X (1..12)
    BY DEF PaidMonths
  <2> QED
    BY <2>1, <2>2
<1> QED
  BY <1>1, <1>2

(* Every step but the commit of a payment. *)
NoSettle == [Next]_vars /\ \A p \in Pays : ~Settle(p)

LEMMA NoSettlePays ==
  ASSUME CallInv, NoSettle
  PROVE  SamePaid
<1>1. CASE \E o \in Orders : CreateOrder(o)
  <2>1. PICK o \in Orders : CreateOrder(o)
    BY <1>1
  <2>2. order[o].status = "NEW"
    BY <2>1 DEF CreateOrder, CallInv, OrdersAreNew
  <2>3. order'[o].status = "PENDING" /\ \A q \in Orders : q # o => order'[q] = order[q]
    BY <2>1 DEF CreateOrder, CallInv, TypeOK
  <2> QED
    BY <2>2, <2>3 DEF SamePaid
<1>2. CASE order' = order
  BY <1>2 DEF SamePaid
<1>3. order' = order \/ \E o \in Orders : CreateOrder(o)
  BY DEF NoSettle, Next, PayStep, FindOrder, Claim, RollBack, CheckCancel, WriteCancel, ReadPlan,
     Upload, Jobs, FindDue, Downgrade, FindTenants, DeleteStale, Redeem, Refund, Tick, Restart, vars
<1> QED
  BY <1>1, <1>2, <1>3

(* A commit pays the order it claimed, and no other. *)
LEMMA SettlePays ==
  ASSUME CallInv, NEW p \in Pays, Settle(p)
  PROVE  LET o == local[p].order IN
         /\ o \in Orders /\ order[o].status # "PAID" /\ order'[o].status = "PAID"
         /\ order'[o].item = order[o].item /\ order[o].item \in Items
         /\ \A q \in Orders : q # o => order'[q] = order[q]
<1>1. local[p].order \in Orders /\ order[local[p].order].status = "PENDING"
  BY DEF CallInv, PaysHoldOrders, ClaimsArePending, Settle
<1> QED
  BY <1>1 DEF Settle, CallInv, TypeOK

-----------------------------------------------------------------------------
(* Coupons *)

LEMMA SettleCoupons ==
  ASSUME CallInv, CouponsAddUp, NEW p \in Pays, Settle(p)
  PROVE  CouponsAddUp'
<1> DEFINE o == local[p].order
<1>1. /\ o \in Orders /\ order[o].status # "PAID" /\ order'[o].status = "PAID"
      /\ order'[o].item = order[o].item /\ order[o].item \in Items
      /\ \A q \in Orders : q # o => order'[q] = order[q]
  BY SettlePays
<1>2. tenant' = Effect(local[p], order[o].item) /\ redeemed' = redeemed
  BY DEF Settle
<1>3. tenant.coupons \in Nat /\ redeemed \in Nat /\ Cardinality(PaidPacks) \in Nat
  BY PaidIsFinite DEF CallInv, TypeOK
<1> HIDE DEF o
<1>4. CASE order[o].item = "COUPON_PACK"
  <2>1. PaidPacks' = PaidPacks \cup {o} /\ o \notin PaidPacks
    BY <1>1, <1>4 DEF PaidPacks
  <2>2. Cardinality(PaidPacks') = Cardinality(PaidPacks) + 1
    BY <2>1, PaidIsFinite, FS_AddElement
  <2>3. tenant'.coupons = tenant.coupons + CouponQty
    BY <1>2, <1>4 DEF Effect, IsSubscription, CallInv, TypeOK
  <2>4. CouponQty * (Cardinality(PaidPacks) + 1) = CouponQty * Cardinality(PaidPacks) + CouponQty
    BY <1>3, BoundsAssumption
  <2> QED
    BY <1>2, <1>3, <2>2, <2>3, <2>4, BoundsAssumption DEF CouponsAddUp
<1>5. CASE order[o].item # "COUPON_PACK"
  <2>1. PaidPacks' = PaidPacks
    BY <1>1, <1>5 DEF PaidPacks
  <2>2. tenant'.coupons = tenant.coupons
    BY <1>2, <1>5 DEF Effect, IsSubscription, CallInv, TypeOK
  <2> QED
    BY <1>2, <2>1, <2>2 DEF CouponsAddUp
<1> QED
  BY <1>4, <1>5

LEMMA StepCoupons == CallInv /\ CouponsAddUp /\ [Next]_vars => CouponsAddUp'
<1> SUFFICES ASSUME CallInv, CouponsAddUp, [Next]_vars PROVE CouponsAddUp'
  OBVIOUS
<1>1. CASE \E p \in Pays : Settle(p)
  BY <1>1, SettleCoupons
<1>2. CASE ~\E p \in Pays : Settle(p)
  <2>1. NoSettle
    BY <1>2 DEF NoSettle
  <2>2. PaidPacks' = PaidPacks
    BY <2>1, NoSettlePays, SamePaidSets
  <2>3. tenant'.coupons + redeemed' = tenant.coupons + redeemed
    <3>1. /\ tenant \in [plan: Plans, workspace: {"PERSONAL", "TEAM"}, expires: Nat,
                          cancelling: BOOLEAN, coupons: Nat]
          /\ redeemed \in Nat
      BY DEF CallInv, TypeOK
    <3>2. CASE Redeem \/ Refund
      BY <3>1, <3>2 DEF Redeem, Refund
    <3>3. CASE \E x \in Cancels : WriteCancel(x)
      BY <3>1, <3>3 DEF WriteCancel
    <3>4. CASE Downgrade
      BY <3>1, <3>4 DEF Downgrade
    <3>5. CASE UNCHANGED <<tenant, redeemed>>
      BY <3>5
    <3>6. \/ Redeem \/ Refund \/ Downgrade \/ UNCHANGED <<tenant, redeemed>>
          \/ \E x \in Cancels : WriteCancel(x)
      BY <2>1 DEF NoSettle, Next, PayStep, CreateOrder, FindOrder, Claim, RollBack, CheckCancel,
         ReadPlan, Upload, Jobs, FindDue, FindTenants, DeleteStale, Tick, Restart, vars
    <3> QED
      BY <3>2, <3>3, <3>4, <3>5, <3>6
  <2> QED
    BY <2>2, <2>3 DEF CouponsAddUp
<1> QED
  BY <1>1, <1>2

LEMMA InitCoupon == Init => CouponsAddUp
<1> SUFFICES ASSUME Init PROVE CouponsAddUp
  OBVIOUS
<1>1. PaidPacks = {}
  BY DEF Init, PaidPacks
<1>2. Cardinality(PaidPacks) = 0
  BY <1>1, FS_EmptySet
<1>3. tenant.coupons = InitCoupons /\ redeemed = 0
  BY DEF Init
<1> QED
  BY <1>2, <1>3, BoundsAssumption DEF CouponsAddUp

(* orders.service.ts:89: however many calls pay however many orders at      *)
(* once, each paid pack is credited exactly once, and every coupon is either *)
(* on the balance or spent on a review.                                     *)
THEOREM EachPackOnce == Spec => []CouponsAddUp
BY CallInvariance, InitCoupon, StepCoupons, PTL DEF Spec

-----------------------------------------------------------------------------
(* Paid months *)

(* A commit of a subscription adds its whole period to what was paid. *)
LEMMA SettleMonths ==
  ASSUME CallInv, NEW p \in Pays, Settle(p), NEW plan
  PROVE  LET item == order[local[p].order].item
             n == Cardinality(PaidMonths(plan))
         IN /\ IsSubscription(item) /\ TargetPlan(item) = plan
                 => Cardinality(PaidMonths(plan)') = n + Period(item)
            /\ Cardinality(PaidMonths(plan)') \in Nat
            /\ n <= Cardinality(PaidMonths(plan)')
<1> DEFINE o == local[p].order
           item == order[o].item
           k == Period(item)
           new == {o} \X (1..k)
           n == Cardinality(PaidMonths(plan))
<1>1. /\ o \in Orders /\ order[o].status # "PAID" /\ order'[o].status = "PAID"
      /\ order'[o].item = item /\ item \in Items
      /\ \A q \in Orders : q # o => order'[q] = order[q]
  BY SettlePays
<1>2. k \in 0..12
  BY <1>1 DEF Period, Items
<1> HIDE DEF o, item, k
<1>3. IsFiniteSet(PaidMonths(plan)) /\ n \in Nat
  BY PaidIsFinite
<1>4. IsFiniteSet(new) /\ Cardinality(new) = k
  <2>1. 1 \in Int /\ k \in Int
    BY <1>2
  <2>2. IsFiniteSet(1..k) /\ Cardinality(1..k) = IF 1 > k THEN 0 ELSE k - 1 + 1
    BY <2>1, FS_Interval, Zenon
  <2>3. Cardinality(1..k) = k
    BY <1>2, <2>2
  <2>4. IsFiniteSet({o}) /\ Cardinality({o}) = 1
    BY FS_Singleton
  <2>5. IsFiniteSet(new) /\ Cardinality(new) = Cardinality({o}) * Cardinality(1..k)
    BY <2>2, <2>4, FS_Product
  <2> QED
    BY <1>2, <2>3, <2>4, <2>5
<1>5. ASSUME NEW m \in Orders \X (1..12)
      PROVE  /\ m \in PaidMonths(plan) => m[1] # o /\ m \in PaidMonths(plan)'
             /\ m[1] # o => (m \in PaidMonths(plan)' <=> m \in PaidMonths(plan))
             /\ m[1] = o => (m \in PaidMonths(plan)' <=>
                               IsSubscription(item) /\ TargetPlan(item) = plan /\ m[2] <= k)
  <2>1. m[1] \in Orders
    OBVIOUS
  <2> QED
    BY <1>1, <2>1 DEF PaidMonths, k
<1>6. PaidMonths(plan) \subseteq Orders \X (1..12) /\ PaidMonths(plan)' \subseteq Orders \X (1..12)
  BY DEF PaidMonths
<1>7. CASE IsSubscription(item) /\ TargetPlan(item) = plan
  <2>1. PaidMonths(plan)' = PaidMonths(plan) \cup new
    <3>1. ASSUME NEW m \in new PROVE m \in Orders \X (1..12) /\ m[1] = o /\ m[2] <= k
      BY <1>1, <1>2, <3>1
    <3>2. new \subseteq PaidMonths(plan)'
      BY <1>5, <1>7, <3>1
    <3>3. ASSUME NEW m \in PaidMonths(plan)', m[1] = o PROVE m \in new
      <4>1. m \in Orders \X (1..12) /\ m[2] <= k
        BY <1>5, <1>6, <3>3
      <4>2. m = <<m[1], m[2]>> /\ m[2] \in 1..k
        BY <1>2, <4>1
      <4> QED
        BY <3>3, <4>2
    <3> QED
      BY <1>5, <1>6, <3>2, <3>3
  <2>2. PaidMonths(plan) \cap new = {}
    BY <1>5, <1>6
  <2>3. Cardinality(PaidMonths(plan) \cup new) =
          n + Cardinality(new) - Cardinality(PaidMonths(plan) \cap new)
    BY <1>3, <1>4, FS_Union
  <2>4. Cardinality({}) = 0
    BY FS_EmptySet
  <2>5. Cardinality(PaidMonths(plan)') = n + k
    <3>1. Cardinality(PaidMonths(plan)') = Cardinality(PaidMonths(plan) \cup new)
      BY <2>1
    <3>2. Cardinality(PaidMonths(plan) \cap new) = 0
      BY <2>2, <2>4
    <3> HIDE DEF n, new
    <3> QED
      BY <1>2, <1>3, <1>4, <2>3, <3>1, <3>2
  <2> QED
    BY <1>2, <1>3, <2>5 DEF o, item, k
<1>8. CASE ~(IsSubscription(item) /\ TargetPlan(item) = plan)
  <2>1. PaidMonths(plan)' = PaidMonths(plan)
    BY <1>5, <1>6, <1>8
  <2> QED
    BY <1>3, <1>8, <2>1 DEF o, item, k
<1> QED
  BY <1>7, <1>8

(* The date that a commit of a subscription writes. *)
LEMMA SettleDate ==
  ASSUME CallInv, ReadsArePaid, NEW p \in Pays, Settle(p),
         IsSubscription(order[local[p].order].item),
         NEW plan, plan = TargetPlan(order[local[p].order].item)
  PROVE  tenant'.plan = plan /\ tenant'.expires <= month + Cardinality(PaidMonths(plan)')
<1> DEFINE l == local[p]
           item == order[l.order].item
           n == Cardinality(PaidMonths(plan))
<1>1. l.order \in Orders /\ l.now <= month
  BY DEF CallInv, PaysHoldOrders, Settle
<1>2. /\ item \in Items /\ l.now \in Nat /\ l.expires \in Nat /\ month \in Nat
      /\ n \in Nat /\ plan \in Plans \ {"FREE"} /\ Period(item) \in Nat
  BY <1>1, PaidIsFinite DEF CallInv, TypeOK, Calls, TargetPlan, Period, Plans
<1>3. tenant'.plan = plan /\ tenant'.expires = Base(l, item) + Period(item)
  BY DEF Settle, Effect, CallInv, TypeOK
<1>4. Cardinality(PaidMonths(plan)') = n + Period(item)
  BY SettleMonths
<1>5. l.plan = plan => l.expires <= month + n
  BY <1>2 DEF ReadsArePaid, Settle
<1>6. plan = TargetPlan(item)
  OBVIOUS
<1> HIDE DEF l, item, n
<1>7. Base(l, item) \in Nat /\ Base(l, item) <= month + n
  BY <1>1, <1>2, <1>5, <1>6 DEF Base
<1> QED
  BY <1>2, <1>3, <1>4, <1>7

LEMMA SettleMonthsInv ==
  ASSUME CallInv, MonthsInv, NEW p \in Pays, Settle(p)
  PROVE  MonthsInv'
<1> USE DEF MonthsInv
<1>1. month' = month /\ month \in Nat /\ tenant.expires \in Nat
  BY DEF Settle, CallInv, TypeOK
<1>2. ASSUME NEW plan
      PROVE  /\ Cardinality(PaidMonths(plan)) <= Cardinality(PaidMonths(plan)')
             /\ Cardinality(PaidMonths(plan)) \in Nat
             /\ Cardinality(PaidMonths(plan)') \in Nat
  BY SettleMonths, PaidIsFinite
<1>3. PlanIsPaid'
  <2>1. SUFFICES ASSUME NEW plan \in Plans \ {"FREE"}, tenant'.plan = plan
                 PROVE  tenant'.expires <= month + Cardinality(PaidMonths(plan)')
    BY <1>1 DEF PlanIsPaid
  <2>2. CASE IsSubscription(order[local[p].order].item)
    <3>1. \A x : x = TargetPlan(order[local[p].order].item) =>
            tenant'.plan = x /\ tenant'.expires <= month + Cardinality(PaidMonths(x)')
      BY <2>2, SettleDate
    <3> QED
      BY <2>1, <3>1
  <2>3. CASE ~IsSubscription(order[local[p].order].item)
    <3>1. tenant'.plan = tenant.plan /\ tenant'.expires = tenant.expires
      BY <2>3 DEF Settle, Effect, CallInv, TypeOK
    <3>2. tenant.expires <= month + Cardinality(PaidMonths(plan))
      BY <2>1, <3>1 DEF PlanIsPaid
    <3> QED
      BY <1>1, <1>2, <3>1, <3>2
  <2> QED
    BY <2>2, <2>3
<1>4. ReadsArePaid'
  <2>1. SUFFICES ASSUME NEW plan \in Plans \ {"FREE"}, NEW q \in Pays,
                        pc'[q] = "settle", local'[q].plan = plan
                 PROVE  local'[q].expires <= month + Cardinality(PaidMonths(plan)')
    BY <1>1 DEF ReadsArePaid
  <2>2. pc[q] = "settle" /\ local'[q] = local[q] /\ local[q].expires \in Nat
    BY <2>1 DEF Settle, Return, Goto, CallInv, TypeOK, Calls
  <2>3. local[q].expires <= month + Cardinality(PaidMonths(plan))
    BY <2>1, <2>2 DEF ReadsArePaid
  <2> QED
    BY <1>1, <1>2, <2>2, <2>3
<1> QED
  BY <1>3, <1>4

(* A transaction that is under way after a step had read what it holds     *)
(* before it, or read the tenant in it.                                    *)
LEMMA ReadsAreOfTheTenant ==
  ASSUME CallInv, NoSettle, NEW q \in Pays, pc'[q] = "settle"
  PROVE  \/ pc[q] = "settle" /\ local'[q].plan = local[q].plan /\ local'[q].expires = local[q].expires
         \/ local'[q].plan = tenant.plan /\ local'[q].expires = tenant.expires
<1> DEFINE Goal ==
      \/ (pc[q] = "settle" /\ local'[q].plan = local[q].plan /\ local'[q].expires = local[q].expires)
      \/ (local'[q].plan = tenant.plan /\ local'[q].expires = tenant.expires)
<1>0. q \in Calls /\ pc \in [Calls -> PCs] /\ local \in [Calls -> Locals]
  BY DEF CallInv, TypeOK, Calls, Locals
<1>1. ASSUME NEW p \in Pays, FindOrder(p) \/ Claim(p) \/ RollBack(p) PROVE Goal
  <2>1. PICK l \in Locals :
           /\ local' = [local EXCEPT ![p] = l]
           /\ \/ pc' = [pc EXCEPT ![p] = "claim"]
              \/ /\ pc' = [pc EXCEPT ![p] = "settle"]
                 /\ l.plan = tenant.plan /\ l.expires = tenant.expires
              \/ pc' = [pc EXCEPT ![p] = "idle"]
    BY <1>1, PayLocal
  <2>2. CASE q = p
    BY <1>0, <2>1, <2>2
  <2>3. CASE q # p
    <3>1. pc'[q] = pc[q] /\ local'[q] = local[q]
      BY <1>0, <2>1, <2>3
    <3> QED
      BY <3>1
  <2> QED
    BY <2>2, <2>3
<1>2. ASSUME NEW o \in Orders, CreateOrder(o) PROVE Goal
  BY <1>0, <1>2 DEF CreateOrder, Goto
<1>3. ASSUME NEW x \in Cancels, CheckCancel(x) \/ WriteCancel(x) PROVE Goal
  BY <1>0, <1>3 DEF CheckCancel, WriteCancel, Goto
<1>4. ASSUME NEW c \in Contracts, ReadPlan(c) \/ Upload(c) PROVE Goal
  <2>1. q # c
    BY CallsDistinct
  <2>2. pc'[q] = pc[q] /\ local'[q] = local[q]
    BY <1>0, <1>4, <2>1 DEF ReadPlan, Upload, Goto
  <2> QED
    BY <2>2
<1>5. ASSUME UNCHANGED <<pc, local>> PROVE Goal
  BY <1>5
<1>6. Jobs \/ Redeem \/ Refund \/ Tick \/ Restart \/ UNCHANGED vars => UNCHANGED <<pc, local>>
  BY DEF Jobs, FindDue, Downgrade, FindTenants, DeleteStale, Redeem, Refund, Tick, Restart, vars
<1> HIDE DEF Goal
<1>7. Goal
  BY <1>1, <1>2, <1>3, <1>4, <1>5, <1>6 DEF NoSettle, Next, PayStep
<1> QED
  BY <1>7 DEF Goal

(* Any other step leaves what is paid. *)
LEMMA NoSettleMonthsInv ==
  ASSUME CallInv, MonthsInv, NoSettle
  PROVE  MonthsInv'
<1> USE DEF MonthsInv
<1>1. \A plan : PaidMonths(plan)' = PaidMonths(plan) /\ Cardinality(PaidMonths(plan)) \in Nat
  BY NoSettlePays, SamePaidSets, PaidIsFinite
<1>2. month \in Nat /\ month' \in Nat /\ month <= month' /\ tenant.expires \in Nat
  <2>1. month \in Nat /\ tenant.expires \in Nat
    BY DEF CallInv, TypeOK
  <2>2. month' = month \/ month' = month + 1
    BY DEF NoSettle, Next, PayStep, CreateOrder, FindOrder, Claim, RollBack, CheckCancel,
       WriteCancel, ReadPlan, Upload, Jobs, FindDue, Downgrade, FindTenants, DeleteStale, Redeem,
       Refund, Tick, Restart, vars
  <2> QED
    BY <2>1, <2>2
<1>3. tenant'.plan = "FREE" \/ (tenant'.plan = tenant.plan /\ tenant'.expires = tenant.expires)
  <2>1. tenant \in [plan: Plans, workspace: {"PERSONAL", "TEAM"}, expires: Nat,
                    cancelling: BOOLEAN, coupons: Nat]
    BY DEF CallInv, TypeOK
  <2>2. CASE Redeem \/ Refund \/ Downgrade \/ \E x \in Cancels : WriteCancel(x)
    BY <2>1, <2>2 DEF Redeem, Refund, Downgrade, WriteCancel
  <2>3. CASE UNCHANGED tenant
    BY <2>3
  <2>4. \/ Redeem \/ Refund \/ Downgrade \/ UNCHANGED tenant
        \/ \E x \in Cancels : WriteCancel(x)
    BY DEF NoSettle, Next, PayStep, CreateOrder, FindOrder, Claim, RollBack, CheckCancel,
       ReadPlan, Upload, Jobs, FindDue, FindTenants, DeleteStale, Tick, Restart, vars
  <2> QED
    BY <2>2, <2>3, <2>4
<1>4. PlanIsPaid'
  <2>1. SUFFICES ASSUME NEW plan \in Plans \ {"FREE"}, tenant'.plan = plan
                 PROVE  tenant'.expires <= month' + Cardinality(PaidMonths(plan)')
    BY DEF PlanIsPaid
  <2>2. tenant'.expires = tenant.expires /\ tenant.expires <= month + Cardinality(PaidMonths(plan))
    BY <1>3, <2>1 DEF PlanIsPaid
  <2> QED
    BY <1>1, <1>2, <2>2
<1>5. ReadsArePaid'
  <2>1. SUFFICES ASSUME NEW plan \in Plans \ {"FREE"}, NEW q \in Pays,
                        pc'[q] = "settle", local'[q].plan = plan
                 PROVE  local'[q].expires <= month' + Cardinality(PaidMonths(plan)')
    BY DEF ReadsArePaid
  <2>2. local'[q].expires <= month + Cardinality(PaidMonths(plan))
    BY <2>1, ReadsAreOfTheTenant DEF PlanIsPaid, ReadsArePaid
  <2>3. local'[q].expires \in Nat
    BY <2>1, <1>2, ReadsAreOfTheTenant DEF CallInv, TypeOK, Calls
  <2> QED
    BY <1>1, <1>2, <2>2, <2>3
<1> QED
  BY <1>4, <1>5

LEMMA InitMonths == Init => MonthsInv
<1> SUFFICES ASSUME Init PROVE MonthsInv
  OBVIOUS
<1>1. tenant.expires = 0 /\ month = 1
  BY DEF Init, Null
<1>2. \A plan : Cardinality(PaidMonths(plan)) \in Nat
  BY PaidIsFinite
<1>3. ReadsArePaid
  BY DEF Init, ReadsArePaid, Calls
<1> QED
  BY <1>1, <1>2, <1>3 DEF MonthsInv, PlanIsPaid

LEMMA StepMonths == CallInv /\ MonthsInv /\ [Next]_vars => MonthsInv'
<1> SUFFICES ASSUME CallInv, MonthsInv, [Next]_vars PROVE MonthsInv'
  OBVIOUS
<1>1. CASE \E p \in Pays : Settle(p)
  BY <1>1, SettleMonthsInv
<1>2. CASE NoSettle
  BY <1>2, NoSettleMonthsInv
<1> QED
  BY <1>1, <1>2 DEF NoSettle

(* orders.service.ts:215: with any number of payments that read the tenant  *)
(* before others commit, a paid plan never outlasts the months paid for it. *)
THEOREM PaidTimeIsBounded == Spec => []NoFreeMonths
<1>1. Spec => []MonthsInv
  BY CallInvariance, InitMonths, StepMonths, PTL DEF Spec
<1>2. CallInv /\ MonthsInv => NoFreeMonths
  BY DEF CallInv, TypeOK, MonthsInv, PlanIsPaid, NoFreeMonths
<1> QED
  BY <1>1, <1>2, CallInvariance, PTL

-----------------------------------------------------------------------------
(* Renewals, expiry and records *)

(* orders.service.ts:215: a payment adds its whole period to the plan it    *)
(* renews, unless another call changed the tenant after it was read.        *)
THEOREM RenewalsKeepTime == Spec => RenewalKeepsTime
<1>1. ASSUME CallInv, NEW p \in Pays, Settle(p),
             tenant.plan # "FREE", tenant'.plan = tenant.plan,
             local[p].plan = tenant.plan, local[p].expires = tenant.expires
      PROVE  tenant'.expires >= tenant.expires + Period(order[local[p].order].item)
  <2> DEFINE l == local[p]  item == order[l.order].item
  <2>1. /\ item \in Items /\ l.now \in Nat /\ l.expires \in Nat
        /\ tenant \in [plan: Plans, workspace: {"PERSONAL", "TEAM"}, expires: Nat,
                       cancelling: BOOLEAN, coupons: Nat]
    BY <1>1 DEF CallInv, PaysHoldOrders, Settle, TypeOK, Calls
  <2>2. tenant' = Effect(l, item)
    BY <1>1 DEF Settle
  <2>3. Period(item) \in Nat /\ Base(l, item) \in Nat
    BY <2>1 DEF Period, Base
  <2>4. CASE IsSubscription(item)
    <3>1. tenant'.plan = TargetPlan(item) /\ tenant'.expires = Base(l, item) + Period(item)
      BY <2>1, <2>2, <2>4 DEF Effect
    <3>2. l.plan = TargetPlan(item)
      BY <1>1, <3>1
    <3>3. Base(l, item) >= l.expires
      BY <2>1, <3>2 DEF Base
    <3> HIDE DEF l, item
    <3>4. l.expires = tenant.expires
      BY <1>1 DEF l
    <3>5. tenant'.expires >= tenant.expires + Period(item)
      BY <2>1, <2>3, <3>1, <3>3, <3>4
    <3> QED
      BY <3>5 DEF l, item
  <2>5. CASE ~IsSubscription(item)
    <3>1. tenant'.expires = tenant.expires /\ Period(item) = 0
      BY <2>1, <2>2, <2>5 DEF Effect, IsSubscription, Period
    <3> QED
      BY <2>1, <3>1
  <2> QED
    BY <2>4, <2>5
<1>2. CallInv /\ [Next]_vars =>
        [\A p \in Pays :
           (/\ Settle(p)
            /\ tenant.plan # "FREE" /\ tenant'.plan = tenant.plan
            /\ local[p].plan = tenant.plan /\ local[p].expires = tenant.expires)
           => tenant'.expires >= tenant.expires + Period(order[local[p].order].item)]_vars
  BY <1>1
<1> QED
  BY <1>2, CallInvariance, PTL DEF Spec, RenewalKeepsTime

LEMMA InitDue == Init => DueIsPast
BY DEF Init, DueIsPast

LEMMA StepDue == CallInv /\ DueIsPast /\ [Next]_vars => DueIsPast'
<1> SUFFICES ASSUME CallInv, DueIsPast, [Next]_vars PROVE DueIsPast'
  OBVIOUS
<1>1. month \in Nat /\ dueDate \in Nat
  BY DEF CallInv, TypeOK
<1>2. CASE FindDue
  BY <1>2 DEF FindDue, Due, DueIsPast
<1>3. CASE Downgrade \/ Restart
  BY <1>3 DEF Downgrade, Restart, DueIsPast
<1>4. CASE UNCHANGED <<expiry, dueDate>> /\ (month' = month \/ month' = month + 1)
  BY <1>1, <1>4 DEF DueIsPast
<1>5. \/ FindDue \/ Downgrade \/ Restart
      \/ UNCHANGED <<expiry, dueDate>> /\ (month' = month \/ month' = month + 1)
  BY DEF Next, PayStep, CreateOrder, FindOrder, Claim, Settle, RollBack, CheckCancel, WriteCancel,
     ReadPlan, Upload, Jobs, FindTenants, DeleteStale, Redeem, Refund, Tick, vars, jobs
<1> QED
  BY <1>2, <1>3, <1>4, <1>5

(* subscription-lifecycle.service.ts:3: a tenant loses its plan only after  *)
(* its date, or when the date was moved after the job had read it.          *)
THEOREM PlansLastToTheirDate == Spec => KeptUntilExpiry
<1>1. Spec => []DueIsPast
  BY CallInvariance, InitDue, StepDue, PTL DEF Spec
<1>2. CallInv /\ DueIsPast /\ [Next]_vars =>
        [tenant.plan # "FREE" /\ tenant'.plan = "FREE" =>
           \/ tenant.expires # Null /\ tenant.expires < month
           \/ tenant.expires # dueDate]_vars
  <2> SUFFICES ASSUME CallInv, DueIsPast, [Next]_vars, tenant.plan # "FREE", tenant'.plan = "FREE"
               PROVE  Downgrade
    BY DEF Downgrade, DueIsPast
  <2>1. tenant \in [plan: Plans, workspace: {"PERSONAL", "TEAM"}, expires: Nat,
                    cancelling: BOOLEAN, coupons: Nat]
    BY DEF CallInv, TypeOK
  <2>2. ASSUME NEW p \in Pays, Settle(p) PROVE FALSE
    <3>1. tenant' = Effect(local[p], order[local[p].order].item)
      BY <2>2 DEF Settle
    <3>2. tenant'.plan = tenant.plan \/ tenant'.plan \in {"TEAM", "PERSONAL"}
      BY <2>1, <3>1 DEF Effect, TargetPlan
    <3> QED
      BY <3>2
  <2>3. ASSUME Redeem \/ Refund \/ \E x \in Cancels : WriteCancel(x) PROVE FALSE
    BY <2>1, <2>3 DEF Redeem, Refund, WriteCancel
  <2>4. tenant' # tenant
    OBVIOUS
  <2> QED
    BY <2>2, <2>3, <2>4 DEF Next, PayStep, CreateOrder, FindOrder, Claim, RollBack, CheckCancel,
       ReadPlan, Upload, Jobs, FindDue, FindTenants, DeleteStale, Tick, Restart, vars
<1> QED
  BY <1>1, <1>2, CallInvariance, PTL DEF Spec, KeptUntilExpiry

LEMMA StepRecords == CallInv /\ PaidIsUndated /\ [Next]_vars => PaidIsUndated'
<1> SUFFICES ASSUME CallInv, PaidIsUndated, [Next]_vars PROVE PaidIsUndated'
  OBVIOUS
<1>1. ASSUME NEW c \in Contracts, Upload(c) PROVE PaidIsUndated'
  BY <1>1 DEF Upload, RetainUntil, PaidIsUndated, CallInv, TypeOK
<1>2. CASE DeleteStale
  <2>1. \A c \in Contracts : file'[c].paid = file[c].paid /\ (file[c].paid => file'[c] = file[c])
    BY <1>2 DEF DeleteStale, Stale, PaidIsUndated, CallInv, TypeOK
  <2> QED
    BY <2>1 DEF PaidIsUndated
<1>3. CASE UNCHANGED file
  BY <1>3 DEF PaidIsUndated
<1>4. DeleteStale \/ UNCHANGED file \/ \E c \in Contracts : Upload(c)
  BY DEF Next, PayStep, CreateOrder, FindOrder, Claim, Settle, RollBack, CheckCancel, WriteCancel,
     ReadPlan, Jobs, FindDue, Downgrade, FindTenants, Redeem, Refund, Tick, Restart, vars
<1> QED
  BY <1>1, <1>2, <1>3, <1>4

(* contract.controller.ts:64: the cleanup never removes a contract that was *)
(* uploaded under a paid plan, whatever the plan is by then.                *)
THEOREM PaidRecordsStay == Spec => []PaidRecordsAreKept
<1>1. Init => PaidIsUndated
  BY DEF Init, PaidIsUndated
<1>2. Spec => []PaidIsUndated
  BY <1>1, CallInvariance, StepRecords, PTL DEF Spec
<1>3. PaidIsUndated => PaidRecordsAreKept
  BY DEF PaidIsUndated, PaidRecordsAreKept
<1> QED
  BY <1>2, <1>3, PTL
=============================================================================
