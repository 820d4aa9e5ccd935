------------------------------ MODULE Billing -------------------------------
(***************************************************************************)
(* The plan of one tenant: what is ordered, paid, cancelled and expires,   *)
(* and what happens to the contracts it uploaded meanwhile.                *)
(*                                                                         *)
(*   orders.service.ts                   createOrder, mockPay,             *)
(*                                       cancelSubscription                *)
(*   subscription-lifecycle.service.ts   expireDuePlans, daily             *)
(*   retention.service.ts                cleanupExpired, daily             *)
(*   contract.controller.ts              buildCreateData                   *)
(*                                                                         *)
(* A call is one HTTP handler; handlers and the two daily jobs interleave  *)
(* at every await. Time is counted in months from month 1, so that a       *)
(* contract kept for seven days is past its date in the next month, and    *)
(* 0 stands for a null date. The transaction of mockPay works at READ      *)
(* COMMITTED: what it writes is seen when it commits, the order it claimed *)
(* is locked until then, and it reads the tenant without a lock.           *)
(*                                                                         *)
(* A definition that stands before another one and adds a word to its name *)
(* is the form a plausible bug would give it (PROJECT.json, "mutants");    *)
(* no action uses it.                                                      *)
(***************************************************************************)
EXTENDS Integers, FiniteSets

CONSTANTS
  Orders,      \* calls of createOrder, and the rows they create
  Pays,        \* clients that call mockPay, one call after the other
  Cancels,     \* clients that call cancelSubscription
  Contracts,   \* uploads, and the rows they create
  CouponQty,   \* COUPON_PACK_QTY
  InitCoupons, \* coupons the tenant starts with
  MaxMonth     \* bound: the last month

Items == {"PERSONAL_MONTHLY", "PERSONAL_YEARLY", "TEAM_MONTHLY", "COUPON_PACK"}
Plans == {"FREE", "PERSONAL", "TEAM"}
Calls == Orders \cup Pays \cup Cancels \cup Contracts
None == "none"
Null == 0

ASSUME CallsDistinct ==
  /\ Orders \cap Pays = {}    /\ Orders \cap Cancels = {}    /\ Orders \cap Contracts = {}
  /\ Pays \cap Cancels = {}   /\ Pays \cap Contracts = {}    /\ Cancels \cap Contracts = {}
ASSUME OrdersAssumption == IsFiniteSet(Orders) /\ None \notin Orders
ASSUME BoundsAssumption == CouponQty \in Nat /\ InitCoupons \in Nat /\ MaxMonth \in Nat

VARIABLES
  tenant,   \* the row: plan, workspace (workspaceType), expires (planExpiresAt), cancelling
            \* (cancelAtPeriodEnd), coupons (couponBalance)
  order,    \* order[o]: item and status
  file,     \* file[c]: status and until (retainUntil) of contract c; history: paid,
            \* whether it was uploaded under a paid plan
  month,    \* the clock
  pc,       \* where each call stands
  local,    \* local[x]: what call x holds: its order, its "now", the plan and date it read
  expiry,   \* expireDuePlans: "idle", or "due" with the tenant among those it found
  dueDate,  \* the date it was found with
  cleanup,  \* cleanupExpired: "idle", or "free" with the tenant among those it found
  cleanNow, \* its "now"
  redeemed, \* coupons spent on reviews
  saved     \* history: contracts the tenant had when it bought a subscription, while no
            \* cleanup was under way

jobs == <<expiry, dueDate, cleanup, cleanNow>>
vars == <<tenant, order, file, month, pc, local, jobs, redeemed, saved>>

NoLocals == [order |-> None, now |-> Null, plan |-> "FREE", expires |-> Null]

Goto(x, label) == pc' = [pc EXCEPT ![x] = label]

(* the call answers, and its client may make another one *)
Return(x) == Goto(x, "idle") /\ local' = [local EXCEPT ![x] = NoLocals]

(* register: a personal workspace starts free, a team workspace on the team *)
(* plan with no date                                                        *)
Init ==
  /\ \E persona \in {"PERSONAL", "TEAM"} :
       tenant = [plan |-> IF persona = "TEAM" THEN "TEAM" ELSE "FREE",
                 workspace |-> persona, expires |-> Null, cancelling |-> FALSE,
                 coupons |-> InitCoupons]
  /\ order = [o \in Orders |-> [item |-> "COUPON_PACK", status |-> "NEW"]]
  /\ file = [c \in Contracts |-> [status |-> "NEW", until |-> Null, paid |-> FALSE]]
  /\ month = 1
  /\ pc = [x \in Calls |-> "idle"]
  /\ local = [x \in Calls |-> NoLocals]
  /\ expiry = "idle"
  /\ dueDate = Null
  /\ cleanup = "idle"
  /\ cleanNow = Null
  /\ redeemed = 0
  /\ saved = {}

-----------------------------------------------------------------------------
(* createOrder *)

IsSubscription(item) == item # "COUPON_PACK"
TargetPlan(item) == IF item = "TEAM_MONTHLY" THEN "TEAM" ELSE "PERSONAL"
Period(item) == CASE item = "PERSONAL_YEARLY" -> 12
                  [] item = "COUPON_PACK"     -> 0
                  [] OTHER                    -> 1

Purchasable(item) == IsSubscription(item) => tenant.workspace # "TEAM"

(* The tenant is read and assertPurchasable refuses anything else; the row   *)
(* that order.create then inserts is one that is paid some time later, so   *)
(* that the await in between is left out.                                   *)
CreateOrder(o) ==
  /\ pc[o] = "idle"
  /\ \E item \in Items :
       /\ Purchasable(item)
       /\ order' = [order EXCEPT ![o] = [item |-> item, status |-> "PENDING"]]
  /\ Goto(o, "done")
  /\ UNCHANGED <<tenant, file, month, local, jobs, redeemed, saved>>

-----------------------------------------------------------------------------
(* mockPay *)

(* findFirst, the tests on the status, and the "now" of the whole call *)
FindOrder(p) ==
  /\ pc[p] = "idle"
  /\ \E o \in Orders :
       /\ order[o].status = "PENDING"   \* otherwise the call is refused
       /\ local' = [local EXCEPT ![p] = [@ EXCEPT !.order = o, !.now = month]]
  /\ Goto(p, "claim")
  /\ UNCHANGED <<tenant, order, file, month, jobs, redeemed, saved>>

Locked(o) == \E p \in Pays : pc[p] = "settle" /\ local[p].order = o

ClaimMatchesAny(o) == TRUE
ClaimMatches(o) == order[o].status = "PENDING"

(* updateMany where PENDING: it waits for a payment of the same order that  *)
(* is under way, and one that matches nothing rolls back. Then the tenant   *)
(* is read; nobody else sees the claim before that, so that the await in    *)
(* between is left out.                                                     *)
Claim(p) ==
  /\ pc[p] = "claim"
  /\ ~Locked(local[p].order)
  /\ IF ClaimMatches(local[p].order)
     THEN /\ local' = [local EXCEPT ![p] = [@ EXCEPT !.plan = tenant.plan, !.expires = tenant.expires]]
          /\ Goto(p, "settle")
     ELSE Return(p)
  /\ UNCHANGED <<tenant, order, file, month, jobs, redeemed, saved>>

BaseNow(l, item) == l.now

(* a renewal goes on from the date that was read, anything else from now *)
Base(l, item) ==
  IF l.plan = TargetPlan(item) /\ l.expires > l.now THEN l.expires ELSE l.now

(* buildEffectPatch, applied *)
Effect(l, item) ==
  IF IsSubscription(item)
  THEN [tenant EXCEPT !.plan = TargetPlan(item),
                      !.workspace = IF TargetPlan(item) = "TEAM" THEN "TEAM" ELSE "PERSONAL",
                      !.expires = Base(l, item) + Period(item),
                      !.cancelling = FALSE]
  ELSE [tenant EXCEPT !.coupons = @ + CouponQty]

Kept == {c \in Contracts : file[c].status = "KEPT"}

(* tenant.update and the commit, which makes the claim visible too *)
Settle(p) ==
  /\ pc[p] = "settle"
  /\ LET o == local[p].order IN
       /\ order' = [order EXCEPT ![o].status = "PAID"]
       /\ tenant' = Effect(local[p], order[o].item)
       /\ saved' = IF IsSubscription(order[o].item) /\ cleanup = "idle"
                   THEN saved \cup Kept ELSE saved
  /\ Return(p)
  /\ UNCHANGED <<file, month, jobs, redeemed>>

(* the transaction fails or times out: the order is PENDING as before *)
RollBack(p) ==
  /\ pc[p] = "settle"
  /\ Return(p)
  /\ UNCHANGED <<tenant, order, file, month, jobs, redeemed, saved>>

-----------------------------------------------------------------------------
(* cancelSubscription *)

Cancellable == tenant.plan = "PERSONAL" /\ tenant.expires > month /\ ~tenant.cancelling

CheckCancel(x) ==
  /\ pc[x] = "idle"
  /\ Cancellable
  /\ Goto(x, "cancel")
  /\ UNCHANGED <<tenant, order, file, month, local, jobs, redeemed, saved>>

WriteCancel(x) ==
  /\ pc[x] = "cancel"
  /\ tenant' = [tenant EXCEPT !.cancelling = TRUE]
  /\ Goto(x, "idle")
  /\ UNCHANGED <<order, file, month, local, jobs, redeemed, saved>>

-----------------------------------------------------------------------------
(* expireDuePlans, one job at a time *)

DueIfCancelled(t) ==
  t.plan # "FREE" /\ t.cancelling /\ t.expires # Null /\ t.expires < month
DueNullToo(t) == t.plan # "FREE" /\ t.expires < month
Due(t) == t.plan # "FREE" /\ t.expires # Null /\ t.expires < month

FindDue ==
  /\ expiry = "idle"
  /\ Due(tenant)
  /\ expiry' = "due"
  /\ dueDate' = tenant.expires
  /\ UNCHANGED <<tenant, order, file, month, pc, local, cleanup, cleanNow, redeemed, saved>>

(* an update by id alone, after the tenants before it on the list *)
Downgrade ==
  /\ expiry = "due"
  /\ tenant' = [tenant EXCEPT !.plan = "FREE", !.workspace = "PERSONAL", !.cancelling = FALSE]
  /\ expiry' = "idle"
  /\ dueDate' = Null
  /\ UNCHANGED <<order, file, month, pc, local, cleanup, cleanNow, redeemed, saved>>

-----------------------------------------------------------------------------
(* uploads, and cleanupExpired *)

IsDeep(plan) == plan # "FREE"

RetainSevenDays(plan) == month
RetainUntil(plan) == IF IsDeep(plan) THEN Null ELSE month

(* buildCreateData reads the plan; contract.create *)
ReadPlan(c) ==
  /\ pc[c] = "idle"
  /\ local' = [local EXCEPT ![c].plan = tenant.plan]
  /\ Goto(c, "create")
  /\ UNCHANGED <<tenant, order, file, month, jobs, redeemed, saved>>

Upload(c) ==
  /\ pc[c] = "create"
  /\ file' = [file EXCEPT ![c] = [status |-> "KEPT", until |-> RetainUntil(local[c].plan),
                                  paid |-> IsDeep(local[c].plan)]]
  /\ Goto(c, "done")
  /\ local' = [local EXCEPT ![c] = NoLocals]
  /\ UNCHANGED <<tenant, order, month, jobs, redeemed, saved>>

Stale(c) == file[c].status = "KEPT" /\ file[c].until # Null /\ file[c].until < cleanNow

FindTenants ==
  /\ cleanup = "idle"
  /\ tenant.plan = "FREE"
  /\ cleanup' = "free"
  /\ cleanNow' = month
  /\ UNCHANGED <<tenant, order, file, month, pc, local, expiry, dueDate, redeemed, saved>>

(* deleteMany by the ids that were found *)
DeleteStale ==
  /\ cleanup = "free"
  /\ file' = [c \in Contracts |-> IF Stale(c) THEN [file[c] EXCEPT !.status = "GONE", !.until = Null]
                                             ELSE file[c]]
  /\ cleanup' = "idle"
  /\ cleanNow' = Null
  /\ UNCHANGED <<tenant, order, month, pc, local, expiry, dueDate, redeemed, saved>>

-----------------------------------------------------------------------------
(* What else happens *)

RedeemableUnconditionally(t) == TRUE
Redeemable(t) == t.coupons > 0

(* startReviewStream charges a coupon with a conditional decrement *)
Redeem ==
  /\ Redeemable(tenant)
  /\ tenant' = [tenant EXCEPT !.coupons = @ - 1]
  /\ redeemed' = redeemed + 1
  /\ UNCHANGED <<order, file, month, pc, local, jobs, saved>>

(* and gives it back when the review could not be started *)
Refund ==
  /\ redeemed > 0
  /\ tenant' = [tenant EXCEPT !.coupons = @ + 1]
  /\ redeemed' = redeemed - 1
  /\ UNCHANGED <<order, file, month, pc, local, jobs, saved>>

Tick ==
  /\ month < MaxMonth
  /\ month' = month + 1
  /\ UNCHANGED <<tenant, order, file, pc, local, jobs, redeemed, saved>>

(* The process restarts and the jobs start over. A handler that is lost is  *)
(* one that takes no further step, or whose transaction rolls back.         *)
Restart ==
  /\ expiry' = "idle"
  /\ dueDate' = Null
  /\ cleanup' = "idle"
  /\ cleanNow' = Null
  /\ UNCHANGED <<tenant, order, file, month, pc, local, redeemed, saved>>

PayStep(p) == FindOrder(p) \/ Claim(p) \/ Settle(p) \/ RollBack(p)

Jobs == FindDue \/ Downgrade \/ FindTenants \/ DeleteStale

Next ==
  \/ \E o \in Orders : CreateOrder(o)
  \/ \E p \in Pays : PayStep(p)
  \/ \E x \in Cancels : CheckCancel(x) \/ WriteCancel(x)
  \/ \E c \in Contracts : ReadPlan(c) \/ Upload(c)
  \/ Jobs
  \/ Redeem \/ Refund
  \/ Tick
  \/ Restart

Spec == Init /\ [][Next]_vars

(* The queue runs both jobs every day, and again after a restart; restarts  *)
(* do not interrupt a job each time it runs.                                *)
FairSpec == Spec /\ WF_vars(FindDue) /\ SF_vars(Downgrade)

-----------------------------------------------------------------------------
(* Properties *)

PCs == {"idle", "create", "claim", "settle", "cancel", "done"}

(* Rows and locals have the types of their columns; no interleaving of      *)
(* payments, reviews and refunds overdraws the coupons.                     *)
TypeOK ==
  /\ tenant \in [plan: Plans, workspace: {"PERSONAL", "TEAM"}, expires: Nat,
                cancelling: BOOLEAN, coupons: Nat]
  /\ order \in [Orders -> [item: Items, status: {"NEW", "PENDING", "PAID"}]]
  /\ file \in [Contracts -> [status: {"NEW", "KEPT", "GONE"}, until: Nat, paid: BOOLEAN]]
  /\ month \in Nat
  /\ pc \in [Calls -> PCs]
  /\ local \in [Calls -> [order: {None} \cup Orders, now: Nat, plan: Plans, expires: Nat]]
  /\ expiry \in {"idle", "due"}
  /\ dueDate \in Nat
  /\ cleanup \in {"idle", "free"}
  /\ cleanNow \in Nat
  /\ redeemed \in Nat
  /\ saved \subseteq Contracts

PaidPacks == {o \in Orders : order[o].status = "PAID" /\ order[o].item = "COUPON_PACK"}

(* orders.service.ts:89, the conditional claim: however often an order is   *)
(* paid, and whatever else buys or spends coupons meanwhile, each paid pack *)
(* is credited exactly once.                                                *)
CouponsAddUp ==
  tenant.coupons + redeemed = InitCoupons + CouponQty * Cardinality(PaidPacks)

PaidMonths(plan) ==
  {m \in Orders \X (1..12) : /\ order[m[1]].status = "PAID"
                            /\ IsSubscription(order[m[1]].item)
                            /\ TargetPlan(order[m[1]].item) = plan
                            /\ m[2] <= Period(order[m[1]].item)}

(* A paid plan never lasts longer than the months that were paid for it,    *)
(* with any number of payments that read the tenant before others commit.   *)
NoFreeMonths ==
  tenant.plan # "FREE" => tenant.expires <= month + Cardinality(PaidMonths(tenant.plan))

(* orders.service.ts:215, a renewal goes on from the date of expiry: a      *)
(* payment adds its whole period, unless another call changed the tenant    *)
(* after this one read it.                                                  *)
RenewalKeepsTime ==
  [][\A p \in Pays :
       (/\ Settle(p)
        /\ tenant.plan # "FREE" /\ tenant'.plan = tenant.plan
        /\ local[p].plan = tenant.plan /\ local[p].expires = tenant.expires)
       => tenant'.expires >= tenant.expires + Period(order[local[p].order].item)]_vars

(* subscription-lifecycle.service.ts:3, the plan is kept until its date:    *)
(* a tenant loses its plan only after that date, or when the date was moved *)
(* between the job's reading it and its writing the downgrade.              *)
KeptUntilExpiry ==
  [][tenant.plan # "FREE" /\ tenant'.plan = "FREE" =>
       \/ tenant.expires # Null /\ tenant.expires < month
       \/ tenant.expires # dueDate]_vars

PastDue == tenant.plan # "FREE" /\ tenant.expires \in 1..(month - 1)

(* An expired plan does not stay: the daily job downgrades the tenant, or a *)
(* payment renews the plan first.                                           *)
ExpiredIsDowngraded == PastDue ~> ~PastDue

(* contract.controller.ts:64, contracts of a paying tenant are kept for     *)
(* good: the cleanup never removes one that was uploaded under a paid plan, *)
(* whatever the plan is by then.                                            *)
PaidRecordsAreKept ==
  \A c \in Contracts : file[c].paid => file[c].status # "GONE"

(* retention.service.ts:3, "after an upgrade the old records are no longer  *)
(* cleaned": a contract that was there when a subscription was bought stays *)
(* there.                                                                   *)
UpgradeKeepsRecords == \A c \in saved : file[c].status # "GONE"
=============================================================================
