--------------------------- MODULE ContractReview ---------------------------
(***************************************************************************)
(* The review of a contract, from the request that starts it to the        *)
(* reviewer's verdict, for one tenant during one billing month.            *)
(*                                                                         *)
(*   contract.controller.ts   startReviewStream, decision, remove          *)
(*   review/review.agent.ts   the graph load_clauses -> rule_scan ->       *)
(*                            agent_review -> aggregate -> human_review -> *)
(*                            finalize, startReview and resumeReview       *)
(*   entitlements.service.ts  assertStartReview, countMonthlyReviews       *)
(*                                                                         *)
(* A run is one HTTP handler: a member of Requests starts a review, a      *)
(* member of Decisions posts a verdict. Handlers are interleaved at every  *)
(* await, which is where pc changes. The row of review_tasks created by    *)
(* request r is task[r], since a request creates at most one. An awaited   *)
(* call that throws has had no effect.                                     *)
(*                                                                         *)
(* A definition that stands before another one and adds a word to its name *)
(* is the form a plausible bug would give it (PROJECT.json, "mutants");    *)
(* no action uses it.                                                      *)
(***************************************************************************)
EXTENDS Integers, FiniteSets

CONSTANTS
  Requests,       \* POST contracts/:id/reviews, one element per call
  Decisions,      \* POST reviews/:taskId/decision, one element per call
  Contracts,      \* contracts that have been parsed
  Simple,         \* the contracts within the free plan's length and scenes
  Plan,           \* the tenant's plan
  MonthlyQuota,   \* PLAN_DEFS.FREE.monthlyReviewQuota
  PackQty,        \* COUPON_PACK_QTY
  InitCoupons,    \* coupons the tenant starts with
  MaxPacks,       \* bound: coupon packs bought
  MaxFaults,      \* bound: awaited calls that throw
  MaxCrashes      \* bound: restarts of the server process

Verdicts == {"APPROVED", "REJECTED"}
Runs == Requests \cup Decisions
None == "none"

ASSUME RunsAssumption == /\ Requests \cap Decisions = {}
                         /\ IsFiniteSet(Requests)
ASSUME NoneAssumption == None \notin Runs \cup Contracts
ASSUME ContractsAssumption == Simple \subseteq Contracts
ASSUME PlanAssumption == Plan \in {"FREE", "PERSONAL", "TEAM"}
ASSUME BoundsAssumption ==
  /\ MonthlyQuota \in Nat
  /\ PackQty \in Nat
  /\ InitCoupons \in Nat
  /\ MaxPacks \in Nat
  /\ MaxFaults \in Nat
  /\ MaxCrashes \in Nat

VARIABLES
  \* rows of the database
  contract,   \* contract[c]: status ("GONE": deleted), report (reportMd)
  task,       \* task[r]: NoTask or the row of review_tasks
  risks,      \* risks[r]: the tracks that have rows in risks for task r
  reviewedBy, \* reviewedBy[r]: the decision whose actions the risk rows carry
  cp,         \* cp[r]: the node PostgresSaver would continue thread r with
  balance,    \* tenant.couponBalance
  packs,      \* coupon packs paid for
  \* memory of the server process
  graph,      \* the module variable graphPromise
  pc,         \* where each run stands
  of,         \* of[p]: the contract of run p
  thread,     \* thread[p]: the task run p works on
  coupon,     \* coupon[r]: payWithCoupon
  charged,    \* charged[r]: couponCharged
  launched,   \* launched[r]: reviewLaunched
  verdict,    \* verdict[d]: finalDecision of the body
  read,       \* read[d]: the opinion finalize is about to write
  \* history and bounds
  refunded,   \* refunded[r]: the compensation was written
  initFailures, faults, crashes

rows   == <<contract, task, risks, reviewedBy, cp>>
wallet == <<balance, packs>>
locals == <<of, thread, coupon, charged, launched, verdict, read, refunded>>
env    == <<initFailures, faults, crashes>>
vars   == <<rows, wallet, graph, pc, locals, env>>

-----------------------------------------------------------------------------
(* Rows and their states *)

ContractStatus == {"READY", "REVIEWING", "WAITING_REVIEW", "COMPLETED", "GONE"}
TaskStatus == {"RUNNING", "WAITING_REVIEW"} \cup Verdicts
Reviewable == {"READY", "WAITING_REVIEW", "COMPLETED"}
Tracks == {"RULE", "AGENT"}
Unwritten == {"UNWRITTEN"}
NoTask == [status |-> "GONE", contract |-> None, isDeep |-> FALSE,
           couponUsed |-> FALSE, stats |-> Unwritten]
Opinion == [task: Requests, verdict: TaskStatus, reviewedBy: {None} \cup Decisions]
NoOpinion == [task |-> None, verdict |-> None, reviewedBy |-> None]

Exists(c) == contract[c].status # "GONE"
HasRow(t) == task[t].status # "GONE"
Deep(r) == coupon[r] \/ Plan # "FREE"

(* review_tasks of this month: countMonthlyReviews counts every row *)
MonthlyReviews == {t \in Requests : HasRow(t)}

Waiting == {"idle", "refused", "done", "failed", "manual", "killed"}
InStream == {"load", "rule", "agent", "stats", "show", "open", "save"}
AfterSse == {"redeem", "create", "graph", "mark", "finish",
             "actions", "decide", "settle", "saveDecision", "readRows", "report"}
            \cup InStream
PCs == Waiting \cup {"entitle", "tokens", "catch"} \cup AfterSse

Goto(p, label) == pc' = [pc EXCEPT ![p] = label]

Init ==
  /\ contract = [c \in Contracts |-> [status |-> "READY", report |-> NoOpinion]]
  /\ task = [r \in Requests |-> NoTask]
  /\ risks = [r \in Requests |-> {}]
  /\ reviewedBy = [r \in Requests |-> None]
  /\ cp = [r \in Requests |-> "start"]
  /\ balance = InitCoupons
  /\ packs = 0
  /\ graph = "unset"
  /\ pc = [p \in Runs |-> "idle"]
  /\ of = [p \in Runs |-> None]
  /\ thread = [p \in Runs |-> None]
  /\ coupon = [p \in Runs |-> FALSE]
  /\ charged = [p \in Runs |-> FALSE]
  /\ launched = [p \in Runs |-> FALSE]
  /\ verdict = [p \in Runs |-> None]
  /\ read = [p \in Runs |-> NoOpinion]
  /\ refunded = [p \in Runs |-> FALSE]
  /\ initFailures = 0
  /\ faults = 0
  /\ crashes = 0

-----------------------------------------------------------------------------
(* startReviewStream, up to the first event of the stream *)

(* the handler reads the contract row and checks its status *)
Receive(r) ==
  /\ pc[r] = "idle"
  /\ \E c \in Contracts, withCoupon \in BOOLEAN :
       /\ of' = [of EXCEPT ![r] = c]
       /\ coupon' = [coupon EXCEPT ![r] = withCoupon]
       /\ Goto(r, IF contract[c].status \in Reviewable THEN "entitle" ELSE "refused")
  /\ thread' = [thread EXCEPT ![r] = r]
  /\ UNCHANGED <<rows, wallet, graph, charged, launched, verdict, read, refunded, env>>

(* assertStartReview: with a coupon only its balance counts *)
WithinPlan(r) ==
  \/ Plan # "FREE"
  \/ /\ Cardinality(MonthlyReviews) < MonthlyQuota
     /\ of[r] \in Simple

Entitle(r) ==
  /\ pc[r] = "entitle"
  /\ Goto(r, IF (IF coupon[r] THEN balance > 0 ELSE WithinPlan(r))
             THEN "tokens" ELSE "refused")
  /\ UNCHANGED <<rows, wallet, graph, locals, env>>

(* quota.assert on the token budget, whose meter is not part of this module *)
TokenQuota(r) ==
  /\ pc[r] = "tokens"
  /\ Goto(r, "redeem") \/ Goto(r, "refused")
  /\ UNCHANGED <<rows, wallet, graph, locals, env>>

(* the conditional updateMany on couponBalance matches the tenant's row *)
RedeemableUnconditionally(r) == coupon[r]
Redeemable(r) == coupon[r] /\ balance > 0

(* no row was updated: the request ends without a task *)
RedeemUnnoticed(r) == FALSE
RedeemFailed(r) == coupon[r] /\ balance = 0

Redeem(r) ==
  /\ pc[r] = "redeem"
  /\ IF Redeemable(r)
     THEN /\ balance' = balance - 1
          /\ charged' = [charged EXCEPT ![r] = TRUE]
     ELSE UNCHANGED <<balance, charged>>
  /\ Goto(r, IF RedeemFailed(r) THEN "catch" ELSE "create")
  /\ UNCHANGED <<rows, packs, graph, of, thread, coupon, launched, verdict, read, refunded, env>>

(* reviewTask.create; the foreign key fails on a deleted contract *)
CreateTask(r) ==
  /\ pc[r] = "create"
  /\ IF Exists(of[r])
     THEN /\ task' = [task EXCEPT ![r] = [status |-> "RUNNING", contract |-> of[r],
                                          isDeep |-> Deep(r), couponUsed |-> coupon[r],
                                          stats |-> Unwritten]]
          /\ Goto(r, "graph")
     ELSE /\ Goto(r, "catch")
          /\ UNCHANGED task
  /\ UNCHANGED <<contract, risks, reviewedBy, cp, wallet, graph, locals, env>>

-----------------------------------------------------------------------------
(* startReview and resumeReview *)

(* getGraph: the promise is kept whether it resolves or rejects. A run on a *)
(* ready graph goes on with its own first step; a decision continues the    *)
(* thread at its checkpoint, and does nothing on a finished thread.         *)
Enter(p) ==
  IF p \in Requests THEN "mark"
  ELSE CASE cp[thread[p]] = "aggregate"    -> "stats"
         [] cp[thread[p]] = "human_review" -> "actions"
         [] cp[thread[p]] = "finalize"     -> "readRows"
         [] OTHER                          -> "finish"

GetGraph(p) ==
  /\ pc[p] = "graph"
  /\ \/ /\ graph \in {"unset", "ready"}
        /\ graph' = "ready"
        /\ Goto(p, Enter(p))
        /\ UNCHANGED initFailures
     \/ /\ graph = "unset" /\ faults < MaxFaults
        /\ graph' = "rejected"
        /\ initFailures' = initFailures + 1
        /\ Goto(p, "catch")
     \/ /\ graph = "rejected"
        /\ Goto(p, "catch")
        /\ UNCHANGED <<graph, initFailures>>
  /\ faults' = faults + (initFailures' - initFailures)
  /\ UNCHANGED <<rows, wallet, locals, crashes>>

(* contract.update throws on a deleted row *)
SetContract(p, status, next) ==
  IF Exists(of[p])
  THEN /\ contract' = [contract EXCEPT ![of[p]].status = status]
       /\ Goto(p, next)
  ELSE /\ Goto(p, "catch")
       /\ UNCHANGED contract

(* reviewTask.update throws on a deleted row *)
SetTask(p, status, next) ==
  IF HasRow(thread[p])
  THEN /\ task' = [task EXCEPT ![thread[p]].status = status]
       /\ Goto(p, next)
  ELSE /\ Goto(p, "catch")
       /\ UNCHANGED task

MarkReviewing(r) ==
  /\ pc[r] = "mark"
  /\ SetContract(r, "REVIEWING", "load")
  /\ UNCHANGED <<task, risks, reviewedBy, cp, wallet, graph, locals, env>>

(* load_clauses: a deleted contract has no clauses left *)
LoadClauses(r) ==
  /\ pc[r] = "load"
  /\ Goto(r, IF Exists(of[r]) THEN "rule" ELSE "catch")
  /\ UNCHANGED <<rows, wallet, graph, locals, env>>

(* rule_scan: clears the task's risks and writes what the rules find *)
RuleScan(r) ==
  /\ pc[r] = "rule"
  /\ IF Exists(of[r])
     THEN /\ \E found \in SUBSET {"RULE"} : risks' = [risks EXCEPT ![r] = found]
          /\ Goto(r, "agent")
     ELSE /\ Goto(r, "catch")
          /\ UNCHANGED risks
  /\ UNCHANGED <<contract, task, reviewedBy, cp, wallet, graph, locals, env>>

(* agent_review: only on the deep track; a failing batch is swallowed, so   *)
(* the node may also add nothing                                            *)
AgentReview(r) ==
  /\ pc[r] = "agent"
  /\ \E found \in SUBSET {"AGENT"} :
       /\ found # {} => Deep(r) /\ HasRow(r)
       /\ risks' = [risks EXCEPT ![r] = @ \cup found]
  /\ cp' = [cp EXCEPT ![r] = "aggregate"]
  /\ Goto(r, "stats")
  /\ UNCHANGED <<contract, task, reviewedBy, wallet, graph, locals, env>>

(* the rows that aggregate reads and counts *)
CountedRulesOnly(t) == risks[t] \cap {"RULE"}
Counted(t) == risks[t]

(* aggregate, first write: the statistics of the rows it has just read *)
WriteStats(p) ==
  /\ pc[p] = "stats"
  /\ IF HasRow(thread[p])
     THEN /\ task' = [task EXCEPT ![thread[p]].stats = Counted(thread[p])]
          /\ Goto(p, "show")
     ELSE /\ Goto(p, "catch")
          /\ UNCHANGED task
  /\ UNCHANGED <<contract, risks, reviewedBy, cp, wallet, graph, locals, env>>

ShowWaitingForgotten(p) ==
  /\ pc[p] = "show"
  /\ Goto(p, "open")
  /\ UNCHANGED <<rows, wallet, graph, locals, env>>

(* aggregate, second write: the contract shows that it waits *)
ShowWaiting(p) ==
  /\ pc[p] = "show"
  /\ SetContract(p, "WAITING_REVIEW", "open")
  /\ UNCHANGED <<task, risks, reviewedBy, cp, wallet, graph, locals, env>>

(* aggregate, third write: the task becomes open to a verdict *)
OpenTask(p) ==
  /\ pc[p] = "open"
  /\ SetTask(p, "WAITING_REVIEW", "save")
  /\ UNCHANGED <<contract, risks, reviewedBy, cp, wallet, graph, locals, env>>

(* the node at which the graph stops for the reviewer *)
InterruptTooLate == "finalize"
InterruptNode == "human_review"

(* the checkpoint after aggregate; human_review interrupts and the stream   *)
(* of the run ends                                                          *)
SaveInterrupt(p) ==
  /\ pc[p] = "save"
  /\ cp' = [cp EXCEPT ![thread[p]] = InterruptNode]
  /\ launched' = [launched EXCEPT ![p] = p \in Requests]
  /\ Goto(p, "finish")
  /\ UNCHANGED <<contract, task, risks, reviewedBy, wallet, graph, of, thread,
                 coupon, charged, verdict, read, refunded, env>>

(* tracer.run closes the trace and the handler answers *)
Finish(p) ==
  /\ pc[p] = "finish"
  /\ Goto(p, "done")
  /\ UNCHANGED <<rows, wallet, graph, locals, env>>

(* an awaited call of the try block throws *)
Throw(p) ==
  /\ faults < MaxFaults
  /\ pc[p] \in AfterSse
  /\ faults' = faults + 1
  /\ Goto(p, "catch")
  /\ UNCHANGED <<rows, wallet, graph, locals, initFailures, crashes>>

(* couponCharged && !reviewLaunched *)
RefundableByRequest(p) == coupon[p] /\ ~launched[p]
RefundableAlways(p) == charged[p]
RefundableNever(p) == FALSE
Refundable(p) == charged[p] /\ ~launched[p]

(* the catch block: a charged coupon goes back unless the review started;   *)
(* the compensation itself may fail, which is left to manual intervention.  *)
(* A decision has nothing to compensate.                                    *)
CatchError(p) ==
  /\ pc[p] = "catch"
  /\ \/ /\ Refundable(p)
        /\ balance' = balance + 1
        /\ refunded' = [refunded EXCEPT ![p] = TRUE]
        /\ Goto(p, "failed")
        /\ UNCHANGED faults
     \/ /\ Refundable(p) /\ faults < MaxFaults
        /\ faults' = faults + 1
        /\ Goto(p, "manual")
        /\ UNCHANGED <<balance, refunded>>
     \/ /\ ~Refundable(p)
        /\ Goto(p, "failed")
        /\ UNCHANGED <<balance, refunded, faults>>
  /\ UNCHANGED <<rows, packs, graph, of, thread, coupon, charged, launched,
                 verdict, read, initFailures, crashes>>

-----------------------------------------------------------------------------
(* decision: the reviewer's verdict *)

(* the handler reads the task and checks that it waits *)
Decide(d) ==
  /\ pc[d] = "idle"
  /\ \E t \in Requests, v \in Verdicts :
       /\ HasRow(t)
       /\ thread' = [thread EXCEPT ![d] = t]
       /\ of' = [of EXCEPT ![d] = task[t].contract]
       /\ verdict' = [verdict EXCEPT ![d] = v]
       /\ Goto(d, IF task[t].status = "WAITING_REVIEW" THEN "graph" ELSE "refused")
  /\ UNCHANGED <<rows, wallet, graph, coupon, charged, launched, read, refunded, env>>

(* human_review: the dispositions of the risks *)
ApplyActions(d) ==
  /\ pc[d] = "actions"
  /\ reviewedBy' = [reviewedBy EXCEPT ![thread[d]] = IF HasRow(thread[d]) THEN d ELSE @]
  /\ Goto(d, "decide")
  /\ UNCHANGED <<contract, task, risks, cp, wallet, graph, locals, env>>

(* human_review: the verdict on the task *)
WriteVerdict(d) ==
  /\ pc[d] = "decide"
  /\ SetTask(d, verdict[d], "settle")
  /\ UNCHANGED <<contract, risks, reviewedBy, cp, wallet, graph, locals, env>>

StatusAlwaysArchived(v) == "COMPLETED"
StatusAfter(v) == IF v = "APPROVED" THEN "COMPLETED" ELSE "READY"

(* human_review: the contract is archived, or sent back to be reviewed again *)
SettleContract(d) ==
  /\ pc[d] = "settle"
  /\ SetContract(d, StatusAfter(verdict[d]), "saveDecision")
  /\ UNCHANGED <<task, risks, reviewedBy, cp, wallet, graph, locals, env>>

(* the edge human_review -> finalize *)
AfterDecisionNothing == "finish"
AfterDecision == "readRows"

SaveDecision(d) ==
  /\ pc[d] = "saveDecision"
  /\ cp' = [cp EXCEPT ![thread[d]] = "finalize"]
  /\ Goto(d, AfterDecision)
  /\ UNCHANGED <<contract, task, risks, reviewedBy, wallet, graph, locals, env>>

(* finalize: reads the rows the opinion is made of *)
ReadRows(d) ==
  /\ pc[d] = "readRows"
  /\ LET t == thread[d] IN
     IF HasRow(t)
     THEN /\ read' = [read EXCEPT ![d] = [task |-> t, verdict |-> task[t].status,
                                          reviewedBy |-> reviewedBy[t]]]
          /\ Goto(d, "report")
     ELSE /\ Goto(d, "catch")
          /\ UNCHANGED read
  /\ UNCHANGED <<rows, wallet, graph, of, thread, coupon, charged, launched, verdict, refunded, env>>

(* finalize: stores the opinion on the contract; the thread is at its end *)
WriteReport(d) ==
  /\ pc[d] = "report"
  /\ IF Exists(of[d])
     THEN /\ contract' = [contract EXCEPT ![of[d]].report = read[d]]
          /\ cp' = [cp EXCEPT ![thread[d]] = "end"]
          /\ Goto(d, "finish")
     ELSE /\ Goto(d, "catch")
          /\ UNCHANGED <<contract, cp>>
  /\ UNCHANGED <<task, risks, reviewedBy, wallet, graph, locals, env>>

-----------------------------------------------------------------------------
(* What else happens to the rows *)

(* DELETE contracts/:id, and the retention sweep: tasks and risks cascade *)
Remove(c) ==
  /\ Exists(c)
  /\ contract' = [contract EXCEPT ![c] = [status |-> "GONE", report |-> NoOpinion]]
  /\ task' = [r \in Requests |-> IF task[r].contract = c THEN NoTask ELSE task[r]]
  /\ risks' = [r \in Requests |-> IF task[r].contract = c THEN {} ELSE risks[r]]
  /\ reviewedBy' = [r \in Requests |-> IF task[r].contract = c THEN None ELSE reviewedBy[r]]
  /\ UNCHANGED <<cp, wallet, graph, pc, locals, env>>

(* mockPay of a coupon pack: an atomic increment *)
BuyPack ==
  /\ packs < MaxPacks
  /\ packs' = packs + 1
  /\ balance' = balance + PackQty
  /\ UNCHANGED <<rows, graph, pc, locals, env>>

(* the server process restarts: handlers and module variables are lost *)
Crash ==
  /\ crashes < MaxCrashes
  /\ crashes' = crashes + 1
  /\ pc' = [p \in Runs |-> IF pc[p] \in Waiting THEN pc[p] ELSE "killed"]
  /\ graph' = "unset"
  /\ UNCHANGED <<rows, wallet, locals, initFailures, faults>>

StartStep(r) ==
  \/ Receive(r) \/ Entitle(r) \/ TokenQuota(r) \/ Redeem(r) \/ CreateTask(r)
  \/ MarkReviewing(r) \/ LoadClauses(r) \/ RuleScan(r) \/ AgentReview(r)

DecisionStep(d) ==
  \/ Decide(d) \/ ApplyActions(d) \/ WriteVerdict(d) \/ SettleContract(d)
  \/ SaveDecision(d) \/ ReadRows(d) \/ WriteReport(d)

SharedStep(p) ==
  \/ GetGraph(p) \/ WriteStats(p) \/ ShowWaiting(p) \/ OpenTask(p)
  \/ SaveInterrupt(p) \/ Finish(p) \/ CatchError(p)

Next ==
  \/ \E r \in Requests : StartStep(r)
  \/ \E d \in Decisions : DecisionStep(d)
  \/ \E p \in Runs : SharedStep(p) \/ Throw(p)
  \/ \E c \in Contracts : Remove(c)
  \/ BuyPack
  \/ Crash

Spec == Init /\ [][Next]_vars

(* A handler that has been received runs on: node's event loop serves every *)
(* settled promise. Nothing makes a client call, or the process restart.    *)
RunsOn(p) ==
  IF p \in Requests THEN (pc[p] # "idle" /\ StartStep(p)) \/ SharedStep(p)
                    ELSE (pc[p] # "idle" /\ DecisionStep(p)) \/ SharedStep(p)

FairSpec == Spec /\ \A p \in Runs : WF_vars(RunsOn(p))

-----------------------------------------------------------------------------
(* Types *)

ContractRow == [status: ContractStatus, report: {NoOpinion} \cup Opinion]

TaskRow == [status: TaskStatus, contract: Contracts, isDeep: BOOLEAN,
            couponUsed: BOOLEAN, stats: {Unwritten} \cup SUBSET Tracks]

(* Rows, handler locals and module variables hold values of their columns'  *)
(* and variables' types; the coupon balance, which only the conditional     *)
(* update and the increments of the code touch, never goes below zero.      *)
TypeOK ==
  /\ contract \in [Contracts -> ContractRow]
  /\ task \in [Requests -> {NoTask} \cup TaskRow]
  /\ risks \in [Requests -> SUBSET Tracks]
  /\ reviewedBy \in [Requests -> {None} \cup Decisions]
  /\ cp \in [Requests -> {"start", "aggregate", "human_review", "finalize", "end"}]
  /\ balance \in Nat
  /\ packs \in 0..MaxPacks
  /\ graph \in {"unset", "ready", "rejected"}
  /\ pc \in [Runs -> PCs]
  /\ of \in [Runs -> {None} \cup Contracts]
  /\ thread \in [Runs -> {None} \cup Requests]
  /\ coupon \in [Runs -> BOOLEAN]
  /\ charged \in [Runs -> BOOLEAN]
  /\ launched \in [Runs -> BOOLEAN]
  /\ verdict \in [Runs -> {None} \cup Verdicts]
  /\ read \in [Runs -> {NoOpinion} \cup Opinion]
  /\ refunded \in [Runs -> BOOLEAN]
  /\ initFailures \in Nat
  /\ faults \in 0..MaxFaults
  /\ crashes \in 0..MaxCrashes

-----------------------------------------------------------------------------
(* Coupons *)

(* the coupons that were taken and not given back *)
Consumed == {r \in Requests : charged[r] /\ ~refunded[r]}

(* startReviewStream charges with a conditional decrement and compensates   *)
(* with an increment: whatever the handlers interleave with, throw or lose  *)
(* in a restart, every coupon credited is on the balance or was consumed by *)
(* exactly one request.                                                     *)
CouponsConserved ==
  balance + Cardinality(Consumed) = InitCoupons + PackQty * packs

(* A review that was launched with a coupon is never refunded, whatever     *)
(* fails after reviewLaunched is set (closing the trace, for one).          *)
LaunchedIsPaid ==
  \A r \in Requests : launched[r] /\ coupon[r] => r \in Consumed

(* The semantic track is paid for: a free tenant has findings of the agent  *)
(* only in a task whose own request had a coupon taken (assertStartReview   *)
(* decides deep before the balance is charged).                             *)
FreeStaysRuleOnly ==
  Plan = "FREE" => \A r \in Requests : "AGENT" \in risks[r] => charged[r]

Quiet == \A p \in Runs : pc[p] \in Waiting

(* When no handler runs, a coupon that was taken bought a review that was   *)
(* launched, or was given back (contract.controller.ts:343), or is logged   *)
(* for manual intervention; only a restart between the charge and the       *)
(* launch can leave it in none of these states.                             *)
ChargeIsSettled ==
  Quiet => \A r \in Consumed : launched[r] \/ pc[r] \in {"manual", "killed"}

Opened(t) == task[t].status \in {"WAITING_REVIEW"} \cup Verdicts

(* One coupon, one deep review (entitlements.service.ts:72): a task that    *)
(* was paid by coupon and can be decided has consumed its coupon.           *)
OpenedIsPaid ==
  \A t \in Requests : Opened(t) /\ task[t].couponUsed /\ pc[t] \in Waiting
                      => t \in Consumed

-----------------------------------------------------------------------------
(* The monthly quota of the free plan *)

(* Reviews paid by coupon do not count (plans.config.ts:186): a simple      *)
(* contract is refused only when that many reviews were not paid by coupon. *)
CouponsOutsideQuota ==
  [][\A r \in Requests :
       (Entitle(r) /\ pc'[r] = "refused" /\ ~coupon[r] /\ of[r] \in Simple)
         => Cardinality({t \in MonthlyReviews : ~task[t].couponUsed}) >= MonthlyQuota]_vars

-----------------------------------------------------------------------------
(* The rows agree with each other *)

(* A task can be decided only when its statistics are written and describe  *)
(* the risks it has: aggregate opens the task last, and nothing adds to the *)
(* risks of an open task.                                                   *)
OpenTaskIsComplete ==
  \A t \in Requests : Opened(t) => task[t].stats = risks[t]

(* A contract shown as REVIEWING is being reviewed by a handler that will   *)
(* write its next status.                                                   *)
ReviewingHasOwner ==
  \A c \in Contracts : contract[c].status = "REVIEWING" =>
    \E r \in Requests : of[r] = c /\ pc[r] \in {"load", "rule", "agent", "stats", "show"}

(* A review that began ends: the contract does not stay REVIEWING.          *)
ReviewingEnds ==
  \A c \in Contracts : contract[c].status = "REVIEWING" ~> contract[c].status # "REVIEWING"

SoleReviewer(t) ==
  \A d, e \in {x \in Decisions : thread[x] = t /\ pc[x] # "refused"} : d = e

ApprovedTask(c) == \E t \in Requests : task[t].contract = c /\ task[t].status = "APPROVED"

(* A contract is COMPLETED only on an approved task of its own, unless two  *)
(* reviewers decided one of its tasks at once.                              *)
CompletedUnlessRaced ==
  \A c \in Contracts : contract[c].status = "COMPLETED" =>
    \/ ApprovedTask(c)
    \/ \E t \in Requests : task[t].contract = c /\ ~SoleReviewer(t)

(* The stored opinion states a verdict and carries the reviewer's           *)
(* dispositions: finalize never runs on a task that still waits.            *)
ReportIsDecided ==
  \A c \in Contracts :
    LET opinion == contract[c].report IN
    opinion # NoOpinion /\ SoleReviewer(opinion.task) =>
      /\ opinion.verdict \in Verdicts
      /\ opinion.reviewedBy # None

(* An approved review yields its opinion: when no handler runs, a contract  *)
(* with an approved task has a report (ADR-003: after a restart the review  *)
(* goes on from where it stopped).                                          *)
ApprovedHasReport ==
  Quiet => \A c \in Contracts : Exists(c) /\ ApprovedTask(c) => contract[c].report # NoOpinion

(* ADR-003: a failed initialisation of the checkpointer may be retried; a   *)
(* start fails in getGraph only by an attempt of its own.                   *)
InitIsRetried ==
  [][\A p \in Runs : (GetGraph(p) /\ pc'[p] = "catch") => initFailures' > initFailures]_vars
=============================================================================
