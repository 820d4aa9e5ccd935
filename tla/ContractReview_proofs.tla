----------------------- MODULE ContractReview_proofs ------------------------
(***************************************************************************)
(* Proofs about ContractReview, for any number of requests, decisions and  *)
(* contracts, any plan, quota and balance, and any number of packs, faults *)
(* and restarts: rows and locals keep their types, coupons are conserved,  *)
(* a launched review stays paid, and a free tenant gets the semantic track *)
(* only against a coupon, and a task open to a verdict has statistics that *)
(* describe its risks.  Then the rows that several handlers write one      *)
(* after the other agree with each other and with the handlers at work on  *)
(* them:                                                                   *)
(*                                                                         *)
(*   RowInv       a handler past its checks works on a row of its own      *)
(*                contract, and a verdict comes after the task was opened  *)
(*   VerdictInv   who decides a task alone finds what it wrote itself      *)
(*   CalmInv      with no failing call and no restart, who shows a         *)
(*                contract as REVIEWING or approves its task goes on with  *)
(*                it                                                       *)
(*   SpentInv     a coupon that was taken is accounted for                 *)
(***************************************************************************)
EXTENDS ContractReview, FiniteSetTheorems, TLAPS

-----------------------------------------------------------------------------
(* Types *)

(* a handler past its first await knows its contract, its task, its verdict *)
Bound ==
  \A p \in Runs : pc[p] # "idle" =>
    /\ of[p] \in Contracts
    /\ thread[p] \in Requests
    /\ p \in Requests => thread[p] = p
    /\ p \in Decisions => verdict[p] \in Verdicts

TypeInv == TypeOK /\ Bound

LEMMA InitType == Init => TypeInv
<1> SUFFICES ASSUME Init PROVE TypeInv
  OBVIOUS
<1>1. TypeOK
  BY BoundsAssumption DEF Init, TypeOK, ContractRow, ContractStatus, PCs, Waiting, Runs
<1> QED
  BY <1>1 DEF Init, TypeInv, Bound

(* what the updates of a single column make of a table *)
LEMMA StatusTyped ==
  ASSUME TypeOK, NEW c \in Contracts, NEW s \in ContractStatus
  PROVE  [contract EXCEPT ![c].status = s] \in [Contracts -> ContractRow]
BY DEF TypeOK, ContractRow

LEMMA ReportTyped ==
  ASSUME TypeOK, NEW c \in Contracts, NEW o \in {NoOpinion} \cup Opinion
  PROVE  [contract EXCEPT ![c].report = o] \in [Contracts -> ContractRow]
BY DEF TypeOK, ContractRow

LEMMA RowTyped ==
  ASSUME TypeOK, NEW t \in Requests, HasRow(t)
  PROVE  task[t] \in TaskRow
BY DEF TypeOK, HasRow, NoTask

LEMMA TaskTyped ==
  ASSUME TypeOK, NEW t \in Requests, HasRow(t), NEW s \in TaskStatus
  PROVE  [task EXCEPT ![t].status = s] \in [Requests -> {NoTask} \cup TaskRow]
<1>1. [task[t] EXCEPT !.status = s] \in TaskRow
  BY RowTyped DEF TaskRow
<1> QED
  BY <1>1 DEF TypeOK

LEMMA StatsTyped ==
  ASSUME TypeOK, NEW t \in Requests, HasRow(t), NEW T \in SUBSET Tracks
  PROVE  [task EXCEPT ![t].stats = T] \in [Requests -> {NoTask} \cup TaskRow]
<1>1. [task[t] EXCEPT !.stats = T] \in TaskRow
  BY RowTyped DEF TaskRow
<1> QED
  BY <1>1 DEF TypeOK

(* a step of a handler that has begun leaves what it knows *)
LEMMA BoundStays ==
  ASSUME TypeInv, UNCHANGED <<of, thread, verdict>>, NEW p \in Runs, pc[p] # "idle",
         NEW l, pc' = [pc EXCEPT ![p] = l]
  PROVE  Bound'
BY DEF TypeInv, TypeOK, Bound

LEMMA SetContractTyped ==
  ASSUME TypeInv, NEW p \in Runs, pc[p] # "idle",
         NEW s \in ContractStatus, NEW l \in PCs, SetContract(p, s, l),
         UNCHANGED <<of, thread, verdict>>
  PROVE  /\ contract' \in [Contracts -> ContractRow]
         /\ pc' \in [Runs -> PCs]
         /\ Bound'
<1>1. "catch" \in PCs
  BY DEF PCs
<1>2. of[p] \in Contracts
  BY DEF TypeInv, Bound
<1>3. CASE Exists(of[p])
  BY <1>2, <1>3, StatusTyped, BoundStays DEF SetContract, Goto, TypeInv, TypeOK
<1>4. CASE ~Exists(of[p])
  BY <1>1, <1>4, BoundStays DEF SetContract, Goto, TypeInv, TypeOK
<1> QED
  BY <1>3, <1>4

LEMMA SetTaskTyped ==
  ASSUME TypeInv, NEW p \in Runs, pc[p] # "idle",
         NEW s \in TaskStatus, NEW l \in PCs, SetTask(p, s, l),
         UNCHANGED <<of, thread, verdict>>
  PROVE  /\ task' \in [Requests -> {NoTask} \cup TaskRow]
         /\ pc' \in [Runs -> PCs]
         /\ Bound'
<1>1. "catch" \in PCs
  BY DEF PCs
<1>2. thread[p] \in Requests
  BY DEF TypeInv, Bound
<1>3. CASE HasRow(thread[p])
  BY <1>2, <1>3, TaskTyped, BoundStays DEF SetTask, Goto, TypeInv, TypeOK
<1>4. CASE ~HasRow(thread[p])
  BY <1>1, <1>4, BoundStays DEF SetTask, Goto, TypeInv, TypeOK
<1> QED
  BY <1>3, <1>4

LEMMA ReceiveType ==
  ASSUME TypeInv, NEW r \in Requests, Receive(r)
  PROVE  TypeInv'
<1> USE RunsAssumption DEF TypeInv, TypeOK, Bound, Runs, rows, wallet, env, Receive, Goto
<1>1. TypeOK'
  BY DEF PCs, Waiting
<1>2. Bound'
  OBVIOUS
<1> QED
  BY <1>1, <1>2

LEMMA EntitleType ==
  ASSUME TypeInv, NEW r \in Requests, Entitle(r)
  PROVE  TypeInv'
<1> USE DEF TypeInv, TypeOK, Bound, Runs, rows, wallet, locals, env, Entitle, Goto
<1>1. TypeOK' /\ Bound'
  BY DEF PCs, Waiting
<1> QED
  BY <1>1

LEMMA TokenQuotaType ==
  ASSUME TypeInv, NEW r \in Requests, TokenQuota(r)
  PROVE  TypeInv'
<1> USE DEF TypeInv, TypeOK, Bound, Runs, rows, wallet, locals, env, TokenQuota, Goto
<1>1. TypeOK' /\ Bound'
  BY DEF PCs, AfterSse, Waiting
<1> QED
  BY <1>1

LEMMA RedeemType ==
  ASSUME TypeInv, NEW r \in Requests, Redeem(r)
  PROVE  TypeInv'
<1> USE DEF TypeInv, TypeOK, Runs, rows, env, Redeem, Goto
<1>1. balance' \in Nat /\ charged' \in [Runs -> BOOLEAN]
  <2>1. balance \in Nat /\ charged \in [Runs -> BOOLEAN]
    OBVIOUS
  <2>2. \/ /\ balance > 0
           /\ balance' = balance - 1
           /\ charged' = [charged EXCEPT ![r] = TRUE]
        \/ UNCHANGED <<balance, charged>>
    BY DEF Redeemable
  <2> HIDE DEF TypeInv, TypeOK, Redeem
  <2>3. balance' \in Nat
    BY <2>1, <2>2
  <2>4. charged' \in [Runs -> BOOLEAN]
    BY <2>1, <2>2, Zenon
  <2> QED
    BY <2>3, <2>4
<1>2. pc' \in [Runs -> PCs]
  BY DEF PCs, AfterSse
<1> QED
  BY <1>1, <1>2, BoundStays

LEMMA CreateTaskType ==
  ASSUME TypeInv, NEW r \in Requests, CreateTask(r)
  PROVE  TypeInv'
<1> USE DEF TypeInv, TypeOK, Runs, wallet, locals, env, CreateTask, Goto
<1>1. task' \in [Requests -> {NoTask} \cup TaskRow]
  <2> DEFINE created == [status |-> "RUNNING", contract |-> of[r], isDeep |-> Deep(r),
                         couponUsed |-> coupon[r], stats |-> Unwritten]
  <2>1. of[r] \in Contracts /\ coupon[r] \in BOOLEAN /\ Deep(r) \in BOOLEAN
    BY DEF Bound, Deep
  <2>2. created \in TaskRow
    BY <2>1 DEF TaskRow, TaskStatus
  <2>3. task' = task \/ task' = [task EXCEPT ![r] = created]
    OBVIOUS
  <2> HIDE DEF created
  <2> QED
    BY <2>2, <2>3
<1>2. pc' \in [Runs -> PCs]
  BY DEF PCs, AfterSse
<1>3. Bound'
  BY DEF Bound
<1> QED
  BY <1>1, <1>2, <1>3

LEMMA GetGraphType ==
  ASSUME TypeInv, NEW p \in Runs, GetGraph(p)
  PROVE  TypeInv'
<1> USE BoundsAssumption DEF TypeInv, TypeOK, rows, wallet, locals, GetGraph, Goto
<1>1. initFailures' \in Nat /\ faults' \in 0..MaxFaults /\ graph' \in {"unset", "ready", "rejected"}
  OBVIOUS
<1>2. pc' \in [Runs -> PCs] /\ Bound'
  <2>1. Enter(p) \in PCs /\ "catch" \in PCs
    BY DEF Enter, PCs, AfterSse, InStream
  <2>2. \E l \in PCs : pc' = [pc EXCEPT ![p] = l]
    BY <2>1
  <2> QED
    BY <2>2, BoundStays
<1> QED
  BY <1>1, <1>2

LEMMA MarkReviewingType ==
  ASSUME TypeInv, NEW r \in Requests, MarkReviewing(r)
  PROVE  TypeInv'
<1>1. r \in Runs /\ "REVIEWING" \in ContractStatus /\ "load" \in PCs
  BY DEF Runs, ContractStatus, PCs, AfterSse, InStream
<1> QED
  BY <1>1, SetContractTyped DEF MarkReviewing, TypeInv, TypeOK, wallet, locals, env

LEMMA LoadClausesType ==
  ASSUME TypeInv, NEW r \in Requests, LoadClauses(r)
  PROVE  TypeInv'
<1> USE DEF TypeInv, TypeOK, Bound, Runs, rows, wallet, locals, env, LoadClauses, Goto
<1>1. TypeOK' /\ Bound'
  BY DEF PCs, AfterSse, InStream
<1> QED
  BY <1>1

LEMMA RuleScanType ==
  ASSUME TypeInv, NEW r \in Requests, RuleScan(r)
  PROVE  TypeInv'
<1> USE DEF TypeInv, TypeOK, Runs, wallet, locals, env, RuleScan, Goto
<1>1. risks' \in [Requests -> SUBSET Tracks]
  <2>1. PICK found \in SUBSET {"RULE"} : risks' = [risks EXCEPT ![r] = found] \/ risks' = risks
    OBVIOUS
  <2>2. found \in SUBSET Tracks
    BY DEF Tracks
  <2>3. risks \in [Requests -> SUBSET Tracks]
    OBVIOUS
  <2> HIDE DEF TypeInv, TypeOK, RuleScan
  <2> QED
    BY <2>1, <2>2, <2>3
<1>2. pc' \in [Runs -> PCs]
  BY DEF PCs, AfterSse, InStream
<1>3. Bound'
  BY DEF Bound
<1> QED
  BY <1>1, <1>2, <1>3

LEMMA AgentReviewType ==
  ASSUME TypeInv, NEW r \in Requests, AgentReview(r)
  PROVE  TypeInv'
<1> USE DEF TypeInv, TypeOK, Runs, wallet, locals, env, AgentReview, Goto
<1>1. risks' \in [Requests -> SUBSET Tracks]
  <2>1. PICK found \in SUBSET {"AGENT"} : risks' = [risks EXCEPT ![r] = @ \cup found]
    OBVIOUS
  <2>2. risks[r] \cup found \in SUBSET Tracks
    BY DEF Tracks
  <2> QED
    BY <2>1, <2>2
<1>2. pc' \in [Runs -> PCs]
  BY DEF PCs, AfterSse, InStream
<1> QED
  BY <1>1, <1>2, BoundStays

LEMMA WriteStatsType ==
  ASSUME TypeInv, NEW p \in Runs, WriteStats(p)
  PROVE  TypeInv'
<1> USE DEF TypeInv, TypeOK, wallet, locals, env, WriteStats, Goto
<1>1. task' \in [Requests -> {NoTask} \cup TaskRow]
  <2>1. thread[p] \in Requests
    BY DEF Bound
  <2>2. Counted(thread[p]) \in SUBSET Tracks
    BY <2>1 DEF Counted
  <2>3. \/ task' = task
        \/ HasRow(thread[p]) /\ task' = [task EXCEPT ![thread[p]].stats = Counted(thread[p])]
    OBVIOUS
  <2>4. TypeOK /\ task \in [Requests -> {NoTask} \cup TaskRow]
    OBVIOUS
  <2> HIDE DEF TypeInv, TypeOK, WriteStats
  <2> QED
    BY <2>1, <2>2, <2>3, <2>4, StatsTyped
<1>2. pc' \in [Runs -> PCs]
  BY DEF PCs, AfterSse, InStream
<1>3. Bound'
  BY DEF Bound
<1> QED
  BY <1>1, <1>2, <1>3

LEMMA ShowWaitingType ==
  ASSUME TypeInv, NEW p \in Runs, ShowWaiting(p)
  PROVE  TypeInv'
<1>1. "WAITING_REVIEW" \in ContractStatus /\ "open" \in PCs
  BY DEF ContractStatus, PCs, AfterSse, InStream
<1> QED
  BY <1>1, SetContractTyped DEF ShowWaiting, TypeInv, TypeOK, wallet, locals, env

LEMMA OpenTaskType ==
  ASSUME TypeInv, NEW p \in Runs, OpenTask(p)
  PROVE  TypeInv'
<1>1. "WAITING_REVIEW" \in TaskStatus /\ "save" \in PCs
  BY DEF TaskStatus, PCs, AfterSse, InStream
<1> QED
  BY <1>1, SetTaskTyped DEF OpenTask, TypeInv, TypeOK, wallet, locals, env

LEMMA SaveInterruptType ==
  ASSUME TypeInv, NEW p \in Runs, SaveInterrupt(p)
  PROVE  TypeInv'
<1> USE DEF TypeInv, TypeOK, wallet, env, SaveInterrupt, Goto, InterruptNode
<1>1. pc' \in [Runs -> PCs]
  BY DEF PCs, AfterSse
<1>2. /\ cp' \in [Requests -> {"start", "aggregate", "human_review", "finalize", "end"}]
      /\ launched' \in [Runs -> BOOLEAN]
  <2>1. thread[p] \in Requests
    BY DEF Bound
  <2>2. (p \in Requests) \in BOOLEAN
    OBVIOUS
  <2> QED
    BY <2>1, <2>2
<1> QED
  BY <1>1, <1>2, BoundStays

LEMMA FinishType ==
  ASSUME TypeInv, NEW p \in Runs, Finish(p)
  PROVE  TypeInv'
<1> USE DEF TypeInv, TypeOK, rows, wallet, locals, env, Finish, Goto
<1>1. pc' \in [Runs -> PCs]
  BY DEF PCs, Waiting
<1> QED
  BY <1>1, BoundStays

LEMMA ThrowType ==
  ASSUME TypeInv, NEW p \in Runs, Throw(p)
  PROVE  TypeInv'
<1> USE BoundsAssumption DEF TypeInv, TypeOK, rows, wallet, locals, Throw, Goto
<1>1. pc' \in [Runs -> PCs] /\ pc[p] # "idle" /\ faults' \in 0..MaxFaults
  BY DEF PCs, AfterSse, InStream
<1> QED
  BY <1>1, BoundStays

LEMMA CatchErrorType ==
  ASSUME TypeInv, NEW p \in Runs, CatchError(p)
  PROVE  TypeInv'
<1> USE BoundsAssumption DEF TypeInv, TypeOK, rows, CatchError, Goto
<1>1. balance' \in Nat /\ refunded' \in [Runs -> BOOLEAN] /\ faults' \in 0..MaxFaults
  <2>1. balance' \in Nat /\ faults' \in 0..MaxFaults
    OBVIOUS
  <2>2. refunded' = [refunded EXCEPT ![p] = TRUE] \/ refunded' = refunded
    BY ZenonT(30)
  <2>3. refunded \in [Runs -> BOOLEAN]
    OBVIOUS
  <2> HIDE DEF TypeInv, TypeOK, CatchError
  <2>4. refunded' \in [Runs -> BOOLEAN]
    BY <2>2, <2>3, Zenon
  <2> QED
    BY <2>1, <2>4
<1>2. pc' \in [Runs -> PCs]
  BY DEF PCs, Waiting
<1>3. Bound'
  BY DEF Bound
<1> QED
  BY <1>1, <1>2, <1>3

LEMMA DecideType ==
  ASSUME TypeInv, NEW d \in Decisions, Decide(d)
  PROVE  TypeInv'
<1> USE DEF TypeInv, TypeOK, Runs, rows, wallet, env, Decide, Goto
<1>1. PICK t \in Requests, v \in Verdicts :
         /\ HasRow(t)
         /\ thread' = [thread EXCEPT ![d] = t]
         /\ of' = [of EXCEPT ![d] = task[t].contract]
         /\ verdict' = [verdict EXCEPT ![d] = v]
  OBVIOUS
<1>2. task[t].contract \in Contracts
  BY <1>1, RowTyped DEF TaskRow
<1>3. pc' \in [Runs -> PCs]
  BY DEF PCs, Waiting, AfterSse
<1>4. TypeOK'
  BY <1>1, <1>2, <1>3
<1>5. Bound'
  BY <1>1, <1>2, RunsAssumption DEF Bound
<1> QED
  BY <1>4, <1>5

LEMMA ApplyActionsType ==
  ASSUME TypeInv, NEW d \in Decisions, ApplyActions(d)
  PROVE  TypeInv'
<1> USE DEF TypeInv, TypeOK, Runs, wallet, locals, env, ApplyActions, Goto
<1>1. pc' \in [Runs -> PCs]
  BY DEF PCs, AfterSse
<1> QED
  BY <1>1, BoundStays

LEMMA WriteVerdictType ==
  ASSUME TypeInv, NEW d \in Decisions, WriteVerdict(d)
  PROVE  TypeInv'
<1>1. d \in Runs /\ pc[d] # "idle" /\ "settle" \in PCs
  BY DEF Runs, WriteVerdict, PCs, AfterSse
<1>2. verdict[d] \in TaskStatus
  BY <1>1 DEF TypeInv, Bound, TaskStatus
<1> QED
  BY <1>1, <1>2, SetTaskTyped DEF WriteVerdict, TypeInv, TypeOK, wallet, locals, env

LEMMA SettleContractType ==
  ASSUME TypeInv, NEW d \in Decisions, SettleContract(d)
  PROVE  TypeInv'
<1>1. d \in Runs /\ pc[d] # "idle" /\ "saveDecision" \in PCs
  BY DEF Runs, SettleContract, PCs, AfterSse
<1>2. StatusAfter(verdict[d]) \in ContractStatus
  BY DEF StatusAfter, ContractStatus
<1> QED
  BY <1>1, <1>2, SetContractTyped DEF SettleContract, TypeInv, TypeOK, wallet, locals, env

LEMMA SaveDecisionType ==
  ASSUME TypeInv, NEW d \in Decisions, SaveDecision(d)
  PROVE  TypeInv'
<1> USE DEF TypeInv, TypeOK, Runs, wallet, locals, env, SaveDecision, AfterDecision, Goto
<1>1. pc' \in [Runs -> PCs]
  BY DEF PCs, AfterSse
<1> QED
  BY <1>1, BoundStays

LEMMA ReadRowsType ==
  ASSUME TypeInv, NEW d \in Decisions, ReadRows(d)
  PROVE  TypeInv'
<1> USE DEF TypeInv, TypeOK, Runs, rows, wallet, env, ReadRows, Goto
<1>1. read' \in [Runs -> {NoOpinion} \cup Opinion]
  <2> DEFINE t == thread[d]
             o == [task |-> t, verdict |-> task[t].status, reviewedBy |-> reviewedBy[t]]
  <2>1. t \in Requests
    BY DEF Bound
  <2>2. HasRow(t) => o \in Opinion
    BY <2>1, RowTyped DEF TaskRow, Opinion
  <2>3. read' = read \/ (HasRow(t) /\ read' = [read EXCEPT ![d] = o])
    BY Zenon
  <2> HIDE DEF t, o
  <2> QED
    BY <2>2, <2>3
<1>2. pc' \in [Runs -> PCs]
  BY DEF PCs, AfterSse
<1>3. Bound'
  BY DEF Bound
<1> QED
  BY <1>1, <1>2, <1>3

LEMMA WriteReportType ==
  ASSUME TypeInv, NEW d \in Decisions, WriteReport(d)
  PROVE  TypeInv'
<1> USE DEF TypeInv, TypeOK, Runs, wallet, locals, env, WriteReport, Goto
<1>1. contract' \in [Contracts -> ContractRow]
  <2>1. of[d] \in Contracts /\ read[d] \in {NoOpinion} \cup Opinion
    BY DEF Bound
  <2>2. \/ contract' = [contract EXCEPT ![of[d]].report = read[d]]
        \/ contract' = contract
    OBVIOUS
  <2>3. TypeOK /\ contract \in [Contracts -> ContractRow]
    OBVIOUS
  <2> HIDE DEF TypeInv, TypeOK, WriteReport
  <2> QED
    BY <2>1, <2>2, <2>3, ReportTyped
<1>2. cp' \in [Requests -> {"start", "aggregate", "human_review", "finalize", "end"}]
  OBVIOUS
<1>3. pc' \in [Runs -> PCs]
  BY DEF PCs, AfterSse
<1>4. Bound'
  BY DEF Bound
<1> QED
  BY <1>1, <1>2, <1>3, <1>4

LEMMA RemoveType ==
  ASSUME TypeInv, NEW c \in Contracts, Remove(c)
  PROVE  TypeInv'
<1> USE DEF TypeInv, TypeOK, wallet, locals, env, Remove
<1>1. contract' \in [Contracts -> ContractRow]
  BY DEF ContractRow, ContractStatus
<1>2. task' \in [Requests -> {NoTask} \cup TaskRow]
  OBVIOUS
<1>3. risks' \in [Requests -> SUBSET Tracks] /\ reviewedBy' \in [Requests -> {None} \cup Decisions]
  OBVIOUS
<1>4. Bound'
  BY DEF Bound
<1> QED
  BY <1>1, <1>2, <1>3, <1>4

LEMMA BuyPackType == TypeInv /\ BuyPack => TypeInv'
BY BoundsAssumption DEF TypeInv, TypeOK, Bound, BuyPack, rows, locals, env

LEMMA CrashType == TypeInv /\ Crash => TypeInv'
<1> SUFFICES ASSUME TypeInv, Crash PROVE TypeInv'
  OBVIOUS
<1> USE BoundsAssumption DEF TypeInv, TypeOK, Crash, rows, wallet, locals
<1>1. pc' \in [Runs -> PCs]
  BY DEF PCs, Waiting
<1>2. Bound'
  BY DEF Bound, Waiting
<1> QED
  BY <1>1, <1>2

LEMMA StutterType == TypeInv /\ UNCHANGED vars => TypeInv'
BY DEF TypeInv, TypeOK, Bound, vars, rows, wallet, locals, env

LEMMA StepType == TypeInv /\ [Next]_vars => TypeInv'
<1> SUFFICES ASSUME TypeInv, [Next]_vars PROVE TypeInv'
  OBVIOUS
<1>1. ASSUME NEW r \in Requests, StartStep(r) PROVE TypeInv'
  BY <1>1, ReceiveType, EntitleType, TokenQuotaType, RedeemType, CreateTaskType,
     MarkReviewingType, LoadClausesType, RuleScanType, AgentReviewType DEF StartStep
<1>2. ASSUME NEW d \in Decisions, DecisionStep(d) PROVE TypeInv'
  BY <1>2, DecideType, ApplyActionsType, WriteVerdictType, SettleContractType,
     SaveDecisionType, ReadRowsType, WriteReportType DEF DecisionStep
<1>3. ASSUME NEW p \in Runs, SharedStep(p) \/ Throw(p) PROVE TypeInv'
  BY <1>3, GetGraphType, WriteStatsType, ShowWaitingType, OpenTaskType, SaveInterruptType,
     FinishType, CatchErrorType, ThrowType DEF SharedStep
<1> QED
  BY <1>1, <1>2, <1>3, RemoveType, BuyPackType, CrashType, StutterType DEF Next

LEMMA TypeInvariance == Spec => []TypeInv
BY InitType, StepType, PTL DEF Spec

(* Rows, handler locals and module variables have their types in every      *)
(* reachable state, and the coupon balance never goes below zero, however   *)
(* many starts redeem at once (contract.controller.ts, startReviewStream).  *)
THEOREM TypeCorrect == Spec => []TypeOK
BY TypeInvariance, PTL DEF TypeInv

-----------------------------------------------------------------------------
(* Coupons *)

Unpaid == {"idle", "entitle", "tokens", "redeem"}
Reviewing == {"create", "graph", "mark"} \cup InStream

(* only Redeem charges, and only a request; nothing is launched before *)
ChargedByRedeem ==
  /\ \A r \in Requests : pc[r] \in Unpaid => ~charged[r] /\ ~launched[r]
  /\ \A d \in Decisions : ~charged[d]

(* the compensation is the last thing a run does, and never after a launch *)
RefundIsLast ==
  \A p \in Runs : refunded[p] => pc[p] = "failed" /\ ~launched[p]

(* with a coupon there is no review without a charge *)
DeepIsCharged ==
  \A r \in Requests : coupon[r] /\ (pc[r] \in Reviewing \/ launched[r]) => charged[r]

CouponInv ==
  /\ ChargedByRedeem
  /\ RefundIsLast
  /\ DeepIsCharged
  /\ FreeStaysRuleOnly
  /\ CouponsConserved

LEMMA ConsumedIsFinite == IsFiniteSet(Consumed)
<1>1. Consumed \subseteq Requests
  BY DEF Consumed
<1> QED
  BY <1>1, FS_Subset, RunsAssumption

LEMMA InitCoupon == Init => CouponInv
<1> SUFFICES ASSUME Init PROVE CouponInv
  OBVIOUS
<1> USE DEF Init, Runs
<1>1. ChargedByRedeem /\ RefundIsLast /\ DeepIsCharged
  BY DEF ChargedByRedeem, RefundIsLast, DeepIsCharged, Reviewing, InStream
<1>2. FreeStaysRuleOnly
  BY DEF FreeStaysRuleOnly
<1>3. CouponsConserved
  <2>1. Consumed = {}
    BY DEF Consumed
  <2> QED
    BY <2>1, FS_EmptySet, BoundsAssumption DEF CouponsConserved
<1> QED
  BY <1>1, <1>2, <1>3 DEF CouponInv

(* Steps that leave the wallet and its history alone, and do not bring a    *)
(* request into a review or back before its payment.                        *)
LEMMA CouponsUntouched ==
  ASSUME TypeInv, CouponInv,
         UNCHANGED <<wallet, coupon, charged, launched, refunded>>,
         \A r \in Requests : "AGENT" \in risks'[r] => "AGENT" \in risks[r],
         \A r \in Requests : pc'[r] \in Unpaid => pc[r] \in Unpaid,
         \A r \in Requests : pc'[r] \in Reviewing => pc[r] \in Reviewing,
         \A p \in Runs : pc[p] = "failed" => pc'[p] = "failed"
  PROVE  CouponInv'
<1> USE DEF CouponInv, wallet
<1>1. ChargedByRedeem'
  BY DEF ChargedByRedeem
<1>2. RefundIsLast'
  BY DEF RefundIsLast
<1>3. DeepIsCharged'
  BY DEF DeepIsCharged
<1>4. FreeStaysRuleOnly'
  BY DEF FreeStaysRuleOnly
<1>5. CouponsConserved'
  BY DEF CouponsConserved, Consumed
<1> QED
  BY <1>1, <1>2, <1>3, <1>4, <1>5

(* ... in particular those where one run moves on within its review, or     *)
(* leaves it.                                                               *)
LEMMA CouponsMoveOn ==
  ASSUME TypeInv, CouponInv, NEW p \in Runs, NEW l,
         pc' = [pc EXCEPT ![p] = l],
         UNCHANGED <<wallet, coupon, charged, launched, refunded>>,
         \A r \in Requests : "AGENT" \in risks'[r] => "AGENT" \in risks[r],
         pc[p] # "failed",
         p \in Requests => /\ l \in Unpaid => pc[p] \in Unpaid
                           /\ l \in Reviewing => pc[p] \in Reviewing
  PROVE  CouponInv'
<1>1. /\ \A r \in Requests : pc'[r] \in Unpaid => pc[r] \in Unpaid
      /\ \A r \in Requests : pc'[r] \in Reviewing => pc[r] \in Reviewing
      /\ \A q \in Runs : pc[q] = "failed" => pc'[q] = "failed"
  BY DEF TypeInv, TypeOK, Runs
<1> QED
  BY <1>1, CouponsUntouched

LEMMA EntitleCoupon ==
  ASSUME TypeInv, CouponInv, NEW r \in Requests, Entitle(r)
  PROVE  CouponInv'
BY CouponsMoveOn, RunsAssumption
DEF Entitle, Goto, Runs, rows, locals, wallet, Unpaid, Reviewing, InStream

LEMMA TokenQuotaCoupon ==
  ASSUME TypeInv, CouponInv, NEW r \in Requests, TokenQuota(r)
  PROVE  CouponInv'
BY CouponsMoveOn, RunsAssumption
DEF TokenQuota, Goto, Runs, rows, locals, wallet, Unpaid, Reviewing, InStream

LEMMA CreateTaskCoupon ==
  ASSUME TypeInv, CouponInv, NEW r \in Requests, CreateTask(r)
  PROVE  CouponInv'
BY CouponsMoveOn, RunsAssumption
DEF CreateTask, Goto, Runs, rows, locals, wallet, Unpaid, Reviewing, InStream

LEMMA MarkReviewingCoupon ==
  ASSUME TypeInv, CouponInv, NEW r \in Requests, MarkReviewing(r)
  PROVE  CouponInv'
BY CouponsMoveOn, RunsAssumption
DEF MarkReviewing, Goto, Runs, rows, locals, wallet, Unpaid, Reviewing, InStream, SetContract

LEMMA LoadClausesCoupon ==
  ASSUME TypeInv, CouponInv, NEW r \in Requests, LoadClauses(r)
  PROVE  CouponInv'
BY CouponsMoveOn, RunsAssumption
DEF LoadClauses, Goto, Runs, rows, locals, wallet, Unpaid, Reviewing, InStream

LEMMA WriteStatsCoupon ==
  ASSUME TypeInv, CouponInv, NEW p \in Runs, WriteStats(p)
  PROVE  CouponInv'
BY CouponsMoveOn, RunsAssumption
DEF WriteStats, Goto, Runs, rows, locals, wallet, Unpaid, Reviewing, InStream

LEMMA ShowWaitingCoupon ==
  ASSUME TypeInv, CouponInv, NEW p \in Runs, ShowWaiting(p)
  PROVE  CouponInv'
BY CouponsMoveOn, RunsAssumption
DEF ShowWaiting, Goto, Runs, rows, locals, wallet, Unpaid, Reviewing, InStream, SetContract

LEMMA OpenTaskCoupon ==
  ASSUME TypeInv, CouponInv, NEW p \in Runs, OpenTask(p)
  PROVE  CouponInv'
BY CouponsMoveOn, RunsAssumption
DEF OpenTask, Goto, Runs, rows, locals, wallet, Unpaid, Reviewing, InStream, SetTask

LEMMA FinishCoupon ==
  ASSUME TypeInv, CouponInv, NEW p \in Runs, Finish(p)
  PROVE  CouponInv'
BY CouponsMoveOn, RunsAssumption
DEF Finish, Goto, Runs, rows, locals, wallet, Unpaid, Reviewing, InStream

LEMMA DecideCoupon ==
  ASSUME TypeInv, CouponInv, NEW d \in Decisions, Decide(d)
  PROVE  CouponInv'
BY CouponsMoveOn, RunsAssumption
DEF Decide, Goto, Runs, rows, locals, wallet, Unpaid, Reviewing, InStream

LEMMA ApplyActionsCoupon ==
  ASSUME TypeInv, CouponInv, NEW d \in Decisions, ApplyActions(d)
  PROVE  CouponInv'
BY CouponsMoveOn, RunsAssumption
DEF ApplyActions, Goto, Runs, rows, locals, wallet, Unpaid, Reviewing, InStream

LEMMA WriteVerdictCoupon ==
  ASSUME TypeInv, CouponInv, NEW d \in Decisions, WriteVerdict(d)
  PROVE  CouponInv'
BY CouponsMoveOn, RunsAssumption
DEF WriteVerdict, Goto, Runs, rows, locals, wallet, Unpaid, Reviewing, InStream, SetTask

LEMMA SettleContractCoupon ==
  ASSUME TypeInv, CouponInv, NEW d \in Decisions, SettleContract(d)
  PROVE  CouponInv'
BY CouponsMoveOn, RunsAssumption
DEF SettleContract, Goto, Runs, rows, locals, wallet, Unpaid, Reviewing, InStream, SetContract

LEMMA SaveDecisionCoupon ==
  ASSUME TypeInv, CouponInv, NEW d \in Decisions, SaveDecision(d)
  PROVE  CouponInv'
BY CouponsMoveOn, RunsAssumption
DEF SaveDecision, Goto, Runs, rows, locals, wallet, Unpaid, Reviewing, InStream, AfterDecision

LEMMA ReadRowsCoupon ==
  ASSUME TypeInv, CouponInv, NEW d \in Decisions, ReadRows(d)
  PROVE  CouponInv'
BY CouponsMoveOn, RunsAssumption
DEF ReadRows, Goto, Runs, rows, locals, wallet, Unpaid, Reviewing, InStream

LEMMA WriteReportCoupon ==
  ASSUME TypeInv, CouponInv, NEW d \in Decisions, WriteReport(d)
  PROVE  CouponInv'
BY CouponsMoveOn, RunsAssumption
DEF WriteReport, Goto, Runs, rows, locals, wallet, Unpaid, Reviewing, InStream

LEMMA GetGraphCoupon ==
  ASSUME TypeInv, CouponInv, NEW p \in Runs, GetGraph(p)
  PROVE  CouponInv'
<1>1. PICK l : pc' = [pc EXCEPT ![p] = l] /\ (p \in Requests => l \in {"mark", "catch"})
  BY DEF GetGraph, Goto, Enter
<1> QED
  BY <1>1, CouponsMoveOn DEF GetGraph, rows, locals, wallet, Unpaid, Reviewing, InStream

LEMMA ThrowCoupon ==
  ASSUME TypeInv, CouponInv, NEW p \in Runs, Throw(p)
  PROVE  CouponInv'
BY CouponsMoveOn
DEF Throw, Goto, rows, locals, wallet, Unpaid, Reviewing, InStream, AfterSse

LEMMA RuleScanCoupon ==
  ASSUME TypeInv, CouponInv, NEW r \in Requests, RuleScan(r)
  PROVE  CouponInv'
<1>1. \A q \in Requests : "AGENT" \in risks'[q] => "AGENT" \in risks[q]
  BY DEF RuleScan, TypeInv, TypeOK
<1> QED
  BY <1>1, CouponsMoveOn
  DEF RuleScan, Goto, Runs, locals, wallet, Unpaid, Reviewing, InStream

LEMMA RemoveCoupon ==
  ASSUME TypeInv, CouponInv, NEW c \in Contracts, Remove(c)
  PROVE  CouponInv'
<1>1. \A q \in Requests : "AGENT" \in risks'[q] => "AGENT" \in risks[q]
  BY DEF Remove
<1> QED
  BY <1>1, CouponsUntouched DEF Remove, locals, wallet

LEMMA CrashCoupon == TypeInv /\ CouponInv /\ Crash => CouponInv'
<1> SUFFICES ASSUME TypeInv, CouponInv, Crash PROVE CouponInv'
  OBVIOUS
<1> QED
  BY CouponsUntouched
  DEF Crash, Runs, rows, locals, wallet, Unpaid, Reviewing, InStream, Waiting, TypeInv, TypeOK

LEMMA StutterCoupon == TypeInv /\ CouponInv /\ UNCHANGED vars => CouponInv'
BY CouponsUntouched DEF vars, rows, locals, wallet

(* The request makes its choice. *)
LEMMA ReceiveCoupon ==
  ASSUME TypeInv, CouponInv, NEW r \in Requests, Receive(r)
  PROVE  CouponInv'
<1> USE RunsAssumption DEF CouponInv, Receive, Goto, rows, wallet, TypeInv, TypeOK, Runs
<1>1. ChargedByRedeem'
  BY DEF ChargedByRedeem, Unpaid
<1>2. RefundIsLast'
  BY DEF RefundIsLast
<1>3. DeepIsCharged'
  <2>1. pc'[r] \notin Reviewing /\ ~launched[r]
    BY DEF Reviewing, InStream, ChargedByRedeem, Unpaid
  <2> QED
    BY <2>1 DEF DeepIsCharged
<1>4. FreeStaysRuleOnly' /\ CouponsConserved'
  BY DEF FreeStaysRuleOnly, CouponsConserved, Consumed
<1> QED
  BY <1>1, <1>2, <1>3, <1>4

(* A coupon moves from the balance to the request. *)
LEMMA RedeemCoupon ==
  ASSUME TypeInv, CouponInv, NEW r \in Requests, Redeem(r)
  PROVE  CouponInv'
<1>1. /\ r \in Runs /\ pc[r] = "redeem" /\ r \notin Decisions
      /\ ~charged[r] /\ ~launched[r] /\ ~refunded[r]
  BY RunsAssumption DEF Runs, Redeem, CouponInv, ChargedByRedeem, RefundIsLast, Unpaid
<1>2. /\ pc' = [pc EXCEPT ![r] = IF RedeemFailed(r) THEN "catch" ELSE "create"]
      /\ UNCHANGED <<packs, coupon, launched, refunded, risks>>
  BY DEF Redeem, Goto, rows
<1>3. pc'[r] \in {"catch", "create"} /\ \A q \in Runs \ {r} : pc'[q] = pc[q]
  BY <1>1, <1>2 DEF TypeInv, TypeOK
<1>4. CASE Redeemable(r)
  <2>1. /\ balance' = balance - 1 /\ balance > 0
        /\ charged' = [charged EXCEPT ![r] = TRUE]
    BY <1>4 DEF Redeem, Redeemable
  <2>2. charged'[r] /\ \A q \in Runs \ {r} : charged'[q] = charged[q]
    BY <1>1, <2>1, Zenon DEF TypeInv, TypeOK
  <2>3. ChargedByRedeem' /\ RefundIsLast' /\ DeepIsCharged' /\ FreeStaysRuleOnly'
    BY <1>1, <1>2, <1>3, <2>2, RunsAssumption
    DEF CouponInv, ChargedByRedeem, RefundIsLast, DeepIsCharged, FreeStaysRuleOnly,
        Runs, Unpaid, Reviewing, InStream
  <2>4. Consumed' = Consumed \cup {r} /\ r \notin Consumed
    BY <1>1, <1>2, <2>2 DEF Consumed, Runs
  <2>5. Cardinality(Consumed') = Cardinality(Consumed) + 1
    BY <2>4, ConsumedIsFinite, FS_AddElement
  <2>6. CouponsConserved'
    BY <1>2, <2>1, <2>5, ConsumedIsFinite, FS_CardinalityType, BoundsAssumption
    DEF CouponInv, CouponsConserved, TypeInv, TypeOK
  <2> QED
    BY <2>3, <2>6 DEF CouponInv
<1>5. CASE ~Redeemable(r)
  <2>1. UNCHANGED <<balance, charged>>
    BY <1>5 DEF Redeem
  <2>2. coupon[r] => pc'[r] = "catch"
    BY <1>1, <1>2, <1>5 DEF Redeemable, RedeemFailed, TypeInv, TypeOK
  <2>3. ChargedByRedeem' /\ RefundIsLast' /\ DeepIsCharged' /\ FreeStaysRuleOnly'
    BY <1>1, <1>2, <1>3, <2>1, <2>2, RunsAssumption
    DEF CouponInv, ChargedByRedeem, RefundIsLast, DeepIsCharged, FreeStaysRuleOnly,
        Runs, Unpaid, Reviewing, InStream
  <2>4. CouponsConserved'
    BY <1>2, <2>1 DEF CouponInv, CouponsConserved, Consumed
  <2> QED
    BY <2>3, <2>4 DEF CouponInv
<1> QED
  BY <1>4, <1>5

(* On the free plan the semantic track runs only with a coupon, which was   *)
(* charged.                                                                 *)
LEMMA AgentReviewCoupon ==
  ASSUME TypeInv, CouponInv, NEW r \in Requests, AgentReview(r)
  PROVE  CouponInv'
<1>1. /\ pc[r] = "agent" /\ pc' = [pc EXCEPT ![r] = "stats"]
      /\ UNCHANGED <<wallet, coupon, charged, launched, refunded>>
  BY DEF AgentReview, Goto, locals
<1>2. \A q \in Requests \ {r} : risks'[q] = risks[q]
  BY DEF AgentReview, TypeInv, TypeOK
<1>3. CASE "AGENT" \in risks'[r] /\ Plan = "FREE"
  <2>1. \/ "AGENT" \in risks[r]
        \/ Deep(r)
    BY <1>3 DEF AgentReview, TypeInv, TypeOK
  <2>2. charged[r]
    BY <1>1, <1>3, <2>1
    DEF CouponInv, FreeStaysRuleOnly, DeepIsCharged, Deep, Reviewing, InStream
  <2>3. FreeStaysRuleOnly'
    BY <1>1, <1>2, <2>2 DEF CouponInv, FreeStaysRuleOnly
  <2>4. ChargedByRedeem' /\ RefundIsLast' /\ DeepIsCharged'
    BY <1>1, RunsAssumption
    DEF TypeInv, TypeOK, Runs, CouponInv, ChargedByRedeem, RefundIsLast, DeepIsCharged,
        Unpaid, Reviewing, InStream
  <2>5. CouponsConserved'
    BY <1>1 DEF CouponInv, CouponsConserved, Consumed, wallet
  <2> QED
    BY <2>3, <2>4, <2>5 DEF CouponInv
<1>4. CASE ~("AGENT" \in risks'[r] /\ Plan = "FREE")
  <2>1. FreeStaysRuleOnly'
    BY <1>1, <1>2, <1>4 DEF CouponInv, FreeStaysRuleOnly
  <2>2. ChargedByRedeem' /\ RefundIsLast' /\ DeepIsCharged'
    BY <1>1, RunsAssumption
    DEF TypeInv, TypeOK, Runs, CouponInv, ChargedByRedeem, RefundIsLast, DeepIsCharged,
        Unpaid, Reviewing, InStream
  <2>3. CouponsConserved'
    BY <1>1 DEF CouponInv, CouponsConserved, Consumed, wallet
  <2> QED
    BY <2>1, <2>2, <2>3 DEF CouponInv
<1> QED
  BY <1>3, <1>4

LEMMA SaveInterruptCoupon ==
  ASSUME TypeInv, CouponInv, NEW p \in Runs, SaveInterrupt(p)
  PROVE  CouponInv'
<1>1. /\ pc[p] = "save" /\ pc' = [pc EXCEPT ![p] = "finish"]
      /\ UNCHANGED <<wallet, risks, coupon, charged, refunded>>
      /\ launched' = [launched EXCEPT ![p] = p \in Requests]
  BY DEF SaveInterrupt, Goto, locals
<1>2. \A q \in Runs \ {p} : pc'[q] = pc[q] /\ launched'[q] = launched[q]
  BY <1>1 DEF TypeInv, TypeOK
<1>3. pc'[p] = "finish" /\ (p \in Requests /\ coupon[p] => charged[p])
  BY <1>1 DEF TypeInv, TypeOK, CouponInv, DeepIsCharged, Reviewing, InStream
<1>4. ChargedByRedeem' /\ RefundIsLast' /\ DeepIsCharged'
  BY <1>1, <1>2, <1>3
  DEF Runs, CouponInv, ChargedByRedeem, RefundIsLast, DeepIsCharged, Unpaid, Reviewing, InStream
<1>5. FreeStaysRuleOnly' /\ CouponsConserved'
  BY <1>1 DEF CouponInv, FreeStaysRuleOnly, CouponsConserved, Consumed, wallet
<1> QED
  BY <1>4, <1>5 DEF CouponInv

(* A refund moves the coupon back, once. *)
LEMMA CatchErrorCoupon ==
  ASSUME TypeInv, CouponInv, NEW p \in Runs, CatchError(p)
  PROVE  CouponInv'
<1>1. /\ pc[p] = "catch"
      /\ UNCHANGED <<packs, coupon, charged, launched, risks>>
  BY DEF CatchError, rows
<1>2. ~refunded[p]
  BY <1>1 DEF CouponInv, RefundIsLast
<1>3. CASE Refundable(p) /\ balance' = balance + 1
             /\ refunded' = [refunded EXCEPT ![p] = TRUE] /\ Goto(p, "failed")
  <2>1. charged[p] /\ ~launched[p] /\ p \in Requests
    BY <1>3 DEF Refundable, CouponInv, ChargedByRedeem, Runs
  <2>2. refunded'[p] /\ \A q \in Runs \ {p} : refunded'[q] = refunded[q]
    BY <1>3, Zenon DEF TypeInv, TypeOK
  <2>3. pc'[p] = "failed" /\ \A q \in Runs \ {p} : pc'[q] = pc[q]
    BY <1>3 DEF TypeInv, TypeOK, Goto
  <2>4. ChargedByRedeem' /\ RefundIsLast' /\ DeepIsCharged' /\ FreeStaysRuleOnly'
    BY <1>1, <2>1, <2>2, <2>3
    DEF CouponInv, ChargedByRedeem, RefundIsLast, DeepIsCharged, FreeStaysRuleOnly,
        Runs, Unpaid, Reviewing, InStream
  <2>5. Consumed' = Consumed \ {p} /\ p \in Consumed
    BY <1>1, <1>2, <2>1, <2>2 DEF Consumed, Runs
  <2>6. Cardinality(Consumed') = Cardinality(Consumed) - 1
    BY <2>5, ConsumedIsFinite, FS_RemoveElement
  <2>7. CouponsConserved'
    BY <1>1, <1>3, <2>6, ConsumedIsFinite, FS_CardinalityType, BoundsAssumption
    DEF CouponInv, CouponsConserved, TypeInv, TypeOK
  <2> QED
    BY <2>4, <2>7 DEF CouponInv
<1>4. CASE UNCHANGED <<balance, refunded>> /\ (Goto(p, "manual") \/ Goto(p, "failed"))
  BY <1>1, <1>4, CouponsMoveOn DEF Goto, wallet, Unpaid, Reviewing, InStream
<1> QED
  BY <1>3, <1>4 DEF CatchError

LEMMA BuyPackCoupon == TypeInv /\ CouponInv /\ BuyPack => CouponInv'
<1> SUFFICES ASSUME TypeInv, CouponInv, BuyPack PROVE CouponInv'
  OBVIOUS
<1>1. UNCHANGED <<pc, charged, launched, coupon, refunded, risks>>
  BY DEF BuyPack, rows, locals
<1>2. ChargedByRedeem' /\ RefundIsLast' /\ DeepIsCharged' /\ FreeStaysRuleOnly'
  BY <1>1 DEF CouponInv, ChargedByRedeem, RefundIsLast, DeepIsCharged, FreeStaysRuleOnly
<1>3. CouponsConserved'
  <2>1. Consumed' = Consumed
    BY <1>1 DEF Consumed
  <2>2. PackQty * (packs + 1) = PackQty * packs + PackQty
    BY BoundsAssumption DEF TypeInv, TypeOK
  <2> QED
    BY <2>1, <2>2, ConsumedIsFinite, FS_CardinalityType, BoundsAssumption
    DEF BuyPack, CouponInv, CouponsConserved, TypeInv, TypeOK
<1> QED
  BY <1>2, <1>3 DEF CouponInv

LEMMA StepCoupon == TypeInv /\ CouponInv /\ [Next]_vars => CouponInv'
<1> SUFFICES ASSUME TypeInv, CouponInv, [Next]_vars PROVE CouponInv'
  OBVIOUS
<1>1. ASSUME NEW r \in Requests, StartStep(r) PROVE CouponInv'
  BY <1>1, ReceiveCoupon, EntitleCoupon, TokenQuotaCoupon, RedeemCoupon, CreateTaskCoupon,
     MarkReviewingCoupon, LoadClausesCoupon, RuleScanCoupon, AgentReviewCoupon DEF StartStep
<1>2. ASSUME NEW d \in Decisions, DecisionStep(d) PROVE CouponInv'
  BY <1>2, DecideCoupon, ApplyActionsCoupon, WriteVerdictCoupon, SettleContractCoupon,
     SaveDecisionCoupon, ReadRowsCoupon, WriteReportCoupon DEF DecisionStep
<1>3. ASSUME NEW p \in Runs, SharedStep(p) \/ Throw(p) PROVE CouponInv'
  BY <1>3, GetGraphCoupon, WriteStatsCoupon, ShowWaitingCoupon, OpenTaskCoupon,
     SaveInterruptCoupon, FinishCoupon, CatchErrorCoupon, ThrowCoupon DEF SharedStep
<1> QED
  BY <1>1, <1>2, <1>3, RemoveCoupon, BuyPackCoupon, CrashCoupon, StutterCoupon DEF Next

LEMMA CouponInvariance == Spec => []CouponInv
BY TypeInvariance, InitCoupon, StepCoupon, PTL DEF Spec

(* Coupons are conserved (contract.controller.ts:349-411): for any number   *)
(* of concurrent starts, thrown calls and restarts, the balance and the     *)
(* coupons taken and not given back add up to what was credited.            *)
THEOREM Conservation == Spec => []CouponsConserved
BY CouponInvariance, PTL DEF CouponInv

(* A review that was launched with a coupon stays paid, whatever its        *)
(* handler throws afterwards.                                               *)
THEOREM LaunchPays == Spec => []LaunchedIsPaid
<1>1. TypeInv /\ CouponInv => LaunchedIsPaid
  BY DEF CouponInv, RefundIsLast, DeepIsCharged, LaunchedIsPaid, Consumed, Runs
<1> QED
  BY <1>1, TypeInvariance, CouponInvariance, PTL

(* A free tenant has findings of the semantic track only in tasks whose own *)
(* request was charged a coupon.                                            *)
THEOREM FreeTenantPaysForDeep == Spec => []FreeStaysRuleOnly
BY CouponInvariance, PTL DEF CouponInv

-----------------------------------------------------------------------------
(* A task that can be decided is complete *)

Early == Unpaid \cup {"create", "graph", "mark", "load", "rule", "agent"}
Writing(p) == pc[p] \in {"show", "open"}
Deciding(p) == p \in Decisions /\ pc[p] \notin {"idle", "refused"}
Described(t) == HasRow(t) => task[t].stats = risks[t]

(* a task is not opened while its own request may still add risks *)
OpensLate == \A r \in Requests : pc[r] \in Early => ~Opened(r)

(* a verdict comes after that *)
DecidedLate == \A d \in Decisions : Deciding(d) => pc[thread[d]] \notin Early

(* who opens a task, or decides it, finds its statistics up to date *)
WritersKnow == \A p \in Runs : Writing(p) \/ Deciding(p) => Described(thread[p])

OpenInv ==
  /\ OpensLate
  /\ DecidedLate
  /\ WritersKnow
  /\ OpenTaskIsComplete

LEMMA InitOpen == Init => OpenInv
BY RunsAssumption
DEF Init, OpenInv, OpensLate, DecidedLate, WritersKnow, OpenTaskIsComplete, Opened, Writing,
    Deciding, NoTask, Runs, Verdicts

(* Steps of one run that change no task and no risks. *)
LEMMA OpenMovesOn ==
  ASSUME TypeInv, OpenInv, NEW p \in Runs, NEW l,
         pc' = [pc EXCEPT ![p] = l],
         UNCHANGED <<task, risks, thread>>,
         pc[p] # "idle", pc[p] # "refused",
         p \in Requests /\ l \in Early => pc[p] \in Early,
         l \in {"show", "open"} => Writing(p) \/ p \in Decisions
  PROVE  OpenInv'
<1>1. pc'[p] = l /\ \A q \in Runs \ {p} : pc'[q] = pc[q]
  BY DEF TypeInv, TypeOK
<1>2. \A q \in Runs : pc[q] # "idle" => thread[q] \in Requests
  BY DEF TypeInv, Bound
<1>3. OpensLate'
  BY <1>1 DEF OpenInv, OpensLate, Opened, Runs
<1>4. DecidedLate'
  BY <1>1, <1>2 DEF OpenInv, DecidedLate, Deciding, Runs
<1>5. WritersKnow'
  BY <1>1 DEF OpenInv, WritersKnow, Writing, Deciding, Described, HasRow
<1>6. OpenTaskIsComplete'
  BY DEF OpenInv, OpenTaskIsComplete, Opened
<1> QED
  BY <1>3, <1>4, <1>5, <1>6 DEF OpenInv

LEMMA EntitleOpen ==
  ASSUME TypeInv, OpenInv, NEW r \in Requests, Entitle(r)
  PROVE  OpenInv'
BY OpenMovesOn, RunsAssumption
DEF Entitle, Goto, Runs, locals, Early, Unpaid, rows

LEMMA TokenQuotaOpen ==
  ASSUME TypeInv, OpenInv, NEW r \in Requests, TokenQuota(r)
  PROVE  OpenInv'
BY OpenMovesOn, RunsAssumption
DEF TokenQuota, Goto, Runs, locals, Early, Unpaid, rows

LEMMA RedeemOpen ==
  ASSUME TypeInv, OpenInv, NEW r \in Requests, Redeem(r)
  PROVE  OpenInv'
BY OpenMovesOn, RunsAssumption
DEF Redeem, Goto, Runs, locals, Early, Unpaid, rows

LEMMA MarkReviewingOpen ==
  ASSUME TypeInv, OpenInv, NEW r \in Requests, MarkReviewing(r)
  PROVE  OpenInv'
BY OpenMovesOn, RunsAssumption
DEF MarkReviewing, Goto, Runs, locals, Early, Unpaid, SetContract

LEMMA LoadClausesOpen ==
  ASSUME TypeInv, OpenInv, NEW r \in Requests, LoadClauses(r)
  PROVE  OpenInv'
BY OpenMovesOn, RunsAssumption
DEF LoadClauses, Goto, Runs, locals, Early, Unpaid, rows

LEMMA SaveInterruptOpen ==
  ASSUME TypeInv, OpenInv, NEW p \in Runs, SaveInterrupt(p)
  PROVE  OpenInv'
BY OpenMovesOn, RunsAssumption
DEF SaveInterrupt, Goto, Runs, locals, Early, Unpaid

LEMMA FinishOpen ==
  ASSUME TypeInv, OpenInv, NEW p \in Runs, Finish(p)
  PROVE  OpenInv'
BY OpenMovesOn, RunsAssumption
DEF Finish, Goto, Runs, locals, Early, Unpaid, rows

LEMMA ThrowOpen ==
  ASSUME TypeInv, OpenInv, NEW p \in Runs, Throw(p)
  PROVE  OpenInv'
BY OpenMovesOn, RunsAssumption
DEF Throw, Goto, Runs, locals, Early, Unpaid, rows, AfterSse, InStream

LEMMA CatchErrorOpen ==
  ASSUME TypeInv, OpenInv, NEW p \in Runs, CatchError(p)
  PROVE  OpenInv'
BY OpenMovesOn, RunsAssumption
DEF CatchError, Goto, Runs, locals, Early, Unpaid, rows

LEMMA ApplyActionsOpen ==
  ASSUME TypeInv, OpenInv, NEW d \in Decisions, ApplyActions(d)
  PROVE  OpenInv'
BY OpenMovesOn, RunsAssumption
DEF ApplyActions, Goto, Runs, locals, Early, Unpaid

LEMMA SettleContractOpen ==
  ASSUME TypeInv, OpenInv, NEW d \in Decisions, SettleContract(d)
  PROVE  OpenInv'
BY OpenMovesOn, RunsAssumption
DEF SettleContract, Goto, Runs, locals, Early, Unpaid, SetContract

LEMMA SaveDecisionOpen ==
  ASSUME TypeInv, OpenInv, NEW d \in Decisions, SaveDecision(d)
  PROVE  OpenInv'
BY OpenMovesOn, RunsAssumption
DEF SaveDecision, Goto, Runs, locals, Early, Unpaid, AfterDecision

LEMMA ReadRowsOpen ==
  ASSUME TypeInv, OpenInv, NEW d \in Decisions, ReadRows(d)
  PROVE  OpenInv'
BY OpenMovesOn, RunsAssumption
DEF ReadRows, Goto, Runs, locals, Early, Unpaid, rows

LEMMA WriteReportOpen ==
  ASSUME TypeInv, OpenInv, NEW d \in Decisions, WriteReport(d)
  PROVE  OpenInv'
BY OpenMovesOn, RunsAssumption
DEF WriteReport, Goto, Runs, locals, Early, Unpaid

LEMMA GetGraphOpen ==
  ASSUME TypeInv, OpenInv, NEW p \in Runs, GetGraph(p)
  PROVE  OpenInv'
<1>1. pc[p] = "graph" /\ UNCHANGED <<task, risks, thread>>
  BY DEF GetGraph, rows, locals
<1>2. PICK l : pc' = [pc EXCEPT ![p] = l] /\ l \in {"mark", "catch", "stats", "actions", "readRows", "finish"}
  BY DEF GetGraph, Goto, Enter
<1> QED
  BY <1>1, <1>2, OpenMovesOn DEF Early, Unpaid

LEMMA ShowWaitingOpen ==
  ASSUME TypeInv, OpenInv, NEW p \in Runs, ShowWaiting(p)
  PROVE  OpenInv'
BY OpenMovesOn DEF ShowWaiting, SetContract, Goto, locals, Writing, Early, Unpaid

LEMMA ReceiveOpen ==
  ASSUME TypeInv, OpenInv, NEW r \in Requests, Receive(r)
  PROVE  OpenInv'
<1>1. /\ pc[r] = "idle" /\ r \in Runs /\ r \notin Decisions
      /\ UNCHANGED <<task, risks>>
      /\ \A q \in Runs \ {r} : pc'[q] = pc[q] /\ thread'[q] = thread[q]
  BY RunsAssumption DEF Receive, Goto, rows, Runs, TypeInv, TypeOK
<1>2. pc'[r] \in {"entitle", "refused"}
  BY <1>1 DEF Receive, Goto, TypeInv, TypeOK
<1>3. \A d \in Decisions : pc[d] # "idle" => thread[d] \in Requests
  BY DEF TypeInv, Bound, Runs
<1>4. OpensLate' /\ OpenTaskIsComplete'
  BY <1>1, <1>2 DEF OpenInv, OpensLate, OpenTaskIsComplete, Opened, Early, Unpaid, Runs
<1>5. DecidedLate'
  BY <1>1, <1>2, <1>3 DEF OpenInv, DecidedLate, Deciding, Early, Unpaid, Runs
<1>6. WritersKnow'
  BY <1>1, <1>2 DEF OpenInv, WritersKnow, Writing, Deciding, Described, HasRow
<1> QED
  BY <1>4, <1>5, <1>6 DEF OpenInv

(* A change of the rows of a task whose own request is early, and stays     *)
(* early or gets to "stats", is seen by no other run.                       *)
LEMMA EarlyChange ==
  ASSUME TypeInv, OpenInv, NEW r \in Requests, NEW l,
         pc[r] \in Early \ {"idle"}, pc' = [pc EXCEPT ![r] = l],
         l \in {"catch", "graph", "agent", "stats"},
         UNCHANGED thread,
         ~Opened(r)',
         \A t \in Requests \ {r} : task'[t] = task[t] /\ risks'[t] = risks[t]
  PROVE  OpenInv'
<1>1. /\ r \in Runs /\ pc'[r] = l
      /\ \A q \in Runs \ {r} : pc'[q] = pc[q]
  BY DEF TypeInv, TypeOK, Runs
<1>2. \A q \in Runs : pc[q] # "idle" => thread[q] \in Requests /\ (q \in Requests => thread[q] = q)
  BY DEF TypeInv, Bound
<1>3. OpensLate' /\ OpenTaskIsComplete'
  BY <1>1 DEF OpenInv, OpensLate, OpenTaskIsComplete, Opened, Runs
<1>4. DecidedLate'
  BY <1>1, <1>2, RunsAssumption DEF OpenInv, DecidedLate, Deciding, Runs
<1>5. WritersKnow'
  <2> SUFFICES ASSUME NEW p \in Runs, Writing(p)' \/ Deciding(p)'
               PROVE  Described(thread[p])'
    BY DEF WritersKnow
  <2>1. p # r
    BY <1>1, RunsAssumption DEF Writing, Deciding
  <2>2. Writing(p) \/ Deciding(p)
    BY <1>1, <2>1 DEF Writing, Deciding
  <2>3. thread[p] \in Requests \ {r}
    BY <1>2, <2>1, <2>2, RunsAssumption DEF OpenInv, DecidedLate, Writing, Deciding, Runs
  <2> QED
    BY <2>2, <2>3 DEF OpenInv, WritersKnow, Described, HasRow
<1> QED
  BY <1>3, <1>4, <1>5 DEF OpenInv

LEMMA CreateTaskOpen ==
  ASSUME TypeInv, OpenInv, NEW r \in Requests, CreateTask(r)
  PROVE  OpenInv'
<1>1. /\ pc[r] \in Early \ {"idle"}
      /\ \E l \in {"catch", "graph"} : pc' = [pc EXCEPT ![r] = l]
      /\ UNCHANGED <<risks, thread>>
  BY DEF CreateTask, Goto, locals, Early
<1>2. /\ ~Opened(r)'
      /\ \A t \in Requests \ {r} : task'[t] = task[t]
  <2>1. ~Opened(r)
    BY <1>1 DEF OpenInv, OpensLate
  <2>2. task'[r] = task[r] \/ task'[r].status = "RUNNING"
    BY DEF CreateTask, TypeInv, TypeOK
  <2> QED
    BY <2>1, <2>2 DEF CreateTask, TypeInv, TypeOK, Opened, Verdicts
<1> QED
  BY <1>1, <1>2, EarlyChange

LEMMA RuleScanOpen ==
  ASSUME TypeInv, OpenInv, NEW r \in Requests, RuleScan(r)
  PROVE  OpenInv'
<1>1. /\ pc[r] \in Early \ {"idle"}
      /\ \E l \in {"catch", "agent"} : pc' = [pc EXCEPT ![r] = l]
      /\ UNCHANGED <<task, thread>>
      /\ \A t \in Requests \ {r} : risks'[t] = risks[t]
  BY DEF RuleScan, Goto, locals, Early, TypeInv, TypeOK
<1>2. ~Opened(r)'
  BY <1>1 DEF OpenInv, OpensLate, Opened
<1> QED
  BY <1>1, <1>2, EarlyChange

LEMMA AgentReviewOpen ==
  ASSUME TypeInv, OpenInv, NEW r \in Requests, AgentReview(r)
  PROVE  OpenInv'
<1>1. /\ pc[r] \in Early \ {"idle"}
      /\ pc' = [pc EXCEPT ![r] = "stats"]
      /\ UNCHANGED <<task, thread>>
      /\ \A t \in Requests \ {r} : risks'[t] = risks[t]
  BY DEF AgentReview, Goto, locals, Early, TypeInv, TypeOK
<1>2. ~Opened(r)'
  BY <1>1 DEF OpenInv, OpensLate, Opened
<1> QED
  BY <1>1, <1>2, EarlyChange

(* A change of a task's row by a run that is past the agent's review.       *)
LEMMA LateChange ==
  ASSUME TypeInv, OpenInv, NEW p \in Runs,
         pc[p] \in {"stats", "open", "decide"}, Deciding(p) \/ p \in Requests,
         pc'[p] \in {"show", "save", "settle"},
         \A q \in Runs \ {p} : pc'[q] = pc[q],
         UNCHANGED <<thread, risks>>,
         \A t \in Requests \ {thread[p]} : task'[t] = task[t],
         task'[thread[p]].stats = risks[thread[p]]
  PROVE  OpenInv'
<1>1. /\ thread[p] \in Requests /\ (p \in Requests => thread[p] = p)
      /\ \A q \in Runs : pc[q] # "idle" => thread[q] \in Requests
  BY DEF TypeInv, Bound
<1>2. pc[thread[p]] \notin Early
  BY <1>1 DEF OpenInv, DecidedLate, Early, Unpaid, Deciding
<1>3. OpensLate'
  BY <1>2 DEF OpenInv, OpensLate, Opened, Early, Unpaid, Runs
<1>4. OpenTaskIsComplete'
  BY <1>1 DEF OpenInv, OpenTaskIsComplete, Opened
<1>5. DecidedLate'
  BY <1>1, <1>2 DEF OpenInv, DecidedLate, Deciding, Early, Unpaid, Runs
<1>6. WritersKnow'
  <2> SUFFICES ASSUME NEW q \in Runs, Writing(q)' \/ Deciding(q)', thread[q] # thread[p]
               PROVE  Described(thread[q])'
    BY DEF WritersKnow, Described
  <2>1. Writing(q) \/ Deciding(q)
    BY DEF Writing, Deciding
  <2>2. thread[q] \in Requests
    BY <1>1, <2>1 DEF Writing, Deciding
  <2> QED
    BY <2>1, <2>2 DEF OpenInv, WritersKnow, Described, HasRow
<1> QED
  BY <1>3, <1>4, <1>5, <1>6 DEF OpenInv

LEMMA WriteStatsOpen ==
  ASSUME TypeInv, OpenInv, NEW p \in Runs, WriteStats(p)
  PROVE  OpenInv'
<1>1. pc[p] = "stats" /\ thread[p] \in Requests /\ UNCHANGED <<risks, thread>>
  BY DEF WriteStats, locals, TypeInv, Bound
<1>2. CASE HasRow(thread[p])
  <2>1. /\ pc'[p] = "show" /\ \A q \in Runs \ {p} : pc'[q] = pc[q]
        /\ task' = [task EXCEPT ![thread[p]].stats = risks[thread[p]]]
    BY <1>2 DEF WriteStats, Goto, Counted, TypeInv, TypeOK
  <2>2. task'[thread[p]].stats = risks[thread[p]]
    BY <1>1, <1>2, <2>1, RowTyped DEF TypeInv, TypeOK, TaskRow
  <2>3. \A t \in Requests \ {thread[p]} : task'[t] = task[t]
    BY <2>1 DEF TypeInv, TypeOK
  <2> QED
    BY <1>1, <2>1, <2>2, <2>3, LateChange DEF Deciding, Runs
<1>3. CASE ~HasRow(thread[p])
  BY <1>1, <1>3, OpenMovesOn DEF WriteStats, Goto, Early, Unpaid
<1> QED
  BY <1>2, <1>3

LEMMA OpenTaskOpen ==
  ASSUME TypeInv, OpenInv, NEW p \in Runs, OpenTask(p)
  PROVE  OpenInv'
<1>1. pc[p] = "open" /\ thread[p] \in Requests /\ UNCHANGED <<risks, thread>>
  BY DEF OpenTask, locals, TypeInv, Bound
<1>2. CASE HasRow(thread[p])
  <2>1. /\ pc'[p] = "save" /\ \A q \in Runs \ {p} : pc'[q] = pc[q]
        /\ task' = [task EXCEPT ![thread[p]].status = "WAITING_REVIEW"]
    BY <1>2 DEF OpenTask, SetTask, Goto, TypeInv, TypeOK
  <2>2. Described(thread[p])
    BY <1>1 DEF OpenInv, WritersKnow, Writing
  <2>3. task'[thread[p]].stats = task[thread[p]].stats
    BY <1>1, <1>2, <2>1, RowTyped DEF TypeInv, TypeOK, TaskRow
  <2>4. task'[thread[p]].stats = risks[thread[p]]
    BY <1>2, <2>2, <2>3 DEF Described
  <2>5. \A t \in Requests \ {thread[p]} : task'[t] = task[t]
    BY <2>1 DEF TypeInv, TypeOK
  <2> QED
    BY <1>1, <2>1, <2>4, <2>5, LateChange DEF Deciding, Runs
<1>3. CASE ~HasRow(thread[p])
  BY <1>1, <1>3, OpenMovesOn DEF OpenTask, SetTask, Goto, Early, Unpaid
<1> QED
  BY <1>2, <1>3

LEMMA WriteVerdictOpen ==
  ASSUME TypeInv, OpenInv, NEW d \in Decisions, WriteVerdict(d)
  PROVE  OpenInv'
<1>1. /\ pc[d] = "decide" /\ d \in Runs /\ Deciding(d) /\ thread[d] \in Requests
      /\ UNCHANGED <<risks, thread>>
  BY DEF WriteVerdict, locals, TypeInv, Bound, Runs, Deciding
<1>2. CASE HasRow(thread[d])
  <2>1. /\ pc'[d] = "settle" /\ \A q \in Runs \ {d} : pc'[q] = pc[q]
        /\ task' = [task EXCEPT ![thread[d]].status = verdict[d]]
    BY <1>1, <1>2 DEF WriteVerdict, SetTask, Goto, TypeInv, TypeOK
  <2>2. Described(thread[d])
    BY <1>1 DEF OpenInv, WritersKnow
  <2>3. task'[thread[d]].stats = task[thread[d]].stats
    BY <1>1, <1>2, <2>1, RowTyped DEF TypeInv, TypeOK, TaskRow
  <2>4. task'[thread[d]].stats = risks[thread[d]]
    BY <1>2, <2>2, <2>3 DEF Described
  <2>5. \A t \in Requests \ {thread[d]} : task'[t] = task[t]
    BY <2>1 DEF TypeInv, TypeOK
  <2> QED
    BY <1>1, <2>1, <2>4, <2>5, LateChange
<1>3. CASE ~HasRow(thread[d])
  BY <1>1, <1>3, OpenMovesOn DEF WriteVerdict, SetTask, Goto, Early, Unpaid
<1> QED
  BY <1>2, <1>3

LEMMA DecideOpen ==
  ASSUME TypeInv, OpenInv, NEW d \in Decisions, Decide(d)
  PROVE  OpenInv'
<1>1. PICK t \in Requests :
         /\ pc[d] = "idle" /\ d \in Runs /\ d \notin Requests
         /\ thread' = [thread EXCEPT ![d] = t]
         /\ pc' = [pc EXCEPT ![d] = IF task[t].status = "WAITING_REVIEW" THEN "graph" ELSE "refused"]
         /\ UNCHANGED <<task, risks>>
  BY RunsAssumption DEF Decide, Goto, rows, Runs
<1>2. /\ thread'[d] = t /\ pc'[d] \in {"graph", "refused"}
      /\ pc'[d] = "graph" => Opened(t)
      /\ \A q \in Runs \ {d} : thread'[q] = thread[q] /\ pc'[q] = pc[q]
  BY <1>1 DEF TypeInv, TypeOK, Opened
<1>3. OpensLate' /\ OpenTaskIsComplete'
  BY <1>1, <1>2 DEF OpenInv, OpensLate, OpenTaskIsComplete, Opened, Runs
<1>4. DecidedLate'
  <2> SUFFICES ASSUME NEW e \in Decisions, Deciding(e)' PROVE (pc[thread[e]] \notin Early)'
    BY DEF DecidedLate
  <2>1. CASE e = d
    BY <1>1, <1>2, <2>1 DEF OpenInv, OpensLate, Deciding, Runs
  <2>2. CASE e # d
    <3>1. Deciding(e) /\ thread[e] \in Requests
      BY <1>2, <2>2 DEF Deciding, Runs, TypeInv, Bound
    <3> QED
      BY <1>1, <1>2, <2>2, <3>1 DEF OpenInv, DecidedLate, Runs
  <2> QED
    BY <2>1, <2>2
<1>5. WritersKnow'
  <2> SUFFICES ASSUME NEW q \in Runs, Writing(q)' \/ Deciding(q)' PROVE Described(thread[q])'
    BY DEF WritersKnow
  <2>1. CASE q = d
    BY <1>1, <1>2, <2>1 DEF OpenInv, OpenTaskIsComplete, Writing, Deciding, Described, HasRow
  <2>2. CASE q # d
    BY <1>1, <1>2, <2>2 DEF OpenInv, WritersKnow, Writing, Deciding, Described, HasRow
  <2> QED
    BY <2>1, <2>2
<1> QED
  BY <1>3, <1>4, <1>5 DEF OpenInv

(* The rows of a contract go together. *)
LEMMA RemoveOpen ==
  ASSUME TypeInv, OpenInv, NEW c \in Contracts, Remove(c)
  PROVE  OpenInv'
<1>1. /\ UNCHANGED <<pc, thread>>
      /\ \A t \in Requests : \/ task'[t] = task[t] /\ risks'[t] = risks[t]
                             \/ task'[t] = NoTask
  BY DEF Remove, locals
<1>2. NoTask.status = "GONE" /\ "GONE" \notin {"WAITING_REVIEW"} \cup Verdicts
  BY DEF NoTask, Verdicts
<1>3. OpensLate' /\ OpenTaskIsComplete'
  BY <1>1, <1>2 DEF OpenInv, OpensLate, OpenTaskIsComplete, Opened
<1>4. DecidedLate'
  BY <1>1 DEF OpenInv, DecidedLate, Deciding
<1>5. WritersKnow'
  BY <1>1, <1>2 DEF OpenInv, WritersKnow, Writing, Deciding, Described, HasRow, TypeInv, Bound
<1> QED
  BY <1>3, <1>4, <1>5 DEF OpenInv

LEMMA CrashOpen == TypeInv /\ OpenInv /\ Crash => OpenInv'
<1> SUFFICES ASSUME TypeInv, OpenInv, Crash PROVE OpenInv'
  OBVIOUS
<1>1. /\ UNCHANGED <<task, risks, thread>>
      /\ \A p \in Runs : pc'[p] = pc[p] \/ (pc'[p] = "killed" /\ pc[p] \notin Waiting)
  BY DEF Crash, rows, locals
<1>2. OpensLate' /\ OpenTaskIsComplete'
  BY <1>1 DEF OpenInv, OpensLate, OpenTaskIsComplete, Opened, Early, Unpaid, Runs
<1>3. DecidedLate'
  BY <1>1 DEF OpenInv, DecidedLate, Deciding, Waiting, Early, Unpaid, Runs, TypeInv, Bound
<1>4. WritersKnow'
  BY <1>1 DEF OpenInv, WritersKnow, Writing, Deciding, Waiting, Described, HasRow
<1> QED
  BY <1>2, <1>3, <1>4 DEF OpenInv

LEMMA IdleOpen == TypeInv /\ OpenInv /\ UNCHANGED <<task, risks, pc, thread>> => OpenInv'
BY DEF OpenInv, OpensLate, DecidedLate, WritersKnow, OpenTaskIsComplete, Opened, Writing,
       Deciding, Described, HasRow

LEMMA StepOpen == TypeInv /\ OpenInv /\ [Next]_vars => OpenInv'
<1> SUFFICES ASSUME TypeInv, OpenInv, [Next]_vars PROVE OpenInv'
  OBVIOUS
<1>1. ASSUME NEW r \in Requests, StartStep(r) PROVE OpenInv'
  BY <1>1, ReceiveOpen, EntitleOpen, TokenQuotaOpen, RedeemOpen, CreateTaskOpen,
     MarkReviewingOpen, LoadClausesOpen, RuleScanOpen, AgentReviewOpen DEF StartStep
<1>2. ASSUME NEW d \in Decisions, DecisionStep(d) PROVE OpenInv'
  BY <1>2, DecideOpen, ApplyActionsOpen, WriteVerdictOpen, SettleContractOpen,
     SaveDecisionOpen, ReadRowsOpen, WriteReportOpen DEF DecisionStep
<1>3. ASSUME NEW p \in Runs, SharedStep(p) \/ Throw(p) PROVE OpenInv'
  BY <1>3, GetGraphOpen, WriteStatsOpen, ShowWaitingOpen, OpenTaskOpen,
     SaveInterruptOpen, FinishOpen, CatchErrorOpen, ThrowOpen DEF SharedStep
<1>4. CASE BuyPack
  BY <1>4, IdleOpen DEF BuyPack, rows, locals
<1>5. CASE UNCHANGED vars
  BY <1>5, IdleOpen DEF vars, rows, locals
<1> QED
  BY <1>1, <1>2, <1>3, <1>4, <1>5, RemoveOpen, CrashOpen DEF Next

(* A task open to a verdict, or decided, has statistics, and they count     *)
(* exactly the risks it has (review.agent.ts, aggregate): however many      *)
(* reviews, repeated verdicts, removals, faults and restarts interleave.    *)
THEOREM OpenTasksAreComplete == Spec => []OpenTaskIsComplete
<1>1. Spec => []OpenInv
  BY TypeInvariance, InitOpen, StepOpen, PTL DEF Spec
<1> QED
  BY <1>1, PTL DEF OpenInv

-----------------------------------------------------------------------------
(* Rows and their owners *)

(* the places of a request before its task is open to a verdict *)
Unopened == Early \cup {"refused", "stats", "show", "open"}

(* a request that has created its task and not answered yet *)
Created(p) == p \in Requests /\ pc[p] \in {"graph", "mark"} \cup InStream

IdleUnbound == \A d \in Decisions : pc[d] = "idle" => thread[d] = None

(* the foreign key of review_tasks, with its cascade *)
ForeignKey == \A t \in Requests : HasRow(t) => Exists(task[t].contract)

(* a handler works on a row of its contract until both are deleted *)
WorksOnRow ==
  \A p \in Runs : (Created(p) \/ Deciding(p)) /\ (Exists(of[p]) \/ HasRow(thread[p])) =>
    HasRow(thread[p]) /\ task[thread[p]].contract = of[p]

OpenedLast == \A r \in Requests : pc[r] \in Unopened => ~Opened(r)

DecidedOpened ==
  \A d \in Decisions : Deciding(d) =>
    /\ pc[thread[d]] \notin Unopened
    /\ Opened(thread[d]) \/ ~HasRow(thread[d])

RowInv == IdleUnbound /\ ForeignKey /\ WorksOnRow /\ OpenedLast /\ DecidedOpened

LEMMA OpenedHasRow == \A t : Opened(t) => HasRow(t)
BY DEF Opened, HasRow, Verdicts

LEMMA InitRow == Init => RowInv
<1> SUFFICES ASSUME Init PROVE RowInv
  OBVIOUS
<1>1. \A t \in Requests : ~HasRow(t) /\ ~Opened(t)
  BY OpenedHasRow DEF Init, HasRow, NoTask
<1>2. \A p \in Runs : pc[p] = "idle" /\ thread[p] = None
  BY DEF Init
<1>3. \A p \in Runs : ~Created(p) /\ ~Deciding(p)
  BY <1>2 DEF Created, Deciding, InStream
<1> QED
  BY <1>1, <1>2, <1>3 DEF RowInv, IdleUnbound, ForeignKey, WorksOnRow, OpenedLast, DecidedOpened, Runs

LEMMA Moved ==
  ASSUME TypeInv, NEW p \in Runs, NEW l, pc' = [pc EXCEPT ![p] = l]
  PROVE  pc'[p] = l /\ \A q \in Runs \ {p} : pc'[q] = pc[q]
BY DEF TypeInv, TypeOK

LEMMA ThreadsAreRequests ==
  ASSUME TypeInv
  PROVE  \A p \in Runs : pc[p] # "idle" =>
           /\ thread[p] \in Requests /\ of[p] \in Contracts
           /\ p \in Requests => thread[p] = p
BY DEF TypeInv, Bound

(* Steps of one run that change no task and delete nothing. *)
LEMMA RowsMoveOn ==
  ASSUME TypeInv, RowInv, NEW p \in Runs, NEW l,
         pc' = [pc EXCEPT ![p] = l],
         UNCHANGED <<task, of, thread>>,
         \A c \in Contracts : Exists(c)' <=> Exists(c),
         pc[p] # "idle", pc[p] # "refused", l # "idle",
         p \in Requests => /\ l \in Unopened => pc[p] \in Unopened
                           /\ l \in {"graph", "mark"} \cup InStream
                                => pc[p] \in {"graph", "mark"} \cup InStream
  PROVE  RowInv'
<1>1. pc'[p] = l /\ \A q \in Runs \ {p} : pc'[q] = pc[q]
  BY Moved
<1>2. \A q \in Runs : (Created(q) \/ Deciding(q))' => Created(q) \/ Deciding(q)
  BY <1>1 DEF Created, Deciding
<1>3. IdleUnbound'
  BY <1>1 DEF RowInv, IdleUnbound, Runs
<1>4. ForeignKey'
  <2> SUFFICES ASSUME NEW t \in Requests, HasRow(t)' PROVE Exists(task[t].contract)'
    BY DEF ForeignKey
  <2>1. HasRow(t) /\ task[t].contract \in Contracts
    BY RowTyped DEF HasRow, TypeInv, TaskRow
  <2> QED
    BY <2>1 DEF RowInv, ForeignKey
<1>5. WorksOnRow'
  <2> SUFFICES ASSUME NEW q \in Runs, (Created(q) \/ Deciding(q))', (Exists(of[q]) \/ HasRow(thread[q]))'
               PROVE  (HasRow(thread[q]) /\ task[thread[q]].contract = of[q])'
    BY DEF WorksOnRow
  <2>1. Created(q) \/ Deciding(q)
    BY <1>2
  <2>2. of[q] \in Contracts
    BY <2>1, ThreadsAreRequests DEF Created, Deciding, InStream
  <2> QED
    BY <2>1, <2>2 DEF RowInv, WorksOnRow, HasRow
<1>6. OpenedLast'
  BY <1>1 DEF RowInv, OpenedLast, Opened, Runs
<1>7. DecidedOpened'
  <2> SUFFICES ASSUME NEW d \in Decisions, Deciding(d)'
               PROVE  (pc[thread[d]] \notin Unopened /\ (Opened(thread[d]) \/ ~HasRow(thread[d])))'
    BY DEF DecidedOpened
  <2>1. Deciding(d) /\ thread[d] \in Requests /\ d \in Runs
    BY <1>1, ThreadsAreRequests DEF Deciding, Runs
  <2> QED
    BY <1>1, <2>1 DEF RowInv, DecidedOpened, Opened, HasRow, Runs
<1> QED
  BY <1>3, <1>4, <1>5, <1>6, <1>7 DEF RowInv

LEMMA KeepsContracts ==
  ASSUME TypeInv, NEW p \in Runs, pc[p] # "idle", NEW s \in ContractStatus \ {"GONE"}, NEW l,
         SetContract(p, s, l)
  PROVE  \A c \in Contracts : Exists(c)' <=> Exists(c)
<1>1. of[p] \in Contracts
  BY ThreadsAreRequests
<1> QED
  BY <1>1 DEF SetContract, Exists, TypeInv, TypeOK, ContractRow

LEMMA EntitleRow ==
  ASSUME TypeInv, RowInv, NEW r \in Requests, Entitle(r)
  PROVE  RowInv'
BY RowsMoveOn, RunsAssumption
DEF Entitle, Goto, Runs, Exists, Unopened, Early, Unpaid, InStream, rows, locals

LEMMA TokenQuotaRow ==
  ASSUME TypeInv, RowInv, NEW r \in Requests, TokenQuota(r)
  PROVE  RowInv'
BY RowsMoveOn, RunsAssumption
DEF TokenQuota, Goto, Runs, Exists, Unopened, Early, Unpaid, InStream, rows, locals

LEMMA RedeemRow ==
  ASSUME TypeInv, RowInv, NEW r \in Requests, Redeem(r)
  PROVE  RowInv'
BY RowsMoveOn, RunsAssumption
DEF Redeem, Goto, Runs, Exists, Unopened, Early, Unpaid, InStream, rows

LEMMA LoadClausesRow ==
  ASSUME TypeInv, RowInv, NEW r \in Requests, LoadClauses(r)
  PROVE  RowInv'
BY RowsMoveOn, RunsAssumption
DEF LoadClauses, Goto, Runs, Exists, Unopened, Early, Unpaid, InStream, rows, locals

LEMMA RuleScanRow ==
  ASSUME TypeInv, RowInv, NEW r \in Requests, RuleScan(r)
  PROVE  RowInv'
BY RowsMoveOn, RunsAssumption
DEF RuleScan, Goto, Runs, Exists, Unopened, Early, Unpaid, InStream, locals

LEMMA AgentReviewRow ==
  ASSUME TypeInv, RowInv, NEW r \in Requests, AgentReview(r)
  PROVE  RowInv'
BY RowsMoveOn, RunsAssumption
DEF AgentReview, Goto, Runs, Exists, Unopened, Early, Unpaid, InStream, locals

LEMMA SaveInterruptRow ==
  ASSUME TypeInv, RowInv, NEW p \in Runs, SaveInterrupt(p)
  PROVE  RowInv'
BY RowsMoveOn, RunsAssumption
DEF SaveInterrupt, Goto, Runs, Exists, Unopened, Early, Unpaid, InStream

LEMMA FinishRow ==
  ASSUME TypeInv, RowInv, NEW p \in Runs, Finish(p)
  PROVE  RowInv'
BY RowsMoveOn, RunsAssumption
DEF Finish, Goto, Runs, Exists, Unopened, Early, Unpaid, InStream, rows, locals

LEMMA ThrowRow ==
  ASSUME TypeInv, RowInv, NEW p \in Runs, Throw(p)
  PROVE  RowInv'
BY RowsMoveOn, RunsAssumption
DEF Throw, Goto, Runs, Exists, Unopened, Early, Unpaid, InStream, rows, locals, AfterSse

LEMMA CatchErrorRow ==
  ASSUME TypeInv, RowInv, NEW p \in Runs, CatchError(p)
  PROVE  RowInv'
BY RowsMoveOn, RunsAssumption
DEF CatchError, Goto, Runs, Exists, Unopened, Early, Unpaid, InStream, rows

LEMMA ApplyActionsRow ==
  ASSUME TypeInv, RowInv, NEW d \in Decisions, ApplyActions(d)
  PROVE  RowInv'
BY RowsMoveOn, RunsAssumption
DEF ApplyActions, Goto, Runs, Exists, Unopened, Early, Unpaid, InStream, locals

LEMMA SaveDecisionRow ==
  ASSUME TypeInv, RowInv, NEW d \in Decisions, SaveDecision(d)
  PROVE  RowInv'
BY RowsMoveOn, RunsAssumption
DEF SaveDecision, Goto, Runs, Exists, Unopened, Early, Unpaid, InStream, locals, AfterDecision

LEMMA ReadRowsRow ==
  ASSUME TypeInv, RowInv, NEW d \in Decisions, ReadRows(d)
  PROVE  RowInv'
BY RowsMoveOn, RunsAssumption
DEF ReadRows, Goto, Runs, Exists, Unopened, Early, Unpaid, InStream, rows

LEMMA MarkReviewingRow ==
  ASSUME TypeInv, RowInv, NEW r \in Requests, MarkReviewing(r)
  PROVE  RowInv'
<1>1. r \in Runs /\ pc[r] # "idle" /\ "REVIEWING" \in ContractStatus \ {"GONE"}
  BY DEF Runs, MarkReviewing, ContractStatus, StatusAfter
<1>2. \A c \in Contracts : Exists(c)' <=> Exists(c)
  BY <1>1, KeepsContracts DEF MarkReviewing
<1> QED
  BY <1>1, <1>2, RowsMoveOn, RunsAssumption
  DEF MarkReviewing, SetContract, Goto, Runs, locals, Unopened, Early, Unpaid, InStream

LEMMA ShowWaitingRow ==
  ASSUME TypeInv, RowInv, NEW p \in Runs, ShowWaiting(p)
  PROVE  RowInv'
<1>1. p \in Runs /\ pc[p] # "idle" /\ "WAITING_REVIEW" \in ContractStatus \ {"GONE"}
  BY DEF Runs, ShowWaiting, ContractStatus, StatusAfter
<1>2. \A c \in Contracts : Exists(c)' <=> Exists(c)
  BY <1>1, KeepsContracts DEF ShowWaiting
<1> QED
  BY <1>1, <1>2, RowsMoveOn, RunsAssumption
  DEF ShowWaiting, SetContract, Goto, Runs, locals, Unopened, Early, Unpaid, InStream

LEMMA SettleContractRow ==
  ASSUME TypeInv, RowInv, NEW d \in Decisions, SettleContract(d)
  PROVE  RowInv'
<1>1. d \in Runs /\ pc[d] # "idle" /\ StatusAfter(verdict[d]) \in ContractStatus \ {"GONE"}
  BY DEF Runs, SettleContract, ContractStatus, StatusAfter
<1>2. \A c \in Contracts : Exists(c)' <=> Exists(c)
  BY <1>1, KeepsContracts DEF SettleContract
<1> QED
  BY <1>1, <1>2, RowsMoveOn, RunsAssumption
  DEF SettleContract, SetContract, Goto, Runs, locals, Unopened, Early, Unpaid, InStream

LEMMA WriteReportRow ==
  ASSUME TypeInv, RowInv, NEW d \in Decisions, WriteReport(d)
  PROVE  RowInv'
<1>1. d \in Runs /\ d \notin Requests /\ pc[d] = "report" /\ of[d] \in Contracts
  BY ThreadsAreRequests, RunsAssumption DEF Runs, WriteReport
<1>2. \A c \in Contracts : Exists(c)' <=> Exists(c)
  BY <1>1 DEF WriteReport, Exists, TypeInv, TypeOK, ContractRow
<1> QED
  BY <1>1, <1>2, RowsMoveOn DEF WriteReport, Goto, locals

LEMMA GetGraphRow ==
  ASSUME TypeInv, RowInv, NEW p \in Runs, GetGraph(p)
  PROVE  RowInv'
<1>1. pc[p] = "graph" /\ UNCHANGED <<task, of, thread, contract>>
  BY DEF GetGraph, rows, locals
<1>2. PICK l : /\ pc' = [pc EXCEPT ![p] = l]
               /\ l \in {"mark", "catch", "stats", "actions", "readRows", "finish"}
  BY DEF GetGraph, Goto, Enter
<1> QED
  BY <1>1, <1>2, RowsMoveOn DEF Unopened, Early, InStream, Exists

LEMMA ReceiveRow ==
  ASSUME TypeInv, RowInv, NEW r \in Requests, Receive(r)
  PROVE  RowInv'
<1>1. /\ pc[r] = "idle" /\ r \in Runs /\ r \notin Decisions
      /\ UNCHANGED <<task, contract>>
      /\ \A q \in Runs \ {r} : pc'[q] = pc[q] /\ thread'[q] = thread[q] /\ of'[q] = of[q]
      /\ pc'[r] \in {"entitle", "refused"}
  BY RunsAssumption DEF Receive, Goto, rows, Runs, TypeInv, TypeOK
<1>2. \A q \in Runs : (Created(q) \/ Deciding(q))' => q # r /\ (Created(q) \/ Deciding(q))
  BY <1>1 DEF Created, Deciding, InStream
<1>3. IdleUnbound' /\ ForeignKey'
  BY <1>1 DEF RowInv, IdleUnbound, ForeignKey, HasRow, Exists, Runs
<1>4. WorksOnRow'
  BY <1>1, <1>2 DEF RowInv, WorksOnRow, HasRow, Exists
<1>5. OpenedLast'
  BY <1>1 DEF RowInv, OpenedLast, Opened, Unopened, Early, Unpaid, Runs
<1>6. DecidedOpened'
  <2> SUFFICES ASSUME NEW d \in Decisions, Deciding(d)'
               PROVE  (pc[thread[d]] \notin Unopened /\ (Opened(thread[d]) \/ ~HasRow(thread[d])))'
    BY DEF DecidedOpened
  <2>1. d # r /\ Deciding(d) /\ thread[d] \in Requests
    BY <1>1, ThreadsAreRequests DEF Deciding, Runs
  <2>2. thread[d] # r
    BY <1>1, <2>1 DEF RowInv, DecidedOpened, Unopened, Early, Unpaid
  <2> QED
    BY <1>1, <2>1, <2>2 DEF RowInv, DecidedOpened, Opened, HasRow, Runs
<1> QED
  BY <1>3, <1>4, <1>5, <1>6 DEF RowInv

LEMMA CreateTaskRow ==
  ASSUME TypeInv, RowInv, NEW r \in Requests, CreateTask(r)
  PROVE  RowInv'
<1>1. /\ pc[r] = "create" /\ r \in Runs /\ r \notin Decisions /\ of[r] \in Contracts /\ thread[r] = r
      /\ UNCHANGED <<contract, of, thread>>
  BY ThreadsAreRequests, RunsAssumption DEF CreateTask, locals, Runs
<1>2. CASE ~Exists(of[r])
  BY <1>1, <1>2, RowsMoveOn DEF CreateTask, Goto, Exists, Unopened, Early, Unpaid, InStream
<1>3. CASE Exists(of[r])
  <2>1. /\ pc'[r] = "graph" /\ \A q \in Runs \ {r} : pc'[q] = pc[q]
        /\ task'[r].status = "RUNNING" /\ task'[r].contract = of[r]
        /\ \A t \in Requests \ {r} : task'[t] = task[t]
    BY <1>1, <1>3 DEF CreateTask, Goto, TypeInv, TypeOK
  <2>2. \A d \in Decisions : Deciding(d)' => Deciding(d) /\ thread[d] \in Requests \ {r}
    BY <1>1, <2>1, ThreadsAreRequests DEF Deciding, Runs, RowInv, DecidedOpened, Unopened, Early
  <2>3. IdleUnbound' /\ ForeignKey'
    BY <1>1, <1>3, <2>1 DEF RowInv, IdleUnbound, ForeignKey, HasRow, Exists, Runs
  <2>4. WorksOnRow'
    <3> SUFFICES ASSUME NEW q \in Runs, (Created(q) \/ Deciding(q))', (Exists(of[q]) \/ HasRow(thread[q]))'
                 PROVE  (HasRow(thread[q]) /\ task[thread[q]].contract = of[q])'
      BY DEF WorksOnRow
    <3>1. CASE q = r
      BY <1>1, <2>1, <3>1 DEF HasRow
    <3>2. CASE q # r
      <4>1. Created(q) \/ Deciding(q)
        BY <2>1, <3>2 DEF Created, Deciding
      <4>2. thread[q] \in Requests \ {r}
        BY <2>2, <3>2, <4>1, ThreadsAreRequests DEF Created, Deciding, InStream
      <4> QED
        BY <1>1, <2>1, <4>1, <4>2 DEF RowInv, WorksOnRow, HasRow, Exists
    <3> QED
      BY <3>1, <3>2
  <2>5. OpenedLast'
    BY <1>1, <2>1 DEF RowInv, OpenedLast, Opened, Verdicts, Runs
  <2>6. DecidedOpened'
    BY <1>1, <2>1, <2>2 DEF RowInv, DecidedOpened, Opened, HasRow, Runs
  <2> QED
    BY <2>3, <2>4, <2>5, <2>6 DEF RowInv
<1> QED
  BY <1>2, <1>3

(* A write to a row by a handler that is at its statistics or further.      *)
LEMMA RowWritten ==
  ASSUME TypeInv, RowInv, NEW p \in Runs, NEW t \in Requests, t = thread[p],
         pc[p] \in {"stats", "open"} \/ (p \in Decisions /\ pc[p] = "decide"), HasRow(t),
         pc'[p] \in {"show", "save", "settle"},
         \A q \in Runs \ {p} : pc'[q] = pc[q],
         UNCHANGED <<contract, of, thread>>,
         \A u \in Requests \ {t} : task'[u] = task[u],
         task'[t].contract = task[t].contract,
         task'[t].status # "GONE",
         Opened(t) => Opened(t)',
         Opened(t)' => Opened(t) \/ pc'[p] = "save"
  PROVE  RowInv'
<1>1. p \in Requests => t = p
  BY ThreadsAreRequests
<1>2. \A q \in Runs : (Created(q) \/ Deciding(q))' => (Created(q) \/ Deciding(q)) /\ thread[q] \in Requests
  BY ThreadsAreRequests DEF Created, Deciding, InStream
<1>3. IdleUnbound'
  BY DEF RowInv, IdleUnbound, Runs
<1>4. ForeignKey'
  BY DEF RowInv, ForeignKey, HasRow, Exists
<1>5. WorksOnRow'
  BY <1>2 DEF RowInv, WorksOnRow, HasRow, Exists
<1>6. p \in Decisions => Opened(t) /\ pc[t] \notin Unopened
  BY DEF RowInv, DecidedOpened, Deciding
<1>7. OpenedLast'
  <2> SUFFICES ASSUME NEW r \in Requests, pc'[r] \in Unopened PROVE ~Opened(r)'
    BY DEF OpenedLast
  <2>1. CASE r = t
    BY <1>1, <1>6, <2>1, RunsAssumption DEF RowInv, OpenedLast, Opened, Unopened, Early, Unpaid, Runs
  <2>2. CASE r # t
    BY <1>1, <1>6, <2>2, RunsAssumption DEF RowInv, OpenedLast, Opened, Runs
  <2> QED
    BY <2>1, <2>2
<1>8. DecidedOpened'
  <2> SUFFICES ASSUME NEW d \in Decisions, Deciding(d)'
               PROVE  (pc[thread[d]] \notin Unopened /\ (Opened(thread[d]) \/ ~HasRow(thread[d])))'
    BY DEF DecidedOpened
  <2>1. Deciding(d) /\ thread[d] \in Requests /\ d \in Runs
    BY ThreadsAreRequests DEF Deciding, Runs
  <2>2. pc[thread[d]] \notin Unopened /\ (Opened(thread[d]) \/ ~HasRow(thread[d]))
    BY <2>1 DEF RowInv, DecidedOpened
  <2>3. pc'[thread[d]] \notin Unopened
    BY <1>1, <2>1, <2>2, RunsAssumption DEF Unopened, Early, Unpaid, Runs
  <2> QED
    BY <2>1, <2>2, <2>3 DEF Opened, HasRow
<1> QED
  BY <1>3, <1>4, <1>5, <1>7, <1>8 DEF RowInv

LEMMA WriteStatsRow ==
  ASSUME TypeInv, RowInv, NEW p \in Runs, WriteStats(p)
  PROVE  RowInv'
<1>1. pc[p] = "stats" /\ thread[p] \in Requests /\ UNCHANGED <<contract, of, thread>>
  BY ThreadsAreRequests DEF WriteStats, locals
<1>2. CASE HasRow(thread[p])
  <2>1. /\ pc'[p] = "show" /\ \A q \in Runs \ {p} : pc'[q] = pc[q]
        /\ task' = [task EXCEPT ![thread[p]].stats = Counted(thread[p])]
    BY <1>2 DEF WriteStats, Goto, TypeInv, TypeOK
  <2>2. /\ task'[thread[p]].status = task[thread[p]].status
        /\ task'[thread[p]].contract = task[thread[p]].contract
    BY <1>1, <1>2, <2>1, RowTyped DEF TypeInv, TypeOK, TaskRow
  <2>3. \A t \in Requests \ {thread[p]} : task'[t] = task[t]
    BY <2>1 DEF TypeInv, TypeOK
  <2> QED
    BY <1>1, <1>2, <2>1, <2>2, <2>3, RowWritten DEF Opened, HasRow
<1>3. CASE ~HasRow(thread[p])
  BY <1>1, <1>3, RowsMoveOn DEF WriteStats, Goto, Unopened, Early, Unpaid, InStream, Exists
<1> QED
  BY <1>2, <1>3

LEMMA StatusWritten ==
  ASSUME TypeInv, NEW p \in Runs, pc[p] # "idle", HasRow(thread[p]), NEW s, NEW l,
         SetTask(p, s, l)
  PROVE  /\ pc'[p] = l /\ \A q \in Runs \ {p} : pc'[q] = pc[q]
         /\ task'[thread[p]].status = s
         /\ task'[thread[p]].contract = task[thread[p]].contract
         /\ \A t \in Requests \ {thread[p]} : task'[t] = task[t]
<1>1. thread[p] \in Requests
  BY ThreadsAreRequests
<1>2. pc' = [pc EXCEPT ![p] = l] /\ task' = [task EXCEPT ![thread[p]].status = s]
  BY DEF SetTask, Goto
<1>3. /\ task'[thread[p]].status = s
      /\ task'[thread[p]].contract = task[thread[p]].contract
  BY <1>1, <1>2, RowTyped DEF TypeInv, TypeOK, TaskRow
<1>4. \A t \in Requests \ {thread[p]} : task'[t] = task[t]
  BY <1>2 DEF TypeInv, TypeOK
<1>5. pc'[p] = l /\ \A q \in Runs \ {p} : pc'[q] = pc[q]
  BY <1>2, Moved
<1> QED
  BY <1>3, <1>4, <1>5

LEMMA OpenTaskRow ==
  ASSUME TypeInv, RowInv, NEW p \in Runs, OpenTask(p)
  PROVE  RowInv'
<1>1. pc[p] = "open" /\ thread[p] \in Requests /\ UNCHANGED <<contract, of, thread>>
  BY ThreadsAreRequests DEF OpenTask, locals
<1>2. CASE HasRow(thread[p])
  <2>1. SetTask(p, "WAITING_REVIEW", "save")
    BY DEF OpenTask
  <2>2. /\ pc'[p] = "save" /\ \A q \in Runs \ {p} : pc'[q] = pc[q]
        /\ task'[thread[p]].status = "WAITING_REVIEW"
        /\ task'[thread[p]].contract = task[thread[p]].contract
        /\ \A t \in Requests \ {thread[p]} : task'[t] = task[t]
    BY <1>1, <1>2, <2>1, StatusWritten
  <2> QED
    BY <1>1, <1>2, <2>2, RowWritten DEF Opened
<1>3. CASE ~HasRow(thread[p])
  BY <1>1, <1>3, RowsMoveOn DEF OpenTask, SetTask, Goto, Unopened, Early, Unpaid, InStream, Exists
<1> QED
  BY <1>2, <1>3

LEMMA WriteVerdictRow ==
  ASSUME TypeInv, RowInv, NEW d \in Decisions, WriteVerdict(d)
  PROVE  RowInv'
<1>1. /\ pc[d] = "decide" /\ d \in Runs /\ d \notin Requests /\ thread[d] \in Requests
      /\ verdict[d] \in Verdicts /\ Deciding(d)
      /\ UNCHANGED <<contract, of, thread>>
  BY ThreadsAreRequests, RunsAssumption DEF WriteVerdict, locals, Runs, Deciding, TypeInv, Bound
<1>2. CASE HasRow(thread[d])
  <2>1. Opened(thread[d]) /\ SetTask(d, verdict[d], "settle")
    BY <1>1, <1>2 DEF RowInv, DecidedOpened, WriteVerdict
  <2>2. /\ pc'[d] = "settle" /\ \A q \in Runs \ {d} : pc'[q] = pc[q]
        /\ task'[thread[d]].status = verdict[d]
        /\ task'[thread[d]].contract = task[thread[d]].contract
        /\ \A t \in Requests \ {thread[d]} : task'[t] = task[t]
    BY <1>1, <1>2, <2>1, StatusWritten
  <2> QED
    BY <1>1, <1>2, <2>1, <2>2, RowWritten DEF Opened, Verdicts
<1>3. CASE ~HasRow(thread[d])
  BY <1>1, <1>3, RowsMoveOn DEF WriteVerdict, SetTask, Goto, Exists
<1> QED
  BY <1>2, <1>3

LEMMA DecideRow ==
  ASSUME TypeInv, RowInv, NEW d \in Decisions, Decide(d)
  PROVE  RowInv'
<1>1. PICK t \in Requests :
         /\ pc[d] = "idle" /\ d \in Runs /\ d \notin Requests /\ HasRow(t)
         /\ thread' = [thread EXCEPT ![d] = t]
         /\ of' = [of EXCEPT ![d] = task[t].contract]
         /\ pc' = [pc EXCEPT ![d] = IF task[t].status = "WAITING_REVIEW" THEN "graph" ELSE "refused"]
         /\ UNCHANGED <<task, contract>>
  BY RunsAssumption DEF Decide, Goto, rows, Runs
<1>2. /\ thread'[d] = t /\ of'[d] = task[t].contract /\ pc'[d] \in {"graph", "refused"}
      /\ pc'[d] = "graph" => Opened(t)
      /\ \A q \in Runs \ {d} : thread'[q] = thread[q] /\ of'[q] = of[q] /\ pc'[q] = pc[q]
  BY <1>1 DEF TypeInv, TypeOK, Opened
<1>3. IdleUnbound' /\ ForeignKey' /\ OpenedLast'
  BY <1>1, <1>2 DEF RowInv, IdleUnbound, ForeignKey, OpenedLast, Opened, HasRow, Exists, Runs
<1>4. WorksOnRow'
  BY <1>1, <1>2 DEF RowInv, WorksOnRow, Created, Deciding, HasRow, Exists
<1>5. DecidedOpened'
  <2> SUFFICES ASSUME NEW e \in Decisions, Deciding(e)'
               PROVE  (pc[thread[e]] \notin Unopened /\ (Opened(thread[e]) \/ ~HasRow(thread[e])))'
    BY DEF DecidedOpened
  <2>1. CASE e = d
    BY <1>1, <1>2, <2>1 DEF RowInv, OpenedLast, Opened, Deciding, Runs
  <2>2. CASE e # d
    <3>1. Deciding(e) /\ thread[e] \in Requests /\ e \in Runs
      BY <1>2, <2>2, ThreadsAreRequests DEF Deciding, Runs
    <3> QED
      BY <1>1, <1>2, <2>2, <3>1 DEF RowInv, DecidedOpened, Opened, HasRow, Runs
  <2> QED
    BY <2>1, <2>2
<1> QED
  BY <1>3, <1>4, <1>5 DEF RowInv

(* The rows of a contract go with it. *)
LEMMA RemoveRow ==
  ASSUME TypeInv, RowInv, NEW c \in Contracts, Remove(c)
  PROVE  RowInv'
<1>1. /\ UNCHANGED <<pc, of, thread>>
      /\ \A t \in Requests : task'[t] = IF task[t].contract = c THEN NoTask ELSE task[t]
      /\ \A b \in Contracts : Exists(b)' <=> (Exists(b) /\ b # c)
  BY DEF Remove, locals, Exists, TypeInv, TypeOK
<1>2. \A t \in Requests : /\ HasRow(t)' <=> (HasRow(t) /\ task[t].contract # c)
                          /\ HasRow(t)' => task'[t] = task[t]
                          /\ Opened(t)' => Opened(t)
                          /\ Opened(t) /\ HasRow(t)' => Opened(t)'
  BY <1>1 DEF HasRow, NoTask, Opened, Verdicts
<1>3. IdleUnbound' /\ OpenedLast'
  BY <1>1, <1>2 DEF RowInv, IdleUnbound, OpenedLast
<1>4. ForeignKey'
  BY <1>1, <1>2, RowTyped DEF RowInv, ForeignKey, TypeInv, TaskRow
<1>5. WorksOnRow'
  <2> SUFFICES ASSUME NEW p \in Runs, Created(p) \/ Deciding(p), (Exists(of[p]) \/ HasRow(thread[p]))'
               PROVE  (HasRow(thread[p]) /\ task[thread[p]].contract = of[p])'
    BY <1>1 DEF WorksOnRow, Created, Deciding
  <2>1. of[p] \in Contracts /\ thread[p] \in Requests
    BY ThreadsAreRequests DEF Created, Deciding, InStream
  <2> QED
    BY <1>1, <1>2, <2>1 DEF RowInv, WorksOnRow
<1>6. DecidedOpened'
  <2> SUFFICES ASSUME NEW d \in Decisions, Deciding(d)
               PROVE  (pc[thread[d]] \notin Unopened /\ (Opened(thread[d]) \/ ~HasRow(thread[d])))'
    BY <1>1 DEF DecidedOpened, Deciding
  <2>1. thread[d] \in Requests
    BY ThreadsAreRequests DEF Deciding, Runs
  <2> QED
    BY <1>1, <1>2, <2>1 DEF RowInv, DecidedOpened
<1> QED
  BY <1>3, <1>4, <1>5, <1>6 DEF RowInv

LEMMA CrashRow == TypeInv /\ RowInv /\ Crash => RowInv'
<1> SUFFICES ASSUME TypeInv, RowInv, Crash PROVE RowInv'
  OBVIOUS
<1>1. /\ UNCHANGED <<task, contract, of, thread>>
      /\ \A p \in Runs : pc'[p] = pc[p] \/ (pc'[p] = "killed" /\ pc[p] \notin Waiting)
  BY DEF Crash, rows, locals
<1>2. \A p \in Runs : (Created(p) \/ Deciding(p))' => Created(p) \/ Deciding(p)
  BY <1>1 DEF Created, Deciding, InStream, Waiting
<1>3. IdleUnbound' /\ ForeignKey' /\ OpenedLast'
  BY <1>1 DEF RowInv, IdleUnbound, ForeignKey, OpenedLast, Opened, HasRow, Exists, Runs,
              Unopened, Early, Unpaid
<1>4. WorksOnRow'
  BY <1>1, <1>2 DEF RowInv, WorksOnRow, HasRow, Exists
<1>5. DecidedOpened'
  <2> SUFFICES ASSUME NEW d \in Decisions, Deciding(d)'
               PROVE  (pc[thread[d]] \notin Unopened /\ (Opened(thread[d]) \/ ~HasRow(thread[d])))'
    BY DEF DecidedOpened
  <2>1. Deciding(d) /\ thread[d] \in Requests
    BY <1>1, ThreadsAreRequests DEF Deciding, Runs, Waiting
  <2> QED
    BY <1>1, <2>1 DEF RowInv, DecidedOpened, Opened, HasRow, Runs, Unopened, Early, Unpaid
<1> QED
  BY <1>3, <1>4, <1>5 DEF RowInv

LEMMA RestRow == RowInv /\ UNCHANGED <<task, contract, of, thread, pc>> => RowInv'
BY DEF RowInv, IdleUnbound, ForeignKey, WorksOnRow, OpenedLast, DecidedOpened, Opened, HasRow,
       Exists, Created, Deciding

LEMMA StepRow == TypeInv /\ RowInv /\ [Next]_vars => RowInv'
<1> SUFFICES ASSUME TypeInv, RowInv, [Next]_vars PROVE RowInv'
  OBVIOUS
<1>1. ASSUME NEW r \in Requests, StartStep(r) PROVE RowInv'
  BY <1>1, ReceiveRow, EntitleRow, TokenQuotaRow, RedeemRow, CreateTaskRow,
     MarkReviewingRow, LoadClausesRow, RuleScanRow, AgentReviewRow DEF StartStep
<1>2. ASSUME NEW d \in Decisions, DecisionStep(d) PROVE RowInv'
  BY <1>2, DecideRow, ApplyActionsRow, WriteVerdictRow, SettleContractRow,
     SaveDecisionRow, ReadRowsRow, WriteReportRow DEF DecisionStep
<1>3. ASSUME NEW p \in Runs, SharedStep(p) \/ Throw(p) PROVE RowInv'
  BY <1>3, GetGraphRow, WriteStatsRow, ShowWaitingRow, OpenTaskRow, SaveInterruptRow,
     FinishRow, CatchErrorRow, ThrowRow DEF SharedStep
<1>4. CASE BuyPack
  BY <1>4, RestRow DEF BuyPack, rows, locals
<1>5. CASE UNCHANGED vars
  BY <1>5, RestRow DEF vars, rows, locals
<1> QED
  BY <1>1, <1>2, <1>3, <1>4, <1>5, RemoveRow, CrashRow DEF Next

LEMMA RowInvariance == Spec => []RowInv
BY TypeInvariance, InitRow, StepRow, PTL DEF Spec

-----------------------------------------------------------------------------
(* Verdicts *)

Undecided == {"graph", "stats", "show", "open", "save", "actions", "decide"}
Delivering == {"settle", "saveDecision", "readRows", "report"}

Finalizing(d) == Deciding(d) /\ pc[d] \notin Undecided \cup {"settle", "saveDecision"}

(* what a decision finds in the rows of its task *)
Consistent(d) ==
  /\ pc[d] \in Undecided => task[thread[d]].status = "WAITING_REVIEW"
  /\ pc[d] \in Delivering => task[thread[d]].status = verdict[d]
  /\ pc[d] \in {"decide"} \cup Delivering => reviewedBy[thread[d]] # None

IsDecided(opinion) == opinion.verdict \in Verdicts /\ opinion.reviewedBy # None

ReadsDecided(d) ==
  /\ read[d] \in Opinion /\ read[d].task = thread[d]
  /\ SoleReviewer(thread[d]) => IsDecided(read[d])

SoleStatus ==
  \A d \in Decisions :
    Deciding(d) /\ SoleReviewer(thread[d]) /\ HasRow(thread[d]) => Consistent(d)

(* a thread goes to its last node only by a decision that is past its own  *)
Finalized ==
  \A t \in Requests : cp[t] \in {"finalize", "end"} =>
    \E d \in Decisions : thread[d] = t /\ Finalizing(d)

ReadIsDecided == \A d \in Decisions : pc[d] = "report" => ReadsDecided(d)

VerdictInv ==
  SoleStatus /\ Finalized /\ ReadIsDecided /\ ReportIsDecided /\ CompletedUnlessRaced

LEMMA InitVerdict == Init => VerdictInv
<1> SUFFICES ASSUME Init PROVE VerdictInv
  OBVIOUS
<1>1. \A d \in Decisions : pc[d] = "idle"
  BY DEF Init, Runs
<1> QED
  BY <1>1 DEF Init, VerdictInv, SoleStatus, Finalized, ReadIsDecided, ReportIsDecided,
              CompletedUnlessRaced, Deciding

(* Who decides a task alone is the only one at work on it. *)
LEMMA OneDecider ==
  ASSUME NEW d \in Decisions, NEW e \in Decisions, Deciding(d), Deciding(e),
         thread[e] = thread[d], SoleReviewer(thread[d])
  PROVE  d = e
BY DEF SoleReviewer, Deciding

LEMMA RacedIsDeciding ==
  ASSUME RowInv, NEW t \in Requests, ~SoleReviewer(t)
  PROVE  \E d \in Decisions : Deciding(d) /\ thread[d] = t
BY NoneAssumption DEF SoleReviewer, Deciding, RowInv, IdleUnbound, Runs

(* A second reviewer of a task stays one. *)
LEMMA SoleBefore ==
  ASSUME RowInv,
         \A x \in Decisions : pc[x] # "idle" => /\ thread'[x] = thread[x]
                                                /\ pc'[x] = "refused" => pc[x] = "refused",
         NEW t \in Requests, SoleReviewer(t)'
  PROVE  SoleReviewer(t)
<1>1. \A x \in Decisions : thread[x] = t => pc[x] # "idle"
  BY NoneAssumption DEF RowInv, IdleUnbound, Runs
<1> QED
  BY <1>1 DEF SoleReviewer

(* A step that changes rows only of tasks no verdict can be about. *)
LEMMA VerdictsStand ==
  ASSUME TypeInv, RowInv, VerdictInv,
         \A d \in Decisions : /\ pc'[d] = pc[d] /\ thread'[d] = thread[d]
                              /\ verdict'[d] = verdict[d] /\ read'[d] = read[d],
         \A t \in Requests : /\ cp'[t] = cp[t] \/ cp'[t] \notin {"finalize", "end"}
                             /\ task'[t] = task[t] \/ pc[t] \in Unopened,
         UNCHANGED reviewedBy,
         \A c \in Contracts : /\ contract'[c].report = contract[c].report
                              /\ contract'[c].status = "COMPLETED" => contract[c].status = "COMPLETED"
  PROVE  VerdictInv'
<1>1. \A t \in Requests : SoleReviewer(t)' <=> SoleReviewer(t)
  BY DEF SoleReviewer
<1>2. \A d \in Decisions : /\ Deciding(d)' <=> Deciding(d)
                           /\ Deciding(d) => /\ thread[d] \in Requests
                                             /\ task'[thread[d]] = task[thread[d]]
  BY ThreadsAreRequests DEF Deciding, RowInv, DecidedOpened, Runs
<1>3. SoleStatus'
  BY <1>1, <1>2 DEF VerdictInv, SoleStatus, Consistent, HasRow
<1>4. Finalized'
  BY <1>2 DEF VerdictInv, Finalized, Finalizing
<1>5. ReadIsDecided'
  <2> SUFFICES ASSUME NEW d \in Decisions, pc[d] = "report" PROVE ReadsDecided(d)'
    BY DEF ReadIsDecided
  <2>1. thread[d] \in Requests
    BY ThreadsAreRequests DEF Runs
  <2> QED
    BY <1>1, <2>1 DEF VerdictInv, ReadIsDecided, ReadsDecided
<1>6. ReportIsDecided'
  <2> SUFFICES ASSUME NEW c \in Contracts, contract[c].report # NoOpinion
               PROVE  contract[c].report.task \in Requests
    BY <1>1 DEF VerdictInv, ReportIsDecided
  <2> QED
    BY DEF TypeInv, TypeOK, ContractRow, Opinion
<1>7. CompletedUnlessRaced'
  <2> SUFFICES ASSUME NEW c \in Contracts, contract[c].status = "COMPLETED"
               PROVE  (ApprovedTask(c) \/ \E t \in Requests : task[t].contract = c /\ ~SoleReviewer(t))'
    BY DEF CompletedUnlessRaced
  <2>1. CASE ApprovedTask(c)
    <3>1. PICK t \in Requests : task[t].contract = c /\ task[t].status = "APPROVED"
      BY <2>1 DEF ApprovedTask
    <3>2. task'[t] = task[t]
      BY <3>1 DEF RowInv, OpenedLast, Opened, Verdicts
    <3> QED
      BY <3>1, <3>2 DEF ApprovedTask
  <2>2. CASE \E t \in Requests : task[t].contract = c /\ ~SoleReviewer(t)
    <3>1. PICK t \in Requests : task[t].contract = c /\ ~SoleReviewer(t)
      BY <2>2
    <3>2. task'[t] = task[t]
      BY <1>2, <3>1, RacedIsDeciding
    <3> QED
      BY <1>1, <3>1, <3>2
  <2> QED
    BY <2>1, <2>2 DEF VerdictInv, CompletedUnlessRaced
<1> QED
  BY <1>3, <1>4, <1>5, <1>6, <1>7 DEF VerdictInv

(* The rows of a contract change in one column. *)
LEMMA SetContractKeeps ==
  ASSUME TypeInv, NEW p \in Runs, pc[p] # "idle", NEW s, NEW l, SetContract(p, s, l)
  PROVE  \A c \in Contracts : /\ contract'[c].report = contract[c].report
                              /\ contract'[c].status = contract[c].status
                                   \/ (c = of[p] /\ Exists(c) /\ contract'[c].status = s)
<1>1. of[p] \in Contracts /\ contract \in [Contracts -> ContractRow]
  BY ThreadsAreRequests DEF TypeInv, TypeOK
<1>2. CASE Exists(of[p])
  BY <1>1, <1>2 DEF SetContract, ContractRow
<1>3. CASE ~Exists(of[p])
  BY <1>3 DEF SetContract
<1> QED
  BY <1>2, <1>3

LEMMA SetTaskKeeps ==
  ASSUME TypeInv, NEW p \in Runs, pc[p] # "idle", NEW s, NEW l, SetTask(p, s, l)
  PROVE  \A t \in Requests \ {thread[p]} : task'[t] = task[t]
BY DEF SetTask, TypeInv, TypeOK

(* The steps of a request touch no task that is open to a verdict. *)
LEMMA StartVerdict ==
  ASSUME TypeInv, RowInv, VerdictInv, NEW r \in Requests, StartStep(r)
  PROVE  VerdictInv'
<1>0. r \in Runs /\ r \notin Decisions
  BY RunsAssumption DEF Runs
<1>1. CASE Receive(r)
  BY <1>0, <1>1, VerdictsStand DEF Receive, Goto, rows, Runs, TypeInv, TypeOK
<1>2. CASE Entitle(r)
  BY <1>0, <1>2, VerdictsStand DEF Entitle, Goto, rows, locals, Runs, TypeInv, TypeOK
<1>3. CASE TokenQuota(r)
  BY <1>0, <1>3, VerdictsStand DEF TokenQuota, Goto, rows, locals, Runs, TypeInv, TypeOK
<1>4. CASE Redeem(r)
  BY <1>0, <1>4, VerdictsStand DEF Redeem, Goto, rows, Runs, TypeInv, TypeOK
<1>5. CASE CreateTask(r)
  BY <1>0, <1>5, VerdictsStand DEF CreateTask, Goto, locals, Runs, TypeInv, TypeOK, Unopened, Early
<1>6. CASE MarkReviewing(r)
  <2>1. pc[r] # "idle" /\ SetContract(r, "REVIEWING", "load")
    BY <1>6 DEF MarkReviewing
  <2>2. \A q \in Runs \ {r} : pc'[q] = pc[q]
    BY <2>1 DEF SetContract, Goto, TypeInv, TypeOK
  <2> QED
    BY <1>0, <1>6, <2>1, <2>2, SetContractKeeps, VerdictsStand DEF MarkReviewing, locals, Runs
<1>7. CASE LoadClauses(r)
  BY <1>0, <1>7, VerdictsStand DEF LoadClauses, Goto, rows, locals, Runs, TypeInv, TypeOK
<1>8. CASE RuleScan(r)
  BY <1>0, <1>8, VerdictsStand DEF RuleScan, Goto, locals, Runs, TypeInv, TypeOK
<1>9. CASE AgentReview(r)
  BY <1>0, <1>9, VerdictsStand DEF AgentReview, Goto, locals, Runs, TypeInv, TypeOK
<1> QED
  BY <1>1, <1>2, <1>3, <1>4, <1>5, <1>6, <1>7, <1>8, <1>9 DEF StartStep

LEMMA RequestVerdict ==
  ASSUME TypeInv, RowInv, VerdictInv, NEW r \in Requests, SharedStep(r) \/ Throw(r)
  PROVE  VerdictInv'
<1>0. r \in Runs /\ r \notin Decisions /\ (pc[r] # "idle" => thread[r] = r)
  BY RunsAssumption, ThreadsAreRequests DEF Runs
<1>1. CASE GetGraph(r)
  BY <1>0, <1>1, VerdictsStand DEF GetGraph, Goto, rows, locals, Runs, TypeInv, TypeOK
<1>2. CASE WriteStats(r)
  <2>1. \A t \in Requests : task'[t] = task[t] \/ pc[t] \in Unopened
    BY <1>0, <1>2 DEF WriteStats, TypeInv, TypeOK, Unopened
  <2> QED
    BY <1>0, <1>2, <2>1, VerdictsStand DEF WriteStats, Goto, locals, Runs, TypeInv, TypeOK
<1>3. CASE ShowWaiting(r)
  <2>1. pc[r] # "idle" /\ SetContract(r, "WAITING_REVIEW", "open")
    BY <1>3 DEF ShowWaiting
  <2>2. \A q \in Runs \ {r} : pc'[q] = pc[q]
    BY <2>1 DEF SetContract, Goto, TypeInv, TypeOK
  <2> QED
    BY <1>0, <1>3, <2>1, <2>2, SetContractKeeps, VerdictsStand DEF ShowWaiting, locals, Runs
<1>4. CASE OpenTask(r)
  <2>1. pc[r] = "open" /\ SetTask(r, "WAITING_REVIEW", "save")
    BY <1>4 DEF OpenTask
  <2>2. \A q \in Runs \ {r} : pc'[q] = pc[q]
    BY <2>1 DEF SetTask, Goto, TypeInv, TypeOK
  <2>3. \A t \in Requests : task'[t] = task[t] \/ pc[t] \in Unopened
    BY <1>0, <2>1, SetTaskKeeps DEF Unopened
  <2> QED
    BY <1>0, <1>4, <2>2, <2>3, VerdictsStand DEF OpenTask, locals, Runs
<1>5. CASE SaveInterrupt(r)
  BY <1>0, <1>5, VerdictsStand DEF SaveInterrupt, InterruptNode, Goto, Runs, TypeInv, TypeOK
<1>6. CASE Finish(r)
  BY <1>0, <1>6, VerdictsStand DEF Finish, Goto, rows, locals, Runs, TypeInv, TypeOK
<1>7. CASE CatchError(r)
  BY <1>0, <1>7, VerdictsStand DEF CatchError, Goto, rows, Runs, TypeInv, TypeOK
<1>8. CASE Throw(r)
  BY <1>0, <1>8, VerdictsStand DEF Throw, Goto, rows, locals, Runs, TypeInv, TypeOK
<1> QED
  BY <1>1, <1>2, <1>3, <1>4, <1>5, <1>6, <1>7, <1>8 DEF SharedStep

(* A step of a decision: what it has to leave for the rows to agree. *)
LEMMA VerdictsFollow ==
  ASSUME TypeInv, RowInv, VerdictInv, NEW d \in Decisions, Deciding(d), Deciding(d)',
         UNCHANGED <<thread, of, verdict>>,
         \A e \in Decisions \ {d} : pc'[e] = pc[e] /\ read'[e] = read[e],
         \A t \in Requests \ {thread[d]} :
           task'[t] = task[t] /\ cp'[t] = cp[t] /\ reviewedBy'[t] = reviewedBy[t],
         task'[thread[d]].contract = task[thread[d]].contract,
         \/ pc[d] \in Undecided
         \/ task'[thread[d]] = task[thread[d]] /\ reviewedBy'[thread[d]] = reviewedBy[thread[d]],
         SoleReviewer(thread[d]) /\ HasRow(thread[d])' => Consistent(d)',
         Finalizing(d) => Finalizing(d)',
         cp'[thread[d]] \in {"finalize", "end"} => cp'[thread[d]] = cp[thread[d]] \/ Finalizing(d)',
         pc'[d] = "report" => ReadsDecided(d)',
         \A c \in Contracts :
           /\ \/ contract'[c].report = contract[c].report
              \/ contract'[c].report = read[d] /\ pc[d] = "report"
           /\ contract'[c].status = "COMPLETED" =>
                \/ contract[c].status = "COMPLETED"
                \/ /\ c = of[d] /\ Exists(c)
                   /\ pc[d] = "settle" /\ verdict[d] = "APPROVED"
  PROVE  VerdictInv'
<1>1. d \in Runs /\ thread[d] \in Requests
  BY ThreadsAreRequests DEF Deciding, Runs
<1>2. \A e \in Decisions : Deciding(e)' <=> Deciding(e)
  BY DEF Deciding
<1>3. \A t \in Requests : SoleReviewer(t)' <=> SoleReviewer(t)
  BY DEF SoleReviewer, Deciding
<1>4. \A e \in Decisions \ {d} : Deciding(e) /\ SoleReviewer(thread[e]) =>
                                   thread[e] \in Requests \ {thread[d]}
  BY OneDecider, ThreadsAreRequests DEF Deciding, Runs
<1>5. SoleStatus'
  <2> SUFFICES ASSUME NEW e \in Decisions, Deciding(e), SoleReviewer(thread[e]), HasRow(thread[e])'
               PROVE  Consistent(e)'
    BY <1>2, <1>3, ThreadsAreRequests DEF SoleStatus, Deciding, Runs
  <2>1. CASE e = d
    BY <2>1
  <2>2. CASE e # d
    BY <1>4, <2>2 DEF VerdictInv, SoleStatus, Consistent, HasRow
  <2> QED
    BY <2>1, <2>2
<1>6. Finalized'
  <2> SUFFICES ASSUME NEW t \in Requests, cp'[t] \in {"finalize", "end"}
               PROVE  \E e \in Decisions : thread[e] = t /\ Finalizing(e)'
    BY DEF Finalized
  <2>1. CASE t = thread[d] /\ Finalizing(d)'
    BY <2>1
  <2>2. CASE ~(t = thread[d] /\ Finalizing(d)')
    <3>1. cp'[t] = cp[t]
      BY <2>2
    <3>2. PICK e \in Decisions : thread[e] = t /\ Finalizing(e)
      BY <3>1 DEF VerdictInv, Finalized
    <3>3. Finalizing(e)'
      BY <3>2 DEF Finalizing, Deciding
    <3> QED
      BY <3>2, <3>3
  <2> QED
    BY <2>1, <2>2
<1>7. ReadIsDecided'
  <2> SUFFICES ASSUME NEW e \in Decisions, pc'[e] = "report" PROVE ReadsDecided(e)'
    BY DEF ReadIsDecided
  <2>1. CASE e = d
    BY <2>1
  <2>2. CASE e # d
    <3>1. pc[e] = "report" /\ thread[e] \in Requests
      BY <2>2, ThreadsAreRequests DEF Runs
    <3> QED
      BY <1>3, <2>2, <3>1 DEF VerdictInv, ReadIsDecided, ReadsDecided
  <2> QED
    BY <2>1, <2>2
<1>8. ReportIsDecided'
  <2> SUFFICES ASSUME NEW c \in Contracts, contract'[c].report # NoOpinion,
                      NEW t, t = contract'[c].report.task, SoleReviewer(t)'
               PROVE  IsDecided(contract'[c].report)
    BY DEF ReportIsDecided, IsDecided, SoleReviewer
  <2>1. CASE contract'[c].report = contract[c].report
    <3>1. t \in Requests
      BY <2>1 DEF TypeInv, TypeOK, ContractRow, Opinion
    <3> QED
      BY <1>3, <2>1, <3>1 DEF VerdictInv, ReportIsDecided, IsDecided
  <2>2. CASE contract'[c].report = read[d] /\ pc[d] = "report"
    <3>1. t = thread[d]
      BY <2>2 DEF VerdictInv, ReadIsDecided, ReadsDecided
    <3> QED
      BY <1>1, <1>3, <2>2, <3>1 DEF VerdictInv, ReadIsDecided, ReadsDecided
  <2> QED
    BY <2>1, <2>2
<1>9. CompletedUnlessRaced'
  <2> SUFFICES ASSUME NEW c \in Contracts, contract'[c].status = "COMPLETED"
               PROVE  \E t \in Requests : /\ task'[t].contract = c
                                          /\ task'[t].status = "APPROVED" \/ ~SoleReviewer(t)'
    BY DEF CompletedUnlessRaced, ApprovedTask
  <2>1. \A t \in Requests : task'[t].contract = task[t].contract
    OBVIOUS
  <2>2. CASE contract[c].status = "COMPLETED"
    <3>1. PICK t \in Requests : /\ task[t].contract = c
                                /\ task[t].status = "APPROVED" \/ ~SoleReviewer(t)
      BY <2>2 DEF VerdictInv, CompletedUnlessRaced, ApprovedTask
    <3>2. CASE ~SoleReviewer(t)
      BY <1>3, <2>1, <3>1, <3>2
    <3>3. CASE SoleReviewer(t) /\ task[t].status = "APPROVED"
      <4>1. task'[t] = task[t]
        BY <3>3 DEF VerdictInv, SoleStatus, Consistent, HasRow
      <4> QED
        BY <3>1, <3>3, <4>1
    <3> QED
      BY <3>1, <3>2, <3>3
  <2>3. CASE c = of[d] /\ Exists(c) /\ pc[d] = "settle" /\ verdict[d] = "APPROVED"
    <3>1. HasRow(thread[d]) /\ task[thread[d]].contract = c
      BY <1>1, <2>3 DEF RowInv, WorksOnRow
    <3>2. task'[thread[d]] = task[thread[d]]
      BY <2>3 DEF Undecided
    <3>3. SoleReviewer(thread[d]) => task[thread[d]].status = "APPROVED"
      BY <2>3, <3>1 DEF VerdictInv, SoleStatus, Consistent, Delivering
    <3> QED
      BY <1>1, <1>3, <3>1, <3>2, <3>3
  <2> QED
    BY <2>2, <2>3
<1> QED
  BY <1>5, <1>6, <1>7, <1>8, <1>9 DEF VerdictInv

(* A step of a decision that writes nothing the verdicts depend on. *)
LEMMA VerdictsMoveOn ==
  ASSUME TypeInv, RowInv, VerdictInv, NEW d \in Decisions, NEW l,
         Deciding(d), pc' = [pc EXCEPT ![d] = l],
         UNCHANGED <<task, reviewedBy, cp, thread, of, verdict, read>>,
         l \notin {"idle", "refused", "report"},
         l \in Undecided => pc[d] \in Undecided,
         l = "decide" => pc[d] = "decide",
         l \in Delivering => pc[d] \in Delivering,
         Finalizing(d) => l \notin {"settle", "saveDecision"},
         \A c \in Contracts :
           /\ contract'[c].report = contract[c].report
           /\ contract'[c].status = "COMPLETED" =>
                \/ contract[c].status = "COMPLETED"
                \/ /\ c = of[d] /\ Exists(c)
                   /\ pc[d] = "settle" /\ verdict[d] = "APPROVED"
  PROVE  VerdictInv'
<1>1. d \in Runs /\ pc'[d] = l /\ \A e \in Decisions \ {d} : pc'[e] = pc[e]
  BY DEF TypeInv, TypeOK, Runs
<1>2. Deciding(d)' /\ (Finalizing(d) => Finalizing(d)')
  BY <1>1 DEF Deciding, Finalizing
<1>3. SoleReviewer(thread[d]) /\ HasRow(thread[d])' => Consistent(d)'
  BY <1>1 DEF VerdictInv, SoleStatus, Consistent, HasRow
<1> QED
  BY <1>1, <1>2, <1>3, VerdictsFollow

LEMMA DecisionBound ==
  ASSUME TypeInv, NEW d \in Decisions, pc[d] \notin {"idle", "refused"}
  PROVE  /\ d \in Runs /\ d \notin Requests /\ d # None /\ Deciding(d)
         /\ thread[d] \in Requests /\ of[d] \in Contracts /\ verdict[d] \in Verdicts
BY RunsAssumption, NoneAssumption DEF Runs, Deciding, TypeInv, Bound

LEMMA GetGraphVerdict ==
  ASSUME TypeInv, RowInv, VerdictInv, NEW d \in Decisions, GetGraph(d)
  PROVE  VerdictInv'
<1>1. /\ pc[d] = "graph" /\ d \in Runs /\ d \notin Requests /\ Deciding(d) /\ thread[d] \in Requests
      /\ UNCHANGED <<contract, task, reviewedBy, cp, thread, of, verdict, read>>
  BY DecisionBound DEF GetGraph, rows, locals
<1>2. PICK l : /\ pc' = [pc EXCEPT ![d] = l]
               /\ l \in {"catch", "stats", "actions", "finish"}
                    \/ (l = "readRows" /\ cp[thread[d]] = "finalize")
  BY <1>1 DEF GetGraph, Goto, Enter
<1>3. CASE l # "readRows"
  BY <1>1, <1>2, <1>3, VerdictsMoveOn DEF Undecided, Delivering, Finalizing
<1>4. CASE l = "readRows"
  <2>1. ~SoleReviewer(thread[d])
    <3>1. PICK e \in Decisions : thread[e] = thread[d] /\ Finalizing(e)
      BY <1>1, <1>2, <1>4 DEF VerdictInv, Finalized
    <3> QED
      BY <1>1, <3>1, OneDecider DEF Finalizing, Undecided
  <2>2. pc'[d] = "readRows" /\ \A e \in Decisions \ {d} : pc'[e] = pc[e]
    BY <1>1, <1>2, <1>4 DEF TypeInv, TypeOK, Runs
  <2>3. Deciding(d)' /\ ~Finalizing(d)
    BY <1>1, <2>2 DEF Deciding, Finalizing, Undecided
  <2> QED
    BY <1>1, <2>1, <2>2, <2>3, VerdictsFollow
<1> QED
  BY <1>3, <1>4

LEMMA WriteStatsVerdict ==
  ASSUME TypeInv, RowInv, VerdictInv, NEW d \in Decisions, WriteStats(d)
  PROVE  VerdictInv'
<1>1. /\ pc[d] = "stats" /\ d \in Runs /\ Deciding(d) /\ thread[d] \in Requests
      /\ UNCHANGED <<contract, reviewedBy, cp, thread, of, verdict, read>>
  BY DecisionBound DEF WriteStats, locals
<1>2. CASE HasRow(thread[d])
  <2>1. /\ pc'[d] = "show" /\ \A e \in Decisions \ {d} : pc'[e] = pc[e]
        /\ task' = [task EXCEPT ![thread[d]].stats = Counted(thread[d])]
    BY <1>1, <1>2 DEF WriteStats, Goto, TypeInv, TypeOK, Runs
  <2>2. /\ task'[thread[d]].status = task[thread[d]].status
        /\ task'[thread[d]].contract = task[thread[d]].contract
    BY <1>1, <1>2, <2>1, RowTyped DEF TypeInv, TypeOK, TaskRow
  <2>3. \A t \in Requests \ {thread[d]} : task'[t] = task[t]
    BY <2>1 DEF TypeInv, TypeOK
  <2>4. Deciding(d)' /\ ~Finalizing(d) /\ pc[d] \in Undecided
    BY <1>1, <2>1 DEF Deciding, Finalizing, Undecided
  <2>5. SoleReviewer(thread[d]) /\ HasRow(thread[d])' => Consistent(d)'
    BY <1>1, <1>2, <2>1, <2>2, <2>4 DEF VerdictInv, SoleStatus, Consistent, Delivering
  <2> QED
    BY <1>1, <2>1, <2>2, <2>3, <2>4, <2>5, VerdictsFollow
<1>3. CASE ~HasRow(thread[d])
  BY <1>1, <1>3, VerdictsMoveOn DEF WriteStats, Goto, Undecided, Delivering
<1> QED
  BY <1>2, <1>3

LEMMA ShowWaitingVerdict ==
  ASSUME TypeInv, RowInv, VerdictInv, NEW d \in Decisions, ShowWaiting(d)
  PROVE  VerdictInv'
<1>1. /\ pc[d] = "show" /\ d \in Runs /\ Deciding(d)
      /\ UNCHANGED <<task, reviewedBy, cp, thread, of, verdict, read>>
      /\ SetContract(d, "WAITING_REVIEW", "open")
  BY DecisionBound DEF ShowWaiting, locals
<1>2. PICK l \in {"open", "catch"} : pc' = [pc EXCEPT ![d] = l]
  BY <1>1 DEF SetContract, Goto
<1>3. \A c \in Contracts :
        /\ contract'[c].report = contract[c].report
        /\ contract'[c].status = "COMPLETED" => contract[c].status = "COMPLETED"
  BY <1>1, SetContractKeeps
<1> QED
  BY <1>1, <1>2, <1>3, VerdictsMoveOn DEF Undecided, Delivering, Finalizing

(* A write of the task's status by a decision. *)
LEMMA StatusVerdict ==
  ASSUME TypeInv, RowInv, VerdictInv, NEW d \in Decisions, NEW s \in TaskStatus, NEW l,
         pc[d] \in Undecided, SetTask(d, s, l),
         UNCHANGED <<contract, reviewedBy, cp, thread, of, verdict, read>>,
         \/ l = "save" /\ s = "WAITING_REVIEW"
         \/ l = "settle" /\ s = verdict[d] /\ pc[d] = "decide"
  PROVE  VerdictInv'
<1>1. d \in Runs /\ Deciding(d) /\ thread[d] \in Requests /\ pc[d] # "idle"
  BY DecisionBound DEF Undecided
<1>2. CASE HasRow(thread[d])
  <2>1. /\ pc'[d] = l /\ \A e \in Runs \ {d} : pc'[e] = pc[e]
        /\ task'[thread[d]].status = s
        /\ task'[thread[d]].contract = task[thread[d]].contract
        /\ \A t \in Requests \ {thread[d]} : task'[t] = task[t]
    BY <1>1, <1>2, StatusWritten
  <2>2. Deciding(d)' /\ ~Finalizing(d)
    BY <1>1, <2>1 DEF Deciding, Finalizing
  <2>3. SoleReviewer(thread[d]) /\ HasRow(thread[d])' => Consistent(d)'
    BY <1>1, <1>2, <2>1 DEF VerdictInv, SoleStatus, Consistent, Undecided, Delivering
  <2> QED
    BY <1>1, <2>1, <2>2, <2>3, VerdictsFollow DEF Runs
<1>3. CASE ~HasRow(thread[d])
  BY <1>1, <1>3, VerdictsMoveOn DEF SetTask, Goto, Undecided, Delivering
<1> QED
  BY <1>2, <1>3

LEMMA OpenTaskVerdict ==
  ASSUME TypeInv, RowInv, VerdictInv, NEW d \in Decisions, OpenTask(d)
  PROVE  VerdictInv'
BY StatusVerdict DEF OpenTask, locals, Undecided, TaskStatus

LEMMA WriteVerdictVerdict ==
  ASSUME TypeInv, RowInv, VerdictInv, NEW d \in Decisions, WriteVerdict(d)
  PROVE  VerdictInv'
<1>1. pc[d] = "decide" /\ verdict[d] \in TaskStatus
  BY DecisionBound DEF WriteVerdict, TaskStatus
<1> QED
  BY <1>1, StatusVerdict DEF WriteVerdict, locals, Undecided

LEMMA SaveInterruptVerdict ==
  ASSUME TypeInv, RowInv, VerdictInv, NEW d \in Decisions, SaveInterrupt(d)
  PROVE  VerdictInv'
<1>1. /\ pc[d] = "save" /\ d \in Runs /\ Deciding(d) /\ thread[d] \in Requests
      /\ UNCHANGED <<contract, task, reviewedBy, thread, of, verdict, read>>
      /\ pc'[d] = "finish" /\ \A e \in Decisions \ {d} : pc'[e] = pc[e]
      /\ cp'[thread[d]] = "human_review" /\ \A t \in Requests \ {thread[d]} : cp'[t] = cp[t]
  BY DecisionBound DEF SaveInterrupt, InterruptNode, Goto, TypeInv, TypeOK, Runs
<1>2. Deciding(d)' /\ ~Finalizing(d)
  BY <1>1 DEF Deciding, Finalizing, Undecided
<1>3. Consistent(d)'
  BY <1>1 DEF Consistent, Undecided, Delivering
<1> QED
  BY <1>1, <1>2, <1>3, VerdictsFollow

LEMMA EndVerdict ==
  ASSUME TypeInv, RowInv, VerdictInv, NEW d \in Decisions, Deciding(d),
         Finish(d) \/ CatchError(d) \/ Throw(d)
  PROVE  VerdictInv'
<1>1. /\ UNCHANGED <<contract, task, reviewedBy, cp, thread, of, verdict, read>>
      /\ \E l \in {"done", "failed", "manual", "catch"} : pc' = [pc EXCEPT ![d] = l]
  BY DEF Finish, CatchError, Throw, Goto, rows, locals
<1> QED
  BY <1>1, VerdictsMoveOn DEF Undecided, Delivering

LEMMA ApplyActionsVerdict ==
  ASSUME TypeInv, RowInv, VerdictInv, NEW d \in Decisions, ApplyActions(d)
  PROVE  VerdictInv'
<1>1. /\ pc[d] = "actions" /\ d \in Runs /\ Deciding(d) /\ thread[d] \in Requests /\ d # None
      /\ UNCHANGED <<contract, task, cp, thread, of, verdict, read>>
      /\ pc'[d] = "decide" /\ \A e \in Decisions \ {d} : pc'[e] = pc[e]
      /\ HasRow(thread[d]) => reviewedBy'[thread[d]] = d
      /\ \A t \in Requests \ {thread[d]} : reviewedBy'[t] = reviewedBy[t]
  BY DecisionBound DEF ApplyActions, Goto, locals, TypeInv, TypeOK, Runs
<1>2. Deciding(d)' /\ ~Finalizing(d) /\ pc[d] \in Undecided
  BY <1>1 DEF Deciding, Finalizing, Undecided
<1>3. SoleReviewer(thread[d]) /\ HasRow(thread[d])' => Consistent(d)'
  BY <1>1, <1>2 DEF VerdictInv, SoleStatus, Consistent, HasRow, Delivering
<1> QED
  BY <1>1, <1>2, <1>3, VerdictsFollow

LEMMA SettleContractVerdict ==
  ASSUME TypeInv, RowInv, VerdictInv, NEW d \in Decisions, SettleContract(d)
  PROVE  VerdictInv'
<1>1. /\ pc[d] = "settle" /\ d \in Runs /\ Deciding(d) /\ verdict[d] \in Verdicts
      /\ UNCHANGED <<task, reviewedBy, cp, thread, of, verdict, read>>
      /\ SetContract(d, StatusAfter(verdict[d]), "saveDecision")
  BY DecisionBound DEF SettleContract, locals
<1>2. PICK l \in {"saveDecision", "catch"} : pc' = [pc EXCEPT ![d] = l]
  BY <1>1 DEF SetContract, Goto
<1>3. StatusAfter(verdict[d]) = "COMPLETED" => verdict[d] = "APPROVED"
  BY DEF StatusAfter
<1>4. \A c \in Contracts :
        /\ contract'[c].report = contract[c].report
        /\ contract'[c].status = "COMPLETED" =>
             \/ contract[c].status = "COMPLETED"
             \/ c = of[d] /\ Exists(c) /\ pc[d] = "settle" /\ verdict[d] = "APPROVED"
  BY <1>1, <1>3, SetContractKeeps
<1> QED
  BY <1>1, <1>2, <1>4, VerdictsMoveOn DEF Undecided, Delivering, Finalizing

LEMMA SaveDecisionVerdict ==
  ASSUME TypeInv, RowInv, VerdictInv, NEW d \in Decisions, SaveDecision(d)
  PROVE  VerdictInv'
<1>1. /\ pc[d] = "saveDecision" /\ d \in Runs /\ Deciding(d) /\ thread[d] \in Requests
      /\ UNCHANGED <<contract, task, reviewedBy, thread, of, verdict, read>>
      /\ pc'[d] = "readRows" /\ \A e \in Decisions \ {d} : pc'[e] = pc[e]
      /\ \A t \in Requests \ {thread[d]} : cp'[t] = cp[t]
  BY DecisionBound DEF SaveDecision, AfterDecision, Goto, locals, TypeInv, TypeOK, Runs
<1>2. Deciding(d)' /\ Finalizing(d)'
  BY <1>1 DEF Deciding, Finalizing, Undecided
<1>3. SoleReviewer(thread[d]) /\ HasRow(thread[d])' => Consistent(d)'
  BY <1>1 DEF VerdictInv, SoleStatus, Consistent, HasRow, Delivering, Undecided
<1> QED
  BY <1>1, <1>2, <1>3, VerdictsFollow

LEMMA ReadRowsVerdict ==
  ASSUME TypeInv, RowInv, VerdictInv, NEW d \in Decisions, ReadRows(d)
  PROVE  VerdictInv'
<1>1. /\ pc[d] = "readRows" /\ d \in Runs /\ Deciding(d) /\ thread[d] \in Requests
      /\ verdict[d] \in Verdicts
      /\ UNCHANGED <<contract, task, reviewedBy, cp, thread, of, verdict>>
  BY DecisionBound DEF ReadRows, rows
<1>2. CASE HasRow(thread[d])
  <2>1. /\ pc'[d] = "report" /\ \A e \in Decisions \ {d} : pc'[e] = pc[e] /\ read'[e] = read[e]
        /\ read'[d] = [task |-> thread[d], verdict |-> task[thread[d]].status,
                       reviewedBy |-> reviewedBy[thread[d]]]
    BY <1>1, <1>2 DEF ReadRows, Goto, TypeInv, TypeOK, Runs
  <2>2. Deciding(d)' /\ Finalizing(d)'
    BY <1>1, <2>1 DEF Deciding, Finalizing, Undecided
  <2>3. SoleReviewer(thread[d]) => Consistent(d)
    BY <1>1, <1>2 DEF VerdictInv, SoleStatus
  <2>4. Consistent(d) => Consistent(d)'
    BY <1>1, <2>1 DEF Consistent, Undecided, Delivering
  <2>5. SoleReviewer(thread[d])' => SoleReviewer(thread[d])
    BY <1>1, <2>1 DEF SoleReviewer, Deciding
  <2>6. read'[d] \in Opinion /\ read'[d].task = thread[d]
    BY <1>1, <1>2, <2>1, RowTyped DEF Opinion, TypeInv, TypeOK, TaskRow
  <2>7. ReadsDecided(d)'
    BY <1>1, <2>1, <2>3, <2>5, <2>6 DEF ReadsDecided, IsDecided, Consistent, Delivering
  <2> QED
    BY <1>1, <2>1, <2>2, <2>3, <2>4, <2>7, VerdictsFollow
<1>3. CASE ~HasRow(thread[d])
  BY <1>1, <1>3, VerdictsMoveOn DEF ReadRows, Goto, Undecided, Delivering
<1> QED
  BY <1>2, <1>3

LEMMA WriteReportVerdict ==
  ASSUME TypeInv, RowInv, VerdictInv, NEW d \in Decisions, WriteReport(d)
  PROVE  VerdictInv'
<1>1. /\ pc[d] = "report" /\ d \in Runs /\ Deciding(d) /\ thread[d] \in Requests
      /\ of[d] \in Contracts
      /\ UNCHANGED <<task, reviewedBy, thread, of, verdict, read>>
  BY DecisionBound DEF WriteReport, locals
<1>2. CASE Exists(of[d])
  <2>1. /\ pc'[d] = "finish" /\ \A e \in Decisions \ {d} : pc'[e] = pc[e]
        /\ \A t \in Requests \ {thread[d]} : cp'[t] = cp[t]
        /\ contract' = [contract EXCEPT ![of[d]].report = read[d]]
    BY <1>1, <1>2 DEF WriteReport, Goto, TypeInv, TypeOK, Runs
  <2>2. \A c \in Contracts : /\ contract'[c].status = contract[c].status
                             /\ \/ contract'[c].report = contract[c].report
                                \/ contract'[c].report = read[d]
    BY <1>1, <2>1 DEF TypeInv, TypeOK, ContractRow
  <2>3. Deciding(d)' /\ Finalizing(d)'
    BY <1>1, <2>1 DEF Deciding, Finalizing, Undecided
  <2>4. Consistent(d)'
    BY <2>1 DEF Consistent, Undecided, Delivering
  <2> QED
    BY <1>1, <2>1, <2>2, <2>3, <2>4, VerdictsFollow
<1>3. CASE ~Exists(of[d])
  BY <1>1, <1>3, VerdictsMoveOn DEF WriteReport, Goto, Undecided, Delivering
<1> QED
  BY <1>2, <1>3

LEMMA DecideVerdict ==
  ASSUME TypeInv, RowInv, VerdictInv, NEW d \in Decisions, Decide(d)
  PROVE  VerdictInv'
<1>1. PICK t \in Requests :
         /\ pc[d] = "idle" /\ d \in Runs /\ HasRow(t)
         /\ thread' = [thread EXCEPT ![d] = t]
         /\ pc' = [pc EXCEPT ![d] = IF task[t].status = "WAITING_REVIEW" THEN "graph" ELSE "refused"]
         /\ \A e \in Decisions \ {d} : verdict'[e] = verdict[e]
         /\ UNCHANGED <<contract, task, reviewedBy, cp, read>>
  BY DEF Decide, Goto, rows, Runs, TypeInv, TypeOK
<1>2. /\ thread'[d] = t /\ pc'[d] \in {"graph", "refused"}
      /\ pc'[d] = "graph" => task[t].status = "WAITING_REVIEW"
      /\ \A e \in Decisions \ {d} : thread'[e] = thread[e] /\ pc'[e] = pc[e]
  BY <1>1 DEF TypeInv, TypeOK, Runs
<1>3. \A u \in Requests : SoleReviewer(u)' => SoleReviewer(u)
  BY <1>1, <1>2, SoleBefore
<1>4. SoleStatus'
  <2> SUFFICES ASSUME NEW e \in Decisions, Deciding(e)', SoleReviewer(thread[e])', HasRow(thread[e])'
               PROVE  Consistent(e)'
    BY DEF SoleStatus
  <2>1. CASE e = d
    BY <1>1, <1>2, <2>1 DEF Deciding, Consistent, Undecided, Delivering
  <2>2. CASE e # d
    <3>1. Deciding(e) /\ thread[e] \in Requests /\ thread'[e] = thread[e]
      BY <1>2, <2>2, ThreadsAreRequests DEF Deciding, Runs
    <3>2. SoleReviewer(thread[e]) /\ HasRow(thread[e])
      BY <1>1, <1>3, <3>1 DEF HasRow, SoleReviewer
    <3> QED
      BY <1>1, <1>2, <2>2, <3>1, <3>2 DEF VerdictInv, SoleStatus, Consistent
  <2> QED
    BY <2>1, <2>2
<1>5. Finalized'
  <2> SUFFICES ASSUME NEW u \in Requests, cp[u] \in {"finalize", "end"}
               PROVE  \E e \in Decisions : thread'[e] = u /\ Finalizing(e)'
    BY <1>1 DEF Finalized
  <2>1. PICK e \in Decisions : thread[e] = u /\ Finalizing(e)
    BY DEF VerdictInv, Finalized
  <2>2. e # d
    BY <1>1, <2>1 DEF Finalizing, Deciding
  <2> QED
    BY <1>2, <2>1, <2>2 DEF Finalizing, Deciding
<1>6. ReadIsDecided'
  <2> SUFFICES ASSUME NEW e \in Decisions, pc'[e] = "report" PROVE ReadsDecided(e)'
    BY DEF ReadIsDecided
  <2>1. e # d /\ pc[e] = "report" /\ thread[e] \in Requests /\ thread'[e] = thread[e]
    BY <1>2, ThreadsAreRequests DEF Runs
  <2>2. ReadsDecided(e)
    BY <2>1 DEF VerdictInv, ReadIsDecided
  <2>3. SoleReviewer(thread[e])' => SoleReviewer(thread[e])
    BY <1>3, <2>1 DEF SoleReviewer
  <2> QED
    BY <1>1, <2>1, <2>2, <2>3 DEF ReadsDecided
<1>7. ReportIsDecided'
  <2> SUFFICES ASSUME NEW c \in Contracts, contract[c].report # NoOpinion,
                      NEW u, u = contract[c].report.task, SoleReviewer(u)'
               PROVE  IsDecided(contract[c].report)
    BY <1>1 DEF ReportIsDecided, IsDecided, SoleReviewer
  <2>1. u \in Requests
    BY DEF TypeInv, TypeOK, ContractRow, Opinion
  <2> QED
    BY <1>3, <2>1 DEF VerdictInv, ReportIsDecided, IsDecided
<1>8. CompletedUnlessRaced'
  BY <1>1, <1>3 DEF VerdictInv, CompletedUnlessRaced, ApprovedTask
<1> QED
  BY <1>4, <1>5, <1>6, <1>7, <1>8 DEF VerdictInv

LEMMA RemoveVerdict ==
  ASSUME TypeInv, RowInv, VerdictInv, NEW c \in Contracts, Remove(c)
  PROVE  VerdictInv'
<1>1. /\ UNCHANGED <<pc, of, thread, verdict, read, cp>>
      /\ \A t \in Requests : task[t].contract # c => /\ task'[t] = task[t]
                                                      /\ reviewedBy'[t] = reviewedBy[t]
      /\ \A t \in Requests : task[t].contract = c => task'[t] = NoTask
      /\ \A b \in Contracts : IF b = c THEN contract'[b] = [status |-> "GONE", report |-> NoOpinion]
                                       ELSE contract'[b] = contract[b]
  BY DEF Remove, locals, TypeInv, TypeOK
<1>2. \A t : SoleReviewer(t)' <=> SoleReviewer(t)
  BY <1>1 DEF SoleReviewer
<1>3. SoleStatus'
  <2> SUFFICES ASSUME NEW d \in Decisions, Deciding(d), SoleReviewer(thread[d]), HasRow(thread[d])'
               PROVE  Consistent(d)'
    BY <1>1 DEF SoleStatus, Deciding, SoleReviewer
  <2>1. thread[d] \in Requests
    BY DecisionBound DEF Deciding
  <2>2. task[thread[d]].contract # c
    BY <1>1, <2>1 DEF HasRow, NoTask
  <2> QED
    BY <1>1, <2>1, <2>2 DEF VerdictInv, SoleStatus, Consistent, HasRow
<1>4. Finalized' /\ ReadIsDecided'
  BY <1>1 DEF VerdictInv, Finalized, Finalizing, Deciding, ReadIsDecided, ReadsDecided, SoleReviewer
<1>5. ReportIsDecided'
  BY <1>1 DEF VerdictInv, ReportIsDecided, SoleReviewer
<1>6. CompletedUnlessRaced'
  <2> SUFFICES ASSUME NEW b \in Contracts, b # c, contract[b].status = "COMPLETED"
               PROVE  \E t \in Requests : /\ task'[t].contract = b
                                          /\ task'[t].status = "APPROVED" \/ ~SoleReviewer(t)'
    BY <1>1 DEF CompletedUnlessRaced, ApprovedTask
  <2>1. PICK t \in Requests : /\ task[t].contract = b
                              /\ task[t].status = "APPROVED" \/ ~SoleReviewer(t)
    BY DEF VerdictInv, CompletedUnlessRaced, ApprovedTask
  <2> QED
    BY <1>1, <1>2, <2>1
<1> QED
  BY <1>3, <1>4, <1>5, <1>6 DEF VerdictInv

LEMMA CrashVerdict == TypeInv /\ RowInv /\ VerdictInv /\ Crash => VerdictInv'
<1> SUFFICES ASSUME TypeInv, RowInv, VerdictInv, Crash PROVE VerdictInv'
  OBVIOUS
<1>1. /\ UNCHANGED <<contract, task, reviewedBy, cp, of, thread, verdict, read>>
      /\ \A d \in Decisions : pc'[d] = IF pc[d] \in Waiting THEN pc[d] ELSE "killed"
  BY DEF Crash, rows, locals, Runs
<1>2. \A d \in Decisions : /\ Deciding(d)' <=> Deciding(d)
                           /\ pc'[d] \notin Undecided \cup Delivering
                           /\ pc'[d] = "refused" <=> pc[d] = "refused"
  BY <1>1 DEF Deciding, Waiting, Undecided, Delivering
<1>3. \A t : SoleReviewer(t)' <=> SoleReviewer(t)
  BY <1>1, <1>2 DEF SoleReviewer
<1>4. SoleStatus'
  BY <1>2 DEF SoleStatus, Consistent, Undecided
<1>5. Finalized'
  BY <1>1, <1>2 DEF VerdictInv, Finalized, Finalizing, Delivering
<1>6. ReadIsDecided'
  BY <1>2 DEF ReadIsDecided, Delivering
<1>7. ReportIsDecided'
  BY <1>1, <1>2 DEF VerdictInv, ReportIsDecided, SoleReviewer
<1>8. CompletedUnlessRaced'
  BY <1>1, <1>3 DEF VerdictInv, CompletedUnlessRaced, ApprovedTask
<1> QED
  BY <1>4, <1>5, <1>6, <1>7, <1>8 DEF VerdictInv

LEMMA StepVerdict == TypeInv /\ RowInv /\ VerdictInv /\ [Next]_vars => VerdictInv'
<1> SUFFICES ASSUME TypeInv, RowInv, VerdictInv, [Next]_vars PROVE VerdictInv'
  OBVIOUS
<1>1. ASSUME NEW d \in Decisions, DecisionStep(d) PROVE VerdictInv'
  BY <1>1, DecideVerdict, ApplyActionsVerdict, WriteVerdictVerdict, SettleContractVerdict,
     SaveDecisionVerdict, ReadRowsVerdict, WriteReportVerdict DEF DecisionStep
<1>2. ASSUME NEW d \in Decisions, SharedStep(d) \/ Throw(d) PROVE VerdictInv'
  <2>1. CASE Finish(d) \/ CatchError(d) \/ Throw(d)
    <3>1. Deciding(d)
      BY <2>1 DEF Finish, CatchError, Throw, AfterSse, InStream, Deciding
    <3> QED
      BY <2>1, <3>1, EndVerdict
  <2> QED
    BY <1>2, <2>1, GetGraphVerdict, WriteStatsVerdict, ShowWaitingVerdict, OpenTaskVerdict,
       SaveInterruptVerdict DEF SharedStep
<1>3. ASSUME NEW r \in Requests, StartStep(r) \/ SharedStep(r) \/ Throw(r) PROVE VerdictInv'
  BY <1>3, StartVerdict, RequestVerdict
<1>4. CASE BuyPack \/ UNCHANGED vars
  BY <1>4, VerdictsStand DEF BuyPack, vars, rows, locals
<1> QED
  BY <1>1, <1>2, <1>3, <1>4, RemoveVerdict, CrashVerdict DEF Next, Runs

LEMMA VerdictInvariance == Spec => []VerdictInv
<1>1. TypeInv /\ RowInv /\ VerdictInv /\ [Next]_vars => VerdictInv'
  BY StepVerdict
<1> QED
  BY <1>1, TypeInvariance, RowInvariance, InitVerdict, PTL DEF Spec

(* The opinion stored on a contract states a verdict and carries the       *)
(* reviewer's dispositions, whoever else works on the contract, deletes it *)
(* or fails: finalize never runs on a task that still waits, unless two    *)
(* reviewers decide it at once.                                            *)
THEOREM ReportsAreDecided == Spec => []ReportIsDecided
<1>1. VerdictInv => ReportIsDecided
  BY DEF VerdictInv
<1> QED
  BY <1>1, VerdictInvariance, PTL

(* A contract is archived only on an approved task of its own, unless two  *)
(* reviewers decide one of its tasks at once (contract.controller.ts checks *)
(* that the task waits before, and not in, the update).                    *)
THEOREM ArchivedIsApproved == Spec => []CompletedUnlessRaced
<1>1. VerdictInv => CompletedUnlessRaced
  BY DEF VerdictInv
<1> QED
  BY <1>1, VerdictInvariance, PTL

-----------------------------------------------------------------------------
(* Runs in which no call throws and the server does not restart *)

Calm == faults = 0 /\ crashes = 0

(* the places of a request that shows its contract as REVIEWING *)
Busy == {"load", "rule", "agent", "stats", "show"}

Owned(c) == \E r \in Requests : of[r] = c /\ pc[r] \in Busy

(* the opinion on an approved task is stored or on its way *)
Delivered(t) ==
  \/ contract[task[t].contract].report # NoOpinion
  \/ \E d \in Decisions : thread[d] = t /\ pc[d] \in Delivering

CalmInv ==
  Calm =>
    /\ \A c \in Contracts : contract[c].status = "REVIEWING" => Owned(c)
    /\ \A t \in Requests : task[t].status = "APPROVED" => Delivered(t)

LEMMA InitCalm == Init => CalmInv
BY DEF Init, CalmInv, NoTask

LEMMA CalmBefore == TypeInv /\ [Next]_vars /\ Calm' => Calm
<1> SUFFICES ASSUME TypeInv, [Next]_vars, Calm' PROVE Calm
  OBVIOUS
<1>1. faults \in Nat /\ crashes \in Nat /\ initFailures \in Nat
  BY BoundsAssumption DEF TypeInv, TypeOK
<1>2. ASSUME NEW r \in Requests, StartStep(r) PROVE UNCHANGED <<faults, crashes>>
  BY <1>2 DEF StartStep, Receive, Entitle, TokenQuota, Redeem, CreateTask, MarkReviewing,
              LoadClauses, RuleScan, AgentReview, env
<1>3. ASSUME NEW d \in Decisions, DecisionStep(d) PROVE UNCHANGED <<faults, crashes>>
  BY <1>3 DEF DecisionStep, Decide, ApplyActions, WriteVerdict, SettleContract,
              SaveDecision, ReadRows, WriteReport, env
<1>4. ASSUME NEW p \in Runs, SharedStep(p) \/ Throw(p)
      PROVE  crashes' = crashes /\ (faults' = faults \/ faults' = faults + 1)
  BY <1>1, <1>4 DEF SharedStep, GetGraph, WriteStats, ShowWaiting, OpenTask, SaveInterrupt,
                    Finish, CatchError, Throw, env
<1>5. CASE Crash
  BY <1>1, <1>5 DEF Crash, Calm
<1>6. ASSUME NEW c \in Contracts, Remove(c) PROVE UNCHANGED <<faults, crashes>>
  BY <1>6 DEF Remove, env
<1>7. CASE BuyPack \/ UNCHANGED vars
  BY <1>7 DEF BuyPack, vars, env, Calm
<1> QED
  BY <1>1, <1>2, <1>3, <1>4, <1>5, <1>6, <1>7 DEF Next, Calm

(* A step of a handler: what it owes to who waits for it. *)
LEMMA CalmMovesOn ==
  ASSUME TypeInv, RowInv, CalmInv, Calm, NEW p \in Runs, NEW l,
         pc[p] # "idle", pc' = [pc EXCEPT ![p] = l], UNCHANGED <<of, thread>>,
         \A c \in Contracts :
           /\ contract'[c].status = "REVIEWING" =>
                contract[c].status = "REVIEWING" \/ (p \in Requests /\ l = "load" /\ of[p] = c)
           /\ contract[c].report # NoOpinion => contract'[c].report # NoOpinion,
         pc[p] \in Busy /\ contract'[of[p]].status = "REVIEWING" => l \in Busy,
         \A t \in Requests : task'[t].status = "APPROVED" =>
           \/ task[t].status = "APPROVED" /\ task'[t].contract = task[t].contract
           \/ p \in Decisions /\ thread[p] = t /\ l \in Delivering,
         p \in Decisions /\ pc[p] \in Delivering /\ HasRow(thread[p]) =>
           l \in Delivering \/ contract'[task'[thread[p]].contract].report # NoOpinion
  PROVE  CalmInv'
<1>1. pc'[p] = l /\ \A q \in Runs \ {p} : pc'[q] = pc[q]
  BY Moved
<1>2. ASSUME NEW c \in Contracts, contract'[c].status = "REVIEWING" PROVE Owned(c)'
  <2>1. CASE contract[c].status = "REVIEWING"
    <3>1. PICK r \in Requests : of[r] = c /\ pc[r] \in Busy
      BY <2>1 DEF CalmInv, Owned
    <3> QED
      BY <1>1, <1>2, <3>1 DEF Owned, Runs
  <2>2. CASE p \in Requests /\ l = "load" /\ of[p] = c
    BY <1>1, <2>2 DEF Owned, Busy
  <2> QED
    BY <1>2, <2>1, <2>2
<1>3. ASSUME NEW t \in Requests, task'[t].status = "APPROVED" PROVE Delivered(t)'
  <2>1. CASE p \in Decisions /\ thread[p] = t /\ l \in Delivering
    BY <1>1, <2>1 DEF Delivered
  <2>2. CASE task[t].status = "APPROVED" /\ task'[t].contract = task[t].contract
    <3>1. HasRow(t) /\ task[t].contract \in Contracts
      BY <2>2, RowTyped DEF HasRow, TypeInv, TaskRow
    <3>2. CASE contract[task[t].contract].report # NoOpinion
      BY <2>2, <3>1, <3>2 DEF Delivered
    <3>3. ASSUME NEW d \in Decisions, thread[d] = t, pc[d] \in Delivering PROVE Delivered(t)'
      BY <1>1, <3>1, <3>3 DEF Delivered, Runs
    <3> QED
      BY <2>2, <3>2, <3>3 DEF CalmInv, Delivered
  <2> QED
    BY <1>3, <2>1, <2>2
<1> QED
  BY <1>2, <1>3 DEF CalmInv


LEMMA SilentCalm ==
  ASSUME TypeInv, RowInv, CalmInv, Calm, NEW p \in Runs, NEW l,
         pc[p] # "idle", pc' = [pc EXCEPT ![p] = l], UNCHANGED <<contract, task, of, thread>>,
         pc[p] \in Busy /\ Exists(of[p]) => l \in Busy,
         p \in Decisions /\ pc[p] \in Delivering /\ HasRow(thread[p]) => l \in Delivering
  PROVE  CalmInv'
<1>1. contract[of[p]].status = "REVIEWING" => Exists(of[p])
  BY DEF Exists
<1> QED
  BY <1>1, CalmMovesOn

LEMMA StartCalm ==
  ASSUME TypeInv, RowInv, CalmInv, Calm, NEW r \in Requests, StartStep(r)
  PROVE  CalmInv'
<1>0. r \in Runs /\ r \notin Decisions /\ (pc[r] # "idle" => thread[r] = r /\ of[r] \in Contracts)
  BY RunsAssumption, ThreadsAreRequests DEF Runs
<1>1. CASE Receive(r)
  <2>1. /\ pc[r] = "idle" /\ UNCHANGED <<contract, task>>
        /\ \A q \in Runs \ {r} : pc'[q] = pc[q] /\ thread'[q] = thread[q] /\ of'[q] = of[q]
    BY <1>1 DEF Receive, Goto, rows, Runs, TypeInv, TypeOK
  <2>2. \A c \in Contracts : Owned(c) => Owned(c)'
    BY <2>1 DEF Owned, Busy, Runs
  <2>3. \A t \in Requests : Delivered(t) => Delivered(t)'
    BY <1>0, <2>1 DEF Delivered, Runs
  <2> QED
    BY <2>1, <2>2, <2>3 DEF CalmInv
<1>2. CASE Entitle(r)
  BY <1>0, <1>2, SilentCalm DEF Entitle, Goto, rows, locals, Busy
<1>3. CASE TokenQuota(r)
  BY <1>0, <1>3, SilentCalm DEF TokenQuota, Goto, rows, locals, Busy
<1>4. CASE Redeem(r)
  BY <1>0, <1>4, SilentCalm DEF Redeem, Goto, rows, Busy
<1>5. CASE CreateTask(r)
  <2>1. CASE Exists(of[r])
    <3>1. /\ pc[r] = "create" /\ pc' = [pc EXCEPT ![r] = "graph"]
          /\ UNCHANGED <<contract, of, thread>>
      BY <1>5, <2>1 DEF CreateTask, Goto, locals
    <3>2. \A t \in Requests : task'[t].status = "APPROVED" => task'[t] = task[t]
      BY <1>5, <2>1 DEF CreateTask, TypeInv, TypeOK
    <3> QED
      BY <1>0, <3>1, <3>2, CalmMovesOn DEF Busy
  <2>2. CASE ~Exists(of[r])
    BY <1>0, <1>5, <2>2, SilentCalm DEF CreateTask, Goto, locals, Busy
  <2> QED
    BY <2>1, <2>2
<1>6. CASE MarkReviewing(r)
  <2>1. pc[r] = "mark" /\ SetContract(r, "REVIEWING", "load") /\ UNCHANGED <<task, of, thread>>
    BY <1>6 DEF MarkReviewing, locals
  <2>2. CASE Exists(of[r])
    <3>1. \A c \in Contracts : /\ contract'[c].report = contract[c].report
                               /\ contract'[c].status = contract[c].status \/ c = of[r]
      BY <1>0, <2>1, SetContractKeeps
    <3> QED
      BY <1>0, <2>1, <2>2, <3>1, CalmMovesOn DEF SetContract, Goto, Busy
  <2>3. CASE ~Exists(of[r])
    BY <1>0, <2>1, <2>3, SilentCalm DEF SetContract, Goto, Busy
  <2> QED
    BY <2>2, <2>3
<1>7. CASE LoadClauses(r)
  BY <1>0, <1>7, SilentCalm DEF LoadClauses, Goto, rows, locals, Busy
<1>8. CASE RuleScan(r)
  BY <1>0, <1>8, SilentCalm DEF RuleScan, Goto, locals, Busy
<1>9. CASE AgentReview(r)
  BY <1>0, <1>9, SilentCalm DEF AgentReview, Goto, locals, Busy
<1> QED
  BY <1>1, <1>2, <1>3, <1>4, <1>5, <1>6, <1>7, <1>8, <1>9 DEF StartStep

LEMMA SharedCalm ==
  ASSUME TypeInv, RowInv, CalmInv, Calm, Calm', NEW p \in Runs, SharedStep(p) \/ Throw(p)
  PROVE  CalmInv'
<1>0. pc[p] # "idle" => thread[p] \in Requests /\ of[p] \in Contracts
  BY ThreadsAreRequests
<1>1. CASE GetGraph(p)
  <2>1. pc[p] = "graph" /\ UNCHANGED <<contract, task, of, thread>> /\ \E l : pc' = [pc EXCEPT ![p] = l]
    BY <1>1 DEF GetGraph, Goto, rows, locals
  <2> QED
    BY <2>1, SilentCalm DEF Busy, Delivering
<1>2. CASE WriteStats(p)
  <2>1. pc[p] = "stats" /\ UNCHANGED <<contract, of, thread>>
    BY <1>2 DEF WriteStats, locals
  <2>2. CASE HasRow(thread[p])
    <3>1. /\ pc' = [pc EXCEPT ![p] = "show"]
          /\ task' = [task EXCEPT ![thread[p]].stats = Counted(thread[p])]
      BY <1>2, <2>2 DEF WriteStats, Goto
    <3>2. \A t \in Requests : task'[t].status = task[t].status /\ task'[t].contract = task[t].contract
      BY <3>1 DEF TypeInv, TypeOK, TaskRow, NoTask
    <3> QED
      BY <2>1, <3>1, <3>2, CalmMovesOn DEF Busy, Delivering
  <2>3. CASE ~HasRow(thread[p])
    <3>1. pc[p] \in Busy /\ Exists(of[p]) => p \notin Requests
      BY <2>1, <2>3 DEF RowInv, WorksOnRow, Created, InStream
    <3>2. p \notin Requests => Deciding(p)
      BY <2>1 DEF Deciding, Runs
    <3>3. ~Exists(of[p])
      BY <2>1, <2>3, <3>1, <3>2 DEF RowInv, WorksOnRow, Busy
    <3> QED
      BY <1>2, <2>1, <2>3, <3>3, SilentCalm DEF WriteStats, Goto, Delivering
  <2> QED
    BY <2>2, <2>3
<1>3. CASE ShowWaiting(p)
  <2>1. /\ pc[p] = "show" /\ SetContract(p, "WAITING_REVIEW", "open")
        /\ UNCHANGED <<task, of, thread>>
    BY <1>3 DEF ShowWaiting, locals
  <2>2. CASE Exists(of[p])
    <3>1. \A c \in Contracts : /\ contract'[c].report = contract[c].report
                               /\ contract'[c].status = "REVIEWING" => contract[c].status = "REVIEWING"
      BY <2>1, SetContractKeeps
    <3>2. contract'[of[p]].status = "WAITING_REVIEW"
      BY <1>0, <2>1, <2>2 DEF SetContract, TypeInv, TypeOK, ContractRow
    <3> QED
      BY <2>1, <2>2, <3>1, <3>2, CalmMovesOn DEF SetContract, Goto, Delivering
  <2>3. CASE ~Exists(of[p])
    BY <2>1, <2>3, SilentCalm DEF SetContract, Goto, Delivering
  <2> QED
    BY <2>2, <2>3
<1>4. CASE OpenTask(p)
  <2>1. pc[p] = "open" /\ SetTask(p, "WAITING_REVIEW", "save") /\ UNCHANGED <<contract, of, thread>>
    BY <1>4 DEF OpenTask, locals
  <2>2. CASE HasRow(thread[p])
    <3>1. /\ task'[thread[p]].status = "WAITING_REVIEW"
          /\ \A t \in Requests \ {thread[p]} : task'[t] = task[t]
      BY <2>1, <2>2, StatusWritten
    <3> QED
      BY <2>1, <2>2, <3>1, CalmMovesOn DEF SetTask, Goto, Busy, Delivering
  <2>3. CASE ~HasRow(thread[p])
    BY <2>1, <2>3, SilentCalm DEF SetTask, Goto, Busy, Delivering
  <2> QED
    BY <2>2, <2>3
<1>5. CASE SaveInterrupt(p)
  BY <1>5, SilentCalm DEF SaveInterrupt, Goto, Busy, Delivering
<1>6. CASE Finish(p)
  BY <1>6, SilentCalm DEF Finish, Goto, rows, locals, Busy, Delivering
<1>7. CASE CatchError(p)
  BY <1>7, SilentCalm DEF CatchError, Goto, rows, Busy, Delivering
<1>8. CASE Throw(p)
  BY <1>8 DEF Throw, Calm
<1> QED
  BY <1>1, <1>2, <1>3, <1>4, <1>5, <1>6, <1>7, <1>8 DEF SharedStep

LEMMA DecisionCalm ==
  ASSUME TypeInv, RowInv, VerdictInv, CalmInv, Calm, NEW d \in Decisions, DecisionStep(d)
  PROVE  CalmInv'
<1>0. /\ d \in Runs /\ d \notin Requests
      /\ pc[d] \notin {"idle", "refused"} =>
           thread[d] \in Requests /\ of[d] \in Contracts /\ Deciding(d)
  BY DecisionBound, RunsAssumption DEF Runs
<1>1. CASE Decide(d)
  <2>1. /\ pc[d] = "idle" /\ UNCHANGED <<contract, task>>
        /\ \A q \in Runs \ {d} : pc'[q] = pc[q] /\ thread'[q] = thread[q] /\ of'[q] = of[q]
    BY <1>1 DEF Decide, Goto, rows, TypeInv, TypeOK
  <2>2. \A c \in Contracts : Owned(c) => Owned(c)'
    BY <1>0, <2>1 DEF Owned, Busy, Runs
  <2>3. \A t \in Requests : Delivered(t) => Delivered(t)'
    BY <1>0, <2>1 DEF Delivered, Delivering, Runs
  <2> QED
    BY <2>1, <2>2, <2>3 DEF CalmInv
<1>2. CASE ApplyActions(d)
  BY <1>0, <1>2, SilentCalm DEF ApplyActions, Goto, locals, Busy, Delivering
<1>3. CASE WriteVerdict(d)
  <2>1. pc[d] = "decide" /\ SetTask(d, verdict[d], "settle") /\ UNCHANGED <<contract, of, thread>>
    BY <1>3 DEF WriteVerdict, locals
  <2>2. CASE HasRow(thread[d])
    <3>1. \A t \in Requests \ {thread[d]} : task'[t] = task[t]
      BY <1>0, <2>1, SetTaskKeeps
    <3> QED
      BY <1>0, <2>1, <2>2, <3>1, CalmMovesOn DEF SetTask, Goto, Busy, Delivering
  <2>3. CASE ~HasRow(thread[d])
    BY <1>0, <2>1, <2>3, SilentCalm DEF SetTask, Goto, Busy, Delivering
  <2> QED
    BY <2>2, <2>3
<1>4. CASE SettleContract(d)
  <2>1. /\ pc[d] = "settle" /\ SetContract(d, StatusAfter(verdict[d]), "saveDecision")
        /\ UNCHANGED <<task, of, thread>>
    BY <1>4 DEF SettleContract, locals
  <2>2. CASE Exists(of[d])
    <3>1. \A c \in Contracts : /\ contract'[c].report = contract[c].report
                               /\ contract'[c].status = "REVIEWING" => contract[c].status = "REVIEWING"
      BY <1>0, <2>1, SetContractKeeps DEF StatusAfter
    <3> QED
      BY <1>0, <2>1, <2>2, <3>1, CalmMovesOn DEF SetContract, Goto, Busy, Delivering
  <2>3. CASE ~Exists(of[d])
    <3>1. ~HasRow(thread[d])
      BY <1>0, <2>1, <2>3 DEF RowInv, WorksOnRow, ForeignKey
    <3> QED
      BY <1>0, <2>1, <2>3, <3>1, SilentCalm DEF SetContract, Goto, Busy
  <2> QED
    BY <2>2, <2>3
<1>5. CASE SaveDecision(d)
  BY <1>0, <1>5, SilentCalm DEF SaveDecision, AfterDecision, Goto, locals, Busy, Delivering
<1>6. CASE ReadRows(d)
  BY <1>0, <1>6, SilentCalm DEF ReadRows, Goto, rows, Busy, Delivering
<1>7. CASE WriteReport(d)
  <2>1. pc[d] = "report" /\ UNCHANGED <<task, of, thread>>
    BY <1>7 DEF WriteReport, locals
  <2>2. CASE Exists(of[d])
    <3>1. pc' = [pc EXCEPT ![d] = "finish"] /\ contract' = [contract EXCEPT ![of[d]].report = read[d]]
      BY <1>7, <2>2 DEF WriteReport, Goto
    <3>2. read[d] # NoOpinion
      BY <2>1, NoneAssumption DEF VerdictInv, ReadIsDecided, ReadsDecided, Opinion, NoOpinion, Runs
    <3>3. \A c \in Contracts : /\ contract'[c].status = contract[c].status
                               /\ contract[c].report # NoOpinion => contract'[c].report # NoOpinion
                               /\ c = of[d] => contract'[c].report # NoOpinion
      BY <1>0, <3>1, <3>2 DEF TypeInv, TypeOK, ContractRow
    <3>4. HasRow(thread[d]) => task[thread[d]].contract = of[d]
      BY <1>0, <2>1 DEF RowInv, WorksOnRow
    <3> QED
      BY <1>0, <2>1, <3>1, <3>3, <3>4, CalmMovesOn DEF Busy
  <2>3. CASE ~Exists(of[d])
    <3>1. ~HasRow(thread[d])
      BY <1>0, <2>1, <2>3 DEF RowInv, WorksOnRow, ForeignKey
    <3> QED
      BY <1>0, <1>7, <2>1, <2>3, <3>1, SilentCalm DEF WriteReport, Goto, Busy
  <2> QED
    BY <2>2, <2>3
<1> QED
  BY <1>1, <1>2, <1>3, <1>4, <1>5, <1>6, <1>7 DEF DecisionStep

LEMMA RemoveCalm ==
  ASSUME TypeInv, CalmInv, Calm, NEW c \in Contracts, Remove(c)
  PROVE  CalmInv'
<1>1. /\ UNCHANGED <<pc, of, thread>>
      /\ \A t \in Requests : task'[t] = IF task[t].contract = c THEN NoTask ELSE task[t]
      /\ \A b \in Contracts : IF b = c THEN contract'[b].status = "GONE" ELSE contract'[b] = contract[b]
  BY DEF Remove, locals, TypeInv, TypeOK
<1>2. \A b \in Contracts : contract'[b].status = "REVIEWING" => Owned(b)'
  BY <1>1 DEF CalmInv, Owned
<1>3. ASSUME NEW t \in Requests, task'[t].status = "APPROVED" PROVE Delivered(t)'
  <2>1. task'[t] = task[t] /\ task[t].contract # c /\ Delivered(t)
    BY <1>1, <1>3 DEF NoTask, CalmInv
  <2>2. task[t].contract \in Contracts
    BY <1>3, <2>1, RowTyped DEF HasRow, TypeInv, TaskRow
  <2> QED
    BY <1>1, <2>1, <2>2 DEF Delivered
<1> QED
  BY <1>2, <1>3 DEF CalmInv

LEMMA StepCalm == TypeInv /\ RowInv /\ VerdictInv /\ CalmInv /\ [Next]_vars => CalmInv'
<1> SUFFICES ASSUME TypeInv, RowInv, VerdictInv, CalmInv, [Next]_vars, Calm' PROVE CalmInv'
  BY DEF CalmInv
<1>1. Calm
  BY CalmBefore
<1>2. ASSUME NEW r \in Requests, StartStep(r) PROVE CalmInv'
  BY <1>1, <1>2, StartCalm
<1>3. ASSUME NEW d \in Decisions, DecisionStep(d) PROVE CalmInv'
  BY <1>1, <1>3, DecisionCalm
<1>4. ASSUME NEW p \in Runs, SharedStep(p) \/ Throw(p) PROVE CalmInv'
  BY <1>1, <1>4, SharedCalm
<1>5. ASSUME NEW c \in Contracts, Remove(c) PROVE CalmInv'
  BY <1>1, <1>5, RemoveCalm
<1>6. CASE BuyPack \/ UNCHANGED vars
  BY <1>1, <1>6 DEF BuyPack, vars, rows, locals, CalmInv, Owned, Delivered
<1>7. CASE Crash
  BY <1>1, <1>7 DEF Crash, Calm
<1> QED
  BY <1>2, <1>3, <1>4, <1>5, <1>6, <1>7 DEF Next

LEMMA CalmInvariance == Spec => []CalmInv
<1>1. TypeInv /\ RowInv /\ VerdictInv /\ CalmInv /\ [Next]_vars => CalmInv'
  BY StepCalm
<1> QED
  BY <1>1, TypeInvariance, RowInvariance, VerdictInvariance, InitCalm, PTL DEF Spec

(* While no call fails and the server does not restart, a contract shown   *)
(* as REVIEWING is being reviewed by a handler that will write its next    *)
(* status.                                                                 *)
THEOREM ReviewingIsOwned == Spec => [](Calm => ReviewingHasOwner)
<1>1. CalmInv => (Calm => ReviewingHasOwner)
  BY DEF CalmInv, ReviewingHasOwner, Owned, Busy
<1> QED
  BY <1>1, CalmInvariance, PTL

(* While no call fails and the server does not restart, an approved review *)
(* yields its opinion: when no handler runs, the contract of an approved   *)
(* task has a report.                                                      *)
THEOREM ApprovalsAreReported == Spec => [](Calm => ApprovedHasReport)
<1>1. ASSUME CalmInv, Calm, Quiet, NEW c \in Contracts, ApprovedTask(c)
      PROVE  contract[c].report # NoOpinion
  <2>1. PICK t \in Requests : task[t].contract = c /\ Delivered(t)
    BY <1>1 DEF ApprovedTask, CalmInv
  <2>2. \A d \in Decisions : pc[d] \notin Delivering
    BY <1>1 DEF Quiet, Waiting, Delivering, Runs
  <2> QED
    BY <2>1, <2>2 DEF Delivered
<1>2. CalmInv => (Calm => ApprovedHasReport)
  BY <1>1 DEF ApprovedHasReport
<1> QED
  BY <1>2, CalmInvariance, PTL

-----------------------------------------------------------------------------
(* Coupons that were taken *)

(* a charge lasts until the review is launched or the catch block ends *)
ChargeIsHeld ==
  \A r \in Requests :
    charged[r] => launched[r] \/ refunded[r] \/ pc[r] \notin {"idle", "refused", "done", "failed"}

FinishesLaunched == \A r \in Requests : pc[r] \in {"finish", "done"} => launched[r]

CouponRowIsCharged == \A t \in Requests : HasRow(t) /\ task[t].couponUsed => charged[t]

(* with no failing call, the catch block is reached before the task opens *)
CaughtUnopened ==
  faults = 0 => \A r \in Requests : pc[r] \in {"catch", "failed", "manual"} => ~Opened(r)

SpentInv == ChargeIsHeld /\ FinishesLaunched /\ CouponRowIsCharged /\ CaughtUnopened

LEMMA InitSpent == Init => SpentInv
BY DEF Init, SpentInv, ChargeIsHeld, FinishesLaunched, CouponRowIsCharged, CaughtUnopened,
       NoTask, Runs

(* A step of a run that opens no task but its own. *)
LEMMA SpentMovesOn ==
  ASSUME TypeInv, RowInv, SpentInv, NEW p \in Runs, NEW l,
         pc' = [pc EXCEPT ![p] = l], faults' = faults \/ faults' = faults + 1,
         \A r \in Requests :
           /\ charged[r] => charged'[r]
           /\ charged'[r] => charged[r] \/ r = p
           /\ launched[r] => launched'[r]
           /\ refunded[r] => refunded'[r],
         \A t \in Requests :
           /\ HasRow(t)' /\ task'[t].couponUsed => charged'[t]
           /\ Opened(t)' => Opened(t) \/ (t = p /\ l = "save"),
         p \in Requests =>
           /\ charged'[p] /\ l \in {"idle", "refused", "done", "failed"} => launched'[p] \/ refunded'[p]
           /\ l \in {"finish", "done"} => launched'[p]
           /\ l \in {"catch", "failed", "manual"} =>
                pc[p] \in Unopened \cup {"catch"} \/ faults' = faults + 1
  PROVE  SpentInv'
<1>1. pc'[p] = l /\ \A q \in Runs \ {p} : pc'[q] = pc[q]
  BY Moved
<1>2. ChargeIsHeld'
  BY <1>1 DEF SpentInv, ChargeIsHeld, Runs
<1>3. FinishesLaunched'
  BY <1>1 DEF SpentInv, FinishesLaunched, Runs
<1>4. CouponRowIsCharged'
  BY DEF CouponRowIsCharged
<1>5. CaughtUnopened'
  <2> SUFFICES ASSUME faults' = 0, NEW r \in Requests, pc'[r] \in {"catch", "failed", "manual"},
                      Opened(r)'
               PROVE  FALSE
    BY DEF CaughtUnopened
  <2>1. faults' = faults /\ faults = 0
    BY BoundsAssumption DEF TypeInv, TypeOK
  <2>2. Opened(r)
    BY <1>1
  <2>3. r = p
    BY <1>1, <2>1, <2>2 DEF SpentInv, CaughtUnopened, Runs
  <2> QED
    BY <1>1, <2>1, <2>2, <2>3 DEF SpentInv, CaughtUnopened, RowInv, OpenedLast
<1> QED
  BY <1>2, <1>3, <1>4, <1>5 DEF SpentInv

(* ... in particular one that writes no task and no coupon. *)
LEMMA SpentStays ==
  ASSUME TypeInv, RowInv, SpentInv, NEW p \in Runs, NEW l,
         pc' = [pc EXCEPT ![p] = l], UNCHANGED <<task, charged, launched, refunded>>,
         faults' = faults \/ faults' = faults + 1,
         p \in Requests =>
           /\ l \notin {"idle", "finish", "done"}
           /\ l \in {"refused", "failed"} => ~charged[p]
           /\ l \in {"catch", "failed", "manual"} =>
                pc[p] \in Unopened \cup {"catch"} \/ faults' = faults + 1
  PROVE  SpentInv'
BY SpentMovesOn DEF SpentInv, CouponRowIsCharged, HasRow, Opened

LEMMA UnpaidIsUncharged ==
  ASSUME CouponInv, NEW r \in Requests, pc[r] \in Unpaid
  PROVE  ~charged[r]
BY DEF CouponInv, ChargedByRedeem

LEMMA StartSpent ==
  ASSUME TypeInv, CouponInv, RowInv, SpentInv, NEW r \in Requests, StartStep(r)
  PROVE  SpentInv'
<1>0. r \in Runs /\ (pc[r] # "idle" => thread[r] = r) /\ (pc[r] \in Unpaid => ~charged[r])
  BY ThreadsAreRequests, UnpaidIsUncharged DEF Runs
<1> USE DEF Unopened, Early, Unpaid
<1>1. CASE Receive(r)
  BY <1>0, <1>1, SpentStays DEF Receive, Goto, rows, env
<1>2. CASE Entitle(r)
  BY <1>0, <1>2, SpentStays DEF Entitle, Goto, rows, locals, env
<1>3. CASE TokenQuota(r)
  BY <1>0, <1>3, SpentStays DEF TokenQuota, Goto, rows, locals, env
<1>4. CASE Redeem(r)
  <2>1. /\ pc[r] = "redeem" /\ UNCHANGED <<task, launched, refunded, faults>>
        /\ charged' = charged \/ charged' = [charged EXCEPT ![r] = TRUE]
    BY <1>4 DEF Redeem, rows, env
  <2>2. PICK l \in {"catch", "create"} : pc' = [pc EXCEPT ![r] = l]
    BY <1>4 DEF Redeem, Goto
  <2>3. \A q \in Requests : /\ charged[q] => charged'[q]
                            /\ charged'[q] => charged[q] \/ q = r
    BY <2>1 DEF TypeInv, TypeOK, Runs
  <2>4. \A t \in Requests : HasRow(t) /\ task[t].couponUsed => charged'[t]
    BY <2>3 DEF SpentInv, CouponRowIsCharged
  <2> QED
    BY <1>0, <2>1, <2>2, <2>3, <2>4, SpentMovesOn DEF HasRow, Opened
<1>5. CASE CreateTask(r)
  <2>1. pc[r] = "create" /\ UNCHANGED <<charged, launched, refunded, faults>>
    BY <1>5 DEF CreateTask, locals, env
  <2>2. CASE Exists(of[r])
    <3>1. /\ pc' = [pc EXCEPT ![r] = "graph"]
          /\ task'[r].couponUsed = coupon[r] /\ task'[r].status = "RUNNING"
          /\ \A t \in Requests \ {r} : task'[t] = task[t]
      BY <1>5, <2>2 DEF CreateTask, Goto, TypeInv, TypeOK
    <3>2. coupon[r] => charged[r]
      BY <2>1 DEF CouponInv, DeepIsCharged, Reviewing
    <3> QED
      BY <1>0, <2>1, <3>1, <3>2, SpentMovesOn
      DEF SpentInv, CouponRowIsCharged, HasRow, Opened, Verdicts
  <2>3. CASE ~Exists(of[r])
    BY <1>0, <1>5, <2>1, <2>3, SpentStays DEF CreateTask, Goto
  <2> QED
    BY <2>2, <2>3
<1>6. CASE MarkReviewing(r)
  BY <1>0, <1>6, SpentStays DEF MarkReviewing, SetContract, Goto, locals, env
<1>7. CASE LoadClauses(r)
  BY <1>0, <1>7, SpentStays DEF LoadClauses, Goto, rows, locals, env
<1>8. CASE RuleScan(r)
  BY <1>0, <1>8, SpentStays DEF RuleScan, Goto, locals, env
<1>9. CASE AgentReview(r)
  BY <1>0, <1>9, SpentStays DEF AgentReview, Goto, locals, env
<1> QED
  BY <1>1, <1>2, <1>3, <1>4, <1>5, <1>6, <1>7, <1>8, <1>9 DEF StartStep

(* A status that is written to a row. *)
LEMMA StatusSpent ==
  ASSUME TypeInv, RowInv, SpentInv, NEW p \in Runs, NEW s \in TaskStatus, NEW l,
         SetTask(p, s, l), UNCHANGED <<charged, launched, refunded, faults>>,
         \/ pc[p] = "open" /\ l = "save"
         \/ pc[p] = "decide" /\ p \in Decisions /\ l = "settle"
  PROVE  SpentInv'
<1>1. thread[p] \in Requests /\ (p \in Requests => thread[p] = p)
  BY ThreadsAreRequests
<1>2. CASE HasRow(thread[p])
  <2>1. task'[thread[p]].couponUsed = task[thread[p]].couponUsed
    BY <1>1, <1>2, RowTyped DEF SetTask, TypeInv, TypeOK, TaskRow
  <2>2. \A t \in Requests \ {thread[p]} : task'[t] = task[t]
    BY SetTaskKeeps
  <2>3. p \in Decisions => Opened(thread[p])
    BY <1>2 DEF RowInv, DecidedOpened, Deciding
  <2>4. \A t \in Requests :
          /\ HasRow(t)' /\ task'[t].couponUsed => charged'[t]
          /\ Opened(t)' => Opened(t) \/ (t = p /\ l = "save")
    BY <1>1, <1>2, <2>1, <2>2, <2>3 DEF SpentInv, CouponRowIsCharged, HasRow, Opened, Runs
  <2>5. pc' = [pc EXCEPT ![p] = l]
    BY <1>2 DEF SetTask, Goto
  <2> QED
    BY <2>4, <2>5, SpentMovesOn, RunsAssumption
<1>3. CASE ~HasRow(thread[p])
  BY <1>3, SpentStays, RunsAssumption DEF SetTask, Goto, Unopened
<1> QED
  BY <1>2, <1>3

LEMMA SharedSpent ==
  ASSUME TypeInv, RowInv, SpentInv, NEW p \in Runs, SharedStep(p) \/ Throw(p)
  PROVE  SpentInv'
<1>1. CASE GetGraph(p)
  <2>1. /\ pc[p] = "graph" /\ UNCHANGED <<task, charged, launched, refunded>>
        /\ faults' = faults \/ faults' = faults + 1
        /\ p \in Requests => \E l \in {"mark", "catch"} : pc' = [pc EXCEPT ![p] = l]
        /\ \E l : pc' = [pc EXCEPT ![p] = l]
    BY <1>1, BoundsAssumption DEF GetGraph, Enter, Goto, rows, locals, TypeInv, TypeOK
  <2> QED
    BY <2>1, SpentStays DEF Unopened, Early
<1>2. CASE WriteStats(p)
  <2>1. /\ pc[p] = "stats" /\ UNCHANGED <<charged, launched, refunded, faults>>
    BY <1>2 DEF WriteStats, locals, env
  <2>2. \A t \in Requests : /\ task'[t].couponUsed = task[t].couponUsed
                            /\ task'[t].status = task[t].status
    BY <1>2 DEF WriteStats, TypeInv, TypeOK, TaskRow, NoTask
  <2>3. PICK l \in {"show", "catch"} : pc' = [pc EXCEPT ![p] = l]
    BY <1>2 DEF WriteStats, Goto
  <2> QED
    BY <2>1, <2>2, <2>3, SpentMovesOn DEF SpentInv, CouponRowIsCharged, HasRow, Opened, Unopened
<1>3. CASE ShowWaiting(p)
  BY <1>3, SpentStays DEF ShowWaiting, SetContract, Goto, locals, env, Unopened
<1>4. CASE OpenTask(p)
  BY <1>4, StatusSpent DEF OpenTask, locals, env, TaskStatus
<1>5. CASE SaveInterrupt(p)
  <2>1. /\ pc' = [pc EXCEPT ![p] = "finish"] /\ UNCHANGED <<task, charged, refunded, faults>>
        /\ \A r \in Requests : launched'[r] = (launched[r] \/ r = p)
    BY <1>5, RunsAssumption DEF SaveInterrupt, Goto, env, Runs, TypeInv, TypeOK
  <2> QED
    BY <2>1, SpentMovesOn DEF SpentInv, CouponRowIsCharged, HasRow, Opened
<1>6. CASE Finish(p)
  <2>1. p \in Requests => launched[p]
    BY <1>6 DEF Finish, SpentInv, FinishesLaunched
  <2> QED
    BY <1>6, <2>1, SpentMovesOn
    DEF Finish, Goto, rows, locals, env, SpentInv, CouponRowIsCharged, HasRow, Opened
<1>7. CASE CatchError(p)
  <2>1. /\ pc[p] = "catch" /\ UNCHANGED <<task, charged, launched>>
        /\ faults' = faults \/ faults' = faults + 1
    BY <1>7 DEF CatchError, rows
  <2>2. \A r \in Requests : refunded[r] => refunded'[r]
    BY <1>7 DEF CatchError, TypeInv, TypeOK, Runs
  <2>3. \/ /\ pc' = [pc EXCEPT ![p] = "failed"]
           /\ charged[p] => refunded'[p] \/ launched[p]
        \/ pc' = [pc EXCEPT ![p] = "manual"]
    BY <1>7 DEF CatchError, Refundable, Goto, TypeInv, TypeOK
  <2> QED
    BY <2>1, <2>2, <2>3, SpentMovesOn DEF SpentInv, CouponRowIsCharged, HasRow, Opened
<1>8. CASE Throw(p)
  BY <1>8, SpentStays DEF Throw, Goto, rows, locals
<1> QED
  BY <1>1, <1>2, <1>3, <1>4, <1>5, <1>6, <1>7, <1>8 DEF SharedStep

LEMMA DecisionSpent ==
  ASSUME TypeInv, RowInv, SpentInv, NEW d \in Decisions, DecisionStep(d)
  PROVE  SpentInv'
<1>0. d \in Runs /\ d \notin Requests
  BY RunsAssumption DEF Runs
<1>1. CASE Decide(d)
  BY <1>0, <1>1, SpentStays DEF Decide, Goto, rows, env
<1>2. CASE ApplyActions(d)
  BY <1>0, <1>2, SpentStays DEF ApplyActions, Goto, locals, env
<1>3. CASE WriteVerdict(d)
  <2>1. pc[d] = "decide" /\ verdict[d] \in TaskStatus
    BY <1>3, DecisionBound DEF WriteVerdict, TaskStatus
  <2> QED
    BY <1>0, <1>3, <2>1, StatusSpent DEF WriteVerdict, locals, env
<1>4. CASE SettleContract(d)
  BY <1>0, <1>4, SpentStays DEF SettleContract, SetContract, Goto, locals, env
<1>5. CASE SaveDecision(d)
  BY <1>0, <1>5, SpentStays DEF SaveDecision, Goto, locals, env
<1>6. CASE ReadRows(d)
  BY <1>0, <1>6, SpentStays DEF ReadRows, Goto, rows, env
<1>7. CASE WriteReport(d)
  BY <1>0, <1>7, SpentStays DEF WriteReport, Goto, locals, env
<1> QED
  BY <1>1, <1>2, <1>3, <1>4, <1>5, <1>6, <1>7 DEF DecisionStep

LEMMA RemoveSpent ==
  ASSUME TypeInv, SpentInv, NEW c \in Contracts, Remove(c)
  PROVE  SpentInv'
<1>1. /\ UNCHANGED <<pc, charged, launched, refunded, faults>>
      /\ \A t \in Requests : task'[t] = IF task[t].contract = c THEN NoTask ELSE task[t]
  BY DEF Remove, locals, env
<1>2. CouponRowIsCharged'
  BY <1>1 DEF SpentInv, CouponRowIsCharged, HasRow, NoTask
<1>3. CaughtUnopened'
  BY <1>1 DEF SpentInv, CaughtUnopened, Opened, NoTask, Verdicts
<1> QED
  BY <1>1, <1>2, <1>3 DEF SpentInv, ChargeIsHeld, FinishesLaunched

LEMMA StepSpent == TypeInv /\ CouponInv /\ RowInv /\ SpentInv /\ [Next]_vars => SpentInv'
<1> SUFFICES ASSUME TypeInv, CouponInv, RowInv, SpentInv, [Next]_vars PROVE SpentInv'
  OBVIOUS
<1>1. CASE BuyPack \/ UNCHANGED vars
  BY <1>1 DEF BuyPack, vars, rows, locals, env, SpentInv, ChargeIsHeld, FinishesLaunched,
              CouponRowIsCharged, CaughtUnopened, HasRow, Opened
<1>2. CASE Crash
  <2>1. /\ UNCHANGED <<task, charged, launched, refunded, faults>>
        /\ \A r \in Requests : pc'[r] = pc[r] \/ pc'[r] = "killed"
    BY <1>2 DEF Crash, rows, locals, Runs
  <2> QED
    BY <2>1 DEF SpentInv, ChargeIsHeld, FinishesLaunched, CouponRowIsCharged, CaughtUnopened,
                HasRow, Opened
<1>3. ASSUME NEW r \in Requests, StartStep(r) PROVE SpentInv'
  BY <1>3, StartSpent
<1>4. ASSUME NEW d \in Decisions, DecisionStep(d) PROVE SpentInv'
  BY <1>4, DecisionSpent
<1>5. ASSUME NEW p \in Runs, SharedStep(p) \/ Throw(p) PROVE SpentInv'
  BY <1>5, SharedSpent
<1> QED
  BY <1>1, <1>2, <1>3, <1>4, <1>5, RemoveSpent DEF Next

LEMMA SpentInvariance == Spec => []SpentInv
<1>1. TypeInv /\ CouponInv /\ RowInv /\ SpentInv /\ [Next]_vars => SpentInv'
  BY StepSpent
<1> QED
  BY <1>1, TypeInvariance, CouponInvariance, RowInvariance, InitSpent, PTL DEF Spec

(* When no handler runs, a coupon that was taken bought a review that was  *)
(* launched, was given back, or is left to manual intervention or lost in  *)
(* a restart, whatever failed on the way.                                  *)
THEOREM ChargesAreSettled == Spec => []ChargeIsSettled
<1>1. ASSUME SpentInv, Quiet, NEW r \in Consumed
      PROVE  launched[r] \/ pc[r] \in {"manual", "killed"}
  <2>1. r \in Requests /\ r \in Runs /\ charged[r] /\ ~refunded[r] /\ pc[r] \in Waiting
    BY <1>1 DEF Consumed, Quiet, Runs
  <2> QED
    BY <1>1, <2>1 DEF SpentInv, ChargeIsHeld, Waiting
<1>2. SpentInv => ChargeIsSettled
  BY <1>1 DEF ChargeIsSettled
<1> QED
  BY <1>2, SpentInvariance, PTL

(* While no call fails, a task that was paid by coupon and can be decided  *)
(* has consumed its coupon: the compensation is never written for it.      *)
THEOREM OpenedArePaid == Spec => [](faults = 0 => OpenedIsPaid)
<1>1. SpentInv /\ CouponInv => (faults = 0 => OpenedIsPaid)
  BY OpenedHasRow DEF SpentInv, CaughtUnopened, CouponRowIsCharged, CouponInv, RefundIsLast,
                      OpenedIsPaid, Consumed, Runs
<1> QED
  BY <1>1, SpentInvariance, CouponInvariance, PTL
=============================================================================
