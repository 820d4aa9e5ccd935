# WorkMind in TLA+

WorkMind reviews contracts: a tenant uploads a contract, a job splits it into
clauses, a graph of rules and a language-model agent marks its risks, a human
reviewer gives a verdict, and the program files an opinion. Around that stand
accounts, subscriptions and coupons, a ledger, a playbook, a chat, a knowledge
base and an agent, and a browser that shows it all. These modules model the parts
of the server (`server/src`) in which requests, jobs, transactions and failures
meet, and the pages of the frontend (`frontend/src`) whose stores change under
the user's hands; TLC checks them on small instances, and TLAPS proves the most
important facts for every size.

## 1. The system

The server is one NestJS process over PostgreSQL (Prisma, READ COMMITTED),
Redis and BullMQ. Every `await` is a point where other handlers run. A Prisma
`updateMany` with a condition is one atomic conditional update; `findFirst`
followed by `update` is not. Queue workers run in the same process.

| Component | State it keeps | Operations | What is hard |
|---|---|---|---|
| Contract review (`contract/contract.controller.ts`, `contract/review/review.agent.ts`, `billing/entitlements.service.ts`) | `contracts`, `review_tasks`, `risks`, `tenants.couponBalance`, LangGraph checkpoints, the module variable `graphPromise` | start a review, post a verdict, delete | coupon charged before the review starts and compensated in a catch block; two reviews or two verdicts at once; restarts between two writes; checkpoints against rows |
| Sessions (`auth/auth.service.ts`) | `refresh_tokens`, `users.status` | login, refresh, change password, disable | one token presented twice; revocation against an open transaction |
| Billing (`billing/orders.service.ts`, `billing/subscription-lifecycle.service.ts`, `contract/retention/retention.service.ts`) | `orders`, `tenants.plan`, `planExpiresAt`, `cancelAtPeriodEnd`, `contracts.retainUntil` | order, pay, cancel, daily downgrade, daily cleanup | double payment, renewal against expiry, rows read before they are written by a job |
| Parsing (`contract/parsing/*`, `queue/queue.service.ts`, `observability/trace.service.ts`) | `clauses`, `contracts.status`, the file, the job | upload, job, retry | a retry after partial work, a review that starts while the job still runs |
| Quota meter, traces (`observability/*`) | `quota_usage`, `traces`, the context of a request | assert, record, open and close a trace | upsert race; a call that spans two months or never ends |
| Sign-in (`auth/verification-code.service.ts`, `auth/auth.service.ts`) | Redis keys of one address, `users` | send and verify a code, register, log in | attempts counted by get and set; two first logins; an invitation at the same time |
| Team (`team/team.service.ts`, `admin/admin.controller.ts`) | `users` | create, change role, remove, disable | seats and the last owner: check, then write; roles in old tokens |
| Ledger (`ledger/ledger.service.ts`) | `contract_ledger` | create, update, renew, terminate, list, figures | limit of ten; double renewal; lists in SQL and figures in memory must agree |
| Sample contract, revisions, assistant, playbook, preferences | rows and Redis counters | copy, rewrite, ask, enable, edit | once per tenant; decisions on a text that is being rewritten; one column written by two handlers |
| Rules (`contract/rules/rule.engine.ts`, `admin/rule-admin.service.ts`) | `review_rules` | validate, try, run | a trial must foretell the review |
| Chat, agent, knowledge base (`chat`, `agent`, `knowledge`, `services/*`) | sessions, messages, documents and chunks, two caches, memory in the process | ask, ingest, delete, retrieve | tenants apart; history in order; half-ingested documents |
| Gateway (`middleware/*`, `redis/redis.service.ts`) | token buckets, the last upload | let a request through, check a file | Redis failing over to the process |
| Notices, reports (`notifications`, `services/feishu`, `dashboard`, `monitor`, `analytics`, `audit`) | a monthly key; nothing else of their own | alert, digest, list, add up | a key taken before the card is sent; days of two time zones |
| Library (`templates`, list, opinions and exports of `contract`) | `contracts`, `review_tasks` as others leave them | list, read, export, adopt | a report of one review asked for by another |
| Scripts (`scripts/*`) | `eval_cases`, `eval_runs` | sync feedback, evaluate | killed half way, run again |
| HTTP client (`frontend/src/utils/http.js`, `stores/auth.js`, `stores/knowledge.js`) | one token pair, a queue of waiting requests | request, renew on 401, upload | several requests on one renewal; a second way to renew; lost answers |
| Pages (`views/contract/ReviewWorkbench.jsx`, `views/personal/*`, `stores/*`) | one store for all pages; streams that outlive a page | open, leave, poll, start, decide, pay, ask | answers that come over another page; clicks while busy |

How they interact: the controller calls entitlements and quota, charges the
tenant's row, creates the task, and runs the graph inside a trace. Billing
writes the same tenant row. Parsing hands the contract to the review by its
status. Retention deletes contracts, which cascades to tasks, risks and clauses.

What makes each correct is stated as properties (section 3); what is hard to
test is listed line by line in `PROJECT.json` under `hazards`.

## 2. The modules

| Module | Models | Extended by |
|---|---|---|
| `ContractReview` | one tenant's reviews in one month, from `POST contracts/:id/reviews` to the opinion | `MCContractReview`, `ContractReview_proofs` |
| `Sessions` | what is promised about login sessions (abstract) | instantiated by `RefreshTokens` |
| `RefreshTokens` | `refresh_tokens` of one user with its transactions | `MCRefreshTokens`, `RefreshTokens_proofs` |
| `Billing` | one tenant's plan, orders and filed contracts | `MCBilling`, `Billing_proofs` |
| `ContractParse` | one contract's parsing job and the first review | `ContractParse_proofs`; checked directly |
| `Ledger`, `Team`, `SignIn`, `Onboarding`, `Playbook`, `Preferences` | rows of one tenant or user, written by two requests at a time | `Workspace` |
| `RuleEngine`, `ClauseParser` | rules and their trial; how lines become clauses | `Workspace` |
| `Revision`, `Assistant` | rewrites and facts of one contract; the counter of questions | `Workspace` |
| `Documents`, `RagSessions`, `Chat` over `AnswerCache`, `Agent` | knowledge base, its memory, conversations, one run of the agent | `Workspace` |
| `Metering`, `Gateway`, `Notices`, `Reports` | usage and traces; buckets and uploads; alerts and digest; the pages that add up | `Workspace` |
| `Library`, `Evaluation` | what is listed, exported and adopted; the two scripts | `Workspace` |
| `HttpClient`, `Screens`, `Checkout`, `Conversations` | the browser | `Pages` |
| `Workspace`, `Pages` | one behaviour for each of their parts | `MCWorkspace` and `Workspace_proofs`; `MCPages` and `Pages_proofs` |
| `Limits_proofs`, `Records_proofs` | an inductive invariant for each part of `Workspace` | `Workspace_proofs` |

`Workspace` and `Pages` put modules that share no variable into one run: a
behaviour picks a `part` at first, that module takes its steps, and the variables
of all others rest at the value `Resting` (`...Rests`). So the run is the sum of
the parts' state spaces and not their product, and an invariant of a part reads
`part = "x" => ...`. Nothing is lost where the code shares nothing; what two
components do share is inside one module (`Chat` extends `AnswerCache`; `Team`
holds the console and the tokens; `Screens` holds the server's contract).

Conventions. A handler or job has a `pc`; a step goes from one `await` to the
next and its guard is the code's condition. An awaited call that throws has had
no effect (a commit whose acknowledgement is lost is not modelled). A definition
that stands before another one and adds a word to its name, such as
`RefundableNever` before `Refundable`, is the form a plausible bug would give
it; it is used by no action, and `PROJECT.json` lists under `mutants` which
property notices it.

**ContractReview.** `contract`, `task`, `risks` are the rows; `cp[r]` is the node
at which the stored checkpoint of a thread would continue; `charged`, `launched`
are the locals `couponCharged`, `reviewLaunched`. The actions follow
`startReviewStream` (`Receive`, `Entitle`, `TokenQuota`, `Redeem`,
`CreateTask`), the graph (`GetGraph`, `MarkReviewing`, `LoadClauses`,
`RuleScan`, `AgentReview`, `WriteStats`, `ShowWaiting`, `OpenTask`,
`SaveInterrupt`), the verdict (`Decide`, `ApplyActions`, `WriteVerdict`,
`SettleContract`, `SaveDecision`, `ReadRows`, `WriteReport`), and the ways out
(`Finish`, `Throw`, `CatchError`, `Crash`, `Remove`). LangGraph is external: a
checkpoint is stored after each node; a `Command(resume)` on a thread whose next
node is `aggregate` runs that node and interrupts again. Abstracted: the
contents of risks (only which track found something), traces, playbook hit
counts, the loop of per-risk updates (one step), the token budget (it may
refuse), the turn of the month. The cleanup job's deletion is `Remove`.

**RefreshTokens.** A row is unissued, pending (inserted by an open transaction),
live or revoked. `Claim` waits for a row locked by another transaction and tests
its condition again, as PostgreSQL does; `RevokeBegin` and `RevokeEnd` are one
`UPDATE` that works on the rows visible when it began. `Promised` maps the table
to `Sessions`: the current token of a session is its live row.

**Billing.** Months stand for dates; a retention of seven days is over in the
next month. The transaction of `mockPay` is `Claim`, which also reads the tenant,
and `Settle`, the order locked in between; `RollBack` is its failure or timeout.
`ENTERPRISE` tenants cannot buy and are left out.

**ContractParse.** `After` is the order of the writes in the try block; `Fault`
lets an awaited call throw; `JobThrows` is the queue's decision to try again;
`Crash` is a restart, which BullMQ notices as a stalled job. A job that stalls
while its process lives (a lock not renewed in time) is not modelled.

**The workspace.** In each module a handler `o` is a record with its place and
what it has read; one step is one awaited call. A ghost such as `ledgerRaced`,
`ownersRaced`, `codeRaced` or `packRaced` becomes true exactly when a request
writes on a count or a read that is stale by then, so that a property can say
"unless two requests raced" and still forbid everything else. Dates are small
numbers of days, thirds of days or half days, chosen at the boundaries of the
buckets; prices are counts of tokens; texts, passages and findings are values.
`Ledger` leaves Prisma's filter on dates and the arithmetic in memory as two
definitions, since the code has both. `Reports` counts a server eight hours ahead
of UTC, as the code's days do. `Agent`, `Documents` and `RagSessions` choose what
the model or a similarity returns. The calls of one message of the agent run side
by side, each by itself: refused before its tool starts, answered, or thrown, in
which case LangGraph's `ToolNode` tells the model and no event tells the browser.
In `Notices` each awaited call of an alert may fail (`ReadFails`, `MarkFails`, a
card not sent) and a restart drops all of them (`AlertsStop`); the key in Redis
lives by the UTC month and the reviews are counted by Beijing's, so that for eight
hours (`gap`) a new month has the old key. In `Metering` Prisma's upsert is what
it is over PostgreSQL: a look, then an insert that loses to another one, then the
update of the catch block, each of which may throw. `ClauseParser` sees a text as its kinds of line.

**The browser.** `HttpClient` has tokens numbered in the order of their issue.
`Screens` gives every contract what the server holds (`srv`), the store's one
`detail`, and per contract one review stream (`calls`); `overtaken`, `carried`,
`page.unchanged` and `page.unread` mark the behaviours in which the code shows
another contract, sends decisions of an earlier review, or stops polling, the last
because a read failed (`LoadFails`). A page is mounted over the detail the page
before it left, so the facts it shows or asks for at first are by that. `Checkout`
joins the paywall, the checkout, the orders of `orders.service.ts` and the billing
pages; a start creates the contract, reloads the list and navigates in three
steps, and the answer of the first or the second may fail when the contract exists
(`unled`); `lostAnswer` and `hasty` play the same part. `Conversations` is driven by
the events the server streams; `thrown` are the calls of which it streams no result.

## 3. What is checked

| Run | Bounds | Shows |
|---|---|---|
| `ReviewRows` | 2 requests, 2 verdicts, 1 contract, no fault | open tasks have complete statistics; a contract REVIEWING has a handler that will go on; COMPLETED needs an approved task unless two reviewers raced; the opinion states a verdict; an approved review yields its opinion |
| `ReviewCoupons` | 3 requests, 1 coupon, 1 pack, 1 fault, 1 restart | types, conservation of coupons, launched reviews are paid, the free plan's deep findings are paid, a charge is settled when nothing runs |
| `ReviewEnds` | 2 requests, 1 verdict, fair handlers, no fault | a review leaves REVIEWING; an open coupon review is paid |
| `RefreshRotation` | 3 tokens, 2 logins, 2 refreshes, 1 password change | one successor per token, one live token per session, refinement of `Sessions` |
| `BillingPlans` | 2 orders, 2 payments, 1 cancellation, 1 upload, 3 months | each order takes effect once; no free months; renewals keep time; a plan lasts to its date; expired plans are downgraded; contracts of a paying tenant stay |
| `ParseJob` | 1 job, 3 attempts, 1 stall, 2 faults, 1 restart | READY means clauses; a review sees all of them; the file is removed; a parsed contract stays parsed while nothing fails; parsing ends |
| `Workspace` | each part alone: 2 requests (3 guesses of a code, 3 founders of a team), 2 tenants, 1 fault or restart, a few days | counted limits hold unless two requests passed the count together (`LimitsUnlessRaced`); what is written in two places agrees and notices go out once and miss nothing (`RecordsAgree`); what is added up, sorted or cut from rows is true to them (`FiguresAgree`); tenants stay apart and secrets out of the records; conversations keep what was said; texts and roles are not rewritten unasked |
| `Pages` | each part alone: 3 requests and 3 token pairs; 2 contracts, 2 reviews of one; 3 links to the checkout and 1 visit of each page; 2 tasks with 2 calls of 2 tools, 2 contracts to talk about | the session outlives its tokens and no request is stranded; pages show and send what is open, as the server holds it; one visit pays one order; results stand at their steps and nothing spins for ever |

Why the bounds are enough: the races are between two actors over one row, so two
of each kind show them, and a third request lets two race for what a third one
gave back; one fault or restart is a failure at every point of every handler;
three months see a purchase, its expiry and the cleanup after it. The parameters
are free in the proofs. In `Workspace`, what a part is bounded by is at the
boundary of what it limits: two ledger entries for a limit of two, three people
for two seats, a bucket of two tokens, a history one longer than what is loaded,
dates on both sides of each bucket's edge. The composition of parts is by choice
of one, so `Workspace` and `Pages` say nothing of two parts at once; where the
program lets two meet, one module holds both. A
part that counts its faults has one, at any awaited call; an agent asks its model
three times and a message calls two tools at a time; a visit of the page for a new
review loses one answer. Every part of `Workspace` has two calls
under way, `o1` and `o2`, and no definition tells one from the other (none is
chosen, ordered or named in a configuration), so the run takes them as symmetric;
its properties are invariants and one action property, for which this is sound.
`Workspace` has 1.57 million distinct states and takes about two minutes on two cores,
`Pages` 3.65 million and about three, of which the checkout has 2.68.

Runs that disagree with what the repository says of itself:

| Run | The code | The repository |
|---|---|---|
| `ReviewCouponQuota` | coupon reviews count against the monthly quota (`entitlements.service.ts:177`) | "not counted in the monthly quota" (`plans.config.ts:186`) |
| `ReviewGraphInit` | a rejected `graphPromise` is kept for good (`review.agent.ts:484`) | "a failed initialisation may be retried" (`checkpointer.ts:26`, ADR-003) |
| `RefreshPassword` | a rotation under way survives a changed password (`auth.service.ts:308`) | "revoke all existing sessions" (`auth.service.ts:345`) |
| `BillingRecords` | `retainUntil` survives an upgrade, so the record is removed later (`orders.service.ts:223`) | "after an upgrade the old records are no longer cleaned" (`retention.service.ts:3`) |

Disagreements without a run (`findings` quotes the lines):

- `ReviewResultView.jsx:65`: polling stops when an answer brings the same status.
- `feishu-notify.service.ts:158`: the warning at 80 percent is never sent.
- `chat/memory.ts:28`: the oldest hundred messages are loaded, not the latest.
- `contract.controller.ts:562`: a review still waiting can be exported as an opinion.
- `ReviewResultView.jsx:236`: "kept for ever" of a contract that is removed in seven days.
- `PersonalBillingView.jsx:331`: a cancellation called a demonstration takes effect.
- `ReviewWorkbench.jsx:281`: every role may start a review the panel keeps to managers.
- `sync-feedback.ts:81`: cases outlive the last decision they came from.
- `stores/contract.js:105`: a failed read leaves the contract opened before in the
  page, and the result page, if it was polling, polls no more.
- `ReviewWorkbench.jsx:522`: the panel offers a start the server refuses, of a contract
  not parsed yet or in vain.
- `stores/contract.js:83`: a contract is created, the reload of the list fails, the
  user stays on the page and clicks again: two contracts of one visit.
- `stores/agent.js:113`: the card of a tool that threw spins on a finished task.
- `feishu-notify.service.ts:162`: the key is of the UTC month, the reviews of Beijing's.

Where a property would be false of such a case, it keeps the case apart by a named
exception and holds of everything else: `page.unchanged` and `page.unread` in
`PollsUnlessUnchanged` and `ShownIsAsked`, `unled` in `OneContractAsked`, `thrown`
in `ResultsAtTheirSteps`, `monthTurned` and `missed` in `AlertedOnce`, and the
ghosts of races named above. A hazard whose own case is one of these is caught by no
run; its note in `PROJECT.json` says so.

Met on the way and not given a run of their own: two starts pass the monthly
quota together; a checkpoint that fails after `OpenTask` refunds a review that
stays open; a restart between the charge and the launch loses the coupon, and one
while the verdict is written loses the opinion (ADR-003, line 10); two reviewers
can decide a task at once; two renewals paid at once lose a period; the downgrade
overwrites a renewal paid after it read the tenant.

**Fairness.** `ReviewEnds` assumes weak fairness of every received handler: the
event loop serves every settled promise. Nothing makes a client call. `ParseJob`
assumes weak fairness of the worker's next step, failing steps not included, with
bounded faults and restarts. `BillingPlans` assumes that the daily job runs
(weak fairness of `FindDue`) and that restarts do not interrupt it each time
(strong fairness of `Downgrade`); payments, cancellations and the clock are not
fair. `Workspace` and `Pages` check safety and assume no fairness. Deadlock is not checked: every client may stop, and the bounded counters
make the models stop.

## 4. What is proved

For all values of the constants, under the named assumptions on them
(disjoint kinds of calls, finite sets where something is counted, natural
bounds):

- `ContractReview_proofs`: `TypeCorrect`, `Conservation`, `LaunchPays`,
  `FreeTenantPaysForDeep`, `OpenTasksAreComplete`.
  `CouponsConserved` is not inductive alone: that a refund adds a coupon which
  some request had consumed needs that a run reaches the catch block with
  `charged` only through `Redeem` (`ChargedByRedeem`) and that the compensation
  is the last thing it does (`RefundIsLast`). `CouponInv` collects these with
  `DeepIsCharged`. `OpenInv` carries the order of the writes of `aggregate`:
  statistics before opening (`OpensLate`), nobody adds risks later
  (`WritersKnow`), verdicts only on open tasks (`DecidedLate`).
  Its second half proves `ReportsAreDecided`, `ArchivedIsApproved`,
  `ReviewingIsOwned`, `ApprovalsAreReported`, `ChargesAreSettled` and
  `OpenedArePaid`. `RowInv` says that a handler past its checks works on a row of
  its own contract and that a verdict comes after the task was opened;
  `VerdictInv` adds that who decides a task alone finds at `finalize` what it
  wrote itself, which is why the opinion states a verdict. `CalmInv` pairs each
  contract in REVIEWING, and each approved task without opinion, with the handler
  that goes on with it; it speaks of behaviours in which no call has failed and
  nothing was restarted (`Calm`), since a failing call or a restart does leave
  such rows behind: the run `ReviewRows` has no faults for the same reason.
  `SpentInv` accounts for every coupon taken; `OpenedArePaid` assumes that no
  call failed, because a checkpoint that fails after `OpenTask` refunds a review
  that stays open (section 3).
- `RefreshTokens_proofs`: `TypeCorrect`, `NoDoubleSpending`, `LiveTokenIsUnique`
  and `Implementation` (the table implements `Sessions`). The invariant says
  which row a refresh call in each place holds, that a claimed row is live until
  its transaction ends, and that each session has one live row.
- `Billing_proofs`: `TypeCorrect`, `EachPackOnce`, `PaidTimeIsBounded`,
  `RenewalsKeepTime`, `PlansLastToTheirDate`, `PaidRecordsStay`. All rest on
  `CallInv`: a transaction has claimed an order that is still pending, and has
  claimed it alone. That a pack is credited once and that paid months add up
  then follow by counting orders. `NoFreeMonths` needs `ReadsArePaid` beside it:
  what a transaction has read of the tenant was paid for too, however old the
  read is.
- `ContractParse_proofs`: `TypeCorrect`, `ReadyIsReviewable`, `ReviewsAreWhole`,
  `FilesAreRemoved`, `ParsedForGood`. A review finds the clauses because of the
  file: the first attempt that ends removes it, so that no later one comes past
  `extractText` to the deletion of the clauses, unless a restart brought the job
  back (`KeptOnceParsed`). `FirstHasFile` and `CaughtUnparsed` say why a
  contract that was parsed is not marked as failed where no call fails.
- `Workspace_proofs`: `LimitsHold`, `RecordsHold`, `FiguresHold`,
  `TenantsStayApart`, `ConversationsAreKept`, `RewritesOnlyAsAsked` and
  `WorkspaceInType`.
  `StepOfPart` says that a step of `Workspace` is a step of the part it is of and
  that the part never changes; so the invariants of the parts, proved one by one
  in `Limits_proofs` and `Records_proofs`, hold together (`LimitsInv`,
  `RecordsInv`, `FiguresInv`). The clauses are here: `Markers` finds the headings
  of a text in order and apart, `SplitClauses` joins what lies between them, so
  that the clauses in their order hold every piece of the text and no other,
  whatever the text and whatever types a model gives the clauses
  (`ParserInv`; `NothingCutOut`).
- `Limits_proofs`, for the counted limits. A handler between its count and its
  write carries what it saw, and saw it below the limit (`FreeSeatSeen` of
  `TeamInv`, `CallAgrees` of `LedgerInv`): a write on a count that still holds
  stays within, and a write on any other is shown to raise the ghost
  (`seatsRaced`, `ledgerRaced`). `SignInv`: unless the ghost is raised
  (`codeRaced`), one request at a time has the code in hand, a code passes at most
  once, and the guesses are no more than the attempts counted and the one being
  counted. `GateInv`: the tokens granted and those in the bucket are together no
  more than the capacity and what time has added; `GateInv` keeps this apart for
  Redis and for the process, which is why a fallback may grant both.
- `Records_proofs`, for what is written twice. `RagInv` and `ChatInv` say which
  question or answer is the newest while a request is between its two writes, so
  that cutting a history to its last messages leaves it paired; `CacheFits` that
  an entry of either cache was given under its own key, whatever fills one from
  the other. `DocumentInv` says what of a document each place of an ingestion has
  written. `MeterInv` keeps the price of the spans equal to what `finish` will
  charge until a second model, a lost span or the tariff comes between.
  `EvalInv`: when the history says the feedback cases are current, `Repairs` is
  empty, and an empty `Repairs` is what `FeedbackMirrorsReview` says.
  Between the look for the month's row and its insert a request is in one of the
  places `Booking`, and `MonthInv` counts what such a request will add as not yet
  added. `NoticeInv`: of the alerts of a month one has the key, and it has sent, will
  send, or was missed (`OneSends`); while the quota is used up the key is taken, an
  alert is on its way to it, or one was missed (`TellsOfQuota`). `AgentInv`: of the calls of a run's last message,
  those under way are the ones announced without a result that did not throw, from
  which `RunIsAccounted` counts. `ReportInv` names the traces whose calls the usage holds.
  `EngineInv`: a stored rule has no empty keyword and no expression that does not
  compile (`FilledIsFilled`), from which the trial and the engine agree
  (`RulesAgree`). `LibraryInv`: once a review is decided there is an opinion.
  For what is added up, sorted or joined the module begins with lemmas on sums
  over finite sets (`SumAdds`, `SumPlus`, `SumByClasses`, `CountByClasses`), on
  functions given by a first value and their steps (`RecursExists`, `RecursOnly`)
  and on joined sequences (`FlattenJoins`, `PagesJoin`). Induction is over sets
  and not over predicates, which the provers cannot instantiate: a set of numbers
  that has 0 and with each number the next has them all, since what it lacked
  would have a least element (`NatInd`, from `LeastOf`), and a set of finite sets
  likewise by their cardinality (`FinInd`). `MonthInv` keeps the usage row
  equal to the sum over the traces that burned tokens; `ShownInv` keeps what the
  reports read countable, so that charts, funnels, breakdowns and bills add up to
  their rows and the pages of the traces join to the list; `RunInv` says that a
  run's counts are those of the results it stores; `ServedInv` that an exported
  document is of the review asked for, its figures those of its risks and its
  risks in order of severity.
- `Pages_proofs`: `SessionsAreKept`, `SessionsAreAsPromised`, `ScreensAreTrue`,
  `OrdersAreAsAsked` and `TranscriptsAreTrue`, from one invariant for each part
  (`PagesInv`).
  `HttpInv`: while nothing excuses a refusal, the page holds the token that
  serves, or a renewal with it is under way, or the answer that brings the next
  (`HoldsTheToken`); and the requests that wait are the queue of a renewal that
  is under way. `RenewsWithTokens`: no renewal, of the page or of an upload that
  was held back, goes without a token; from it follows that the server rotates or
  ends the session it has, and with `SessionsAreAsPromised`, which no run checks,
  that it implements the abstract `Sessions` between two sign-ins.
  `ScreenInv`: until a page is left, or exchanged for another, with something
  under way, all requests, streams, facts and timers are of the page open
  (`OwnAffairs`), so that no answer can come over another contract; verdicts made
  on a page are of the review it shows until an answer brings another (`carried`).
  `SalesInv`: every order is of a visit and of the item it shows, and unless an
  answer was lost a visit has paid no order but its own (`VisitPays`); unless the
  coupon of the paywall was used in haste, a page has one start under way, and
  none after it led to its contract (`OneStart`: each contract it made and did not
  lead to is one of `unled`); what the billing page shows is
  what the server holds or is being asked for. `TalksInv` pairs the running steps
  of a task's card with the open calls of its run, tool by tool: as many of one as
  of the other, and the very same while no tool was called twice at once
  (`StepsFollow`), the calls that threw set aside. From the first follows that a
  task that is done has no step that spins but those of tools that threw, from the
  second that a result stands at its own step.

Assumptions of these proofs on the constants, each where the constant is declared
(`LedgerAssumption`, `ChatAssumption`, ...): requests and rows that are counted
are finitely many; bounds are natural numbers; a contract that was never
reviewed is at a status before a review (`ScreenAssumption`); the marks for "no row" (`NoDoc`,
`NoRow`, `NoCase`, ...) are not rows; forms have the fields of their forms; a task
has finitely many findings (`EvalAssumption`), a risk one of three severities and
a clause of the text (`LibraryAssumption`). TLC evaluates them on every run.

Not proved, and checked by TLC only:

- liveness (`ReviewingEnds`, `ParsingEnds`, `ExpiredIsDowngraded`) and everything
  with `ENABLED`;
- what the runs refute.

## 5. The plan

1. Done: `ContractReview`, `RefreshTokens` with `Sessions`, `Billing`,
   `ContractParse`, with proofs.
2. Done: the workspace, the browser, lists, reports and scripts, each module
   checked in `Workspace` or `Pages`.
3. Done: proofs of the rows of `ContractReview`, of `Workspace`, its figures
   included, and of `Pages`.
4. Done: the server of `HttpClient` (`issued`, `refresh`) implements `Sessions`
   between two sign-ins, as the table of `RefreshTokens` does for all of them
   (`SessionsAreAsPromised`).
5. Left: a second tab with a memory of its own; it is only a renewal somebody
   else made.

## 6. Not modelled

What a language model, an embedding or a regular expression finds: findings,
similarities and kinds of line are choices. The rounding of a price to six
digits (`pricing.ts:81`): prices are whole counts. Wording, layout and styles; the public
and legal pages. Services behind one call: mail, the delivery at Feishu, the MCP
client. Forms and tables of the frontend over one request each (ledger, playbook,
rules, bill, users, drafts): their server ends are modelled. Wiring: modules,
configuration, logging, health, seeds and migrations. A second browser tab is
only a renewal somebody else made. Payments are the repository's own `mockPay`.
