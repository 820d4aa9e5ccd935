------------------------------- MODULE Screens -------------------------------
(***************************************************************************)
(* The page of one contract, in a personal space the result page, in a     *)
(* team the workbench.  Both read the one detail the store holds: answers  *)
(* replace it whichever page is open, and a review's stream goes on when   *)
(* its page is left.  Of a review's risks one stands for all.              *)
(***************************************************************************)
EXTENDS Integers

CONSTANTS Files,        \* contracts
          RunsMax,      \* contract -> reviews begun of it
          FirstStatus,  \* contract -> its status at the outset
          Stored,       \* contracts whose structured facts were extracted before
          Nowhere       \* no page, no detail, nothing

\* A contract that was never reviewed is at one of the first four of its statuses.
Statuses == {"UPLOADED", "PARSING", "READY", "FAILED", "REVIEWING", "WAITING_REVIEW", "COMPLETED"}
ASSUME ScreenAssumption ==
  /\ Nowhere \notin Files /\ RunsMax \in [Files -> Nat]
  /\ FirstStatus \in [Files -> {"UPLOADED", "PARSING", "READY", "FAILED"}]

VARIABLES team,         \* a team's space
          planDeep,     \* the plan has deep reviews
          entDeep,      \* what the page read of it last
          canDecide,    \* role ADMIN or MANAGER
          srv,          \* contract -> [status, review, task, deep]: what the server holds
          page,         \* the page open: [at, start, auto, timer, unchanged, unread, decisions, facts]
          detail,       \* store.detail
          loads,        \* contracts whose detail is asked for
          calls,        \* contract -> startReview's stream: none, asked, running, over
          reviewing,    \* store.reviewing
          live,         \* contracts whose stages and risks stream into the store
          factLoads,    \* structured facts asked for
          submitted,    \* the last decision sent: [review, actions]
          overtaken,    \* a page was left while something of it was under way
          carried       \* decisions outlived the review they were made on
screenVars == <<team, planDeep, entDeep, canDecide, srv, page, detail, loads, calls, reviewing, live, factLoads, submitted, overtaken, carried>>

Startable == {"READY", "WAITING_REVIEW", "COMPLETED"}
Parsing == {"UPLOADED", "PARSING"}
NoPage == [at |-> Nowhere, start |-> FALSE, auto |-> FALSE, timer |-> Nowhere, unchanged |-> FALSE,
           unread |-> FALSE, decisions |-> {}, facts |-> Nowhere]
ScreenInit ==
  /\ team \in BOOLEAN /\ planDeep = team /\ entDeep = team /\ canDecide \in (IF team THEN BOOLEAN ELSE {FALSE})
  /\ srv = [c \in Files |-> [status |-> FirstStatus[c], review |-> 0, task |-> "none", deep |-> FALSE]]
  /\ page = NoPage /\ detail = Nowhere /\ loads = {}
  /\ calls = [c \in Files |-> "none"] /\ reviewing = FALSE /\ live = {} /\ factLoads = {}
  /\ submitted = Nowhere /\ overtaken = FALSE /\ carried = FALSE

Snapshot(c) == [c |-> c, status |-> srv[c].status, review |-> srv[c].review, task |-> srv[c].task, deep |-> srv[c].deep]

----------------------------------------------------------------------------
(* The server, as far as the pages see it.                                 *)
ServerOnly == UNCHANGED <<team, planDeep, entDeep, canDecide, page, detail, loads, reviewing, live, factLoads, submitted, overtaken, carried>>
Parses(c) ==
  /\ srv[c].status \in Parsing
  /\ srv' = [srv EXCEPT ![c].status = IF @ = "UPLOADED" THEN "PARSING" ELSE "READY"]
  /\ ServerOnly /\ UNCHANGED calls
Begun(c, deep) == [srv EXCEPT ![c] = [@ EXCEPT !.status = "REVIEWING", !.review = srv[c].review + 1, !.task = "RUNNING", !.deep = deep]]
\* A colleague starts a review of the same contract.
OtherStarts(c) ==
  /\ team /\ srv[c].status \in Startable /\ srv[c].review < RunsMax[c]
  /\ srv' = Begun(c, planDeep)
  /\ ServerOnly /\ UNCHANGED calls
\* A team's review waits for its decision, a personal one is closed by itself.
RunEnds(c) ==
  /\ srv[c].task = "RUNNING"
  /\ srv' = [srv EXCEPT ![c] = [@ EXCEPT !.status = IF team THEN "WAITING_REVIEW" ELSE "COMPLETED",
                                         !.task = IF team THEN "WAITING_REVIEW" ELSE "APPROVED"]]
  /\ calls' = [calls EXCEPT ![c] = IF @ = "running" THEN "over" ELSE @]
  /\ ServerOnly

\* The personal plan is bought; the page reads what it has when it opens and after a review.
PlanBought ==
  /\ ~planDeep /\ planDeep' = TRUE
  /\ UNCHANGED <<team, entDeep, canDecide, srv, page, detail, loads, calls, reviewing, live, factLoads, submitted, overtaken, carried>>
EntitlementAnswered ==
  /\ page.at # Nowhere /\ entDeep' = planDeep
  /\ UNCHANGED <<team, planDeep, canDecide, srv, page, detail, loads, calls, reviewing, live, factLoads, submitted, overtaken, carried>>

----------------------------------------------------------------------------
(* The effects of a page on the detail it shows.                           *)

\* The result page starts the review it was opened for, once, when the detail in the store is ready.
AutoStarts(pg, d) ==
  /\ ~team /\ d # Nowhere /\ pg.start /\ ~pg.auto /\ ~reviewing
  /\ d.status \in {"READY", "COMPLETED"}
\* The result page polls once for each status it sees, the workbench on an interval.
Polls(pg, d) == IF d = Nowhere THEN FALSE ELSE d.status \in Parsing
AfterEffect(pg, d) == [pg EXCEPT !.timer = IF Polls(pg, d) THEN pg.at ELSE Nowhere, !.unchanged = FALSE, !.auto = @ \/ AutoStarts(pg, d)]
\* startReview of the page's own contract, with the stages and risks of any other run dropped.
AskedFor(c) ==
  /\ calls' = [calls EXCEPT ![c] = "asked"] /\ reviewing' = TRUE /\ live' = {}
StartsIf(condition, c) == IF condition /\ calls[c] = "none" THEN AskedFor(c) ELSE UNCHANGED <<calls, reviewing, live>>

\* A page is mounted over the detail the page before it left behind: the workbench shows the facts that
\* detail brings, and when it brings none asks for those of its own contract.
FactsBrought == IF detail = Nowhere THEN Nowhere ELSE IF team /\ detail.c \in Stored THEN detail.c ELSE Nowhere
NoFactsBrought == IF detail = Nowhere THEN FALSE ELSE team /\ detail.c \notin Stored
OpenUnasked(c, start) ==
  /\ page' = AfterEffect([NoPage EXCEPT !.at = c, !.start = start, !.facts = FactsBrought], detail)
  /\ loads' = loads
  /\ factLoads' = IF NoFactsBrought THEN factLoads \cup {c} ELSE factLoads
Mounted(c, start) ==
  /\ page' = AfterEffect([NoPage EXCEPT !.at = c, !.start = start, !.facts = FactsBrought], detail)
  /\ loads' = loads \cup {c}
  /\ factLoads' = IF NoFactsBrought THEN factLoads \cup {c} ELSE factLoads
Open(c, start) ==
  /\ page.at = Nowhere
  /\ (start => ~team) /\ Mounted(c, start)
  /\ IF team
       THEN live' = {} /\ UNCHANGED <<calls, reviewing>>
       ELSE StartsIf(AutoStarts([NoPage EXCEPT !.at = c, !.start = start], detail), c)
  /\ UNCHANGED <<team, planDeep, entDeep, canDecide, srv, detail, submitted, overtaken, carried>>
UnderWay(c) == c \in loads \/ calls[c] # "none" \/ c \in factLoads
Leave ==
  /\ page.at # Nowhere
  /\ overtaken' = (overtaken \/ UnderWay(page.at))
  /\ page' = NoPage
  /\ UNCHANGED <<team, planDeep, entDeep, canDecide, srv, detail, loads, calls, reviewing, live, factLoads, submitted, carried>>
\* A notice leads from one result page to another: the page stays mounted, with the timer set for the first.
FollowNotice(c) ==
  /\ ~team /\ page.at \notin {Nowhere, c}
  /\ overtaken' = (overtaken \/ UnderWay(page.at) \/ page.timer # Nowhere)
  /\ page' = [page EXCEPT !.at = c, !.start = FALSE, !.unread = FALSE]
  /\ loads' = loads \cup {c}
  /\ UNCHANGED <<team, planDeep, entDeep, canDecide, srv, detail, calls, reviewing, live, factLoads, submitted, carried>>

TimerFires ==
  /\ page.timer # Nowhere
  /\ page' = [page EXCEPT !.timer = IF team THEN @ ELSE Nowhere]
  /\ loads' = loads \cup {page.timer}
  /\ UNCHANGED <<team, planDeep, entDeep, canDecide, srv, detail, calls, reviewing, live, factLoads, submitted, overtaken, carried>>
Refresh ==
  /\ team /\ page.at # Nowhere
  /\ loads' = loads \cup {page.at}
  /\ UNCHANGED <<team, planDeep, entDeep, canDecide, srv, page, detail, calls, reviewing, live, factLoads, submitted, overtaken, carried>>

\* The workbench asks for the facts when it shows another contract, unless the detail brings them.
FactsShown(pg, d) ==
  IF detail # Nowhere /\ detail.c = d.c THEN pg.facts ELSE IF d.c \in Stored THEN d.c ELSE Nowhere
FactsAsked(d) ==
  IF ~team \/ page.at = Nowhere \/ d.c \in Stored THEN factLoads
  ELSE IF detail = Nowhere THEN factLoads \cup {page.at}
  ELSE IF detail.c = d.c THEN factLoads ELSE factLoads \cup {page.at}
\* The answer replaces the detail; the effect runs when the status it shows has changed.
LoadAnswered(c) ==
  /\ c \in loads /\ loads' = loads \ {c}
  /\ detail' = Snapshot(c)
  /\ LET changed == IF detail = Nowhere THEN TRUE ELSE detail.status # srv[c].status
         pg == [page EXCEPT !.facts = IF team THEN FactsShown(page, Snapshot(c)) ELSE Nowhere,
                                 !.unread = @ /\ c # page.at]
     IN IF page.at = Nowhere
          THEN UNCHANGED <<page, calls, reviewing, live>>
          ELSE /\ page' = IF changed \/ team THEN AfterEffect(pg, Snapshot(c)) ELSE [pg EXCEPT !.unchanged = TRUE]
               /\ StartsIf(changed /\ AutoStarts(page, Snapshot(c)), page.at)
  /\ factLoads' = FactsAsked(Snapshot(c))
  /\ carried' = (carried \/ (page.decisions # {} /\ page.decisions # {<<c, srv[c].review>>}))
  /\ UNCHANGED <<team, planDeep, entDeep, canDecide, srv, submitted, overtaken>>

\* The request fails: the detail stays as it is, and no effect runs.
LoadFails(c) ==
  /\ c \in loads /\ loads' = loads \ {c}
  /\ page' = [page EXCEPT !.unread = @ \/ c = page.at]
  /\ UNCHANGED <<team, planDeep, entDeep, canDecide, srv, detail, calls, reviewing, live, factLoads, submitted, overtaken, carried>>

\* The facts come, or a failure nobody is told of.
FactsAnswered(c) ==
  /\ c \in factLoads
  /\ factLoads' = factLoads \ {c}
  /\ page' = page \/ (page.at # Nowhere /\ page' = [page EXCEPT !.facts = c])
  /\ UNCHANGED <<team, planDeep, entDeep, canDecide, srv, detail, loads, calls, reviewing, live, submitted, overtaken, carried>>

----------------------------------------------------------------------------
(* A review started from the page: refused, or streamed to its end.        *)
CallServed(c) ==
  /\ calls[c] = "asked"
  /\ \/ /\ srv[c].status \in Startable /\ srv[c].review < RunsMax[c]
        /\ calls' = [calls EXCEPT ![c] = "running"] /\ \E coupon \in {FALSE, ~team} : srv' = Begun(c, planDeep \/ coupon)
     \/ calls' = [calls EXCEPT ![c] = "over"] /\ UNCHANGED srv
  /\ ServerOnly
RunEvent(c) ==
  /\ calls[c] = "running" /\ live' = live \cup {c}
  /\ UNCHANGED <<team, planDeep, entDeep, canDecide, srv, page, detail, loads, calls, reviewing, factLoads, submitted, overtaken, carried>>
\* The stream ends with the review, or breaks while the review goes on.
CallReturns(c) ==
  /\ calls[c] \in {"running", "over"}
  /\ calls' = [calls EXCEPT ![c] = "none"] /\ reviewing' = FALSE
  /\ loads' = loads \cup {c}
  /\ UNCHANGED <<team, planDeep, entDeep, canDecide, srv, page, detail, live, factLoads, submitted, overtaken, carried>>

----------------------------------------------------------------------------
(* What the pages offer.                                                   *)
Shown == page.at # Nowhere /\ detail # Nowhere
\* The header's button, open to every role; the panel's only to those who may decide.
StartOffered ==
  Shown /\ team /\ ~reviewing /\ detail.status \notin {"UPLOADED", "PARSING", "REVIEWING", "FAILED"}
PanelStart == Shown /\ team /\ ~reviewing /\ detail.review = 0 /\ canDecide
AgainStart == Shown /\ team /\ ~reviewing /\ detail.task = "REJECTED"
ReviewOpen == Shown /\ team /\ ~reviewing /\ detail.task = "WAITING_REVIEW"
\* The cards of the review, the bar and the box of the final decision.
CardsOpen == ReviewOpen /\ canDecide
FinalOffered == ReviewOpen /\ canDecide
ReportOffered == Shown /\ detail.task = "APPROVED"
\* The result page: what stands in the middle, which cards are locked, what the bar below offers, and
\* how long it says the record is kept.
Deep == IF detail = Nowhere THEN FALSE ELSE detail.deep \/ entDeep
ResultPage ==
  [view |-> IF detail = Nowhere THEN "loading" ELSE IF detail.status \in Parsing THEN "parsing"
            ELSE IF reviewing THEN "reviewing" ELSE IF detail.review = 0 THEN "awaits review" ELSE "result",
   locked |-> ~Deep, word |-> Deep, draft |-> Deep, watermark |-> ~Deep, kept |-> IF Deep THEN "for ever" ELSE "7 days"]
\* The cards of the workbench: those of the run, and when none runs those of the detail.
RiskList == [live |-> live, stored |-> IF reviewing \/ detail = Nowhere THEN {} ELSE {detail.c}]

\* handleStart of the header, the panel and the box of a rejected review; runWithCoupon of the paywall.
HandleStart ==
  /\ StartOffered \/ PanelStart \/ AgainStart
  /\ calls[page.at] = "none"
  /\ page' = [page EXCEPT !.decisions = {}] /\ AskedFor(page.at)
  /\ UNCHANGED <<team, planDeep, entDeep, canDecide, srv, detail, loads, factLoads, submitted, overtaken, carried>>
RunWithCoupon ==
  /\ ~team /\ Shown /\ calls[page.at] = "none"
  /\ AskedFor(page.at)
  /\ UNCHANGED <<team, planDeep, entDeep, canDecide, srv, page, detail, loads, factLoads, submitted, overtaken, carried>>
DecideRisk ==
  /\ CardsOpen
  /\ page' = [page EXCEPT !.decisions = @ \cup {<<detail.c, detail.review>>}]
  /\ UNCHANGED <<team, planDeep, entDeep, canDecide, srv, detail, loads, calls, reviewing, live, factLoads, submitted, overtaken, carried>>
\* The verdicts of the page go with the review shown; then the page's own contract is read again, unless
\* they were refused or the answer is lost.
Decided(final) == [srv EXCEPT ![detail.c] = [@ EXCEPT !.task = final, !.status = IF final = "APPROVED" THEN "COMPLETED" ELSE "READY"]]
DoSubmit(final) ==
  /\ FinalOffered
  /\ submitted' = [review |-> <<detail.c, detail.review>>, actions |-> page.decisions]
  /\ IF srv[detail.c].task = "WAITING_REVIEW" /\ srv[detail.c].review = detail.review
       THEN srv' = Decided(final) /\ loads' \in {loads, loads \cup {page.at}}
       ELSE UNCHANGED <<srv, loads>>
  /\ UNCHANGED <<team, planDeep, entDeep, canDecide, page, detail, calls, reviewing, live, factLoads, overtaken, carried>>

ScreenNext ==
  \/ \E c \in Files : Parses(c) \/ OtherStarts(c) \/ RunEnds(c) \/ FollowNotice(c) \/ FactsAnswered(c)
                      \/ CallServed(c) \/ RunEvent(c) \/ CallReturns(c)
  \/ \E c \in Files, start \in BOOLEAN : Open(c, start)
  \/ \E c \in loads : LoadAnswered(c) \/ LoadFails(c)
  \/ PlanBought \/ EntitlementAnswered \/ Leave \/ TimerFires \/ Refresh \/ HandleStart \/ RunWithCoupon \/ DecideRisk
  \/ \E final \in {"APPROVED", "REJECTED"} : DoSubmit(final)

----------------------------------------------------------------------------
ScreenTypeOK ==
  /\ page.at \in Files \cup {Nowhere} /\ loads \subseteq Files
  /\ \A c \in Files : srv[c].review \in 0..RunsMax[c] /\ calls[c] \in {"none", "asked", "running", "over"}
  /\ live \subseteq Files /\ factLoads \subseteq Files

\* What the page shows is the contract it was opened for, or that one is being read, unless reading it
\* failed and nothing has come since, or a page before it was left with a request or a review under way,
\* whose answer may come over this page.
ShownIsAsked ==
  (Shown /\ ~overtaken) => /\ detail.c = page.at \/ page.at \in loads \/ page.unread
                           /\ team => RiskList.live \subseteq {page.at}
\* So with the facts beside it.
FactsAreShown == (Shown /\ ~overtaken) => page.facts \in {Nowhere, page.at, detail.c}
\* While the contract is parsed the page goes on asking: the workbench always, the result page unless the
\* poll found the status unchanged or failed.
PollsUnlessUnchanged ==
  (Shown /\ ~overtaken /\ detail.status \in Parsing) =>
    page.timer # Nowhere \/ (~team /\ (loads # {} \/ page.unchanged \/ page.unread))
\* The verdicts sent with a decision are of the review decided, unless it was begun anew meanwhile.
DecidedAsSeen ==
  (submitted # Nowhere /\ ~carried) => submitted.actions \subseteq {submitted.review}
\* What a page up to date offers, the server accepts: the header, the box of a rejected review and the
\* bar of the verdict offer nothing it refuses, and the panel beside the text, which offers a start to
\* every contract never reviewed, only the start of one not parsed yet or in vain.
OffersAreAccepted ==
  (IF Shown THEN detail = Snapshot(page.at) ELSE FALSE) =>
    /\ StartOffered \/ AgainStart => srv[page.at].status \in Startable
    /\ PanelStart => srv[page.at].status \in Startable \cup Parsing \cup {"FAILED"}
    /\ FinalOffered => srv[page.at].task = "WAITING_REVIEW"
    /\ (~team /\ entDeep = planDeep /\ ResultPage.word) => srv[page.at].deep \/ planDeep
=============================================================================
