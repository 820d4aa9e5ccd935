------------------------------- MODULE Library -------------------------------
(***************************************************************************)
(* What a workspace reads and takes out: the list and the detail of its    *)
(* contracts, the opinion as a page and as a Word file, the revised Word   *)
(* file, and the templates it may preview, adopt and download.  A contract *)
(* holds one opinion however often it is reviewed; a page shows the last   *)
(* review.                                                                 *)
(***************************************************************************)
EXTENDS Integers, Sequences, SequencesExt, FiniteSets, FiniteSetsExt

CONSTANTS ReviewsMax,   \* reviews of the contract
          RiskIds,      \* risks of a review
          SeverityOf,   \* risk -> "HIGH" | "MED" | "LOW"
          ClauseOf,     \* risk -> clause number, 0 when it names none
          ClauseCount,
          Templates,    \* TEMPLATE_CATALOG: those with a text
          ParsedClauses,\* clauses a template's text splits into
          PaidPlans,    \* plans with wordExport
          LibraryPlans, AdoptMax,
          NoReview

VARIABLES libPlan,      \* tenants.plan
          libStatus,    \* contracts.status
          libTasks,     \* its review_tasks in order: [status, risks: risk -> status]
          reportOf,     \* contracts.reportMd: [task, risks] it was built from, or NoReview
          seeded,       \* template documents in the database
          adopted,      \* contracts made from templates: [clauses, status]
          served        \* the last document given out
libraryVars == <<libPlan, libStatus, libTasks, reportOf, seeded, adopted, served>>

\* A review with what its risks were decided, and the opinion stored for one.
TaskRows == [status : {"RUNNING", "WAITING_REVIEW", "APPROVED", "REJECTED"}, deep : BOOLEAN,
             risks : [RiskIds -> {"PENDING", "ACCEPTED", "IGNORED"}]]
Opinions == [task : Nat, risks : [RiskIds -> {"ACCEPTED", "IGNORED"}]]
ASSUME LibraryAssumption ==
  /\ ReviewsMax \in Nat /\ NoReview \notin Opinions /\ IsFiniteSet(RiskIds)
  /\ SeverityOf \in [RiskIds -> {"HIGH", "MED", "LOW"}] /\ ClauseOf \in [RiskIds -> 0..ClauseCount]

Latest == Len(libTasks)
LibraryInit ==
  /\ libPlan \in LibraryPlans /\ libStatus = "READY" /\ libTasks = <<>> /\ reportOf = NoReview
  /\ seeded = {} /\ adopted = <<>> /\ served = NoReview

CanExport == libPlan \in PaidPlans
\* The tenant's plan changes between two requests; templates are seeded by a script.
PlanTurns ==
  /\ \E p \in LibraryPlans \ {libPlan} : libPlan' = p
  /\ UNCHANGED <<libStatus, libTasks, reportOf, seeded, adopted, served>>
SeedTemplates ==
  /\ \E t \in Templates \ seeded : seeded' = seeded \cup {t}
  /\ UNCHANGED <<libPlan, libStatus, libTasks, reportOf, adopted, served>>

----------------------------------------------------------------------------
(* A review begins, waits, and is decided: what the pages see of it.       *)
ReviewBegins ==
  /\ Latest < ReviewsMax /\ libStatus \in {"READY", "WAITING_REVIEW", "COMPLETED"}
  /\ \E coupon \in BOOLEAN :
       libTasks' = Append(libTasks, [status |-> "RUNNING", deep |-> coupon \/ CanExport, risks |-> [r \in RiskIds |-> "PENDING"]])
  /\ libStatus' = "REVIEWING"
  /\ UNCHANGED <<libPlan, reportOf, seeded, adopted, served>>
ReviewWaits ==
  /\ Latest > 0 /\ libTasks[Latest].status = "RUNNING"
  /\ libTasks' = [libTasks EXCEPT ![Latest].status = "WAITING_REVIEW"] /\ libStatus' = "WAITING_REVIEW"
  /\ UNCHANGED <<libPlan, reportOf, seeded, adopted, served>>
\* Any review that waits may be decided, the last or one it overtook; either way an opinion is stored.
ReviewDecided(i) ==
  /\ i \in 1..Latest /\ libTasks[i].status = "WAITING_REVIEW"
  /\ \E verdicts \in [RiskIds -> {"ACCEPTED", "IGNORED"}], outcome \in {"APPROVED", "REJECTED"} :
       /\ libTasks' = [libTasks EXCEPT ![i] = [@ EXCEPT !.status = outcome, !.risks = verdicts]]
       /\ reportOf' = [task |-> i, risks |-> verdicts]
       /\ libStatus' = IF outcome = "APPROVED" THEN "COMPLETED" ELSE "READY"
  /\ UNCHANGED <<libPlan, seeded, adopted, served>>

----------------------------------------------------------------------------
(* The list and the detail.                                                *)

\* reviewStatus of the list.
ListedAs(filter) ==
  LET review == IF Latest = 0 THEN "none" ELSE libTasks[Latest].status
  IN CASE filter = "PENDING" -> libStatus # "FAILED" /\ review \in {"none", "RUNNING"}
       [] filter = "WAITING_REVIEW" -> review = "WAITING_REVIEW"
       [] filter = "APPROVED" -> review = "APPROVED"
       [] filter = "FAILED" -> libStatus = "FAILED" \/ review = "REJECTED"
\* list and detail show the last review, and whether there is any report.
ListItem ==
  [status |-> libStatus, hasReport |-> reportOf # NoReview,
   review |-> IF Latest = 0 THEN "none" ELSE libTasks[Latest].status]
\* pending: every task that waits, not only the contract's last.
PendingTasks == {i \in 1..Latest : libTasks[i].status = "WAITING_REVIEW"}

----------------------------------------------------------------------------
(* Documents.                                                              *)

RankOf == [HIGH |-> 1, MED |-> 2, LOW |-> 3]
\* buildOpinionMarkdown / buildOpinionDocx: by severity, with the figures of the heading.
RisksOf(rank) == {r \in RiskIds : RankOf[SeverityOf[r]] = rank}
SortedRisks == SetToSeq(RisksOf(1)) \o SetToSeq(RisksOf(2)) \o SetToSeq(RisksOf(3))
Opinion(task, verdicts) ==
  [task |-> task, order |-> SortedRisks,
   high |-> Cardinality({r \in RiskIds : SeverityOf[r] = "HIGH"}),
   med  |-> Cardinality({r \in RiskIds : SeverityOf[r] = "MED"}),
   low  |-> Cardinality({r \in RiskIds : SeverityOf[r] = "LOW"}),
   accepted |-> Cardinality({r \in RiskIds : verdicts[r] = "ACCEPTED"})]
\* buildOpinionDocx: the same figures, and a table of one numbered row a risk before the analyses.
OpinionDocx(task, verdicts) ==
  LET page == Opinion(task, verdicts)
  IN [table |-> [i \in 1..Len(SortedRisks) |-> [no |-> i, risk |-> SortedRisks[i], verdict |-> verdicts[SortedRisks[i]]]],
      task |-> page.task, order |-> page.order, high |-> page.high, med |-> page.med, low |-> page.low,
      accepted |-> page.accepted]

\* GET reviews/:taskId/report gives the contract's stored opinion, whichever review it is of.
ReadReport(i) ==
  /\ i \in 1..Latest /\ reportOf # NoReview
  /\ served' = [kind |-> "page", asked |-> i, doc |-> Opinion(reportOf.task, reportOf.risks), plan |-> libPlan]
  /\ UNCHANGED <<libPlan, libStatus, libTasks, reportOf, seeded, adopted>>
\* GET reviews/:taskId/report/docx builds the Word file from the task asked for.
ExportReport(i) ==
  /\ i \in 1..Latest /\ reportOf # NoReview /\ CanExport
  /\ served' = [kind |-> "docx", asked |-> i, doc |-> OpinionDocx(i, libTasks[i].risks), plan |-> libPlan]
  /\ UNCHANGED <<libPlan, libStatus, libTasks, reportOf, seeded, adopted>>

\* exportDocx of the revisions accepted at the desk: the heading counts every one, the pages hold
\* those of a clause; a plan's depth or the review's own coupon opens it.
RevisedClauses(revised) == {c \in 1..ClauseCount : \E r \in revised : ClauseOf[r] = c}
ExportRevision ==
  /\ IF Latest = 0 THEN FALSE ELSE libTasks[Latest].deep \/ CanExport
  /\ \E revised \in SUBSET RiskIds \ {{}} :
       served' = [kind |-> "revision", asked |-> Latest, plan |-> libPlan,
                  doc |-> [counted |-> Cardinality(revised),
                           printed |-> Cardinality({r \in revised : ClauseOf[r] \in 1..ClauseCount}),
                           changed |-> RevisedClauses(revised),
                           kept |-> (1..ClauseCount) \ RevisedClauses(revised)]]
  /\ UNCHANGED <<libPlan, libStatus, libTasks, reportOf, seeded, adopted>>

\* Preview is open to every plan; adoption and download are not.
CatalogWithDocs == Templates \cap seeded
PreviewTemplate(t) ==
  /\ t \in CatalogWithDocs
  /\ served' = [kind |-> "preview", asked |-> 0, doc |-> [template |-> t, canAdopt |-> CanExport], plan |-> libPlan]
  /\ UNCHANGED <<libPlan, libStatus, libTasks, reportOf, seeded, adopted>>
DownloadTemplate(t) ==
  /\ t \in CatalogWithDocs /\ CanExport
  /\ served' = [kind |-> "template", asked |-> 0, doc |-> [template |-> t], plan |-> libPlan]
  /\ UNCHANGED <<libPlan, libStatus, libTasks, reportOf, seeded, adopted>>
\* One transaction: the contract and its clauses.
AdoptTemplate(t) ==
  /\ t \in CatalogWithDocs /\ CanExport /\ Len(adopted) < AdoptMax
  /\ adopted' = Append(adopted, [template |-> t, status |-> "READY", counted |-> ParsedClauses[t],
                                 clauses |-> ParsedClauses[t], kept |-> TRUE])
  /\ UNCHANGED <<libPlan, libStatus, libTasks, reportOf, seeded, served>>

LibraryNext ==
  \/ PlanTurns \/ SeedTemplates \/ ReviewBegins \/ ReviewWaits
  \/ \E i \in 1..Latest : ReviewDecided(i) \/ ReadReport(i) \/ ExportReport(i)
  \/ ExportRevision
  \/ \E t \in Templates : PreviewTemplate(t) \/ DownloadTemplate(t) \/ AdoptTemplate(t)

----------------------------------------------------------------------------
LibraryTypeOK ==
  /\ libPlan \in LibraryPlans /\ seeded \subseteq Templates /\ Latest <= ReviewsMax
  /\ libStatus \in {"READY", "REVIEWING", "WAITING_REVIEW", "COMPLETED"}

\* A Word file left the house only under a plan that has it; the figures of its heading are those of
\* its risks; the page given for a review is that review's own opinion unless the contract was
\* reviewed more than once; and every revision counted is printed unless its risk names no clause.
ServedAsPaid ==
  IF served = NoReview THEN TRUE ELSE
  /\ served.kind \in {"docx", "template"} => served.plan \in PaidPlans
  /\ served.kind \in {"page", "docx"} =>
       /\ served.doc.high + served.doc.med + served.doc.low = Len(served.doc.order)
       /\ \A j \in 1..(Len(served.doc.order) - 1) :
            RankOf[SeverityOf[served.doc.order[j]]] <= RankOf[SeverityOf[served.doc.order[j + 1]]]
  /\ served.kind = "docx" => served.doc.task = served.asked
  /\ (served.kind = "page" /\ Latest = 1) => served.doc.task = served.asked
  /\ served.kind = "revision" =>
       /\ served.plan \in PaidPlans \/ libTasks[served.asked].deep
       /\ (\A r \in RiskIds : ClauseOf[r] # 0) => served.doc.printed = served.doc.counted
       /\ served.doc.printed <= served.doc.counted
\* The list's filters part the contracts, one page each; what the list calls waiting is among the tasks
\* to be decided, and what it calls decided has a report to open, whichever review was decided last.
ListsArePartition ==
  /\ Cardinality({f \in {"PENDING", "WAITING_REVIEW", "APPROVED", "FAILED"} : ListedAs(f)}) = 1
  /\ ListItem.review = "WAITING_REVIEW" <=> Latest \in PendingTasks
  /\ ListItem.review \in {"APPROVED", "REJECTED"} => ListItem.hasReport
=============================================================================
