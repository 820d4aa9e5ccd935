------------------------------- MODULE Notices -------------------------------
(***************************************************************************)
(* What a workspace is told: the list of notices computed at each call     *)
(* (server/src/notifications/notifications.service.ts), the cards sent to  *)
(* its Feishu group (services/feishu/feishu-notify.service.ts,             *)
(* notify-digest.service.ts) and the webhook they go to                    *)
(* (integrations/integrations.service.ts).  Time passes in half days.      *)
(***************************************************************************)
EXTENDS Integers, FiniteSets

CONSTANTS
  Staff,          \* ledger entries: records [end, probation, remind] in half days
  Kept7,          \* contracts of a free space, by their retainUntil
  PlanEnds,       \* planExpiresAt
  ReviewQuota,    \* monthlyReviewQuota
  AlertOps,       \* alerts under way
  RetainTake,     \* 50
  RetainShown,    \* 3
  NoticeTimeMax   \* bound on the half days

Days(n) == 2 * n

(* An entry reminds at most 90 days ahead; what is kept is kept for some time. *)
ASSUME NoticeAssumption ==
  /\ Staff \subseteq [end : Int, probation : Int, remind : Int]
  /\ \A s \in Staff : s.remind <= Days(90)
  /\ IsFiniteSet(Kept7) /\ Kept7 \subseteq Int
  /\ ReviewQuota \in Nat \ {0} /\ RetainTake \in Nat \ {0} /\ RetainShown \in Nat \ {0}

VARIABLES
  noticeNow,      \* the time
  cleaned,        \* contracts the nightly job removed
  reviewsUsed,    \* usedReviews of the month
  usedUp,         \* they were ReviewQuota at some time of the month
  webhook,        \* "none", "good", or "broken": encrypted with another key
  marked,         \* the key feishu:quota80 of the month
  gap,            \* the reviews are of a new month, the key still of the last
  alertOp,        \* alertOp[o]: a review and the alert that follows it
  delivered,      \* alerts delivered this month
  missed,         \* a due alert of the month was lost on its way or refused
  monthTurned,    \* the month changed under an alert, or one set its key in the gap
  digest          \* notices of the last digest delivered

alertVars == <<reviewsUsed, usedUp, marked, gap, alertOp, delivered, missed, monthTurned>>
noticeVars == <<noticeNow, cleaned, webhook, digest, alertVars>>

NoticeInit ==
  /\ noticeNow = 0 /\ cleaned = {} /\ reviewsUsed = 0 /\ usedUp = FALSE
  /\ webhook = "none" /\ marked = FALSE /\ gap = FALSE
  /\ alertOp = [o \in AlertOps |-> "idle"]
  /\ delivered = 0 /\ missed = FALSE /\ monthTurned = FALSE
  /\ digest = {}

-----------------------------------------------------------------------------
(* list, ledger entries: a query takes a window around now, then each      *)
(* entry is judged by its own days.                                        *)

Loaded(s) ==
  \/ s.end <= noticeNow + Days(90)
  \/ s.probation \in noticeNow .. noticeNow + Days(7)

RoundDays(halfDays) == (halfDays + 1) \div 2      \* Math.round

LedgerNotices ==
  {[type |-> "LEDGER_EXPIRY", of |-> s, danger |-> RoundDays(s.end - noticeNow) <= 7] :
     s \in {e \in Staff : Loaded(e) /\ e.end - noticeNow <= e.remind}}
  \cup {[type |-> "PROBATION_EXPIRY", of |-> s, danger |-> FALSE] :
     s \in {e \in Staff : /\ Loaded(e) /\ e.probation >= noticeNow
                          /\ RoundDays(e.probation - noticeNow) <= 7}}

(* the month's reviews.                                                    *)
QuotaNotices ==
  IF reviewsUsed >= ReviewQuota THEN {[type |-> "QUOTA_EXHAUSTED"]}
  ELSE IF 5 * reviewsUsed >= 4 * ReviewQuota THEN {[type |-> "QUOTA_80"]} ELSE {}

(* contracts to be removed within a day: the earliest of those due, the    *)
(* overdue ones included, of which the overdue ones are dropped again.     *)
Earliest(S, n) == {c \in S : Cardinality({d \in S : d < c}) < n}

RetainNotices ==
  LET due == Earliest({c \in Kept7 \ cleaned : c <= noticeNow + Days(1)}, RetainTake)
      pending == {c \in due : c >= noticeNow}
  IN  {[type |-> "RETAIN_WARNING", of |-> c] : c \in Earliest(pending, RetainShown)}
      \cup (IF Cardinality(pending) > RetainShown THEN {[type |-> "RETAIN_WARNING", of |-> -1]} ELSE {})

PlanNotices ==
  IF PlanEnds >= noticeNow /\ RoundDays(PlanEnds - noticeNow) <= 7 THEN {[type |-> "PLAN_EXPIRY"]} ELSE {}

(* The list of a team on a paid plan and that of a free personal space.    *)
NoticeList(team) == IF team THEN LedgerNotices \cup PlanNotices ELSE QuotaNotices \cup RetainNotices

NoticeTick ==
  /\ noticeNow < NoticeTimeMax /\ noticeNow' = noticeNow + 1
  /\ UNCHANGED <<cleaned, webhook, digest, alertVars>>

CleansContracts ==
  /\ cleaned' = cleaned \cup {c \in Kept7 : c < noticeNow}
  /\ UNCHANGED <<noticeNow, webhook, digest, alertVars>>

-----------------------------------------------------------------------------
(* The integration's webhook.                                              *)
SaveFeishu ==
  /\ webhook' = "good"
  /\ UNCHANGED <<noticeNow, cleaned, digest, alertVars>>

DeleteFeishu ==
  /\ webhook # "none" /\ webhook' = "none"
  /\ UNCHANGED <<noticeNow, cleaned, digest, alertVars>>

SecretChanges ==
  /\ webhook = "good" /\ webhook' = "broken"
  /\ UNCHANGED <<noticeNow, cleaned, digest, alertVars>>

(* sendCard never throws: it says whether the group got the card.          *)
SendCard(sent) == sent => webhook = "good"

(* A review's task is created; when the review got to its interrupt, its   *)
(* alert follows, which nobody waits for.                                  *)
CountReview ==
  /\ reviewsUsed < ReviewQuota + 1 /\ reviewsUsed' = reviewsUsed + 1
  /\ usedUp' = (usedUp \/ reviewsUsed' >= ReviewQuota)
  /\ \E o \in AlertOps : alertOp[o] = "idle" /\ alertOp' = [alertOp EXCEPT ![o] = "read"]
  /\ UNCHANGED <<noticeNow, cleaned, webhook, marked, gap, delivered, missed, monthTurned, digest>>

(* A contract goes, and its tasks with it: they are not counted any more.  *)
ReviewsGo ==
  /\ reviewsUsed > 0 /\ \E n \in 0 .. reviewsUsed - 1 : reviewsUsed' = n
  /\ UNCHANGED <<noticeNow, cleaned, usedUp, webhook, marked, gap, alertOp, delivered, missed, monthTurned, digest>>

(* notifyQuota80: below the quota it does nothing, at four fifths too.     *)
WorthTelling == reviewsUsed >= ReviewQuota /\ 5 * reviewsUsed >= 4 * ReviewQuota

ReadAlert(o) ==
  /\ alertOp[o] = "read"
  /\ alertOp' = [alertOp EXCEPT ![o] = IF WorthTelling THEN "mark" ELSE "idle"]
  /\ UNCHANGED <<noticeNow, cleaned, reviewsUsed, usedUp, webhook, marked, gap, delivered, missed, monthTurned, digest>>

(* The review or the read of the snapshot throws: there is no alert.       *)
ReadFails(o) ==
  /\ alertOp[o] = "read" /\ alertOp' = [alertOp EXCEPT ![o] = "idle"]
  /\ missed' = (missed \/ WorthTelling)
  /\ UNCHANGED <<noticeNow, cleaned, reviewsUsed, usedUp, webhook, marked, gap, delivered, monthTurned, digest>>

(* SET NX of the month's key comes before the card.  The key is of the UTC *)
(* month, the reviews are of Beijing's, which begins eight hours earlier.  *)
Acquire == ~marked

MarkAlert(o) ==
  /\ alertOp[o] = "mark"
  /\ marked' = TRUE /\ monthTurned' = (monthTurned \/ gap)
  /\ alertOp' = [alertOp EXCEPT ![o] = IF Acquire THEN "send" ELSE "idle"]
  /\ UNCHANGED <<noticeNow, cleaned, reviewsUsed, usedUp, webhook, gap, delivered, missed, digest>>

(* It throws, after Redis set the key or before.                           *)
MarkFails(o) ==
  /\ alertOp[o] = "mark" /\ alertOp' = [alertOp EXCEPT ![o] = "idle"]
  /\ marked' \in {marked, TRUE} /\ monthTurned' = (monthTurned \/ gap) /\ missed' = TRUE
  /\ UNCHANGED <<noticeNow, cleaned, reviewsUsed, usedUp, webhook, gap, delivered, digest>>

SendAlert(o) ==
  /\ alertOp[o] = "send"
  /\ \E sent \in BOOLEAN :
       /\ SendCard(sent)
       /\ delivered' = IF sent THEN delivered + 1 ELSE delivered
       /\ missed' = (missed \/ ~sent)
  /\ alertOp' = [alertOp EXCEPT ![o] = "idle"]
  /\ UNCHANGED <<noticeNow, cleaned, reviewsUsed, usedUp, webhook, marked, gap, monthTurned, digest>>

(* The server restarts: nothing takes an alert up again.                   *)
AlertsStop ==
  /\ \E o \in AlertOps : alertOp[o] # "idle"
  /\ alertOp' = [o \in AlertOps |-> "idle"]
  /\ missed' = (missed \/ WorthTelling \/ \E o \in AlertOps : alertOp[o] = "send")
  /\ UNCHANGED <<noticeNow, cleaned, reviewsUsed, usedUp, webhook, marked, gap, delivered, monthTurned, digest>>

(* The next month: usage starts again, alerts under way go on.             *)
TurnMonth ==
  /\ ~gap /\ ~monthTurned /\ reviewsUsed > 0
  /\ reviewsUsed' = 0 /\ usedUp' = FALSE /\ delivered' = 0 /\ missed' = FALSE
  /\ gap' = TRUE /\ monthTurned' = \E o \in AlertOps : alertOp[o] # "idle"
  /\ UNCHANGED <<noticeNow, cleaned, webhook, marked, alertOp, digest>>

(* The key lives to the end of the month it is of.                         *)
KeyExpires ==
  /\ gap /\ gap' = FALSE /\ marked' = FALSE
  /\ UNCHANGED <<noticeNow, cleaned, reviewsUsed, usedUp, webhook, alertOp, delivered, missed, monthTurned, digest>>

(* runDigest at nine in the morning: three kinds of the list, as one card. *)
DigestTypes == {"LEDGER_EXPIRY", "PROBATION_EXPIRY", "RETAIN_WARNING"}

SendDigest ==
  /\ \E team \in BOOLEAN, sent \in BOOLEAN :
       LET picked == {n \in NoticeList(team) : n.type \in DigestTypes} IN
       /\ SendCard(sent)
       /\ digest' = IF picked # {} /\ sent THEN picked ELSE digest
  /\ UNCHANGED <<noticeNow, cleaned, webhook, alertVars>>

NoticeNext ==
  \/ NoticeTick \/ CleansContracts \/ SaveFeishu \/ DeleteFeishu \/ SecretChanges
  \/ CountReview \/ ReviewsGo \/ AlertsStop \/ TurnMonth \/ KeyExpires \/ SendDigest
  \/ \E o \in AlertOps : ReadAlert(o) \/ ReadFails(o) \/ MarkAlert(o) \/ MarkFails(o) \/ SendAlert(o)

-----------------------------------------------------------------------------
NoticeTypeOK ==
  /\ webhook \in {"none", "good", "broken"}
  /\ \A o \in AlertOps : alertOp[o] \in {"idle", "read", "mark", "send"}

(* Unless the month turned under an alert, or one set the key of the month *)
(* before: a group is told at most once a month that the quota is used up, *)
(* it then was, and while it is, with no alert under way, the group has    *)
(* been told unless an alert was lost on its way (a call of it failed, the *)
(* server restarted) or was refused.                                       *)
AlertedOnce ==
  ~monthTurned =>
       /\ delivered <= 1
       /\ delivered = 1 => usedUp
       /\ (reviewsUsed >= ReviewQuota /\ ~missed /\ \A o \in AlertOps : alertOp[o] = "idle")
            => delivered = 1

(* The window of the query loses nothing: an entry within its own days, a  *)
(* probation of the next week and a contract removed within a day are in   *)
(* the list, the contracts while those overdue leave room for them.        *)
NothingDueIsMissed ==
  /\ \A s \in Staff :
       /\ s.end <= noticeNow + s.remind => \E n \in NoticeList(TRUE) : n.type = "LEDGER_EXPIRY" /\ n.of = s
       /\ s.probation \in noticeNow .. noticeNow + Days(7)
            => \E n \in NoticeList(TRUE) : n.type = "PROBATION_EXPIRY" /\ n.of = s
  /\ LET overdue == {c \in Kept7 \ cleaned : c < noticeNow}
         pending == {c \in Kept7 \ cleaned : c \in noticeNow .. noticeNow + Days(1)}
     IN  Cardinality(overdue \cup pending) <= RetainTake =>
           (pending = {} <=> RetainNotices = {})
==============================================================================
