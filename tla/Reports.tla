------------------------------- MODULE Reports -------------------------------
(***************************************************************************)
(* The pages that add the records up: the tracking endpoint and the        *)
(* funnel (analytics), the usage board (monitor), the bill, the dashboard  *)
(* and the audit log.  Nothing here owns the rows it reads, so what can go *)
(* wrong is that two figures of the same page are taken over different     *)
(* rows.                                                                   *)
(*                                                                         *)
(* Time is counted in thirds of a day, so the server's zone (UTC+8) is     *)
(* ahead of UTC by ZoneAhead = 1; rows are stamped in UTC.                 *)
(***************************************************************************)
EXTENDS Integers, Sequences, FiniteSets, FiniteSetsExt, SequencesExt, Functions

CONSTANTS Trackers,      \* signed-in users; each has a plan
          PlanOf,        \* users.tenant.plan
          Nobody,        \* an anonymous visitor (user_id NULL)
          Steps,         \* FUNNEL_STEPS, in order
          SeenPersonas,      \* props.persona of a sign_up event
          BatchMax, HitsMax, BatchesMax,   \* 50 events; 60 batches a minute
          ZoneAhead, ChartDays, ReportTimeMax, MonthBegins, TracesMax,
          PeakThirds,    \* the third of a local day that holds the peak hours
          NoModel,       \* traces.model is NULL until the call ends
          Deadlined,     \* ledger entries: [end, probation], in thirds
          AuditKeys, AuditDepth

ASSUME ReportAssumption ==
  /\ HitsMax \in Nat /\ ReportTimeMax \in Nat /\ MonthBegins \in Nat /\ TracesMax \in Nat
  /\ ZoneAhead \in Nat /\ ChartDays \in Nat \ {0}
  /\ IsFiniteSet(Trackers) /\ DOMAIN PlanOf = Trackers /\ IsFiniteSet(ToSet(Steps))
  /\ NoModel \notin {"m", "cache"}
  /\ \A l \in Deadlined : l.end \in Nat

VARIABLES rptime,   \* the clock
          events,   \* analytics_events: <<type, user, props, time>>
          rateHits,     \* rl:analytics:<ip>:<minute>
          accepted, \* batches answered 201
          traced,   \* traces rows
          usage,    \* quota_usage of the month: tokens
          unbooked, \* finished traces whose usage is not recorded yet
          todoRows, \* <<tasks waiting for review, failed contracts>>
          auditRows \* audit_logs: the details stored
reportVars == <<rptime, events, rateHits, accepted, traced, usage, unbooked, todoRows, auditRows>>

ThisMonth(t) == t >= MonthBegins
ReportInit ==
  /\ rptime = 0 /\ events = {} /\ rateHits = 0 /\ accepted = 0
  /\ traced = <<>> /\ usage = 0 /\ unbooked = {} /\ todoRows = <<0, 0>> /\ auditRows = {}

----------------------------------------------------------------------------
(* Tracking.                                                               *)

\* sanitizeProps: keys of a secret or of a text are dropped, deep values too.
SensitiveKeys == {"token", "content"}
SanitizeProps(props) == [k \in (DOMAIN props) \ SensitiveKeys |-> props[k]]
SentProps(persona) == [persona |-> persona, token |-> "secret"]

\* normalizeEvent: a type outside the list rejects the whole batch.
EventTypes == ToSet(Steps)
ResolveIdentity(token) == IF token \in Trackers THEN token ELSE Nobody

Throttled(down) == ~down /\ rateHits + 1 > HitsMax
\* POST track: the counter first, then size and content, then the rows.
Track(batch, token, persona, down) ==
  /\ accepted < BatchesMax
  /\ rateHits' = IF down THEN rateHits ELSE rateHits + 1
  /\ IF Throttled(down) \/ batch = {} \/ Cardinality(batch) > BatchMax \/ ~(batch \subseteq EventTypes)
     THEN UNCHANGED <<events, accepted>>
     ELSE /\ events' = events \cup {<<type, ResolveIdentity(token), SanitizeProps(SentProps(persona)), rptime>> : type \in batch}
          /\ accepted' = accepted + 1
  /\ rateHits < HitsMax + 1
  /\ UNCHANGED <<rptime, traced, usage, unbooked, todoRows, auditRows>>

\* getFunnel: COUNT(DISTINCT user_id) per step of the range.
InRange(e, from, to) == from <= e[4] /\ e[4] <= to
DistinctUsers(es) == Cardinality({e[2] : e \in es} \ {Nobody})
GetFunnel(from, to) ==
  [i \in 1..Len(Steps) |->
     LET count(j) == DistinctUsers({e \in events : e[1] = Steps[j] /\ InRange(e, from, to)})
     IN [count |-> count(i), fromPrev |-> IF i = 1 THEN 0 ELSE count(i - 1), fromTop |-> count(1)]]
\* getBreakdown by plan joins the user; by persona it joins that user's sign_up events.
JoinedPlan(e, value) == IF e[2] = Nobody THEN FALSE ELSE PlanOf[e[2]] = value
JoinedPersona(e, value) ==
  e[2] # Nobody /\ \E m \in events : m[1] = Steps[1] /\ m[2] = e[2] /\ m[3].persona = value
GetBreakdown(dim, value, step, from, to) ==
  DistinctUsers({e \in events : /\ e[1] = step /\ InRange(e, from, to)
                                /\ IF dim = "plan" THEN JoinedPlan(e, value) ELSE JoinedPersona(e, value)})
\* parseRange refuses ends out of order; a range over a year is longer than the behaviours here.
ParseRange(from, to) == IF from > to THEN <<>> ELSE <<from, to>>

----------------------------------------------------------------------------
(* Traces, the usage board and the bill.                                   *)

TraceStarts ==
  /\ Len(traced) < TracesMax
  /\ traced' = Append(traced, [at |-> rptime, model |-> NoModel, status |-> "RUNNING", tokens |-> 0])
  /\ UNCHANGED <<rptime, events, rateHits, accepted, usage, unbooked, todoRows, auditRows>>

TraceEnds(i) ==
  /\ traced[i].status = "RUNNING"
  /\ \E model \in {"m", "cache"}, status \in {"OK", "ERROR"} :
       traced' = [traced EXCEPT ![i] = [at |-> traced[i].at, model |-> model, status |-> status, tokens |-> 1]]
  /\ unbooked' = unbooked \cup {i}
  /\ UNCHANGED <<rptime, events, rateHits, accepted, usage, todoRows, auditRows>>

\* The month's usage is upserted after the trace, of the month it is upserted in; never for the cache.
Books(i) ==
  /\ i \in unbooked
  /\ unbooked' = unbooked \ {i}
  /\ usage' = IF traced[i].model # "cache" /\ ThisMonth(rptime) THEN usage + traced[i].tokens ELSE usage
  /\ UNCHANGED <<rptime, events, rateHits, accepted, traced, todoRows, auditRows>>

LocalDay(t) == (t + ZoneAhead) \div 3
UtcDay(t) == t \div 3
LocalMidnight(t) == 3 * LocalDay(t) - ZoneAhead

\* getStats: the overview counts from the server's own midnight.
TodayRows == {k \in DOMAIN traced : traced[k].at >= LocalMidnight(rptime)}
CacheHits == {i \in TodayRows : traced[i].model = "cache"}
StatsOverview ==
  [totalCalls |-> Cardinality(TodayRows), cacheHits |-> Cardinality(CacheHits),
   apiCalls   |-> Cardinality(TodayRows) - Cardinality(CacheHits)]

\* last7Days groups by the day of the row and keeps model <> 'cache', which is not true of NULL;
\* fillSevenDays asks for the UTC days of the server's midnights.
WindowStart == LocalMidnight(rptime) - 3 * (ChartDays - 1)
ChartKey(i) == UtcDay(LocalMidnight(rptime) - 3 * (ChartDays - i))
FillSevenDays ==
  [i \in 1..ChartDays |->
     LET day == {k \in DOMAIN traced : traced[k].at >= WindowStart /\ UtcDay(traced[k].at) = ChartKey(i)}
     IN [totalCalls |-> Cardinality(day),
         apiCalls   |-> Cardinality({j \in day : traced[j].model \notin {"cache", NoModel}})]]

\* listTraces: the newest first, one page of them.
NewestFirst(status) ==
  LET rows[n \in 0..Len(traced)] ==
        IF n = 0 THEN <<>>
        ELSE IF status \in {"any", traced[n].status} THEN <<traced[n]>> \o rows[n - 1] ELSE rows[n - 1]
  IN rows[Len(traced)]
ListTraces(page, size, status) ==
  LET rows == NewestFirst(status)
  IN [total |-> Len(rows),
      items |-> SubSeq(rows, (page - 1) * size + 1, Min({page * size, Len(rows)}))]

\* getBilling: usage from quota_usage, totals and days from the traces of the month.
MonthRows == {k \in DOMAIN traced : traced[k].at >= MonthBegins}
TokensIn(rows) == SumFunction([i \in rows |-> traced[i].tokens])
MonthTotals ==
  [calls |-> Cardinality(MonthRows), tokens |-> TokensIn(MonthRows)]
BeijingDayOfMonth == LocalDay(rptime) - LocalDay(MonthBegins) + 1
IsPeak(t) == (t + ZoneAhead) % 3 = PeakThirds
Daily ==
  [d \in 1..BeijingDayOfMonth |->
     LET day == {i \in MonthRows : LocalDay(traced[i].at) = LocalDay(MonthBegins) + d - 1}
     IN [calls |-> Cardinality(day), peak |-> TokensIn({i \in day : IsPeak(traced[i].at)}),
         off   |-> TokensIn({i \in day : ~IsPeak(traced[i].at)})]]
\* A plan without a quota is over its limit from the first.
OverLimit(quota) == usage >= quota
UsedPct(quota) == IF quota = 0 THEN 0 ELSE (100 * usage) \div quota

----------------------------------------------------------------------------
(* The dashboard and the audit log.                                        *)

\* A task comes to wait for review or a contract fails.
TodoChanges ==
  /\ \E r \in 1..2 : todoRows[r] < 3 /\ todoRows' = [todoRows EXCEPT ![r] = @ + 1]
  /\ UNCHANGED <<rptime, events, rateHits, accepted, traced, usage, unbooked, auditRows>>
\* summary: five waiting and three failed are read, six of them are shown (2, 2 and 3 here).
Todos ==
  LET waiting == Min({todoRows[1], 2})
      failed  == Min({todoRows[2], 2})
  IN [waiting |-> waiting, failed |-> Min({failed, 3 - waiting}), pending |-> todoRows[1]]

\* Math.round of a number of days.
RoundThirds(t) == (2 * t + 3) \div 6
DeadlineBucket(end) ==
  LET days == RoundThirds(end - rptime)
  IN CASE days < 0 -> "EXPIRED" [] days \in 0..30 -> "DUE_30" [] days \in 31..90 -> "DUE_90"
       [] OTHER -> "later"
ProbationBucket(end) ==
  LET days == RoundThirds(end - rptime)
  IN CASE days \in (-30)..(-1) -> "PROBATION_DUE" [] days \in 0..30 -> "PROBATION_SOON"
       [] OTHER -> "later"
Deadlines ==
  {[kind |-> "END", date |-> l.end, bucket |-> DeadlineBucket(l.end)] : l \in Deadlined}
  \cup {[kind |-> "PROBATION", date |-> l.probation, bucket |-> ProbationBucket(l.probation)] : l \in Deadlined}
ShownDeadlines == {d \in Deadlines : d.bucket # "later"}

\* sanitizeDetail: a secret is masked, what lies deeper than the limit is replaced.
SanitizeDetail(key, depth) ==
  IF depth >= AuditDepth THEN "[MaxDepth]"
  ELSE IF key \in SensitiveKeys \ {"content"} THEN "***REDACTED***" ELSE "kept"
\* log: a row that cannot be written is lost, the caller goes on.
LogAudit ==
  /\ \E key \in AuditKeys, depth \in 0..AuditDepth, fails \in BOOLEAN :
       auditRows' = IF fails THEN auditRows ELSE auditRows \cup {<<key, SanitizeDetail(key, depth)>>}
  /\ auditRows' # auditRows
  /\ UNCHANGED <<rptime, events, rateHits, accepted, traced, usage, unbooked, todoRows>>

ReportTick ==
  /\ rptime < ReportTimeMax
  /\ rptime' = rptime + 1 /\ rateHits' = 0
  /\ UNCHANGED <<events, accepted, traced, usage, unbooked, todoRows, auditRows>>

\* Tracking, calls and the other pages meet nowhere but on the clock: one family at a time.
ReportNext ==
  \/ /\ traced = <<>> /\ todoRows = <<0, 0>> /\ auditRows = {}
     /\ \E batch \in SUBSET (EventTypes \cup {"unknown"}), token \in Trackers \cup {Nobody},
           persona \in SeenPersonas, down \in BOOLEAN : Track(batch, token, persona, down)
  \/ /\ events = {} /\ rateHits = 0 /\ todoRows = <<0, 0>> /\ auditRows = {}
     /\ TraceStarts \/ \E i \in DOMAIN traced : TraceEnds(i) \/ Books(i)
  \/ traced = <<>> /\ events = {} /\ rateHits = 0 /\ (TodoChanges \/ LogAudit)
  \/ ReportTick

----------------------------------------------------------------------------
ReportTypeOK ==
  /\ rptime \in 0..ReportTimeMax /\ rateHits \in 0..(HitsMax + 1) /\ accepted \in Nat /\ usage \in Nat
  /\ unbooked \subseteq DOMAIN traced
  /\ \A e \in events : e[1] \in EventTypes /\ e[2] \in Trackers \cup {Nobody}

\* Figures of one page that should agree: every user of a step is in exactly one plan's row; the pages
\* of the trace list together are the list; the bill is over its limit from 100 % on, where there is
\* one; the dashboard shows a waiting task when its figure says so; the board's chart counts a call of its window once, up to the last UTC day it asks for; its calls of
\* today are those of the chart's rule plus the ones still running; the bill's days add up to its month.
ReportsAgree ==
  /\ \A i \in 1..Len(Steps), from, to \in {0, rptime} : ParseRange(from, to) # <<>> =>
       GetFunnel(from, to)[i].count =
         SumFunction([p \in Range(PlanOf) |-> GetBreakdown("plan", p, Steps[i], from, to)])
  /\ \A size \in 1..TracesMax, status \in {"any", "OK", "ERROR"} :
       FlattenSeq([page \in 1..TracesMax |-> ListTraces(page, size, status).items])
         = ListTraces(1, TracesMax, status).items
  /\ \A quota \in 1..3 : OverLimit(quota) <=> UsedPct(quota) >= 100
  /\ Todos.waiting <= Todos.pending /\ (Todos.pending > 0 => Todos.waiting > 0)
  /\ SumFunction([i \in 1..ChartDays |-> FillSevenDays[i].totalCalls])
       = Cardinality({k \in DOMAIN traced : traced[k].at >= WindowStart /\ UtcDay(traced[k].at) <= ChartKey(ChartDays)})
  /\ StatsOverview.apiCalls
       = Cardinality({i \in TodayRows : traced[i].model \notin {"cache", NoModel}})
         + Cardinality({i \in TodayRows : traced[i].status = "RUNNING"})
  /\ rptime >= MonthBegins =>
       /\ MonthTotals.calls = SumFunction([d \in 1..BeijingDayOfMonth |-> Daily[d].calls])
       /\ MonthTotals.tokens = SumFunction([d \in 1..BeijingDayOfMonth |-> Daily[d].peak + Daily[d].off])

\* The month's usage is what its traces of real calls add up to, but for those not booked yet and
\* those that began in one month and were booked in the next.
BilledWasCalled ==
  LET spanned == {i \in DOMAIN traced : traced[i].at < MonthBegins /\ traced[i].status # "RUNNING"}
      real    == {i \in MonthRows : traced[i].model \notin {"cache", NoModel}}
  IN /\ usage <= Cardinality(real) + Cardinality(spanned)
     /\ (spanned = {} /\ unbooked = {}) => usage = Cardinality(real)

\* What has ended is shown as ended once half a day has passed, and never before it ended.
DeadlinesInTime ==
  \A l \in Deadlined :
    LET ended == [kind |-> "END", date |-> l.end, bucket |-> "EXPIRED"]
    IN /\ ended \in ShownDeadlines => l.end < rptime
       /\ 2 * (rptime - l.end) > 3 => ended \in ShownDeadlines

\* No secret comes into the records: events are stored without the keys of one, the audit log masks it at any depth.
SecretsAreMasked ==
  /\ \A e \in events : DOMAIN e[3] \cap SensitiveKeys = {}
  /\ \A r \in auditRows : r[1] = "token" => r[2] # "kept"
=============================================================================
