------------------------------ MODULE Evaluation ------------------------------
(***************************************************************************)
(* The two scripts beside the server.  sync-feedback turns what reviewers  *)
(* decided into evaluation cases; run-eval runs the active cases and       *)
(* stores a run with its results.  Both read their rows once and then      *)
(* write row by row, while reviewers go on deciding and the process may    *)
(* be stopped.                                                             *)
(***************************************************************************)
EXTENDS Integers, FiniteSets, Functions

CONSTANTS Findings,    \* risks with a clause: [task, by, code]; code = the rule's, or the category's
          Codes,       \* codes of the enabled rules
          Fires(_),    \* codes the rule engine finds on that task's clause
          Suggests(_), \* codes whose keywords occur in a risk of the agent, best match first
          MinRepeat,   \* --min-repeat
          Baseline,    \* the platform's cases: [group, task, wants]
          WithLlm,     \* a valid DEEPSEEK_API_KEY and no --no-llm
          DecideMax, EvalFaultMax,
          NoCase

VARIABLES verdict,   \* risks.status
          cases,     \* eval_cases of source FEEDBACK: marker -> [wants, active] or NoCase
          syncing,   \* what sync-feedback still has to write: marker -> [wants] or "off"; {} when it does not run
          decided,   \* verdicts given, bound
          evalRun,   \* eval_runs: [status, caseCount, passCount]
          drafts,    \* results computed and not stored yet
          results,   \* eval_results of the run
          evalFaults,
          current    \* history: the feedback cases mirror the verdicts
evalVars == <<verdict, cases, syncing, decided, evalRun, drafts, results, evalFaults, current>>

CaseKeys == {<<"risk", f>> : f \in Findings} \cup {<<"agentgap", c>> : c \in Codes}
\* A finding of a rule switched off since keeps that rule's code.
CaseRows == [wants : SUBSET (Codes \cup {f.code : f \in Findings}), active : BOOLEAN]
\* A group of gaps holds one risk at least, so no smaller threshold differs from 1.
ASSUME EvalAssumption ==
  /\ NoCase \notin CaseRows /\ MinRepeat \in Nat \ {0}
  /\ IsFiniteSet(Findings) /\ IsFiniteSet(Codes) /\ IsFiniteSet(Baseline)
  /\ \A x \in Findings \cup Baseline : IsFiniteSet(Fires(x.task))
  /\ \A b \in Baseline : b.group \in {"RISK_DETECT", "RAG_RECALL", "FAITHFULNESS"} /\ IsFiniteSet(b.wants)
EvalIdle == [status |-> "NONE", caseCount |-> 0, passCount |-> 0]
EvalInit ==
  /\ verdict = [f \in Findings |-> "OPEN"] /\ cases = [k \in CaseKeys |-> NoCase] /\ syncing = {}
  /\ decided = 0 /\ evalRun = EvalIdle /\ drafts = {} /\ results = {} /\ evalFaults = 0 /\ current = TRUE

\* A reviewer's decision; a reopened one is written back too.
Decide(f, status) ==
  /\ decided < DecideMax /\ decided' = decided + 1
  /\ verdict' = [verdict EXCEPT ![f] = status] /\ current' = FALSE
  /\ UNCHANGED <<cases, syncing, evalRun, drafts, results, evalFaults>>

----------------------------------------------------------------------------
(* sync-feedback.                                                          *)

Decided == {f \in Findings : verdict[f] # "OPEN"}
Ignored == {f \in Decided : verdict[f] = "IGNORED"}
SiblingsOf(f) == {g \in Decided \ {f} : g.task = f.task}
\* Codes the reviewer kept on the clause of a risk.
AcceptedCodes(f) == {g.code : g \in {h \in SiblingsOf(f) \ Ignored : h.by # "AGENT"}}

\* Of any rule that exists, the disabled ones too.
FalseAlarms == {f \in Ignored : f.by # "AGENT"}
\* A risk only the agent found speaks for the rule that should have fired on its clause.
GapCode(f) ==
  LET candidates == Suggests(f) \ Fires(f.task)
  IN IF candidates = {} THEN "none" ELSE CHOOSE c \in candidates : TRUE
Gaps(c) == {f \in Decided \ Ignored : f.by = "AGENT" /\ GapCode(f) = c}
\* The group's newest risk gives the case its clause.
Wanted ==
  {[key |-> <<"risk", f>>, wants |-> AcceptedCodes(f) \ {f.code}] : f \in FalseAlarms}
  \cup {[key |-> <<"agentgap", c>>, wants |-> AcceptedCodes(CHOOSE f \in Gaps(c) : TRUE) \cup {c}] :
          c \in {d \in Codes : Cardinality(Gaps(d)) >= MinRepeat}}

\* Creates, updates and, for what no longer holds, switches off.
Repairs ==
  {[key |-> w.key, wants |-> w.wants, on |-> TRUE] :
     w \in {v \in Wanted : IF cases[v.key] = NoCase THEN TRUE
                            ELSE cases[v.key] # [wants |-> v.wants, active |-> TRUE]}}
  \cup {[key |-> k, wants |-> {}, on |-> FALSE] :
          k \in {j \in CaseKeys \ {w.key : w \in Wanted} :
                   IF cases[j] = NoCase THEN FALSE ELSE cases[j].active}}
\* With no decided risk at all the script returns before it compares.
StartSync ==
  /\ syncing = {} /\ Decided # {}
  /\ syncing' = Repairs /\ current' = (Repairs = {})
  /\ UNCHANGED <<verdict, cases, decided, evalRun, drafts, results, evalFaults>>
WriteCase(w) ==
  /\ w \in syncing /\ syncing' = syncing \ {w}
  /\ cases' = [cases EXCEPT ![w.key] =
                 IF w.on THEN [wants |-> w.wants, active |-> TRUE] ELSE [@ EXCEPT !.active = FALSE]]
  /\ UNCHANGED <<verdict, decided, evalRun, drafts, results, evalFaults>>
  /\ current' = (syncing' = {} /\ Repairs' = {})
SyncStops ==
  /\ syncing # {} /\ evalFaults < EvalFaultMax
  /\ syncing' = {} /\ evalFaults' = evalFaults + 1 /\ current' = FALSE
  /\ UNCHANGED <<verdict, cases, decided, evalRun, drafts, results>>

----------------------------------------------------------------------------
(* run-eval.                                                               *)

\* The baseline, and the feedback with --with-feedback.
EvalCases(withFeedback) ==
  {[group |-> b.group, task |-> b.task, wants |-> b.wants, key |-> <<b.group, b.task>>] : b \in Baseline}
  \cup IF withFeedback
        THEN {[group |-> "RISK_DETECT", task |-> k[2].task, wants |-> cases[k].wants, key |-> k] :
                k \in {j \in CaseKeys : IF cases[j] = NoCase \/ j[1] # "risk" THEN FALSE ELSE cases[j].active}}
        ELSE {}
\* runRiskGroup: a case passes when exactly the wanted codes fire.
RiskResult(c) ==
  LET fp == Fires(c.task) \ c.wants
      fn == c.wants \ Fires(c.task)
      tp == c.wants \cap Fires(c.task)
  IN [passed |-> fp = {} /\ fn = {}, tp |-> Cardinality(tp), fp |-> Cardinality(fp), fn |-> Cardinality(fn)]
\* runRagGroup: every wanted document is among those retrieved.
RagResult(c) ==
  LET matched == c.wants \cap Fires(c.task)
  IN [passed |-> matched = c.wants, tp |-> Cardinality(matched), fp |-> 0,
      fn |-> Cardinality(c.wants) - Cardinality(matched)]
\* runFaithGroup: the judge may say either, and a judge that fails says 0.
FaithResults(c) == {[passed |-> b, tp |-> 0, fp |-> 0, fn |-> 0] : b \in BOOLEAN}
GroupResults(c) ==
  CASE c.group = "RISK_DETECT" -> {RiskResult(c)}
    [] c.group = "RAG_RECALL" -> {RagResult(c)}
    [] c.group = "FAITHFULNESS" -> IF WithLlm THEN FaithResults(c) ELSE {}
\* Micro-averaged precision and recall, in per cent, as in the summary.
Total(ds, count) == SumFunction([d \in {e \in ds : e.group = "RISK_DETECT"} |-> d.result[count]])
Precision(ds) ==
  LET tp == Total(ds, "tp") fp == Total(ds, "fp")
  IN IF tp + fp = 0 THEN 0 ELSE (100 * tp) \div (tp + fp)
Recall(ds) ==
  LET tp == Total(ds, "tp") fn == Total(ds, "fn")
  IN IF tp + fn = 0 THEN 0 ELSE (100 * tp) \div (tp + fn)
F1(p, r) == IF p + r = 0 THEN 0 ELSE (2 * p * r) \div (p + r)

\* The row of the run comes first; a group without a case, or without a key, is skipped.
StartEval(withFeedback) ==
  /\ evalRun.status = "NONE" /\ Baseline # {}
  /\ evalRun' = [EvalIdle EXCEPT !.status = "RUNNING"]
  /\ \E judged \in BOOLEAN :
       drafts' = {[case |-> c.key, group |-> c.group, result |-> CHOOSE r \in GroupResults(c) :
                     c.group = "FAITHFULNESS" => r.passed = judged] :
                    c \in {d \in EvalCases(withFeedback) : GroupResults(d) # {}}}
  /\ UNCHANGED <<verdict, cases, syncing, decided, results, evalFaults, current>>
StoreResult(d) ==
  /\ evalRun.status = "RUNNING" /\ d \in drafts \ results
  /\ results' = results \cup {d}
  /\ UNCHANGED <<verdict, cases, syncing, decided, evalRun, drafts, evalFaults, current>>
Passed(ds) == {d \in ds : d.result.passed}
FinishEval ==
  /\ evalRun.status = "RUNNING" /\ drafts = results
  /\ evalRun' = [status |-> "DONE", caseCount |-> Cardinality(drafts), passCount |-> Cardinality(Passed(drafts))]
  /\ UNCHANGED <<verdict, cases, syncing, decided, drafts, results, evalFaults, current>>
\* An exception is written down; a killed process leaves the run RUNNING for ever.
FailEval ==
  /\ evalRun.status = "RUNNING" /\ evalFaults < EvalFaultMax /\ evalFaults' = evalFaults + 1
  /\ evalRun' = [evalRun EXCEPT !.status = "FAILED"]
  /\ UNCHANGED <<verdict, cases, syncing, decided, drafts, results, current>>
AgainEval ==
  /\ evalRun.status \in {"DONE", "FAILED"}
  /\ evalRun' = EvalIdle /\ drafts' = {} /\ results' = {}
  /\ UNCHANGED <<verdict, cases, syncing, decided, evalFaults, current>>

EvalNext ==
  \/ \E f \in Findings, status \in {"OPEN", "IGNORED", "ACCEPTED"} : Decide(f, status)
  \/ StartSync \/ SyncStops \/ \E w \in syncing : WriteCase(w)
  \/ \E withFeedback \in BOOLEAN : StartEval(withFeedback)
  \/ \E d \in drafts : StoreResult(d)
  \/ FinishEval \/ FailEval \/ AgainEval

----------------------------------------------------------------------------
EvalTypeOK ==
  /\ cases \in [CaseKeys -> {NoCase} \cup CaseRows]
  /\ results \subseteq drafts
  /\ evalRun.status \in {"NONE", "RUNNING", "DONE", "FAILED"}

\* After a synchronisation nobody decided against, the active feedback cases are the ones the verdicts
\* ask for, each once, with the codes the reviewers kept on that clause and never the ignored one.
FeedbackMirrorsReview ==
  (current /\ Decided # {}) =>
    \A k \in CaseKeys :
      (IF cases[k] = NoCase THEN FALSE ELSE cases[k].active)
        <=> \E w \in Wanted : w.key = k /\ cases[k].wants = w.wants
\* A run that says DONE has stored a result for each case it counts, and passed those that pass; it shows
\* full marks exactly when no case of the rules failed.
DoneRunIsWhole ==
  evalRun.status = "DONE" =>
    /\ evalRun.caseCount = Cardinality(results)
    /\ evalRun.passCount = Cardinality(Passed(results))
    /\ \A d \in results : d.result.passed => d.result.fn = 0 /\ d.result.fp = 0
    /\ LET p == Precision(results)
           r == Recall(results)
       IN /\ (\A d \in results : d.result.passed) => F1(p, r) \in {0, 100}
          /\ F1(p, r) = 100 => \A d \in results : d.group = "RISK_DETECT" => d.result.passed
=============================================================================
