------------------------------- MODULE Workspace -------------------------------
(***************************************************************************)
(* The parts of the server that keep their state apart from one another:   *)
(* a behaviour is of one part, which its initial state picks; the          *)
(* variables of the others rest.                                           *)
(***************************************************************************)
EXTENDS Ledger, Team, SignIn, RuleEngine, Playbook, Preferences, Onboarding, Revision, Assistant, Documents, RagSessions, Metering, Chat, Gateway, Agent, Notices, Reports, Evaluation, ClauseParser, Library

CONSTANT Resting                  \* what a variable of another part is

VARIABLE part                     \* the part this behaviour is of

vars == <<part, ledgerVars, teamVars, signVars, engineVars, playbookVars, metaVars, sampleVars,
      revisionVars, assistantVars, documentVars, ragVars, meterVars, chatVars, gateVars, agentVars,
      noticeVars, reportVars, evalVars, parserVars, libraryVars>>

(* Where each part rests while the behaviour is of another.                *)
LedgerRests ==
  /\ ledger = Resting /\ filed = Resting /\ lop = Resting /\ ledgerRaced = Resting
TeamRests ==
  /\ member = Resting /\ badge = Resting /\ top = Resting /\ console = Resting /\
      ownersRaced = Resting /\ seatsRaced = Resting
SignInRests ==
  /\ code = Resting /\ cooldown = Resting /\ attempts = Resting /\ account = Resting /\
      sends = Resting /\ sending = Resting /\ sop = Resting /\ guesses = Resting /\
      passes = Resting /\ codeRaced = Resting
RuleEngineRests ==
  /\ general = Resting /\ custom = Resting /\ trial = Resting
PlaybookRests ==
  /\ book = Resting /\ found = Resting /\ rop = Resting /\ edits = Resting /\ scan = Resting /\
      packRaced = Resting
PreferencesRests ==
  /\ meta = Resting /\ paid = Resting /\ everPaid = Resting /\ metaOp = Resting
OnboardingRests ==
  /\ keeps = Resting /\ samples = Resting /\ sampleMarked = Resting /\ sampleOp = Resting /\
      sampleFaults = Resting /\ sampleRaced = Resting
RevisionRests ==
  /\ rev = Resting /\ kept = Resting /\ deepAccess = Resting /\ texts = Resting /\
      facts = Resting /\ revOp = Resting /\ revRaced = Resting
AssistantRests ==
  /\ asked = Resting /\ askKeyed = Resting /\ askOp = Resting /\ answered = Resting /\
      questions = Resting
DocumentsRests ==
  /\ docs = Resting /\ files = Resting /\ docOp = Resting /\ docFaults = Resting /\
      docRaced = Resting /\ hits = Resting
RagSessionsRests ==
  /\ talk = Resting /\ ragOp = Resting /\ ragAsked = Resting /\ ragRaced = Resting
MeteringRests ==
  /\ quotaUsage = Resting /\ traces = Resting /\ meterOp = Resting /\ peak = Resting /\
      meterFaults = Resting /\ peakTurned = Resting
ChatRests ==
  /\ chats = Resting /\ chatOp = Resting /\ chatFaults = Resting /\ chatRaced = Resting /\
      l1 = Resting /\ l2 = Resting /\ cacheNow = Resting
GatewayRests ==
  /\ bucket = Resting /\ local = Resting /\ gateNow = Resting /\ granted = Resting /\
      forgotten = Resting /\ upload = Resting
AgentRests ==
  /\ agent = Resting /\ agentSent = Resting
NoticesRests ==
  /\ noticeNow = Resting /\ cleaned = Resting /\ reviewsUsed = Resting /\ webhook = Resting /\
      marked = Resting /\ alertOp = Resting /\ delivered = Resting /\ missed = Resting /\
      monthTurned = Resting /\ digest = Resting /\ usedUp = Resting /\ gap = Resting
ReportsRests ==
  /\ rptime = Resting /\ events = Resting /\ rateHits = Resting /\ accepted = Resting /\
      traced = Resting /\ usage = Resting /\ unbooked = Resting /\ todoRows = Resting /\
      auditRows = Resting
EvaluationRests ==
  /\ verdict = Resting /\ cases = Resting /\ syncing = Resting /\ decided = Resting /\
      evalRun = Resting /\ drafts = Resting /\ results = Resting /\ evalFaults = Resting /\
      current = Resting
ClauseParserRests ==
  /\ pasted = Resting /\ parsed = Resting
LibraryRests ==
  /\ libPlan = Resting /\ libStatus = Resting /\ libTasks = Resting /\ reportOf = Resting /\
      seeded = Resting /\ adopted = Resting /\ served = Resting
Init ==
  /\ part \in {"ledger", "team", "signIn", "engine", "playbook", "meta", "sample", "revision", "assistant", "documents", "rag", "meter", "chat", "gateway", "agent", "notices", "reports", "evaluation", "parser", "library"}
  /\ IF part = "ledger" THEN LedgerInit ELSE LedgerRests
  /\ IF part = "team" THEN TeamInit ELSE TeamRests
  /\ IF part = "signIn" THEN SignInit ELSE SignInRests
  /\ IF part = "engine" THEN EngineInit ELSE RuleEngineRests
  /\ IF part = "playbook" THEN PlaybookInit ELSE PlaybookRests
  /\ IF part = "meta" THEN MetaInit ELSE PreferencesRests
  /\ IF part = "sample" THEN SampleInit ELSE OnboardingRests
  /\ IF part = "revision" THEN RevisionInit ELSE RevisionRests
  /\ IF part = "assistant" THEN AssistantInit ELSE AssistantRests
  /\ IF part = "documents" THEN DocumentInit ELSE DocumentsRests
  /\ IF part = "rag" THEN RagInit ELSE RagSessionsRests
  /\ IF part = "meter" THEN MeterInit ELSE MeteringRests
  /\ IF part = "chat" THEN ChatInit ELSE ChatRests
  /\ IF part = "gateway" THEN GateInit ELSE GatewayRests
  /\ IF part = "agent" THEN AgentInit ELSE AgentRests
  /\ IF part = "notices" THEN NoticeInit ELSE NoticesRests
  /\ IF part = "reports" THEN ReportInit ELSE ReportsRests
  /\ IF part = "evaluation" THEN EvalInit ELSE EvaluationRests
  /\ IF part = "parser" THEN ParserInit ELSE ClauseParserRests
  /\ IF part = "library" THEN LibraryInit ELSE LibraryRests
LedgerGoes ==
  /\ part = "ledger" /\ LedgerNext
  /\ UNCHANGED <<part, teamVars, signVars, engineVars, playbookVars, metaVars, sampleVars,
      revisionVars, assistantVars, documentVars, ragVars, meterVars, chatVars, gateVars, agentVars,
      noticeVars, reportVars, evalVars, parserVars, libraryVars>>
TeamGoes ==
  /\ part = "team" /\ TeamNext
  /\ UNCHANGED <<part, ledgerVars, signVars, engineVars, playbookVars, metaVars, sampleVars,
      revisionVars, assistantVars, documentVars, ragVars, meterVars, chatVars, gateVars, agentVars,
      noticeVars, reportVars, evalVars, parserVars, libraryVars>>
SignInGoes ==
  /\ part = "signIn" /\ SignNext
  /\ UNCHANGED <<part, ledgerVars, teamVars, engineVars, playbookVars, metaVars, sampleVars,
      revisionVars, assistantVars, documentVars, ragVars, meterVars, chatVars, gateVars, agentVars,
      noticeVars, reportVars, evalVars, parserVars, libraryVars>>
RuleEngineGoes ==
  /\ part = "engine" /\ EngineNext
  /\ UNCHANGED <<part, ledgerVars, teamVars, signVars, playbookVars, metaVars, sampleVars,
      revisionVars, assistantVars, documentVars, ragVars, meterVars, chatVars, gateVars, agentVars,
      noticeVars, reportVars, evalVars, parserVars, libraryVars>>
PlaybookGoes ==
  /\ part = "playbook" /\ PlaybookNext
  /\ UNCHANGED <<part, ledgerVars, teamVars, signVars, engineVars, metaVars, sampleVars,
      revisionVars, assistantVars, documentVars, ragVars, meterVars, chatVars, gateVars, agentVars,
      noticeVars, reportVars, evalVars, parserVars, libraryVars>>
PreferencesGoes ==
  /\ part = "meta" /\ MetaNext
  /\ UNCHANGED <<part, ledgerVars, teamVars, signVars, engineVars, playbookVars, sampleVars,
      revisionVars, assistantVars, documentVars, ragVars, meterVars, chatVars, gateVars, agentVars,
      noticeVars, reportVars, evalVars, parserVars, libraryVars>>
OnboardingGoes ==
  /\ part = "sample" /\ SampleNext
  /\ UNCHANGED <<part, ledgerVars, teamVars, signVars, engineVars, playbookVars, metaVars,
      revisionVars, assistantVars, documentVars, ragVars, meterVars, chatVars, gateVars, agentVars,
      noticeVars, reportVars, evalVars, parserVars, libraryVars>>
RevisionGoes ==
  /\ part = "revision" /\ RevisionNext
  /\ UNCHANGED <<part, ledgerVars, teamVars, signVars, engineVars, playbookVars, metaVars,
      sampleVars, assistantVars, documentVars, ragVars, meterVars, chatVars, gateVars, agentVars,
      noticeVars, reportVars, evalVars, parserVars, libraryVars>>
AssistantGoes ==
  /\ part = "assistant" /\ AssistantNext
  /\ UNCHANGED <<part, ledgerVars, teamVars, signVars, engineVars, playbookVars, metaVars,
      sampleVars, revisionVars, documentVars, ragVars, meterVars, chatVars, gateVars, agentVars,
      noticeVars, reportVars, evalVars, parserVars, libraryVars>>
DocumentsGoes ==
  /\ part = "documents" /\ DocumentNext
  /\ UNCHANGED <<part, ledgerVars, teamVars, signVars, engineVars, playbookVars, metaVars,
      sampleVars, revisionVars, assistantVars, ragVars, meterVars, chatVars, gateVars, agentVars,
      noticeVars, reportVars, evalVars, parserVars, libraryVars>>
RagSessionsGoes ==
  /\ part = "rag" /\ RagNext
  /\ UNCHANGED <<part, ledgerVars, teamVars, signVars, engineVars, playbookVars, metaVars,
      sampleVars, revisionVars, assistantVars, documentVars, meterVars, chatVars, gateVars,
      agentVars, noticeVars, reportVars, evalVars, parserVars, libraryVars>>
MeteringGoes ==
  /\ part = "meter" /\ MeterNext
  /\ UNCHANGED <<part, ledgerVars, teamVars, signVars, engineVars, playbookVars, metaVars,
      sampleVars, revisionVars, assistantVars, documentVars, ragVars, chatVars, gateVars,
      agentVars, noticeVars, reportVars, evalVars, parserVars, libraryVars>>
ChatGoes ==
  /\ part = "chat" /\ ChatNext
  /\ UNCHANGED <<part, ledgerVars, teamVars, signVars, engineVars, playbookVars, metaVars,
      sampleVars, revisionVars, assistantVars, documentVars, ragVars, meterVars, gateVars,
      agentVars, noticeVars, reportVars, evalVars, parserVars, libraryVars>>
GatewayGoes ==
  /\ part = "gateway" /\ GateNext
  /\ UNCHANGED <<part, ledgerVars, teamVars, signVars, engineVars, playbookVars, metaVars,
      sampleVars, revisionVars, assistantVars, documentVars, ragVars, meterVars, chatVars,
      agentVars, noticeVars, reportVars, evalVars, parserVars, libraryVars>>
AgentGoes ==
  /\ part = "agent" /\ AgentNext
  /\ UNCHANGED <<part, ledgerVars, teamVars, signVars, engineVars, playbookVars, metaVars,
      sampleVars, revisionVars, assistantVars, documentVars, ragVars, meterVars, chatVars,
      gateVars, noticeVars, reportVars, evalVars, parserVars, libraryVars>>
NoticesGoes ==
  /\ part = "notices" /\ NoticeNext
  /\ UNCHANGED <<part, ledgerVars, teamVars, signVars, engineVars, playbookVars, metaVars,
      sampleVars, revisionVars, assistantVars, documentVars, ragVars, meterVars, chatVars,
      gateVars, agentVars, reportVars, evalVars, parserVars, libraryVars>>
ReportsGoes ==
  /\ part = "reports" /\ ReportNext
  /\ UNCHANGED <<part, ledgerVars, teamVars, signVars, engineVars, playbookVars, metaVars,
      sampleVars, revisionVars, assistantVars, documentVars, ragVars, meterVars, chatVars,
      gateVars, agentVars, noticeVars, evalVars, parserVars, libraryVars>>
EvaluationGoes ==
  /\ part = "evaluation" /\ EvalNext
  /\ UNCHANGED <<part, ledgerVars, teamVars, signVars, engineVars, playbookVars, metaVars,
      sampleVars, revisionVars, assistantVars, documentVars, ragVars, meterVars, chatVars,
      gateVars, agentVars, noticeVars, reportVars, parserVars, libraryVars>>
ClauseParserGoes ==
  /\ part = "parser" /\ ParserNext
  /\ UNCHANGED <<part, ledgerVars, teamVars, signVars, engineVars, playbookVars, metaVars,
      sampleVars, revisionVars, assistantVars, documentVars, ragVars, meterVars, chatVars,
      gateVars, agentVars, noticeVars, reportVars, evalVars, libraryVars>>
LibraryGoes ==
  /\ part = "library" /\ LibraryNext
  /\ UNCHANGED <<part, ledgerVars, teamVars, signVars, engineVars, playbookVars, metaVars,
      sampleVars, revisionVars, assistantVars, documentVars, ragVars, meterVars, chatVars,
      gateVars, agentVars, noticeVars, reportVars, evalVars, parserVars>>
Next ==
  \/ LedgerGoes \/ TeamGoes \/ SignInGoes \/ RuleEngineGoes \/ PlaybookGoes \/ PreferencesGoes \/
      OnboardingGoes \/ RevisionGoes \/ AssistantGoes \/ DocumentsGoes \/ RagSessionsGoes \/
      MeteringGoes \/ ChatGoes \/ GatewayGoes \/ AgentGoes \/ NoticesGoes \/ ReportsGoes \/
      EvaluationGoes \/ ClauseParserGoes \/ LibraryGoes
Spec == Init /\ [][Next]_vars
----------------------------------------------------------------------------
(* Of one part: what only its behaviours are asked.                        *)

\* The type invariants of the parts.
WorkspaceTypeOK ==
  /\ part = "ledger" => LedgerTypeOK
  /\ part = "team" => TeamTypeOK
  /\ part = "signIn" => SignTypeOK
  /\ part = "engine" => EngineTypeOK
  /\ part = "playbook" => PlaybookTypeOK
  /\ part = "meta" => MetaTypeOK
  /\ part = "sample" => SampleTypeOK
  /\ part = "revision" => RevisionTypeOK
  /\ part = "assistant" => AssistantTypeOK
  /\ part = "documents" => DocumentTypeOK
  /\ part = "rag" => RagTypeOK
  /\ part = "meter" => MeterTypeOK
  /\ part = "chat" => ChatTypeOK
  /\ part = "gateway" => GateTypeOK
  /\ part = "agent" => AgentTypeOK
  /\ part = "notices" => NoticeTypeOK
  /\ part = "reports" => ReportTypeOK
  /\ part = "evaluation" => EvalTypeOK
  /\ part = "library" => LibraryTypeOK

\* Every limit the server counts before it acts holds, however requests interleave, unless two of them passed its count
\* together: ledger entries, seats and the last owner of a team, guesses and passes of a mailed code, one rule per title
\* of the seed pack, one sample contract, free questions, the clause library, the rate of requests.
LimitsUnlessRaced ==
  /\ part = "ledger" => EntriesUnlessRaced
  /\ part = "team" => SeatsUnlessRaced /\ OwnerUnlessRaced
  /\ part = "signIn" => CodesUnlessRaced
  /\ part = "playbook" => PackOnceUnlessRaced
  /\ part = "sample" => OneSampleUnlessRaced
  /\ part = "assistant" => FreeAsksWithinLimit
  /\ part = "meta" => LibraryWithinLimit
  /\ part = "gateway" => RateIsKept

\* What is written in two places agrees: dates and successors of the ledger with its figures, rule hits with findings,
\* the costs of a trace with those of its spans, the sample's marker with its job, documents with their chunks,
\* revisions with their texts, deadlines with the days left and bills with the calls, feedback cases with the decisions
\* on risks, the places of the list with the reviews, a trial of a rule with the review it foretells; a notice goes out
\* once where a key guards it, and nothing that is due is left out of the day's digest.
RecordsAgree ==
  /\ part = "ledger" => DatesOrdered /\ PredecessorIsClosed /\ FiguresMatchLists
  /\ part = "playbook" => HitsAreCounted
  /\ part = "meter" => CostsAgreeUnlessMixed
  /\ part = "sample" => MarkedHasJob
  /\ part = "documents" => DocumentsWholeUnlessBroken
  /\ part = "revision" => AcceptedHasText
  /\ part = "notices" => AlertedOnce /\ NothingDueIsMissed
  /\ part = "reports" => BilledWasCalled /\ DeadlinesInTime
  /\ part = "evaluation" => FeedbackMirrorsReview
  /\ part = "library" => ListsArePartition
  /\ part = "engine" => TrialMatchesReview

\* What is added up, sorted or cut from the rows is true to them: the month's tokens and cost to the traces, charts to
\* what happened, the counts and scores of an evaluation run to its results, clauses to the text they were cut from,
\* the figures and the order of an exported opinion to its risks.
FiguresAgree ==
  /\ part = "meter" => MonthMatchesTraces
  /\ part = "reports" => ReportsAgree
  /\ part = "evaluation" => DoneRunIsWhole
  /\ part = "parser" => NothingCutOut
  /\ part = "library" => ServedAsPaid

\* No tenant sees what is another's: neither among the passages retrieved for a question nor in an answer from the cache;
\* and no secret a client sends comes into the records.
TenantsApart ==
  /\ part = "documents" => RetrievalInScope
  /\ part = "chat" => CachedAnswersFit
  /\ part = "reports" => SecretsAreMasked

\* A conversation keeps what was said in it: the history of questions to the knowledge base, the messages of a chat and
\* their answers, the newest of them in the prompt; and every tool a run of the agent shows as called has its result,
\* threw or is under way, none when it is done.
ConversationsHold ==
  /\ part = "rag" => HistoryUnlessRaced
  /\ part = "chat" => ChatsAnsweredUnlessRaced /\ PromptIsRecent
  /\ part = "agent" => RunIsAccounted

\* A step never replaces a text of a revision or the facts of a contract but where the user asked for it or two requests
\* raced, and never gives an account another role or space.
NothingRewritten ==
  [][/\ part = "revision" => RewritesAreAsked
     /\ part = "signIn" => AccountIsStable]_vars
===============================================================================
