----------------------------- MODULE Conversations -----------------------------
(***************************************************************************)
(* The three conversations a browser holds: tasks of the agent, questions  *)
(* to the knowledge base, both streamed into a store, and the assistant of *)
(* a contract's result page, which answers in one piece.  What a stream    *)
(* brings is shown while it comes; a connection may end without a word.    *)
(***************************************************************************)
EXTENDS Integers, Sequences, FiniteSets

CONSTANTS Tools,      \* tools of the agent
          CallsPerRun,\* calls of tools in one task
          TalksMax,   \* tasks, questions to the knowledge base, questions about contracts
          Papers,     \* contracts
          Pending     \* no page, no result yet

VARIABLES tasks,      \* tasks of the store, by number: [status, steps, answered]
          running,    \* its flag
          run,        \* the stream under way: [task, calls: call -> [tool, state], state: none, open, answered, over]
          sameTool,   \* two calls of one tool were open at once
          thrown,     \* <<task, call>>: calls whose tool threw, of which no stream tells
          bubbles,    \* answers of the knowledge base's store, by number: [streaming, content]
          querying,   \* its flag
          answer,     \* the stream under way: none, open, silent, over; and which bubble it fills
          silent,     \* conversations whose connection ended without a word
          paper,      \* the result page open
          messages,   \* of that page: [of, by], by human or ai
          asked,      \* its question under way: [of, history], Pending if none
          locked,     \* no question is left
          born,       \* numbers given out: [tasks, bubbles]; none is used again
          crossed     \* a notice led from one result page to another
talkVars == <<tasks, running, run, sameTool, thrown, bubbles, querying, answer, silent, paper, messages, asked, locked, born, crossed>>

\* A list by number without an entry, and one with another entry.
EmptyList == [n \in {} |-> 0]
WithEntry(list, n, entry) == [i \in DOMAIN list \cup {n} |-> IF i = n THEN entry ELSE list[i]]
NoRun == [task |-> 0, calls |-> <<>>, state |-> "none"]
NoAnswer == [bubble |-> 0, state |-> "none"]
TalkInit ==
  /\ tasks = EmptyList /\ running = FALSE /\ run = NoRun /\ sameTool = FALSE /\ thrown = {}
  /\ bubbles = EmptyList /\ querying = FALSE /\ answer = NoAnswer /\ silent = {}
  /\ paper = Pending /\ messages = <<>> /\ asked = Pending /\ locked = FALSE /\ crossed = FALSE
  /\ born = [tasks |-> 0, bubbles |-> 0]

OthersThanAgent == UNCHANGED <<born, bubbles, querying, answer, paper, messages, asked, locked, crossed>>
OthersThanBase == UNCHANGED <<born, tasks, running, run, sameTool, thrown, paper, messages, asked, locked, crossed>>
OthersThanAssistant == UNCHANGED <<born, tasks, running, run, sameTool, thrown, bubbles, querying, answer, silent>>

----------------------------------------------------------------------------
(* The agent.                                                              *)

\* patchTask: a task that was cleared away takes no more.
PatchTask(t, patch) == IF t \in DOMAIN tasks THEN [tasks EXCEPT ![t] = patch] ELSE tasks
TaskOf == IF run.task \in DOMAIN tasks THEN tasks[run.task] ELSE [status |-> "cleared", steps |-> <<>>, answered |-> FALSE]

RunTask ==
  /\ ~running /\ born.tasks < TalksMax
  /\ running' = TRUE /\ born' = [born EXCEPT !.tasks = @ + 1]
  /\ tasks' = WithEntry(tasks, born.tasks + 1, [status |-> "running", steps |-> <<>>, answered |-> FALSE])
  /\ run' = [task |-> born.tasks + 1, calls |-> <<>>, state |-> "open"]
  /\ UNCHANGED <<sameTool, thrown, silent, bubbles, querying, answer, paper, messages, asked, locked, crossed>>
\* The model may call several tools at once: a second call starts before the first has its result.
OpenCalls == {i \in DOMAIN run.calls : run.calls[i].state = "open"}
ToolCall(tool) ==
  /\ run.state = "open" /\ Len(run.calls) < CallsPerRun
  /\ run' = [run EXCEPT !.calls = Append(@, [tool |-> tool, state |-> "open"])]
  /\ tasks' = PatchTask(run.task, [TaskOf EXCEPT !.steps = Append(@, [tool |-> tool, status |-> "running", result |-> Pending])])
  /\ sameTool' = (sameTool \/ \E i \in OpenCalls : run.calls[i].tool = tool)
  /\ OthersThanAgent /\ UNCHANGED <<running, thrown, silent>>
\* A result names its tool: it goes to the last step of it that is running.
StepsOfTool(steps, tool) == {i \in DOMAIN steps : steps[i].tool = tool}
FirstOfTool(steps, tool) == {i \in StepsOfTool(steps, tool) : \A j \in StepsOfTool(steps, tool) : i <= j}
RunningStep(steps, tool) ==
  LET open == {i \in StepsOfTool(steps, tool) : steps[i].status = "running"} IN {i \in open : \A j \in open : j <= i}
WithResult(steps, tool, call) ==
  [i \in DOMAIN steps |-> IF i \in RunningStep(steps, tool) THEN [steps[i] EXCEPT !.status = "done", !.result = call] ELSE steps[i]]
ToolResult(call) ==
  /\ run.state = "open" /\ call \in OpenCalls
  /\ run' = [run EXCEPT !.calls[call].state = "answered"]
  /\ tasks' = PatchTask(run.task, [TaskOf EXCEPT !.steps = WithResult(@, run.calls[call].tool, call)])
  /\ OthersThanAgent /\ UNCHANGED <<running, sameTool, thrown, silent>>
\* A tool that throws is answered for by a message to the model: the run goes on, and the page hears nothing.
ToolThrows(call) ==
  /\ run.state = "open" /\ call \in OpenCalls
  /\ run' = [run EXCEPT !.calls[call].state = "threw"]
  /\ thrown' = thrown \cup {<<run.task, call>>}
  /\ OthersThanAgent /\ UNCHANGED <<tasks, running, sameTool, silent>>
AgentTalks ==
  /\ run.state = "open" /\ run.task \in DOMAIN tasks /\ ~TaskOf.answered
  /\ tasks' = PatchTask(run.task, [TaskOf EXCEPT !.answered = TRUE])
  /\ OthersThanAgent /\ UNCHANGED <<running, run, sameTool, thrown, silent>>
\* done: every call was answered or threw before the model spoke last.
StatusAfter(how) == IF how = "silent" THEN "running" ELSE how
AgentDone ==
  /\ run.state = "open" /\ OpenCalls = {}
  /\ tasks' = PatchTask(run.task, [TaskOf EXCEPT !.status = StatusAfter("done")])
  /\ run' = [run EXCEPT !.state = "answered"]
  /\ OthersThanAgent /\ UNCHANGED <<running, sameTool, thrown, silent>>
\* error, a refused request and a lost connection alike, after done too; or the connection is closed without a word.
AgentEnds(how) ==
  /\ run.state = "open" \/ (run.state = "answered" /\ how = "error")
  /\ tasks' = PatchTask(run.task, [TaskOf EXCEPT !.status = StatusAfter(how), !.answered = @ \/ how = "error"])
  /\ run' = [run EXCEPT !.state = "over"]
  /\ silent' = IF how = "silent" THEN silent \cup {"agent"} ELSE silent
  /\ OthersThanAgent /\ UNCHANGED <<running, sameTool, thrown>>
RunReturns ==
  /\ run.state \in {"answered", "over"} /\ run' = NoRun /\ running' = FALSE
  /\ OthersThanAgent /\ UNCHANGED <<tasks, sameTool, thrown, silent>>
\* The list may be cleared while a task runs, which then goes on unseen.
ClearTasks ==
  /\ DOMAIN tasks # {} /\ tasks' = EmptyList
  /\ OthersThanAgent /\ UNCHANGED <<running, run, sameTool, thrown, silent>>
\* What a step's card says.
StepCard(step) == [tool |-> step.tool, spins |-> step.status = "running", shows |-> step.result]
TaskBlock(task) ==
  [thinks |-> task.status = "running" /\ task.steps = <<>>, cards |-> [i \in DOMAIN task.steps |-> StepCard(task.steps[i])],
   failed |-> task.status = "error"]

----------------------------------------------------------------------------
(* The knowledge base.                                                     *)
Query ==
  /\ ~querying /\ born.bubbles < TalksMax
  /\ querying' = TRUE /\ born' = [born EXCEPT !.bubbles = @ + 1]
  /\ bubbles' = WithEntry(bubbles, born.bubbles + 1, [streaming |-> TRUE, content |-> FALSE])
  /\ answer' = [bubble |-> born.bubbles + 1, state |-> "open"]
  /\ UNCHANGED <<silent, tasks, running, run, sameTool, thrown, paper, messages, asked, locked, crossed>>
QueryTalks ==
  /\ answer.state = "open" /\ answer.bubble \in DOMAIN bubbles /\ ~bubbles[answer.bubble].content
  /\ bubbles' = [bubbles EXCEPT ![answer.bubble].content = TRUE]
  /\ OthersThanBase /\ UNCHANGED <<querying, answer, silent>>
QueryEnds(how) ==
  /\ answer.state = "open"
  /\ bubbles' = IF answer.bubble \in DOMAIN bubbles
                  THEN [bubbles EXCEPT ![answer.bubble] = [streaming |-> StatusAfter(how) = "running", content |-> @.content \/ how = "error"]]
                  ELSE bubbles
  /\ answer' = [answer EXCEPT !.state = "over"]
  /\ silent' = IF how = "silent" THEN silent \cup {"base"} ELSE silent
  /\ OthersThanBase /\ UNCHANGED querying
QueryReturns ==
  /\ answer.state = "over" /\ answer' = NoAnswer /\ querying' = FALSE
  /\ OthersThanBase /\ UNCHANGED <<bubbles, silent>>
\* A bubble spins until its first token, and ends in a blinking cursor until its last.
Spins(bubble) == bubble.streaming
ClearMessages ==
  /\ DOMAIN bubbles # {} /\ bubbles' = EmptyList
  /\ OthersThanBase /\ UNCHANGED <<querying, answer, silent>>

----------------------------------------------------------------------------
(* The assistant of a result page.                                         *)
OpenPaper(c) ==
  /\ paper = Pending /\ paper' = c /\ messages' = <<>> /\ locked' = FALSE /\ asked' = Pending /\ crossed' = FALSE
  /\ OthersThanAssistant
LeavePaper ==
  /\ paper # Pending /\ paper' = Pending /\ messages' = <<>> /\ locked' = FALSE /\ asked' = Pending /\ crossed' = FALSE
  /\ OthersThanAssistant
\* A notice leads to another contract's result: the page stays, and with it what was said.
FollowsNotice(c) ==
  /\ paper \notin {Pending, c} /\ paper' = c /\ crossed' = (crossed \/ messages # <<>> \/ locked)
  /\ OthersThanAssistant /\ UNCHANGED <<messages, asked, locked>>
\* The field is open unless it is locked or waits for an answer.
FieldOpen == ~locked /\ asked = Pending
\* sendQuestion keeps the history it began with.
SendQuestion ==
  /\ paper # Pending /\ FieldOpen /\ Len(messages) < 2 * TalksMax
  /\ messages' = Append(messages, [of |-> paper, by |-> "human"])
  /\ asked' = [of |-> paper, history |-> messages']
  /\ OthersThanAssistant /\ UNCHANGED <<paper, locked, crossed>>
AskAnswered(how) ==
  /\ asked # Pending /\ asked' = Pending
  /\ messages' = IF how = "answer" THEN Append(asked.history, [of |-> asked.of, by |-> "ai"]) ELSE messages
  /\ locked' = (locked \/ how = "locked")
  /\ OthersThanAssistant /\ UNCHANGED <<paper, crossed>>

\* The three share nothing: each may be looked at alone.
TaskNext ==
  \/ RunTask \/ AgentTalks \/ AgentDone \/ RunReturns \/ ClearTasks
  \/ \E tool \in Tools : ToolCall(tool)
  \/ \E call \in DOMAIN run.calls : ToolResult(call) \/ ToolThrows(call)
  \/ \E how \in {"error", "silent"} : AgentEnds(how)
QueryNext ==
  \/ Query \/ QueryTalks \/ QueryReturns \/ ClearMessages
  \/ \E how \in {"done", "error", "silent"} : QueryEnds(how)
PaperNext ==
  \/ \E c \in Papers : OpenPaper(c) \/ FollowsNotice(c)
  \/ LeavePaper \/ SendQuestion
  \/ \E how \in {"answer", "locked", "failure"} : AskAnswered(how)

----------------------------------------------------------------------------
TalkTypeOK ==
  /\ \A t \in DOMAIN tasks : tasks[t].status \in {"running", "done", "error"}
  /\ run.state \in {"none", "open", "answered", "over"} /\ answer.state \in {"none", "open", "over"} /\ silent \subseteq {"agent", "base"}
  /\ asked # Pending => asked.of \in Papers

\* A card shows the result of its own call, although a result names only its tool, unless the model had two calls of
\* one tool open at once; and of a task that is done as many cards of a tool still spin as calls of it threw, those
\* calls' own cards unless two were open at once.
Spinning(cards, tool) == {i \in DOMAIN cards : cards[i].tool = tool /\ cards[i].spins}
Threw(t, cards, tool) == {i \in DOMAIN cards : cards[i].tool = tool /\ <<t, i>> \in thrown}
ResultsAtTheirSteps ==
  \A t \in DOMAIN tasks :
    LET cards == TaskBlock(tasks[t]).cards
    IN /\ \A i \in DOMAIN cards : cards[i].shows # Pending => cards[i].shows = i \/ sameTool
       /\ tasks[t].status = "done" =>
            \A tool \in Tools : /\ Cardinality(Spinning(cards, tool)) = Cardinality(Threw(t, cards, tool))
                                /\ sameTool \/ Spinning(cards, tool) = Threw(t, cards, tool)
\* When no stream is under way, nothing on the screen says it is still coming, unless a connection ended in silence.
NothingSpinsForEver ==
  /\ ~running /\ "agent" \notin silent => \A t \in DOMAIN tasks : tasks[t].status # "running"
  /\ ~querying /\ "base" \notin silent => \A b \in DOMAIN bubbles : ~Spins(bubbles[b])
\* Everything said on a contract's page is about that contract, and is locked by its own questions, unless a notice
\* led there from another contract's page.
SaidOfThisPaper ==
  crossed \/ (\A i \in DOMAIN messages : messages[i].of = paper)
===============================================================================
