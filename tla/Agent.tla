-------------------------------- MODULE Agent --------------------------------
(***************************************************************************)
(* One run of the task agent (server/src/services/agent/agent.ts, tools.ts *)
(* and agent/agent.controller.ts): the model and its tools take turns      *)
(* until it calls none or has been asked MaxSteps times; what is sent to   *)
(* the browser on the way.  The tools one message calls run side by side.  *)
(***************************************************************************)
EXTENDS Integers, Sequences, FiniteSets

CONSTANTS
  MaxSteps,       \* 8
  CallsPerTurn,   \* bound on the tools one message calls
  SearchKeys      \* the values of "a key for web search is configured"

ASSUME AgentAssumption ==
  MaxSteps \in Nat \ {0} /\ CallsPerTurn \in Nat /\ SearchKeys \subseteq BOOLEAN

VARIABLES
  agent,          \* place, steps, the last message's calls; threw: calls whose tool threw
  agentSent       \* how many events of each type were sent

agentVars == <<agent, agentSent>>

AgentEvents == {"start", "tool_call", "tool_result", "token", "done", "error"}

(* buildTools: a tool without its key is not offered; the model may name   *)
(* it all the same.                                                        *)
ToolNames == {"read_doc", "legal_search", "calculate", "get_date", "web_search"}
AgentTools(key) == IF key THEN ToolNames ELSE ToolNames \ {"web_search"}

(* Some answer in words whatever fails; two ask the streaming model for    *)
(* other wordings of the question first, inside the run.                   *)
MayThrow == {"legal_search", "get_date", "web_search"}
Rewords == {"read_doc", "legal_search"}

AgentInit ==
  /\ \E key \in SearchKeys : agent = [pc |-> "new", key |-> key, steps |-> 0, calls |-> <<>>, threw |-> 0]
  /\ agentSent = [type \in AgentEvents |-> 0]

AgentSend(types) == agentSent' = [type \in AgentEvents |-> IF type \in types THEN agentSent[type] + 1 ELSE agentSent[type]]
Spoken(told) == IF told THEN {"token"} ELSE {}

(* The task is checked, then the quota, inside the trace.                  *)
RunAgent ==
  /\ agent.pc = "new"
  /\ \/ agent' = [agent EXCEPT !.pc = "agent"] /\ AgentSend({"start"})
     \/ agent' = [agent EXCEPT !.pc = "closed"] /\ AgentSend({"error"})
     \/ agent' = [agent EXCEPT !.pc = "closed"] /\ UNCHANGED agentSent

(* agentNode: a message with words, with calls, with both or neither.      *)
(* shouldContinue looks at the steps first: calls of the last are dropped. *)
ShouldContinue(steps, n) == steps < MaxSteps /\ n > 0

AgentNode ==
  /\ agent.pc = "agent"
  /\ \E n \in 0 .. CallsPerTurn, told \in BOOLEAN : \E tools \in [1 .. n -> ToolNames] :
       /\ agent' = [agent EXCEPT !.steps = @ + 1,
                                 !.calls = [i \in 1 .. n |-> [tool |-> tools[i], state |-> "waiting"]],
                                 !.pc = IF ShouldContinue(agent.steps + 1, n) THEN "tools" ELSE "end"]
       /\ AgentSend(Spoken(told))

(* ToolNode: a call of an unknown tool or with arguments that do not parse *)
(* is answered to the model before on_tool_start.                          *)
CallIs(i, state) == agent.pc = "tools" /\ i \in DOMAIN agent.calls /\ agent.calls[i].state = state

RefuseCall(i) ==
  /\ CallIs(i, "waiting")
  /\ agent' = [agent EXCEPT !.calls[i].state = "settled"]
  /\ UNCHANGED agentSent

(* The number of tool_call events is stepCount.                            *)
StartTool(i) ==
  /\ CallIs(i, "waiting") /\ agent.calls[i].tool \in AgentTools(agent.key)
  /\ agent' = [agent EXCEPT !.calls[i].state = "started"]
  /\ AgentSend({"tool_call"})

ToolAnswers(i) ==
  /\ CallIs(i, "started")
  /\ agent' = [agent EXCEPT !.calls[i].state = "settled"]
  /\ \E told \in BOOLEAN :
       /\ told => agent.calls[i].tool \in Rewords
       /\ AgentSend({"tool_result"} \cup Spoken(told))

(* ToolNode turns what a tool throws into a message: no event is sent.     *)
ToolThrows(i) ==
  /\ CallIs(i, "started") /\ agent.calls[i].tool \in MayThrow
  /\ agent' = [agent EXCEPT !.calls[i].state = "settled", !.threw = @ + 1]
  /\ \E told \in BOOLEAN : (told => agent.calls[i].tool \in Rewords) /\ AgentSend(Spoken(told))

(* All calls of the message are awaited.                                   *)
ToolsReturn ==
  /\ agent.pc = "tools" /\ \A i \in DOMAIN agent.calls : agent.calls[i].state = "settled"
  /\ agent' = [agent EXCEPT !.pc = "agent", !.calls = <<>>]
  /\ UNCHANGED agentSent

(* The call of the model fails, before or in the middle of its words.      *)
AgentFails ==
  /\ agent.pc = "agent" /\ agent' = [agent EXCEPT !.pc = "closed"]
  /\ \E told \in BOOLEAN : AgentSend({"error"} \cup Spoken(told))

AgentDone ==
  /\ agent.pc = "end" /\ agent' = [agent EXCEPT !.pc = "trace"]
  /\ AgentSend({"done"})

(* The trace is closed after done was sent; that may throw.                *)
AgentTraced ==
  /\ agent.pc = "trace" /\ agent' = [agent EXCEPT !.pc = "closed"]
  /\ AgentSend({"error"}) \/ UNCHANGED agentSent

AgentNext ==
  \/ RunAgent \/ AgentNode \/ ToolsReturn \/ AgentFails \/ AgentDone \/ AgentTraced
  \/ \E i \in 1 .. CallsPerTurn : RefuseCall(i) \/ StartTool(i) \/ ToolAnswers(i) \/ ToolThrows(i)

-----------------------------------------------------------------------------
UnderWay == {i \in DOMAIN agent.calls : agent.calls[i].state = "started"}

AgentTypeOK ==
  /\ agent.steps \in 0 .. MaxSteps
  /\ Len(agent.calls) <= CallsPerTurn
  /\ \A type \in AgentEvents : agentSent[type] \in Nat

(* Every tool shown as called has shown its result, has thrown or is under *)
(* way; when done is sent none is, and calls were dropped only by a run    *)
(* that used its steps; the last step starts no tool; one done and one     *)
(* error at most; no tool runs without its key.                            *)
RunIsAccounted ==
  /\ agentSent["tool_call"] = agentSent["tool_result"] + agent.threw + Cardinality(UnderWay)
  /\ agentSent["tool_call"] <= (MaxSteps - 1) * CallsPerTurn
  /\ agentSent["done"] > 0 => UnderWay = {} /\ (agent.calls = <<>> \/ agent.steps = MaxSteps)
  /\ agentSent["done"] <= 1 /\ agentSent["error"] <= 1
  /\ \A i \in UnderWay : agent.calls[i].tool = "web_search" => agent.key
==============================================================================
