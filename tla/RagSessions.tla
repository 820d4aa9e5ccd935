----------------------------- MODULE RagSessions -----------------------------
(***************************************************************************)
(* The memory of one knowledge-base conversation, kept in the process      *)
(* (server/src/services/rag/memory.ts), and the two ways of asking         *)
(* (rag/query.ts, knowledge/knowledge.controller.ts), which read it before *)
(* the model answers and write it afterwards.                              *)
(***************************************************************************)
EXTENDS Integers, Sequences, FiniteSets, SequencesExt

CONSTANTS
  RagOps,         \* requests under way
  HistoryMax,     \* 2 * MAX_HISTORY_ROUNDS
  RagAskMax       \* bound on the questions

ASSUME RagAssumption == HistoryMax \in Nat \ {0} /\ RagAskMax \in Nat

VARIABLES
  talk,           \* the session's messages: role and number of the question
  ragOp,          \* ragOp[o]: the handler o
  ragAsked,       \* questions so far
  ragRaced        \* two requests overlapped, one broke off, or a session ended

ragVars == <<talk, ragOp, ragAsked, ragRaced>>

RagIdle == [pc |-> "idle"]

RagInit ==
  /\ talk = <<>>
  /\ ragOp = [o \in RagOps |-> RagIdle]
  /\ ragAsked = 0 /\ ragRaced = FALSE

Said(role, q) == [role |-> role, q |-> q]
OthersAsk(o) == \E p \in RagOps \ {o} : ragOp[p].pc # "idle"

(* addMessage keeps the last messages.                                     *)
LastOf(messages, n) ==
  SubSeq(messages, IF Len(messages) > n THEN Len(messages) - n + 1 ELSE 1, Len(messages))

Trimmed(messages) == LastOf(messages, HistoryMax)

AddMessage(messages, msg) == Trimmed(Append(messages, msg))

AddRound(messages, q) == AddMessage(AddMessage(messages, Said("user", q)), Said("assistant", q))

(* A question arrives; rewriteQuery reads the history and never fails.     *)
AskRag(o) ==
  /\ ragOp[o] = RagIdle /\ ragAsked < RagAskMax
  /\ ragAsked' = ragAsked + 1
  /\ \E stream \in BOOLEAN :
       ragOp' = [ragOp EXCEPT ![o] =
         [pc |-> "retrieve", q |-> ragAsked + 1, stream |-> stream, before |-> talk, prompt |-> <<>>]]
  /\ ragRaced' = (ragRaced \/ OthersAsk(o))
  /\ UNCHANGED talk

(* ragQueryStream notes the question as soon as the documents are there    *)
(* and, without any, the controller never asks for the answer; ragQuery    *)
(* notes question and answer together.                                     *)
Retrieved(o) ==
  LET op == ragOp[o] IN
  /\ op.pc = "retrieve"
  /\ \E found \in BOOLEAN :
       \/ /\ op.stream /\ talk' = AddMessage(talk, Said("user", op.q))
          /\ ragOp' = [ragOp EXCEPT ![o] = IF found THEN [@ EXCEPT !.pc = "compress"] ELSE RagIdle]
          /\ ragRaced' = (ragRaced \/ ~found)
       \/ /\ ~op.stream /\ found
          /\ ragOp' = [ragOp EXCEPT ![o].pc = "compress"]
          /\ UNCHANGED <<talk, ragRaced>>
       \/ /\ ~op.stream /\ ~found
          /\ talk' = AddRound(talk, op.q)
          /\ ragOp' = [ragOp EXCEPT ![o] = RagIdle]
          /\ UNCHANGED ragRaced
  /\ UNCHANGED ragAsked

(* The prompt holds the history; a streamed question, which is in it       *)
(* already, is taken off its end.                                          *)
WithLast(messages) == messages
WithoutLast(messages) == IF messages = <<>> THEN <<>> ELSE Front(messages)

PromptHistory(op) == IF op.stream THEN WithoutLast(talk) ELSE talk

Compressed(o) ==
  /\ ragOp[o].pc = "compress"
  /\ ragOp' = [ragOp EXCEPT ![o].pc = "answer", ![o].prompt = PromptHistory(ragOp[o])]
  /\ UNCHANGED <<talk, ragAsked, ragRaced>>

RagAnswers(o) ==
  LET op == ragOp[o] IN
  /\ op.pc = "answer"
  /\ talk' = IF op.stream THEN AddMessage(talk, Said("assistant", op.q)) ELSE AddRound(talk, op.q)
  /\ ragOp' = [ragOp EXCEPT ![o] = RagIdle]
  /\ UNCHANGED <<ragAsked, ragRaced>>

(* The model fails or the quota is used up; the request ends where it is.  *)
RagFails(o) ==
  /\ ragOp[o].pc # "idle"
  /\ ragOp' = [ragOp EXCEPT ![o] = RagIdle]
  /\ ragRaced' = (ragRaced \/ (ragOp[o].stream /\ ragOp[o].pc \in {"compress", "answer"}))
  /\ UNCHANGED <<talk, ragAsked>>

(* The user clears the session, or 30 idle minutes do.                     *)
ClearRag ==
  /\ talk # <<>> /\ talk' = <<>>
  /\ ragRaced' = (ragRaced \/ \E o \in RagOps : ragOp[o].pc # "idle")
  /\ UNCHANGED <<ragOp, ragAsked>>

RagNext ==
  \/ ClearRag
  \/ \E o \in RagOps :
       AskRag(o) \/ Retrieved(o) \/ Compressed(o) \/ RagAnswers(o) \/ RagFails(o)

-----------------------------------------------------------------------------
RagTypeOK ==
  /\ Len(talk) <= HistoryMax /\ ragAsked \in 0 .. RagAskMax
  /\ \A o \in RagOps : ragOp[o].pc \in {"idle", "retrieve", "compress", "answer"}

(* Questions and answers alternate in the memory, each answer after its    *)
(* own question, and a prompt repeats the rounds before the question and   *)
(* not the question itself, unless requests of the session overlapped, a   *)
(* streamed one broke off or found nothing, or the session was cleared     *)
(* under one.                                                              *)
Paired(messages) ==
  \A i \in DOMAIN messages :
    messages[i].role = "user" /\ i < Len(messages)
      => messages[i + 1] = Said("assistant", messages[i].q)

HistoryUnlessRaced ==
  ~ragRaced =>
    /\ Paired(talk)
    /\ \A o \in RagOps : ragOp[o].pc = "answer" =>
         /\ Paired(ragOp[o].prompt)
         /\ \A i \in DOMAIN ragOp[o].prompt : ragOp[o].prompt[i].q # ragOp[o].q
==============================================================================
