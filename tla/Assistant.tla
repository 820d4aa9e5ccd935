------------------------------- MODULE Assistant -------------------------------
(***************************************************************************)
(* The contract assistant                                                  *)
(* (server/src/contract/assistant/contract-assistant.service.ts): outside  *)
(* deep plans one question for each contract, counted by an atomic INCR in *)
(* Redis before the model is asked.                                        *)
(***************************************************************************)
EXTENDS Integers

CONSTANTS
  AskOps,         \* requests under way
  FreeAsks,       \* FREE_ASK_LIMIT
  AskMax          \* bound on the questions

ASSUME AskAssumption == FreeAsks \in Nat /\ AskMax \in Nat

VARIABLES
  asked,          \* the counter of the contract, 0 when the key is absent
  askKeyed,       \* the key has its expiry of 90 days
  askOp,          \* askOp[o]: the handler o
  answered,       \* answers given outside deep plans since the key is counted
  questions       \* questions so far

assistantVars == <<asked, askKeyed, askOp, answered, questions>>

AssistantInit ==
  /\ asked = 0 /\ askKeyed = FALSE
  /\ askOp = [o \in AskOps |-> [pc |-> "idle"]]
  /\ answered = 0 /\ questions = 0

AskEnd(o) == askOp' = [askOp EXCEPT ![o] = [pc |-> "idle"]]

(* ask: the contract, the plan and the user are read together; without a   *)
(* key for the model or without quota it fails before it counts.           *)
AskReceive(o) ==
  /\ askOp[o].pc = "idle" /\ questions < AskMax
  /\ questions' = questions + 1
  /\ \E deep, ready \in BOOLEAN :
       IF ready THEN askOp' = [askOp EXCEPT ![o] = [pc |-> IF deep THEN "model" ELSE "count",
                                                    deep |-> deep, used |-> 0]]
       ELSE UNCHANGED askOp
  /\ UNCHANGED <<asked, askKeyed, answered>>

(* INCR; an error of Redis counts as a spent question.                     *)
IncrCount(o) == asked' = asked + 1 /\ askOp' = [askOp EXCEPT ![o].used = asked + 1, ![o].pc = "gate"]

CountAsk(o) ==
  /\ askOp[o].pc = "count"
  /\ \/ IncrCount(o)
     \/ UNCHANGED asked /\ askOp' = [askOp EXCEPT ![o].used = FreeAsks + 1, ![o].pc = "gate"]
  /\ UNCHANGED <<askKeyed, answered, questions>>

(* The first question sets the expiry, which may fail; the others are      *)
(* locked; the model answers or fails, and its failure gives nothing back. *)
GateAsk(o) ==
  /\ askOp[o].pc = "gate"
  /\ askKeyed' \in IF askOp[o].used = 1 THEN {askKeyed, TRUE} ELSE {askKeyed}
  /\ IF askOp[o].used > FreeAsks THEN AskEnd(o) ELSE askOp' = [askOp EXCEPT ![o].pc = "model"]
  /\ UNCHANGED <<asked, answered, questions>>

Answer(o) ==
  /\ askOp[o].pc = "model"
  /\ answered' \in IF askOp[o].deep THEN {answered} ELSE {answered, answered + 1}
  /\ AskEnd(o)
  /\ UNCHANGED <<asked, askKeyed, questions>>

(* The key expires when nothing is under way (90 days).                    *)
AskKeyExpires ==
  /\ askKeyed /\ \A o \in AskOps : askOp[o].pc = "idle"
  /\ asked' = 0 /\ askKeyed' = FALSE /\ answered' = 0
  /\ UNCHANGED <<askOp, questions>>

AssistantNext ==
  \/ AskKeyExpires
  \/ \E o \in AskOps : AskReceive(o) \/ CountAsk(o) \/ GateAsk(o) \/ Answer(o)

-----------------------------------------------------------------------------
AssistantTypeOK ==
  /\ asked \in 0 .. AskMax /\ answered \in 0 .. AskMax /\ questions \in 0 .. AskMax
  /\ \A o \in AskOps : askOp[o].pc \in {"idle", "count", "gate", "model"}

(* However many questions arrive at once and whichever of them fail, a     *)
(* contract outside the deep plans gets no more answers than the limit.    *)
FreeAsksWithinLimit == answered <= FreeAsks
===============================================================================
