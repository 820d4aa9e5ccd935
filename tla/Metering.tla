------------------------------- MODULE Metering -------------------------------
(***************************************************************************)
(* What a call of the language model costs: the trace of a request, the    *)
(* spans of its calls and the month's quota                                *)
(* (server/src/observability/trace.service.ts, langchain-observer.ts,      *)
(* quota.service.ts, pricing.ts).  The request asks whether quota is left, *)
(* calls, and counts afterwards, all by separate statements.               *)
(***************************************************************************)
EXTENDS Integers, FiniteSets, Functions

CONSTANTS
  MeterOps,       \* traced requests of one tenant
  ModelNames,     \* models
  CheapModel,     \* config.ai.primaryModel, priced as a model without a price of its own
  TokenQuota,     \* tenant.monthlyTokenQuota
  CallsMax,       \* bound on the model calls of one request
  MeterFaultMax,  \* bound on failing statements and restarts
  NoRow

(* A trace: what its request burned, its price, the prices of its spans.   *)
MeterRows ==
  [status : {"RUNNING", "OK", "ERROR"}, tokens : Nat, cost : Nat, spans : Nat, cached : BOOLEAN]

UsageRows == [tokens : Nat, cost : Nat]

ASSUME MeterAssumption == MeterFaultMax \in Nat /\ NoRow \notin MeterRows /\ NoRow \notin UsageRows

VARIABLES
  quotaUsage,     \* the month's row: tokens and cost, or NoRow
  traces,         \* traces[o]: the row of the request o, or NoRow
  meterOp,        \* meterOp[o]: the request o with its TraceContext
  peak,           \* isPeakHour(now)
  meterFaults,    \* statements that failed
  peakTurned      \* the tariff changed under a running request

meterVars == <<quotaUsage, traces, meterOp, peak, meterFaults, peakTurned>>

MeterIdle == [pc |-> "idle"]
Running(o) == meterOp[o].pc # "idle"

MeterInit ==
  /\ quotaUsage = NoRow
  /\ traces = [o \in MeterOps |-> NoRow]
  /\ meterOp = [o \in MeterOps |-> MeterIdle]
  /\ peak \in BOOLEAN
  /\ meterFaults = 0 /\ peakTurned = FALSE

(* calcCostCny: a token of a model, half price outside the peak hours.     *)
PriceOf(model) == (IF model = CheapModel THEN 1 ELSE 4) * (IF peak THEN 2 ELSE 1)
CalcCost(model, tokens) == tokens * PriceOf(model)

MeterGo(o, place) == meterOp' = [meterOp EXCEPT ![o].pc = place]
MeterEnd(o) == meterOp' = [meterOp EXCEPT ![o] = MeterIdle]

-----------------------------------------------------------------------------
(* TraceService.run opens the trace; the number of the request is its row. *)
OpenTrace(o) ==
  /\ meterOp[o] = MeterIdle /\ traces[o] = NoRow
  /\ traces' = [traces EXCEPT ![o] = [status |-> "RUNNING", tokens |-> 0, cost |-> 0, spans |-> 0, cached |-> FALSE]]
  /\ meterOp' = [meterOp EXCEPT ![o] =
       [pc |-> "ask", model |-> CheapModel, tokens |-> 0, calls |-> 0, models |-> {}, cached |-> FALSE, ok |-> TRUE]]
  /\ UNCHANGED <<quotaUsage, peak, meterFaults, peakTurned>>

(* An answer from the cache asks for no quota; it notes the tokens saved.  *)
FromCache(o) ==
  /\ meterOp[o].pc = "ask"
  /\ meterOp' = [meterOp EXCEPT ![o] = [@ EXCEPT !.pc = "finish", !.cached = TRUE, !.tokens = 1]]
  /\ UNCHANGED <<quotaUsage, traces, peak, meterFaults, peakTurned>>

(* QuotaService.assert.                                                    *)
UsedTokens == IF quotaUsage = NoRow THEN 0 ELSE quotaUsage.tokens

QuotaLeft == UsedTokens < TokenQuota

AssertQuota(o) ==
  /\ meterOp[o].pc = "ask"
  /\ meterOp' = [meterOp EXCEPT ![o] = [@ EXCEPT !.pc = IF QuotaLeft THEN "call" ELSE "finish", !.ok = QuotaLeft]]
  /\ UNCHANGED <<quotaUsage, traces, peak, meterFaults, peakTurned>>

(* handleLLMEnd adds to the context and writes a span with its own price;  *)
(* a span that is not written is only logged.  A response may name no      *)
(* model: its span has the cheap price, the context keeps the last named.  *)
CallModel(o) ==
  LET op == meterOp[o] IN
  /\ op.pc = "call" /\ op.calls < CallsMax
  /\ \E model \in ModelNames \cup {CheapModel}, named \in BOOLEAN :
       /\ named \/ model = CheapModel
       /\ meterOp' = [meterOp EXCEPT ![o] =
            [pc |-> "call", model |-> IF named THEN model ELSE op.model, tokens |-> op.tokens + 1, calls |-> op.calls + 1,
             models |-> op.models \cup {model}, cached |-> op.cached, ok |-> op.ok]]
       /\ \/ /\ traces' = [traces EXCEPT ![o].spans = @ + CalcCost(model, 1)]
             /\ UNCHANGED meterFaults
          \/ /\ meterFaults < MeterFaultMax /\ meterFaults' = meterFaults + 1
             /\ UNCHANGED traces
  /\ UNCHANGED <<quotaUsage, peak, peakTurned>>

(* The handler returns, or throws.                                         *)
CallsEnd(o) ==
  /\ meterOp[o].pc = "call"
  /\ \E ok \in BOOLEAN : meterOp' = [meterOp EXCEPT ![o] = [@ EXCEPT !.pc = "finish", !.ok = ok]]
  /\ UNCHANGED <<quotaUsage, traces, peak, meterFaults, peakTurned>>

(* finish: the trace of a cached answer costs nothing and counts for       *)
(* nothing; any other is priced by the model called last, at this moment.  *)
Charged(op) == IF op.cached THEN 0 ELSE op.tokens

FinishTrace(o) ==
  LET op == meterOp[o] IN
  /\ op.pc = "finish"
  /\ traces' = [traces EXCEPT ![o] =
       [status |-> IF op.ok THEN "OK" ELSE "ERROR", tokens |-> op.tokens,
        cost |-> CalcCost(op.model, Charged(op)), spans |-> traces[o].spans, cached |-> op.cached]]
  /\ IF Charged(op) > 0 THEN MeterGo(o, "record") ELSE MeterEnd(o)
  /\ UNCHANGED <<quotaUsage, peak, meterFaults, peakTurned>>

(* record: the upsert looks for the row and adds to it or inserts it.  An  *)
(* insert fails when another came first; what fails is added by an update, *)
(* which needs the row.                                                    *)
AddUsageAnew(tokens, cost) == [tokens |-> tokens, cost |-> cost]
AddUsage(tokens, cost) == [tokens |-> quotaUsage.tokens + tokens, cost |-> quotaUsage.cost + cost]

RecordUsage(o) ==
  /\ meterOp[o].pc = "record"
  /\ IF quotaUsage = NoRow THEN MeterGo(o, "insert") /\ UNCHANGED quotaUsage
     ELSE quotaUsage' = AddUsage(Charged(meterOp[o]), traces[o].cost) /\ MeterEnd(o)
  /\ UNCHANGED <<traces, peak, meterFaults, peakTurned>>

InsertUsage(o) ==
  /\ meterOp[o].pc = "insert"
  /\ IF quotaUsage = NoRow THEN quotaUsage' = AddUsageAnew(Charged(meterOp[o]), traces[o].cost) /\ MeterEnd(o)
     ELSE MeterGo(o, "again") /\ UNCHANGED quotaUsage
  /\ UNCHANGED <<traces, peak, meterFaults, peakTurned>>

AddAgain(o) ==
  /\ meterOp[o].pc = "again"
  /\ IF quotaUsage = NoRow THEN UNCHANGED quotaUsage
     ELSE quotaUsage' = AddUsage(Charged(meterOp[o]), traces[o].cost)
  /\ MeterEnd(o)
  /\ UNCHANGED <<traces, peak, meterFaults, peakTurned>>

(* The first finish fails: run catches it and finishes with ERROR; that    *)
(* failing, a failing last addition and a restart leave everything as it   *)
(* is.                                                                     *)
MeterFails(o) ==
  /\ Running(o) /\ meterFaults < MeterFaultMax
  /\ meterFaults' = meterFaults + 1
  /\ IF meterOp[o].pc = "finish" /\ meterOp[o].ok
     THEN meterOp' = [meterOp EXCEPT ![o].ok = FALSE]
     ELSE MeterEnd(o)
  /\ UNCHANGED <<quotaUsage, traces, peak, peakTurned>>

(* The upsert throws, its effect in the row or not.                        *)
UpsertFails(o) ==
  /\ meterOp[o].pc \in {"record", "insert"} /\ meterFaults < MeterFaultMax
  /\ meterFaults' = meterFaults + 1 /\ MeterGo(o, "again")
  /\ quotaUsage' \in {quotaUsage, IF quotaUsage = NoRow THEN AddUsageAnew(Charged(meterOp[o]), traces[o].cost)
                                  ELSE AddUsage(Charged(meterOp[o]), traces[o].cost)}
  /\ UNCHANGED <<traces, peak, peakTurned>>

(* isPeakHour: working days from 9 to 12 and from 14 to 18 Beijing time.   *)
TurnPeak ==
  /\ peak' = ~peak
  /\ peakTurned' = (peakTurned \/ \E o \in MeterOps : Running(o))
  /\ UNCHANGED <<quotaUsage, traces, meterOp, meterFaults>>

MeterNext ==
  \/ TurnPeak
  \/ \E o \in MeterOps :
       \/ OpenTrace(o) \/ FromCache(o) \/ AssertQuota(o) \/ CallModel(o) \/ CallsEnd(o)
       \/ FinishTrace(o) \/ RecordUsage(o) \/ InsertUsage(o) \/ AddAgain(o) \/ MeterFails(o) \/ UpsertFails(o)

-----------------------------------------------------------------------------
Opened == {o \in MeterOps : traces[o] # NoRow}
Closed == {o \in Opened : ~Running(o)}

MeterTypeOK ==
  /\ \A o \in Opened : traces[o].status \in {"RUNNING", "OK", "ERROR"}
  /\ meterFaults \in 0 .. MeterFaultMax

(* With nothing failing, every request that ended has closed its trace,    *)
(* the month's row counts what the traces of the month burned, and its     *)
(* cost is theirs; answers from the cache are not in it.                   *)
MonthMatchesTraces ==
  (meterFaults = 0 /\ Closed = Opened) =>
    LET burned == {o \in Opened : ~traces[o].cached} IN
    /\ \A o \in Opened : traces[o].status # "RUNNING"
    /\ UsedTokens = SumFunction([o \in burned |-> traces[o].tokens])
    /\ (quotaUsage # NoRow) => quotaUsage.cost = SumFunction([o \in burned |-> traces[o].cost])

(* The price of a trace is the sum of its spans' prices, unless the tariff *)
(* changed under it, a span was lost, or it called two models (the whole   *)
(* trace is then priced as the last one).                                  *)
CostsAgreeUnlessMixed ==
  \A o \in Opened :
    (traces[o].status # "RUNNING" /\ meterFaults = 0 /\ ~peakTurned /\ Running(o)
       /\ Cardinality(meterOp[o].models) < 2)
      => traces[o].cost = traces[o].spans
==============================================================================
