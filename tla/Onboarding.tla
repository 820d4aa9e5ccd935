----------------------------- MODULE Onboarding -----------------------------
(***************************************************************************)
(* The sample contract of the welcome tour, once for each tenant           *)
(* (server/src/contract/onboarding/onboarding.service.ts).                 *)
(***************************************************************************)
EXTENDS Integers, Sequences, FiniteSets

CONSTANTS
  SampleOps,      \* requests under way
  SampleFaultMax     \* bound on failing calls

VARIABLES
  keeps,          \* the tenant's plan keeps contracts for good
  samples,        \* sample contracts: whether each has a job, is kept for good
  sampleMarked,         \* the event that says the sample was taken exists
  sampleOp,        \* sampleOp[o]: the handler o
  sampleFaults,    \* calls that failed
  sampleRaced     \* two requests for the sample overlapped

sampleVars == <<keeps, samples, sampleMarked, sampleOp, sampleFaults, sampleRaced>>

SampleInit ==
  /\ keeps = FALSE
  /\ samples = <<>> /\ sampleMarked = FALSE
  /\ sampleOp = [o \in SampleOps |-> [pc |-> "idle"]]
  /\ sampleFaults = 0 /\ sampleRaced = FALSE

SampleGo(o, place) == sampleOp' = [sampleOp EXCEPT ![o].pc = place]
SampleEnd(o) == sampleOp' = [sampleOp EXCEPT ![o] = [pc |-> "idle"]]

(* A month is bought.                                                      *)
BuyMonth ==
  /\ ~keeps /\ keeps' = TRUE
  /\ UNCHANGED <<samples, sampleMarked, sampleOp, sampleFaults, sampleRaced>>

-----------------------------------------------------------------------------
(* copySampleContract: look for the event, read the plan, write the file,  *)
(* create the contract, enqueue its job, write the event last.             *)
HasSampleContract(o) ==
  /\ sampleOp[o].pc = "idle" /\ ~sampleMarked
  /\ Len(samples) < Cardinality(SampleOps) + SampleFaultMax
  /\ sampleOp' = [sampleOp EXCEPT ![o] = [pc |-> "plan", keep |-> FALSE, at |-> 0]]
  /\ UNCHANGED <<keeps, samples, sampleMarked, sampleFaults, sampleRaced>>

ReadSpacePlan(o) ==
  /\ sampleOp[o].pc = "plan"
  /\ sampleOp' = [sampleOp EXCEPT ![o].pc = "contract", ![o].keep = keeps]
  /\ UNCHANGED <<keeps, samples, sampleMarked, sampleFaults, sampleRaced>>

CreateSample(o) ==
  /\ sampleOp[o].pc = "contract"
  /\ samples' = Append(samples, [job |-> FALSE, keep |-> sampleOp[o].keep])
  /\ sampleOp' = [sampleOp EXCEPT ![o].pc = "enqueue", ![o].at = Len(samples) + 1]
  /\ sampleRaced' = (sampleRaced \/ sampleMarked
                       \/ \E p \in SampleOps \ {o} : sampleOp[p].pc \in {"enqueue", "mark"})
  /\ UNCHANGED <<keeps, sampleMarked, sampleFaults>>

MarkFirst(o) == sampleMarked' = TRUE /\ SampleGo(o, "enqueue2") /\ UNCHANGED samples

Enqueued(o) ==
  /\ samples' = [samples EXCEPT ![sampleOp[o].at].job = TRUE]
  /\ SampleGo(o, "mark")
  /\ UNCHANGED sampleMarked

EnqueueSample(o) ==
  /\ sampleOp[o].pc = "enqueue"
  /\ Enqueued(o)
  /\ UNCHANGED <<keeps, sampleRaced, sampleFaults>>

MarkSample(o) ==
  /\ sampleOp[o].pc = "mark"
  /\ sampleMarked' = TRUE
  /\ SampleEnd(o)
  /\ UNCHANGED <<keeps, samples, sampleRaced, sampleFaults>>

(* Any awaited call of the handler may throw; what is written stays.       *)
SampleFails(o) ==
  /\ sampleOp[o].pc \in {"plan", "contract", "enqueue", "enqueue2", "mark"}
  /\ sampleFaults < SampleFaultMax
  /\ sampleFaults' = sampleFaults + 1
  /\ SampleEnd(o)
  /\ UNCHANGED <<keeps, samples, sampleMarked, sampleRaced>>

SampleNext ==
  \/ BuyMonth
  \/ \E o \in SampleOps :
       \/ HasSampleContract(o) \/ ReadSpacePlan(o) \/ CreateSample(o) \/ EnqueueSample(o)
       \/ MarkSample(o) \/ SampleFails(o)

-----------------------------------------------------------------------------
SampleTypeOK ==
  \A i \in DOMAIN samples : samples[i].job \in BOOLEAN /\ samples[i].keep \in BOOLEAN

(* A tenant's only sample is marked as taken after its parsing job was     *)
(* enqueued: a failing call costs a retry and never the sample.            *)
MarkedHasJob == sampleMarked => \E i \in DOMAIN samples : samples[i].job

(* One sample for each tenant, unless requests overlapped or one failed    *)
(* after the contract was created.                                         *)
OneSampleUnlessRaced == Len(samples) > 1 => sampleRaced \/ sampleFaults > 0
=============================================================================
