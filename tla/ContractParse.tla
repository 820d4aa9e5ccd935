--------------------------- MODULE ContractParse ----------------------------
(***************************************************************************)
(* One contract from its upload to the first reviews of it: the request    *)
(* that stores the row and enqueues the job, the worker that parses it     *)
(* (contract-parse.service.ts) and a request that starts a review, reduced *)
(* to what it reads and writes of the contract.                            *)
(*                                                                         *)
(* The worker runs in the process of the API server; each await is a step. *)
(* The queue (BullMQ, as queue.service.ts configures it) runs a job again  *)
(* when its processor throws, MaxAttempts times in all, and when a restart *)
(* left it active, MaxStalls times; after that the job has failed. A call  *)
(* that throws has had no effect.                                          *)
(*                                                                         *)
(* A definition that stands before another one and adds a word to its name *)
(* is the form a plausible bug would give it (PROJECT.json, "mutants");    *)
(* no action uses it.                                                      *)
(***************************************************************************)
EXTENDS Naturals

CONSTANTS
  MaxAttempts,  \* attempts of a job, 3 in queue.service.ts
  MaxStalls,    \* maxStalledCount, 1 by BullMQ's default
  MaxFaults,    \* bound: awaited calls that throw
  MaxCrashes    \* bound: restarts of the server process

ASSUME LimitsAssumption ==
  /\ MaxAttempts \in Nat \ {0}
  /\ MaxStalls \in Nat
  /\ MaxFaults \in Nat
  /\ MaxCrashes \in Nat

VARIABLES
  status,    \* the contract's status; "NONE" before the upload, "GONE" once deleted
  clauses,   \* its rows in clauses: "none" or "all"
  file,      \* the uploaded file is on disk
  readable,  \* text can be extracted from it
  upload,    \* where the upload request stands
  job,       \* state of job parse-<contractId>
  thrown,    \* how often its processor threw
  stalls,    \* how often a restart found it active
  pc,        \* where the processor stands
  reviewer,  \* where a request that starts a review stands
  faults, crashes

queue == <<job, thrown, stalls>>
bounds == <<faults, crashes>>
vars == <<status, clauses, file, readable, upload, queue, pc, reviewer, bounds>>

Init ==
  /\ status = "NONE"
  /\ clauses = "none"
  /\ file = FALSE
  /\ readable \in BOOLEAN
  /\ upload = "idle"
  /\ job = "none"
  /\ thrown = 0
  /\ stalls = 0
  /\ pc = "idle"
  /\ reviewer = "idle"
  /\ faults = 0
  /\ crashes = 0

-----------------------------------------------------------------------------
(* upload: the file is on disk when the handler begins *)

CreateRow ==
  /\ upload = "idle"
  /\ status' = "UPLOADED"
  /\ file' = TRUE
  /\ upload' = "enqueue"
  /\ UNCHANGED <<clauses, readable, queue, pc, reviewer, bounds>>

Enqueue ==
  /\ upload = "enqueue"
  /\ job' = "waiting"
  /\ upload' = "done"
  /\ UNCHANGED <<status, clauses, file, readable, thrown, stalls, pc, reviewer, bounds>>

-----------------------------------------------------------------------------
(* handle, the processor of the job *)

Present == status # "GONE"

PickUp ==
  /\ job = "waiting" /\ pc = "idle"
  /\ job' = "active"
  /\ pc' = "find"
  /\ UNCHANGED <<status, clauses, file, readable, upload, thrown, stalls, reviewer, bounds>>

(* a deleted contract ends the job, its file is left behind *)
FindContract ==
  /\ pc = "find"
  /\ pc' = IF Present THEN "mark" ELSE "complete"
  /\ UNCHANGED <<status, clauses, file, readable, upload, queue, reviewer, bounds>>

(* the processor throws: the queue tries again, or gives up *)
JobThrowsForGood == thrown' = thrown + 1 /\ job' = "failed" /\ pc' = "idle" /\ UNCHANGED stalls
JobThrowsForever == thrown' = thrown + 1 /\ job' = "waiting" /\ pc' = "idle" /\ UNCHANGED stalls
JobThrows ==
  /\ thrown' = thrown + 1
  /\ job' = IF thrown' < MaxAttempts THEN "waiting" ELSE "failed"
  /\ pc' = "idle"
  /\ UNCHANGED stalls

(* outside the try block: on a row deleted meanwhile the job itself throws *)
MarkParsing ==
  /\ pc = "mark"
  /\ IF Present
     THEN status' = "PARSING" /\ pc' = "trace" /\ UNCHANGED queue
     ELSE JobThrows /\ UNCHANGED status
  /\ UNCHANGED <<clauses, file, readable, upload, reviewer, bounds>>

(* the order of the steps in the try block *)
AfterWithoutInsert(step) ==
  CASE step = "trace" -> "extract" [] step = "extract" -> "progress"
    [] step = "progress" -> "clear" [] step = "clear" -> "ready"
    [] step = "insert" -> "ready" [] step = "ready" -> "finish" [] step = "finish" -> "unlink"
AfterReadyFirst(step) ==
  CASE step = "trace" -> "ready" [] step = "ready" -> "extract"
    [] step = "extract" -> "progress" [] step = "progress" -> "clear"
    [] step = "clear" -> "insert" [] step = "insert" -> "finish" [] step = "finish" -> "unlink"
After(step) ==
  CASE step = "trace" -> "extract" [] step = "extract" -> "progress"
    [] step = "progress" -> "clear" [] step = "clear" -> "insert"
    [] step = "insert" -> "ready" [] step = "ready" -> "finish" [] step = "finish" -> "unlink"

(* tracer.run opens the trace *)
OpenTrace ==
  /\ pc = "trace"
  /\ pc' = After("trace")
  /\ UNCHANGED <<status, clauses, file, readable, upload, queue, reviewer, bounds>>

(* extractText, which fails on a missing file, one without text, a timeout *)
Extract ==
  /\ pc = "extract"
  /\ pc' = IF file /\ readable THEN After("extract") ELSE "catch"
  /\ UNCHANGED <<status, clauses, file, readable, upload, queue, reviewer, bounds>>

(* two updates of progress around splitClauses, then refineTypesWithLlm,    *)
(* whose failure is swallowed                                               *)
ShowProgress ==
  /\ pc = "progress"
  /\ pc' = IF Present THEN After("progress") ELSE "catch"
  /\ UNCHANGED <<status, clauses, file, readable, upload, queue, reviewer, bounds>>

ClearClauses ==
  /\ pc = "clear"
  /\ clauses' = "none"
  /\ pc' = After("clear")
  /\ UNCHANGED <<status, file, readable, upload, queue, reviewer, bounds>>

(* one transaction; splitClauses yields at least one clause *)
InsertClauses ==
  /\ pc = "insert"
  /\ IF Present THEN clauses' = "all" /\ pc' = After("insert")
                ELSE pc' = "catch" /\ UNCHANGED clauses
  /\ UNCHANGED <<status, file, readable, upload, queue, reviewer, bounds>>

MarkReady ==
  /\ pc = "ready"
  /\ IF Present THEN status' = "READY" /\ pc' = After("ready")
                ELSE pc' = "catch" /\ UNCHANGED status
  /\ UNCHANGED <<clauses, file, readable, upload, queue, reviewer, bounds>>

(* tracer.run closes the trace *)
CloseTrace ==
  /\ pc = "finish"
  /\ pc' = After("finish")
  /\ UNCHANGED <<status, clauses, file, readable, upload, queue, reviewer, bounds>>

(* the catch block; its own failure leaves handle through finally *)
MarkFailed ==
  /\ pc = "catch"
  /\ IF Present THEN status' = "FAILED" /\ pc' = "unlink"
                ELSE pc' = "unlinkAndThrow" /\ UNCHANGED status
  /\ UNCHANGED <<clauses, file, readable, upload, queue, reviewer, bounds>>

UnlinkedUnlessThrown == file /\ pc = "unlinkAndThrow"
UnlinkedInCatchOnly == file /\ status # "FAILED"
Unlinked == FALSE

(* finally *)
Unlink ==
  /\ pc \in {"unlink", "unlinkAndThrow"}
  /\ file' = Unlinked
  /\ IF pc = "unlink" THEN pc' = "complete" /\ UNCHANGED queue ELSE JobThrows
  /\ UNCHANGED <<status, clauses, readable, upload, reviewer, bounds>>

Complete ==
  /\ pc = "complete"
  /\ job' = "completed"
  /\ pc' = "idle"
  /\ UNCHANGED <<status, clauses, file, readable, upload, thrown, stalls, reviewer, bounds>>

(* an awaited call throws: inside the try block, in the catch block, before *)
Fault ==
  /\ faults < MaxFaults
  /\ faults' = faults + 1
  /\ \/ /\ pc \in {"trace", "extract", "progress", "clear", "insert", "ready", "finish"}
        /\ pc' = "catch"
        /\ UNCHANGED queue
     \/ /\ pc = "catch"
        /\ pc' = "unlinkAndThrow"
        /\ UNCHANGED queue
     \/ /\ pc \in {"find", "mark"}
        /\ JobThrows
  /\ UNCHANGED <<status, clauses, file, readable, upload, reviewer, crashes>>

-----------------------------------------------------------------------------
(* startReviewStream: the check of the status, the update, and load_clauses *)

Reviewable == {"READY", "WAITING_REVIEW"}

CheckStatus ==
  /\ reviewer = "idle"
  /\ status \in Reviewable
  /\ reviewer' = "mark"
  /\ UNCHANGED <<status, clauses, file, readable, upload, queue, pc, bounds>>

MarkReviewing ==
  /\ reviewer = "mark"
  /\ IF Present THEN status' = "REVIEWING" /\ reviewer' = "load"
                ELSE reviewer' = "idle" /\ UNCHANGED status
  /\ UNCHANGED <<clauses, file, readable, upload, queue, pc, bounds>>

(* without clauses the review fails and the contract stays as it is *)
LoadClauses ==
  /\ reviewer = "load"
  /\ reviewer' = IF clauses = "all" THEN "aggregate" ELSE "idle"
  /\ UNCHANGED <<status, clauses, file, readable, upload, queue, pc, bounds>>

ShowWaiting ==
  /\ reviewer = "aggregate"
  /\ status' = IF Present THEN "WAITING_REVIEW" ELSE status
  /\ reviewer' = "idle"
  /\ UNCHANGED <<clauses, file, readable, upload, queue, pc, bounds>>

-----------------------------------------------------------------------------
(* What else happens *)

(* DELETE contracts/:id, and the retention sweep: clauses cascade *)
Remove ==
  /\ status \notin {"NONE", "GONE"}
  /\ status' = "GONE"
  /\ clauses' = "none"
  /\ UNCHANGED <<file, readable, upload, queue, pc, reviewer, bounds>>

(* the process restarts; the queue finds the job active without a lock *)
Crash ==
  /\ crashes < MaxCrashes
  /\ crashes' = crashes + 1
  /\ upload' = IF upload = "enqueue" THEN "lost" ELSE upload
  /\ IF job = "active"
     THEN /\ stalls' = stalls + 1
          /\ job' = IF stalls' <= MaxStalls THEN "waiting" ELSE "failed"
     ELSE UNCHANGED <<job, stalls>>
  /\ pc' = "idle"
  /\ reviewer' = "idle"
  /\ UNCHANGED <<status, clauses, file, readable, thrown, faults>>

Work ==
  \/ PickUp \/ FindContract \/ MarkParsing \/ OpenTrace \/ Extract \/ ShowProgress
  \/ ClearClauses \/ InsertClauses \/ MarkReady \/ CloseTrace \/ MarkFailed
  \/ Unlink \/ Complete

Review == CheckStatus \/ MarkReviewing \/ LoadClauses \/ ShowWaiting

Next == CreateRow \/ Enqueue \/ Work \/ Fault \/ Review \/ Remove \/ Crash

Spec == Init /\ [][Next]_vars

(* The queue offers a waiting job to the worker, and the worker runs on. *)
FairSpec == Spec /\ WF_vars(Work)

-----------------------------------------------------------------------------
(* Properties *)

Parsed == {"READY", "REVIEWING", "WAITING_REVIEW"}

TypeOK ==
  /\ status \in {"NONE", "UPLOADED", "PARSING", "FAILED", "GONE"} \cup Parsed
  /\ clauses \in {"none", "all"}
  /\ file \in BOOLEAN /\ readable \in BOOLEAN
  /\ upload \in {"idle", "enqueue", "done", "lost"}
  /\ job \in {"none", "waiting", "active", "completed", "failed"}
  /\ thrown \in 0..MaxAttempts
  /\ job \in {"waiting", "active"} => thrown < MaxAttempts
  /\ stalls \in 0..(MaxStalls + 1)
  /\ pc \in {"idle", "find", "mark", "trace", "extract", "progress", "clear", "insert",
             "ready", "finish", "catch", "unlink", "unlinkAndThrow", "complete"}
  /\ reviewer \in {"idle", "mark", "load", "aggregate"}
  /\ faults \in 0..MaxFaults
  /\ crashes \in 0..MaxCrashes

(* A contract shown as READY has its clauses, also while a second run of    *)
(* the job replaces them (contract-parse.service.ts:74).                    *)
ReadyHasClauses == status = "READY" => clauses = "all"

(* A review that passed the check of the status finds the clauses of the    *)
(* contract, whichever calls of the job throw and are tried again: the file *)
(* is gone by then, so that no second attempt clears them. Only a job that  *)
(* a restart brought back can.                                              *)
ReviewSeesAllClauses ==
  (reviewer = "load" /\ Present) => (clauses = "all" \/ stalls > 0)

(* As long as nothing fails, a contract that was parsed is never shown as   *)
(* unparsed or failed, though the job still runs when the first review      *)
(* starts.                                                                  *)
ParsedStaysParsed ==
  [][(status \in Parsed /\ status' \in {"PARSING", "FAILED"}) => faults + stalls > 0]_vars

(* The uploaded file is removed by the time the job is completed, except    *)
(* that of a contract deleted before it was parsed.                         *)
FileIsRemoved == (job = "completed" /\ file) => status = "GONE"

Unparsed == job # "none" /\ status \in {"UPLOADED", "PARSING"}

(* A contract whose job was enqueued does not stay unparsed: with fewer     *)
(* failures than the queue has attempts it becomes READY or FAILED.         *)
ParsingEnds == Unparsed ~> ~Unparsed
=============================================================================
