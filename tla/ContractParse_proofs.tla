------------------------ MODULE ContractParse_proofs -------------------------
(***************************************************************************)
(* Proofs about the parsing job, for any number of attempts, stalls,       *)
(* failing calls and restarts.                                             *)
(*                                                                         *)
(* The safety of the first review rests on the file: the first attempt     *)
(* that comes to an end removes it, so that no later attempt gets past     *)
(* extractText to the deletion of the clauses (KeptOnceParsed).  Only a    *)
(* restart leaves the file behind, and a restart is counted as a stall.    *)
(***************************************************************************)
EXTENDS ContractParse, TLAPS

----------------------------------------------------------------------------
(* The parts of the invariant.                                             *)

\* Before the upload there is nothing; a contract of a finished upload exists or existed.
Uploaded ==
  /\ upload = "idle" => status = "NONE" /\ reviewer = "idle"
  /\ upload # "idle" => status # "NONE"
  /\ upload = "enqueue" => file
  /\ upload \in {"idle", "enqueue"} => job = "none"

\* A job the queue still has to run has attempts and stalls left.
AttemptsLeft ==
  /\ job = "none" => thrown = 0
  /\ job \in {"none", "waiting", "active"} => stalls <= MaxStalls

\* The processor is at work exactly while the queue holds the job active.
WorksOnActive == pc # "idle" <=> job = "active"

\* Up to READY the contract is not shown as READY, and at its brink the clauses are there.
ReadyLate ==
  /\ pc \in {"trace", "extract", "progress", "clear", "insert"} => status # "READY"
  /\ (pc = "ready" /\ Present) => clauses = "all"

\* Past extractText the file is still there.
ExtractedHasFile == pc \in {"progress", "clear", "insert", "ready"} => file

\* A review knows of the contract, or it is shown as parsed.
Settled == Present /\ (status \in Parsed \/ reviewer # "idle")

\* Without a stall, a contract once parsed keeps its clauses: the job is about to end, or its file is gone.
KeptOnceParsed ==
  (stalls = 0 /\ Settled) =>
    clauses = "all" /\ (pc \in {"finish", "catch", "unlink", "unlinkAndThrow"} \/ ~file)

\* The job ends without a file, or without a contract.
EndsWithoutFile ==
  /\ pc = "complete" => ~file \/ status = "GONE"
  /\ (job = "completed" /\ file) => status = "GONE"

\* Where nothing failed: the processor throws only for a deleted contract, its first attempt has the file, and it does
\* not come to the catch block with a parsed contract.
ThrowsForGone ==
  faults = 0 =>
    /\ thrown > 0 => status = "GONE"
    /\ pc = "unlinkAndThrow" => status = "GONE"
FirstHasFile ==
  (stalls = 0 /\ thrown = 0 /\ (job = "waiting" \/ (job = "active" /\ pc # "complete"))) => file
CaughtUnparsed == (faults = 0 /\ stalls = 0 /\ pc = "catch") => ~Settled

JobInv ==
  /\ TypeOK
  /\ Uploaded /\ AttemptsLeft /\ WorksOnActive /\ ReadyLate /\ ExtractedHasFile
  /\ KeptOnceParsed /\ EndsWithoutFile /\ ThrowsForGone /\ FirstHasFile /\ CaughtUnparsed
  /\ ReadyHasClauses

----------------------------------------------------------------------------
\* An upload that has not begun satisfies the invariant.
LEMMA JobInvInit == Init => JobInv
<1> SUFFICES ASSUME Init
             PROVE  JobInv
  OBVIOUS
<1>1. TypeOK
  <2>1. stalls \in 0..(MaxStalls + 1) /\ thrown \in 0..MaxAttempts /\ faults \in 0..MaxFaults /\ crashes \in 0..MaxCrashes
    BY LimitsAssumption DEF Init, LimitsAssumption
  <2>2. /\ status \in {"NONE", "UPLOADED", "PARSING", "FAILED", "GONE"} \cup Parsed
        /\ clauses \in {"none", "all"}
        /\ job \in {"none", "waiting", "active", "completed", "failed"}
        /\ job \notin {"waiting", "active"}
    BY DEF Init, Parsed
  <2>3. file \in BOOLEAN /\ readable \in BOOLEAN
    BY DEF Init
  <2>4. /\ pc \in {"idle", "find", "mark", "trace", "extract", "progress", "clear", "insert",
                   "ready", "finish", "catch", "unlink", "unlinkAndThrow", "complete"}
        /\ reviewer \in {"idle", "mark", "load", "aggregate"}
        /\ upload \in {"idle", "enqueue", "done", "lost"}
    BY DEF Init
  <2> QED
    BY <2>1, <2>2, <2>3, <2>4 DEF TypeOK
<1> QED
  BY <1>1, LimitsAssumption
   DEF LimitsAssumption, Init, JobInv, Uploaded, AttemptsLeft, WorksOnActive, ReadyLate, ExtractedHasFile, KeptOnceParsed, Settled,
       EndsWithoutFile, ThrowsForGone, FirstHasFile, CaughtUnparsed, ReadyHasClauses, Present, Parsed

\* Every step of the upload, the queue, the processor and the review preserves it.
LEMMA JobInvNext == JobInv /\ [Next]_vars => JobInv'
<1> SUFFICES ASSUME JobInv, [Next]_vars
             PROVE  JobInv'
  OBVIOUS
<1> USE LimitsAssumption
    DEF LimitsAssumption, JobInv, TypeOK, Uploaded, AttemptsLeft, WorksOnActive, ReadyLate, ExtractedHasFile, KeptOnceParsed, Settled,
        EndsWithoutFile, ThrowsForGone, FirstHasFile, CaughtUnparsed, ReadyHasClauses, Present, Parsed,
        queue, bounds
<1>1. CASE CreateRow
  BY <1>1 DEF CreateRow
<1>2. CASE Enqueue
  BY <1>2 DEF Enqueue
<1>3. CASE PickUp
  BY <1>3 DEF PickUp
<1>4. CASE FindContract
  BY <1>4 DEF FindContract
<1>5. CASE MarkParsing
  BY <1>5 DEF MarkParsing, JobThrows
<1>6. CASE OpenTrace
  BY <1>6 DEF OpenTrace, After
<1>7. CASE Extract
  BY <1>7 DEF Extract, After
<1>8. CASE ShowProgress
  BY <1>8 DEF ShowProgress, After
<1>9. CASE ClearClauses
  BY <1>9 DEF ClearClauses, After
<1>10. CASE InsertClauses
  BY <1>10 DEF InsertClauses, After
<1>11. CASE MarkReady
  BY <1>11 DEF MarkReady, After
<1>12. CASE CloseTrace
  BY <1>12 DEF CloseTrace, After
<1>13. CASE MarkFailed
  BY <1>13 DEF MarkFailed
<1>14. CASE Unlink
  <2>1. CASE pc = "unlink"
    BY <1>14, <2>1 DEF Unlink, Unlinked
  <2>2. CASE pc = "unlinkAndThrow"
    <3>1. /\ job = "active" /\ thrown \in 0..MaxAttempts /\ thrown < MaxAttempts /\ stalls <= MaxStalls
          /\ pc' = "idle" /\ file' = FALSE
          /\ UNCHANGED <<status, clauses, readable, upload, reviewer, faults, crashes, stalls>>
      BY <1>14, <2>2 DEF Unlink, Unlinked, JobThrows
    <3>2. /\ thrown' \in 0..MaxAttempts /\ thrown' > 0
          /\ job' \in {"waiting", "failed"} /\ (job' = "waiting" => thrown' < MaxAttempts)
      <4>1. thrown' = thrown + 1 /\ job' = IF thrown' < MaxAttempts THEN "waiting" ELSE "failed"
        BY <1>14, <2>2 DEF Unlink, JobThrows
      <4> QED
        BY <3>1, <4>1
    <3>3. TypeOK'
      BY <3>1, <3>2
    <3>4. Uploaded' /\ AttemptsLeft'
      BY <2>2, <3>1, <3>2
    <3>5. WorksOnActive' /\ ReadyLate' /\ ExtractedHasFile' /\ KeptOnceParsed' /\ ReadyHasClauses'
      BY <2>2, <3>1, <3>2
    <3>6. EndsWithoutFile' /\ ThrowsForGone'
      BY <2>2, <3>1, <3>2
    <3>7. FirstHasFile' /\ CaughtUnparsed'
      BY <2>2, <3>1, <3>2
    <3> QED
      BY <3>3, <3>4, <3>5, <3>6, <3>7
  <2> QED
    BY <1>14, <2>1, <2>2 DEF Unlink
<1>15. CASE Complete
  BY <1>15 DEF Complete
<1>16. CASE Fault
  BY <1>16 DEF Fault, JobThrows
<1>17. CASE CheckStatus
  BY <1>17 DEF CheckStatus, Reviewable
<1>18. CASE MarkReviewing
  BY <1>18 DEF MarkReviewing
<1>19. CASE LoadClauses
  BY <1>19 DEF LoadClauses
<1>20. CASE ShowWaiting
  BY <1>20 DEF ShowWaiting
<1>21. CASE Remove
  BY <1>21 DEF Remove
<1>22. CASE Crash
  BY <1>22 DEF Crash
<1>23. CASE UNCHANGED vars
  BY <1>23 DEF vars
<1> QED
  BY <1>1, <1>2, <1>3, <1>4, <1>5, <1>6, <1>7, <1>8, <1>9, <1>10, <1>11, <1>12, <1>13, <1>14, <1>15, <1>16,
     <1>17, <1>18, <1>19, <1>20, <1>21, <1>22, <1>23
     DEF Next, Work, Review

\* What the processor may count on at each place holds throughout: in particular no run that a restart has not
\* brought back replaces the clauses of a parsed contract.
THEOREM JobInvHolds == Spec => []JobInv
<1> QED
  BY JobInvInit, JobInvNext, PTL DEF Spec

----------------------------------------------------------------------------
\* Columns, the job and the places of its processor keep their types; a job that is to run has attempts left.
THEOREM TypeCorrect == Spec => []TypeOK
<1>1. JobInv => TypeOK
  BY DEF JobInv
<1> QED
  BY <1>1, JobInvHolds, PTL

\* A contract shown as READY has its clauses, however many runs of the job replace them.
THEOREM ReadyIsReviewable == Spec => []ReadyHasClauses
<1>1. JobInv => ReadyHasClauses
  BY DEF JobInv
<1> QED
  BY <1>1, JobInvHolds, PTL

\* A review that reads the clauses of a contract no restart has touched finds all of them.
THEOREM ReviewsAreWhole == Spec => []ReviewSeesAllClauses
<1>1. JobInv => ReviewSeesAllClauses
  BY LimitsAssumption DEF JobInv, KeptOnceParsed, Settled, ReviewSeesAllClauses, TypeOK, LimitsAssumption
<1> QED
  BY <1>1, JobInvHolds, PTL

\* The file of a completed job is gone, unless the contract went first.
THEOREM FilesAreRemoved == Spec => []FileIsRemoved
<1>1. JobInv => FileIsRemoved
  BY DEF JobInv, EndsWithoutFile, FileIsRemoved
<1> QED
  BY <1>1, JobInvHolds, PTL

\* While no call fails and no restart finds the job at work, a contract that was parsed stays so.
THEOREM ParsedForGood == Spec => ParsedStaysParsed
<1>1. JobInv /\ [Next]_vars
        => ((status \in Parsed /\ status' \in {"PARSING", "FAILED"}) => faults + stalls > 0)
  <2> SUFFICES ASSUME JobInv, [Next]_vars, status \in Parsed, status' \in {"PARSING", "FAILED"},
                      ~(faults + stalls > 0)
               PROVE  FALSE
    OBVIOUS
  <2>1. faults = 0 /\ stalls = 0
    BY LimitsAssumption DEF JobInv, TypeOK, LimitsAssumption
  <2>2. Settled /\ status \notin {"PARSING", "FAILED", "NONE", "GONE"}
    BY DEF Settled, Present, Parsed
  <2>3. ~MarkFailed
    BY <2>1, <2>2 DEF MarkFailed, JobInv, CaughtUnparsed
  <2>4. ~MarkParsing
    BY <2>1, <2>2, LimitsAssumption
       DEF MarkParsing, JobInv, TypeOK, KeptOnceParsed, FirstHasFile, ThrowsForGone, WorksOnActive, LimitsAssumption
  <2> QED
    BY <2>2, <2>3, <2>4
       DEF Next, Work, Review, vars, queue, bounds, JobInv, Uploaded, CreateRow, Enqueue, PickUp, FindContract,
           OpenTrace, Extract, ShowProgress, ClearClauses, InsertClauses, MarkReady, CloseTrace, Unlink, Complete,
           Fault, CheckStatus, MarkReviewing, LoadClauses, ShowWaiting, Remove, Crash
<1> QED
  BY <1>1, JobInvHolds, PTL DEF Spec, ParsedStaysParsed

=============================================================================
