------------------------------- MODULE Revision -------------------------------
(***************************************************************************)
(* The revision desk of one contract                                       *)
(* (server/src/contract/review/revision.service.ts) and its cached facts   *)
(* (structured.service.ts).  Every handler loads the risks of the latest   *)
(* review, may wait for the model, and writes row by row.                  *)
(***************************************************************************)
EXTENDS Integers, FiniteSets

CONSTANTS
  RiskCount,      \* risks of the latest review, numbered in their order
  FirstBatch,     \* risks that one call of the model is given
  RevOps,         \* requests under way
  RevTexts        \* bound on the texts the model has written

ASSUME RevisionAssumption == RevTexts \in Nat

VARIABLES
  rev,            \* rev[r]: columns rewritten (0 is null) and revisionStatus
  kept,           \* the contract was not deleted
  deepAccess,     \* the plan is deep, or the review was paid with a coupon
  texts,          \* texts written so far
  facts,          \* contract.structuredInfo, 0 when null
  revOp,          \* revOp[o]: the handler o
  revRaced        \* a text was written on rows that changed since they were read

revisionVars == <<rev, kept, deepAccess, texts, facts, revOp, revRaced>>

DeskRisks == 1 .. RiskCount
RevStatus == {"NONE", "PENDING", "ACCEPTED", "REJECTED"}
RevIdle == [pc |-> "idle"]

RevisionInit ==
  /\ rev = [r \in DeskRisks |-> [text |-> 0, status |-> "NONE"]]
  /\ kept = TRUE /\ deepAccess = TRUE
  /\ texts = 0 /\ facts = 0
  /\ revOp = [o \in RevOps |-> RevIdle]
  /\ revRaced = FALSE

RevEnd(o) == revOp' = [revOp EXCEPT ![o] = RevIdle]

(* A paid month ends, or the contract is deleted with its risks.           *)
DeepEnds ==
  /\ deepAccess /\ deepAccess' = FALSE
  /\ UNCHANGED <<rev, kept, texts, facts, revOp, revRaced>>

DeskRemoved ==
  /\ kept /\ kept' = FALSE
  /\ UNCHANGED <<rev, deepAccess, texts, facts, revOp, revRaced>>

-----------------------------------------------------------------------------
(* generate: the risks without a text, all of them when it is forced; the  *)
(* model is given the first FirstBatch of them.                            *)
AllTargets(force) == DeskRisks

Targets(force) == {r \in DeskRisks : force \/ rev[r].text = 0}

BlankRows == {r \in DeskRisks : rev[r].text = 0}

BatchOf(targets) == {r \in targets : Cardinality({s \in targets : s < r}) < FirstBatch}

Generate(o) ==
  /\ revOp[o] = RevIdle /\ kept /\ deepAccess
  /\ \E force \in BOOLEAN :
       /\ Targets(force) # {}
       /\ revOp' = [revOp EXCEPT ![o] =
            [pc |-> "model", forced |-> force, batch |-> BatchOf(Targets(force)), blank |-> BlankRows]]
  /\ UNCHANGED <<rev, kept, deepAccess, texts, facts, revRaced>>

(* regenerate: one risk that may or may not have a text already.           *)
Regenerate(o) ==
  /\ revOp[o] = RevIdle /\ kept /\ deepAccess
  /\ \E r \in DeskRisks :
       revOp' = [revOp EXCEPT ![o] =
         [pc |-> "model", forced |-> TRUE, batch |-> {r}, blank |-> {}]]
  /\ UNCHANGED <<rev, kept, deepAccess, texts, facts, revRaced>>

(* The model answers with texts for some of the risks, or not at all (no   *)
(* key, no quota, an error): then nothing is written.                      *)
ModelWrites(o) ==
  /\ revOp[o].pc = "model"
  /\ \E items \in SUBSET revOp[o].batch :
       revOp' = [revOp EXCEPT ![o] = IF items = {} THEN RevIdle
                                     ELSE [@ EXCEPT !.pc = "write", !.batch = items]]
  /\ UNCHANGED <<rev, kept, deepAccess, texts, facts, revRaced>>

(* One row after the other; a row that is gone throws and leaves the rest. *)
WriteText(o) ==
  LET op == revOp[o] IN
  /\ op.pc = "write" /\ texts < RevTexts
  /\ \E r \in op.batch :
       /\ kept => \A s \in op.batch : r <= s
       /\ IF ~kept THEN RevEnd(o) /\ UNCHANGED <<rev, texts, revRaced>>
          ELSE /\ texts' = texts + 1
               /\ rev' = [rev EXCEPT ![r] = [text |-> texts + 1, status |-> "PENDING"]]
               /\ revRaced' = (revRaced \/ (r \in op.blank /\ rev[r].text # 0))
               /\ revOp' = [revOp EXCEPT ![o] = IF op.batch = {r} THEN RevIdle
                                                ELSE [op EXCEPT !.batch = op.batch \ {r}]]
  /\ UNCHANGED <<kept, deepAccess, facts>>

-----------------------------------------------------------------------------
(* setStatus: a risk that has a text gets the status by its identifier;    *)
(* acceptAll: those that had one when they were loaded.                    *)
LoadDecision(o) ==
  /\ revOp[o] = RevIdle /\ kept
  /\ LET written == {r \in DeskRisks : rev[r].text # 0} IN
     \/ \E r \in written, status \in RevStatus \ {"NONE"} :
          revOp' = [revOp EXCEPT ![o] = [pc |-> "decide", rows |-> {r}, status |-> status]]
     \/ /\ deepAccess /\ written # {}
        /\ revOp' = [revOp EXCEPT ![o] = [pc |-> "decide", rows |-> written, status |-> "ACCEPTED"]]
  /\ UNCHANGED <<rev, kept, deepAccess, texts, facts, revRaced>>

WriteDecision(o) ==
  LET op == revOp[o] IN
  /\ op.pc = "decide"
  /\ rev' = IF kept THEN [r \in DeskRisks |->
                IF r \in op.rows THEN [rev[r] EXCEPT !.status = op.status] ELSE rev[r]]
            ELSE rev
  /\ RevEnd(o)
  /\ UNCHANGED <<kept, deepAccess, texts, facts, revRaced>>

-----------------------------------------------------------------------------
(* getOrExtract: the cached facts, or the model's, written over the cache. *)
ReadFacts(o) ==
  /\ revOp[o] = RevIdle /\ kept
  /\ \E force \in BOOLEAN :
       IF ~force /\ facts # 0 THEN UNCHANGED revOp
       ELSE revOp' = [revOp EXCEPT ![o] = [pc |-> "extract", forced |-> force, blank |-> facts = 0]]
  /\ UNCHANGED <<rev, kept, deepAccess, texts, facts, revRaced>>

WriteFacts(o) ==
  LET op == revOp[o] IN
  /\ op.pc = "extract"
  /\ IF kept /\ texts < RevTexts
     THEN /\ facts' = texts + 1 /\ texts' = texts + 1
          /\ revRaced' = (revRaced \/ (op.blank /\ facts # 0))
     ELSE UNCHANGED <<facts, texts, revRaced>>
  /\ RevEnd(o)
  /\ UNCHANGED <<rev, kept, deepAccess>>

RevisionNext ==
  \/ DeepEnds \/ DeskRemoved
  \/ \E o \in RevOps :
       \/ Generate(o) \/ Regenerate(o) \/ ModelWrites(o) \/ WriteText(o)
       \/ LoadDecision(o) \/ WriteDecision(o) \/ ReadFacts(o) \/ WriteFacts(o)

-----------------------------------------------------------------------------
RevisionTypeOK ==
  /\ \A r \in DeskRisks : rev[r].text \in 0 .. texts /\ rev[r].status \in RevStatus
  /\ texts \in 0 .. RevTexts /\ facts \in 0 .. texts
  /\ kept \in BOOLEAN /\ deepAccess \in BOOLEAN /\ revRaced \in BOOLEAN

(* A text, and the decision taken on it, is replaced only by a request     *)
(* that asks for this risk again or forces all of them; a plain generation *)
(* for the risks that have none leaves the others alone, unless another    *)
(* request wrote the row while the model was thinking.  The same holds of  *)
(* the cached facts.                                                       *)
Overwrites(o) == revOp[o].pc \in {"write", "extract"} /\ revOp[o].forced

RewritesAreAsked ==
  /\ \A r \in DeskRisks :
       rev[r].text # 0 /\ rev'[r].text # rev[r].text => revRaced' \/ \E o \in RevOps : Overwrites(o)
  /\ facts # 0 /\ facts' # facts => revRaced' \/ \E o \in RevOps : Overwrites(o)

(* What the export takes over, accepted rows with a text, never contains a *)
(* row without one, however decisions and generations interleave.          *)
AcceptedHasText == \A r \in DeskRisks : rev[r].status # "NONE" => rev[r].text # 0
===============================================================================
