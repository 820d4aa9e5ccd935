------------------------------ MODULE Documents ------------------------------
(***************************************************************************)
(* The documents of the knowledge base: ingestion, deletion and retrieval  *)
(* (server/src/services/rag/ingest.ts, pg-store.ts and                     *)
(* knowledge/knowledge.controller.ts).  A document and its chunks are      *)
(* written by separate statements, with no transaction around them.        *)
(***************************************************************************)
EXTENDS Integers, FiniteSets

CONSTANTS
  DocIds,         \* identifiers of documents
  SeedDoc,        \* the identifier that the seed gives its document
  DocTenants,     \* tenants
  Shared,         \* tenantId null: a document of the platform
  DocOps,         \* requests under way
  MaxChunks,      \* MAX_CHUNKS
  DocFaultMax,    \* bound on failing calls and restarts
  NoDoc           \* "no such row"

(* The rows: owner, type, the count it was registered with, its chunks.    *)
DocTypes == {"LEGAL", "GENERAL"}   \* TEMPLATE is treated as LEGAL is
DocRows == [owner : DocTenants \cup {Shared}, type : DocTypes, count : 0 .. MaxChunks, chunks : 0 .. MaxChunks]

ASSUME DocumentAssumption == MaxChunks \in Nat /\ DocFaultMax \in Nat /\ NoDoc \notin DocRows

VARIABLES
  docs,           \* docs[d]: the row d with the number of its chunks, or NoDoc
  files,          \* uploaded files not removed yet, named by their request
  docOp,          \* docOp[o]: the handler o
  docFaults,      \* calls that failed
  docRaced,       \* two requests worked on one identifier
  hits            \* the last retrieval: in the platform's types? another tenant's?

documentVars == <<docs, files, docOp, docFaults, docRaced, hits>>

Stored == {d \in DocIds : docs[d] # NoDoc}
DocIdle == [pc |-> "idle"]

DocumentInit ==
  /\ docs = [d \in DocIds |-> NoDoc]
  /\ files = {}
  /\ docOp = [o \in DocOps |-> DocIdle]
  /\ docFaults = 0 /\ docRaced = FALSE
  /\ hits = [platform |-> FALSE, foreign |-> FALSE]

DocGo(o, place) == docOp' = [docOp EXCEPT ![o].pc = place]
DocEnd(o) == docOp' = [docOp EXCEPT ![o] = DocIdle]
InUse(d) == \E o \in DocOps : docOp[o].pc # "idle" /\ docOp[o].doc = d

-----------------------------------------------------------------------------
(* uploadDocument and ingestText: a fresh identifier with the tenant as    *)
(* owner; the seed uses its own one again.  A file whose content is not    *)
(* what its name says is removed and refused before that.                  *)
UploadDoc(o) ==
  /\ docOp[o] = DocIdle
  /\ \E d \in DocIds, owner \in DocTenants \cup {Shared}, type \in DocTypes :
       /\ (d = SeedDoc) <=> (owner = Shared)
       /\ owner # Shared => docs[d] = NoDoc /\ ~InUse(d)
       /\ docRaced' = (docRaced \/ InUse(d))
       /\ docOp' = [docOp EXCEPT ![o] =
            [pc |-> "clear", doc |-> d, owner |-> owner, type |-> type, size |-> 0]]
  /\ files' = files \cup {o}
  /\ UNCHANGED <<docs, docFaults, hits>>

(* Ingesting again removes the old chunks, then the old document.          *)
ClearChunks(o) ==
  LET d == docOp[o].doc IN
  /\ docOp[o].pc = "clear"
  /\ IF d \in Stored
     THEN docs' = [docs EXCEPT ![d].chunks = 0] /\ DocGo(o, "clear2")
     ELSE DocGo(o, "extract") /\ UNCHANGED docs
  /\ UNCHANGED <<files, docFaults, docRaced, hits>>

ClearDoc(o) ==
  LET d == docOp[o].doc IN
  /\ docOp[o].pc = "clear2"
  /\ IF d \in Stored
     THEN docs' = [docs EXCEPT ![d] = NoDoc] /\ DocGo(o, "extract")
     ELSE DocEnd(o) /\ UNCHANGED docs
  /\ UNCHANGED <<files, docFaults, docRaced, hits>>

(* extractText, the splitter and the vectors: the text has some number of  *)
(* pieces, of which MaxChunks are kept; no vectors is not an error.        *)
Kept(size) == IF size > MaxChunks THEN MaxChunks ELSE size

Registered(size) == Kept(size)

Extract(o) ==
  /\ docOp[o].pc = "extract"
  /\ \E size \in 1 .. MaxChunks + 1 :
       docOp' = [docOp EXCEPT ![o] = [@ EXCEPT !.pc = "document", !.size = size]]
  /\ UNCHANGED <<docs, files, docFaults, docRaced, hits>>

CreateDocument(o) ==
  LET op == docOp[o] IN
  /\ op.pc = "document"
  /\ IF op.doc \in Stored
     THEN DocEnd(o) /\ UNCHANGED docs
     ELSE /\ docs' = [docs EXCEPT ![op.doc] =
               [owner |-> op.owner, type |-> op.type, count |-> Registered(op.size), chunks |-> 0]]
          /\ DocGo(o, "chunks")
  /\ UNCHANGED <<files, docFaults, docRaced, hits>>

CreateChunks(o) ==
  LET op == docOp[o] IN
  /\ op.pc = "chunks"
  /\ IF op.doc \in Stored
     THEN docs' = [docs EXCEPT ![op.doc].chunks = Kept(op.size)] /\ DocGo(o, "unlink")
     ELSE DocEnd(o) /\ UNCHANGED docs
  /\ UNCHANGED <<files, docFaults, docRaced, hits>>

UnlinkUpload(o) ==
  /\ docOp[o].pc = "unlink"
  /\ files' = files \ {o}
  /\ DocEnd(o)
  /\ UNCHANGED <<docs, docFaults, docRaced, hits>>

(* deleteDocument: a document of the tenant itself, its chunks first.      *)
DropDoc(o) ==
  /\ docOp[o] = DocIdle
  /\ \E by \in DocTenants, d \in Stored :
       /\ docs[d].owner = by
       /\ docRaced' = (docRaced \/ InUse(d))
       /\ docOp' = [docOp EXCEPT ![o] = [pc |-> "dropChunks", doc |-> d]]
  /\ UNCHANGED <<docs, files, docFaults, hits>>

DropChunks(o) ==
  LET d == docOp[o].doc IN
  /\ docOp[o].pc = "dropChunks"
  /\ docs' = IF d \in Stored THEN [docs EXCEPT ![d].chunks = 0] ELSE docs
  /\ DocGo(o, "dropDoc")
  /\ UNCHANGED <<files, docFaults, docRaced, hits>>

DropRow(o) ==
  LET d == docOp[o].doc IN
  /\ docOp[o].pc = "dropDoc"
  /\ docs' = [docs EXCEPT ![d] = NoDoc]
  /\ DocEnd(o)
  /\ UNCHANGED <<files, docFaults, docRaced, hits>>

(* Any awaited call throws, or the process restarts: what is written stays. *)
DocFails(o) ==
  /\ docOp[o].pc # "idle" /\ docFaults < DocFaultMax
  /\ docFaults' = docFaults + 1
  /\ DocEnd(o)
  /\ UNCHANGED <<docs, files, docRaced, hits>>

-----------------------------------------------------------------------------
(* retrieveFromPg: documents by type; only the types of the platform are   *)
(* not filtered by tenant.  The best of those with chunks are returned.    *)
VisibleByType(by, type, d) == d \in Stored /\ (type = "ALL" \/ docs[d].type = type)

Visible(by, type, d) ==
  /\ d \in Stored
  /\ type # "ALL" => docs[d].type = type
  /\ type # "LEGAL" => docs[d].owner \in {by, Shared}

Retrieve ==
  /\ \E by \in DocTenants \cup {Shared}, type \in DocTypes \cup {"ALL"} :
       \E found \in SUBSET {d \in DocIds : Visible(by, type, d) /\ docs[d].chunks > 0} :
         hits' = [platform |-> type = "LEGAL",
                  foreign |-> \E d \in found : docs[d].owner \notin {by, Shared}]
  /\ UNCHANGED <<docs, files, docOp, docFaults, docRaced>>

DocumentNext ==
  \/ Retrieve
  \/ \E o \in DocOps :
       \/ UploadDoc(o) \/ ClearChunks(o) \/ ClearDoc(o) \/ Extract(o) \/ CreateDocument(o)
       \/ CreateChunks(o) \/ UnlinkUpload(o) \/ DropDoc(o) \/ DropChunks(o) \/ DropRow(o)
       \/ DocFails(o)

-----------------------------------------------------------------------------
DocumentTypeOK ==
  /\ \A d \in Stored : /\ docs[d].owner \in DocTenants \cup {Shared}
                       /\ docs[d].chunks \in 0 .. MaxChunks
  /\ files \subseteq DocOps /\ docFaults \in 0 .. DocFaultMax

(* A document that no request works on has all the chunks it says it has   *)
(* and left no file behind, unless a call failed in between or two         *)
(* requests worked on it.                                                  *)
DocumentsWholeUnlessBroken ==
  docFaults = 0 /\ ~docRaced =>
    /\ \A d \in Stored : ~InUse(d) => docs[d].chunks = docs[d].count
    /\ \A o \in files : docOp[o].pc # "idle"

(* What a tenant's question is answered from is its own or the platform's, *)
(* unless it asks in the platform's types.                                 *)
RetrievalInScope == hits.foreign => hits.platform
==============================================================================
