------------------------------ MODULE Playbook ------------------------------
(***************************************************************************)
(* The playbook of one tenant (server/src/playbook/playbook.service.ts):   *)
(* rules written by hand or copied from an industry pack, and the counts   *)
(* of their hits, which the node rule_scan of every review writes.         *)
(***************************************************************************)
EXTENDS Integers, FiniteSets

CONSTANTS
  RuleIds,        \* rows of playbook_rules
  RuleOps,        \* requests under way
  RuleEdits,      \* bound on the edits
  Scans,          \* reviews whose rule_scan node runs
  PackTitles,     \* titles of the industry pack
  OwnTitle,       \* title of a rule written by hand
  Unwritten,      \* a row not written yet
  Deleted         \* a row that was deleted: its identifier is not used again

BookRows ==
  [title : PackTitles \cup {OwnTitle}, source : {"MANUAL", "SEED_PACK"}, enabled : BOOLEAN, hits : Nat]

ASSUME PlaybookAssumption ==
  /\ IsFiniteSet(RuleIds) /\ IsFiniteSet(Scans)
  /\ Unwritten \notin BookRows \cup {Deleted}

VARIABLES
  book,           \* book[i]: the row i
  found,          \* risks with detectedBy PLAYBOOK: pairs of review and rule
  rop,            \* rop[o]: the handler o
  edits,          \* edits so far
  scan,           \* scan[t]: the node rule_scan of review t
  packRaced       \* two copies of the pack overlapped, or a title was edited

playbookVars == <<book, found, rop, edits, scan, packRaced>>

BookRules == {i \in RuleIds : book[i] \notin {Unwritten, Deleted}}
FreshRows == {i \in RuleIds : book[i] = Unwritten}

PlaybookInit ==
  /\ book = [i \in RuleIds |-> Unwritten]
  /\ found = {}
  /\ rop = [o \in RuleOps |-> [pc |-> "idle"]]
  /\ scan = [t \in Scans |-> [pc |-> "idle"]]
  /\ edits = 0 /\ packRaced = FALSE

RuleEnd(o) == rop' = [rop EXCEPT ![o] = [pc |-> "idle"]]

BookRow(title, source) ==
  [title |-> title, source |-> source, enabled |-> TRUE, hits |-> 0]

CreateRule ==
  /\ edits < RuleEdits /\ edits' = edits + 1
  /\ \E i \in FreshRows : book' = [book EXCEPT ![i] = BookRow(OwnTitle, "MANUAL")]
  /\ UNCHANGED <<found, rop, scan, packRaced>>

(* update, toggle and delete find the row, then write it by its id.        *)
FindRule(o) ==
  /\ rop[o].pc = "idle"
  /\ edits < RuleEdits /\ edits' = edits + 1
  /\ \E i \in BookRules, kind \in {"title", "toggle", "delete"} :
       rop' = [rop EXCEPT ![o] = [pc |-> "write", kind |-> kind, id |-> i]]
  /\ UNCHANGED <<book, found, scan, packRaced>>

WriteRule(o) ==
  LET op == rop[o] IN
  /\ op.pc = "write"
  /\ IF op.id \notin BookRules THEN UNCHANGED <<book, packRaced>>
     ELSE /\ book' = [book EXCEPT ![op.id] =
               CASE op.kind = "title"  -> [@ EXCEPT !.title = OwnTitle]
                 [] op.kind = "toggle" -> [@ EXCEPT !.enabled = ~book[op.id].enabled]
                 [] op.kind = "delete" -> Deleted]
          /\ packRaced' = (packRaced \/ op.kind = "title")
  /\ RuleEnd(o)
  /\ UNCHANGED <<found, edits, scan>>

(* enablePack reads the titles the tenant has, then inserts the others in  *)
(* one statement.                                                          *)
SeedTitles == {book[i].title : i \in {j \in BookRules : book[j].source = "SEED_PACK"}}

ReadPack(o) ==
  /\ rop[o].pc = "idle"
  /\ rop' = [rop EXCEPT ![o] = [pc |-> "copy", fresh |-> PackTitles \ SeedTitles]]
  /\ UNCHANGED <<book, found, edits, scan, packRaced>>

CopyPack(o) ==
  LET fresh == rop[o].fresh IN
  /\ rop[o].pc = "copy"
  /\ \E ids \in SUBSET FreshRows :
       /\ Cardinality(ids) = Cardinality(fresh)
       /\ \E title \in [ids -> fresh] :
            /\ {title[i] : i \in ids} = fresh
            /\ book' = [i \in RuleIds |->
                 IF i \in ids THEN BookRow(title[i], "SEED_PACK") ELSE book[i]]
  /\ packRaced' = (packRaced \/ fresh \cap SeedTitles # {})
  /\ RuleEnd(o)
  /\ UNCHANGED <<found, edits, scan>>

-----------------------------------------------------------------------------
(* The node rule_scan reads the enabled rules, replaces the risks of its   *)
(* review and adds one to the count of each rule that hit, however many    *)
(* clauses it hit.                                                         *)
ReadRules(t) ==
  /\ scan[t].pc = "idle"
  /\ \E hit \in SUBSET {i \in BookRules : book[i].enabled} :
       scan' = [scan EXCEPT ![t] = [pc |-> "insert", hit |-> hit]]
  /\ UNCHANGED <<book, found, rop, edits, packRaced>>

InsertRisks(t) ==
  /\ scan[t].pc = "insert"
  /\ found' = {f \in found : f[1] # t} \cup ({t} \X scan[t].hit)
  /\ scan' = [scan EXCEPT ![t].pc = "count"]
  /\ UNCHANGED <<book, rop, edits, packRaced>>

CountAtOnce(t) == [i \in RuleIds |->
  IF i \in scan[t].hit \cap BookRules THEN [book[i] EXCEPT !.hits = @ + 1] ELSE book[i]]

CountHits(t) ==
  /\ scan[t].pc = "count"
  /\ book' = CountAtOnce(t)
  /\ scan' = [scan EXCEPT ![t] = [pc |-> "done"]]
  /\ UNCHANGED <<found, rop, edits, packRaced>>

(* countHits30d: the reviews with a risk of the rule.                      *)
CountHits30d(i) == Cardinality({t \in Scans : <<t, i>> \in found})

PlaybookNext ==
  \/ CreateRule
  \/ \E o \in RuleOps : FindRule(o) \/ WriteRule(o) \/ ReadPack(o) \/ CopyPack(o)
  \/ \E t \in Scans : ReadRules(t) \/ InsertRisks(t) \/ CountHits(t)

-----------------------------------------------------------------------------
PlaybookTypeOK ==
  /\ \A i \in BookRules : /\ book[i].source \in {"MANUAL", "SEED_PACK"}
                      /\ book[i].hits \in 0 .. Cardinality(Scans)
  /\ found \subseteq Scans \X RuleIds

(* A rule's counter is never behind the reviews that list it, once their   *)
(* scans are over, although scans of two reviews write it at once.         *)
HitsAreCounted ==
  \A i \in BookRules :
    (\A t \in Scans : scan[t].pc # "count") => book[i].hits >= CountHits30d(i)

(* Enabling a pack again copies nothing twice, unless two requests overlap *)
(* or a rule of the pack was given another title.                          *)
PackOnceUnlessRaced ==
  packRaced \/ \A i, j \in {k \in BookRules : book[k].source = "SEED_PACK"} :
                 book[i].title = book[j].title => i = j
=============================================================================
