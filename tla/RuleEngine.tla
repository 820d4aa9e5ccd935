----------------------------- MODULE RuleEngine -----------------------------
(***************************************************************************)
(* Review rules: the engine (server/src/contract/rules/rule.engine.ts) and *)
(* the two consoles that store rules for it, the platform's                *)
(* (admin/rule-admin.service.ts) and a tenant's playbook                   *)
(* (playbook/playbook.service.ts).  A clause is a sequence of words, a      *)
(* regular expression a word it looks for, or Bad when it does not compile. *)
(***************************************************************************)
EXTENDS Integers, Sequences, FiniteSets, SequencesExt

CONSTANTS
  Words,          \* words of a clause
  Empty,          \* the empty keyword
  NoPattern, Bad, \* no regular expression; one that does not compile
  RuleForms,      \* patterns and keywords a form may carry
  Clauses,        \* contents of clauses
  NoRule          \* "no such row"

(* What a form is: a word or none as its expression, which may not         *)
(* compile; keywords of which some may be empty.                           *)
Forms == [pattern : Words \cup {NoPattern, Bad}, keywords : Seq(Words \cup {Empty})]
ASSUME EngineAssumption ==
  /\ RuleForms \subseteq Forms /\ Clauses \subseteq Seq(Words)
  /\ Empty \notin Words /\ {NoPattern, Bad} \cap Words = {} /\ NoPattern # Bad
  /\ NoRule \notin Forms

VARIABLES
  general,        \* a row of review_rules: what validate returned, or NoRule
  custom,         \* a row of playbook_rules: what cleanDto returned, or NoRule
  trial           \* the clause that was tried last, and the answer

engineVars == <<general, custom, trial>>

-----------------------------------------------------------------------------
(* The engine: the first place where the rule hits, 0 when it does not.    *)
IndexOf(content, word) ==
  IF Contains(content, word)
  THEN CHOOSE i \in DOMAIN content :
         content[i] = word /\ \A j \in 1 .. i - 1 : content[j] # word
  ELSE 0

Compiles(form) == form.pattern \notin {NoPattern, Bad}

RuleHits(form, content) ==
  LET byPattern == IF Compiles(form) THEN IndexOf(content, form.pattern) ELSE 0
      words == ToSet(form.keywords) IN
  CASE byPattern > 0 -> byPattern
    [] /\ byPattern = 0 /\ words # {}
       /\ \A w \in words : w # Empty /\ Contains(content, w)
         -> IndexOf(content, Head(form.keywords))
    [] OTHER -> 0

(* tryRuleOnText: every place, and the way in which the rule hits.         *)
TryRuleOnText(form, content) ==
  LET places == {i \in DOMAIN content : Compiles(form) /\ content[i] = form.pattern}
      words == ToSet(form.keywords) \ {Empty} IN
  CASE places # {} -> [hit |-> TRUE, mode |-> "pattern", matches |-> places]
    [] /\ places = {} /\ words # {} /\ \A w \in words : Contains(content, w)
         -> [hit |-> TRUE, mode |-> "keywords", matches |-> {IndexOf(content, w) : w \in words}]
    [] OTHER -> [hit |-> FALSE, mode |-> "none", matches |-> {}]

(* filter(Boolean): the keywords that are not empty, in their order.       *)
Filled(keywords) ==
  LET at == {i \in DOMAIN keywords : keywords[i] # Empty}
  IN [n \in 1 .. Cardinality(at) |->
        keywords[CHOOSE i \in at : Cardinality({j \in at : j <= i}) = n]]

(* validate (rule-admin) refuses an expression that does not compile and   *)
(* drops empty keywords; cleanDto (playbook) refuses empty keywords and a  *)
(* rule that could never hit.                                              *)
Validate(form) ==
  IF form.pattern = Bad THEN {}
  ELSE {[form EXCEPT !.keywords = Filled(form.keywords)]}

CleanRule(form) ==
  IF \/ form.pattern = Bad \/ Contains(form.keywords, Empty)
     \/ form.pattern = NoPattern /\ form.keywords = <<>>
  THEN {} ELSE {form}

(* parseRule: the model's draft, its expression dropped when it is bad.    *)
ParseRule(form) == [form EXCEPT !.pattern = IF form.pattern = Bad THEN NoPattern ELSE form.pattern]

-----------------------------------------------------------------------------
NoTrial == [hit |-> FALSE, mode |-> "none", matches |-> {}]

EngineInit == general = NoRule /\ custom = NoRule /\ trial = NoTrial

(* create and update of a platform rule write what validate returns.       *)
SaveGeneral ==
  /\ \E form \in RuleForms : \E stored \in Validate(form) : general' = stored
  /\ UNCHANGED <<custom, trial>>

RemoveGeneral ==
  /\ general # NoRule /\ general' = NoRule
  /\ UNCHANGED <<custom, trial>>

(* createRule and updateRule of the playbook, with a form or with the      *)
(* draft that parseRule made of it.                                        *)
SaveCustom ==
  /\ \E form \in RuleForms :
       \E stored \in CleanRule(form) \cup CleanRule(ParseRule(form)) : custom' = stored
  /\ UNCHANGED <<general, trial>>

(* tryRule and testRule store nothing; they also take rules that are not   *)
(* saved yet, tryRule after dropping empty keywords.                       *)
TryRule ==
  /\ \E content \in Clauses, form \in RuleForms \cup ({general} \ {NoRule}) :
       trial' = TryRuleOnText([form EXCEPT !.keywords = Filled(form.keywords)], content)
  /\ UNCHANGED <<general, custom>>

TestRule ==
  /\ \E content \in Clauses, form \in RuleForms :
       /\ form.pattern # NoPattern \/ form.keywords # <<>>
       /\ trial' = IF form.pattern = Bad \/ Contains(form.keywords, Empty)
                   THEN NoTrial ELSE TryRuleOnText(form, content)
  /\ UNCHANGED <<general, custom>>

EngineNext == SaveGeneral \/ RemoveGeneral \/ SaveCustom \/ TryRule \/ TestRule

-----------------------------------------------------------------------------
EngineTypeOK ==
  /\ \A form \in {general, custom} \ {NoRule} : form.pattern \in Words \cup {NoPattern}
  /\ trial.mode \in {"none", "pattern", "keywords"}

(* The trial run of the consoles and the engine of the review are two      *)
(* implementations: for every rule that the two validations let into the   *)
(* tables they agree on every clause, and the place the engine quotes is   *)
(* among those the trial shows.                                            *)
Agree(form) ==
  \A content \in Clauses :
    LET tried == TryRuleOnText(form, content)
        at == RuleHits(form, content) IN
    /\ tried.hit <=> at > 0
    /\ at > 0 => at \in tried.matches

TrialMatchesReview == \A form \in {general, custom} \ {NoRule} : Agree(form)
=============================================================================
