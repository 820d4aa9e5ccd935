------------------------------ MODULE MCWorkspace ------------------------------
(* The values TLC checks Workspace with. *)
EXTENDS Workspace, TLC

CONSTANTS i1, i2, i3, i4, u1, u2, u3, o1, o2, r1, r2, r3, t1, t2, d1, d2, p1, k1, k2

(* The values of the constants that are not model values or numbers.       *)
mcLedgerForms == {[start |-> Unchanged, end |-> 0, link |-> FALSE],
                  [start |-> 20, end |-> Unchanged, link |-> TRUE],
                  [start |-> 0, end |-> 91, link |-> FALSE]}
mcRuleForms == {[pattern |-> "a", keywords |-> <<>>], [pattern |-> Bad, keywords |-> <<"b", "a">>],
                [pattern |-> "c", keywords |-> <<"", "b">>], [pattern |-> NoPattern, keywords |-> <<"a", "b">>]}
mcClauses == {<<"c", "b", "a">>, <<"b">>, <<"a", "c", "a">>}
mcTenantOf == (d1 :> t1) @@ (d2 :> t2)
\* Days to the end of the contract and of the probation, and the days before it one is reminded.
mcStaff == {[end |-> 13, probation |-> 1, remind |-> 14], [end |-> 181, probation |-> 40, remind |-> 180],
            [end |-> 62, probation |-> 16, remind |-> 60]}
mcPlanOf == (u1 :> "FREE") @@ (u2 :> "PRO")
mcSteps == <<"sign_up", "first_review_start">>
mcDeadlined == {[end |-> 2, probation |-> 1], [end |-> 95, probation |-> 92], [end |-> 274, probation |-> 3]}
mcFindings == {[task |-> "t1", by |-> "RULE", code |-> "R1"], [task |-> "t1", by |-> "BOTH", code |-> "R0"],
               [task |-> "t1", by |-> "AGENT", code |-> "pay"], [task |-> "t2", by |-> "AGENT", code |-> "pay"]}
mcFires(t) == IF t = "t1" THEN {"R1", "R2"} ELSE {}
mcSuggests(f) == {"R3"}
mcBaseline == {[group |-> "RISK_DETECT", task |-> "t1", wants |-> {"R1"}],
               [group |-> "RAG_RECALL", task |-> "t1", wants |-> {"R1"}],
               [group |-> "FAITHFULNESS", task |-> "t1", wants |-> {}]}
mcTypedWords == <<<<"secret", "CONFIDENTIALITY">>, <<"pay", "AMOUNT">>>>
mcSeverityOf == (k1 :> "LOW") @@ (k2 :> "HIGH")
mcClauseOf == (k1 :> 0) @@ (k2 :> 1)
mcParsedClauses == ("tpl_nda" :> 2) @@ ("tpl_offer" :> 1)
\* The calls under way of every part may be exchanged: no definition tells them apart.
Symmetry == Permutations({o1, o2})
===============================================================================
