------------------------------ MODULE Sessions ------------------------------
(***************************************************************************)
(* What the server promises about login sessions: a session has one        *)
(* current refresh token, which is replaced by a token never used before   *)
(* each time it is redeemed, and a session that was ended stays ended.     *)
(* auth.service.ts keeps this promise with rows of refresh_tokens; the     *)
(* module RefreshTokens shows how.                                         *)
(***************************************************************************)
CONSTANTS Logins, Tokens

VARIABLES
  current,   \* current[s]: the token of session s, {} before it opens and after it ends
  opened,    \* the sessions that have been opened
  used       \* the tokens that have been given out

vars == <<current, opened, used>>

Init ==
  /\ current = [s \in Logins |-> {}]
  /\ opened = {}
  /\ used = {}

Open(s, n) ==
  /\ s \notin opened
  /\ n \notin used
  /\ current' = [current EXCEPT ![s] = {n}]
  /\ opened' = opened \cup {s}
  /\ used' = used \cup {n}

Rotate(s, t, n) ==
  /\ current[s] = {t}
  /\ n \notin used
  /\ current' = [current EXCEPT ![s] = {n}]
  /\ used' = used \cup {n}
  /\ UNCHANGED opened

End(S) ==
  /\ current' = [s \in Logins |-> IF s \in S THEN {} ELSE current[s]]
  /\ UNCHANGED <<opened, used>>

Next ==
  \/ \E s \in Logins, n \in Tokens : Open(s, n)
  \/ \E s \in Logins, t, n \in Tokens : Rotate(s, t, n)
  \/ \E S \in SUBSET Logins : End(S)

Spec == Init /\ [][Next]_vars
=============================================================================
