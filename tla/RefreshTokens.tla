--------------------------- MODULE RefreshTokens ----------------------------
(***************************************************************************)
(* The refresh tokens of one user (auth.service.ts): login issues a row,   *)
(* refreshToken rotates it in a transaction with a conditional claim, and  *)
(* a replayed token or a changed password revokes every live row.          *)
(*                                                                         *)
(* Each call is a handler; handlers interleave at every await. Postgres    *)
(* runs at READ COMMITTED: a row written by an open transaction is locked, *)
(* an inserted row is invisible until commit, and an UPDATE works on the   *)
(* rows that were visible when it started, waiting for locked ones and     *)
(* testing its condition again on their committed value.                   *)
(*                                                                         *)
(* A definition that stands before another one and adds a word to its name *)
(* is the form a plausible bug would give it (PROJECT.json, "mutants");    *)
(* no action uses it.                                                      *)
(***************************************************************************)
CONSTANTS
  Tokens,     \* rows of refresh_tokens, by the token they hold the hash of
  Logins,     \* calls of login; also the name of the session one opens
  Refreshes,  \* calls of refreshToken
  Changes     \* calls of changePassword

Calls == Logins \cup Refreshes \cup Changes
None == "none"

ASSUME CallsDistinct == /\ Logins \cap Refreshes = {}
                        /\ Logins \cap Changes = {}
                        /\ Refreshes \cap Changes = {}
ASSUME NoneIsNoToken == None \notin Tokens /\ None \notin Logins

VARIABLES
  row,         \* row[t]: "unissued", "pending" (uncommitted), "live" or "revoked"
  replacedBy,  \* replacedBy[t]: column replacedById
  expired,     \* tokens past their expiry
  active,      \* the user's status is ACTIVE
  pc,          \* where each call stands
  stored,      \* stored[c]: the row that refresh call c looked up
  newRow,      \* newRow[c]: the row that refresh call c inserts
  snapshot,    \* snapshot[c]: the rows a revoking UPDATE started with
  parent,      \* history: the token that was rotated into this one
  session,     \* history: the login whose session the token belongs to
  exposed      \* history: the sessions that were live when call c set out to end them

table   == <<row, replacedBy>>
history == <<parent, session>>
vars    == <<table, expired, active, pc, stored, newRow, snapshot, history, exposed>>

Issued == {"live", "revoked"}
Live == {t \in Tokens : row[t] = "live"}
LiveSessions == {session[t] : t \in Live}

Goto(c, label) == pc' = [pc EXCEPT ![c] = label]

Init ==
  /\ row = [t \in Tokens |-> "unissued"]
  /\ replacedBy = [t \in Tokens |-> None]
  /\ expired = {}
  /\ active = TRUE
  /\ pc = [c \in Calls |-> "idle"]
  /\ stored = [c \in Calls |-> None]
  /\ newRow = [c \in Calls |-> None]
  /\ snapshot = [c \in Calls |-> {}]
  /\ parent = [t \in Tokens |-> None]
  /\ session = [t \in Tokens |-> None]
  /\ exposed = [c \in Calls |-> {}]

-----------------------------------------------------------------------------
(* login: validateUser, or an email code, then issueTokens *)

CheckCredentials(l) ==
  /\ pc[l] = "idle"
  /\ Goto(l, IF active THEN "issue" ELSE "rejected")
  /\ UNCHANGED <<table, expired, active, stored, newRow, snapshot, history, exposed>>

IssueTokens(l) ==
  /\ pc[l] = "issue"
  /\ \E n \in Tokens :
       /\ row[n] = "unissued"
       /\ row' = [row EXCEPT ![n] = "live"]
       /\ session' = [session EXCEPT ![n] = l]
  /\ Goto(l, "done")
  /\ UNCHANGED <<replacedBy, expired, active, stored, newRow, snapshot, parent, exposed>>

-----------------------------------------------------------------------------
(* refreshToken *)

(* The signature expires with the row and is verified first; then findUnique *)
(* by hash, where a revoked row is a replay.                                *)
Replayed(t) == row[t] = "revoked" /\ t \notin expired

LookUp(c) ==
  /\ pc[c] = "idle"
  /\ \E t \in Tokens :
       /\ row[t] \in Issued
       /\ stored' = [stored EXCEPT ![c] = t]
       /\ Goto(c, CASE t \in expired -> "rejected"
                    [] t \notin expired /\ Replayed(t) -> "revoke"
                    [] OTHER          -> "user")
       /\ exposed' = [exposed EXCEPT ![c] = IF Replayed(t) THEN LiveSessions ELSE {}]
  /\ UNCHANGED <<table, expired, active, newRow, snapshot, history>>

CheckUser(c) ==
  /\ pc[c] = "user"
  /\ Goto(c, IF active THEN "insert" ELSE "rejected")
  /\ UNCHANGED <<table, expired, active, stored, newRow, snapshot, history, exposed>>

(* the transaction inserts the successor *)
Insert(c) ==
  /\ pc[c] = "insert"
  /\ \E n \in Tokens :
       /\ row[n] = "unissued"
       /\ row' = [row EXCEPT ![n] = "pending"]
       /\ newRow' = [newRow EXCEPT ![c] = n]
  /\ Goto(c, "claim")
  /\ UNCHANGED <<replacedBy, expired, active, stored, snapshot, history, exposed>>

(* the old row is locked from a successful claim to the end of its transaction *)
Locked(t) == \E c \in Refreshes : pc[c] = "commit" /\ stored[c] = t

RollBackMarked(c) ==
  /\ row' = [row EXCEPT ![newRow[c]] = "rolled back"]
  /\ Goto(c, "rejected")

RollBack(c) ==
  /\ row' = [row EXCEPT ![newRow[c]] = "unissued"]
  /\ Goto(c, "rejected")

ClaimMatchesAny(t) == TRUE
ClaimMatches(t) == row[t] = "live"

(* updateMany where revokedAt is null: no row claimed rolls the insert back *)
Claim(c) ==
  /\ pc[c] = "claim"
  /\ ~Locked(stored[c])
  /\ IF ClaimMatches(stored[c])
     THEN Goto(c, "commit") /\ UNCHANGED row
     ELSE RollBack(c)
  /\ UNCHANGED <<replacedBy, expired, active, stored, newRow, snapshot, history, exposed>>

RotatedStaysLive(c) == [row EXCEPT ![newRow[c]] = "live"]
Rotated(c) == [row EXCEPT ![newRow[c]] = "live", ![stored[c]] = "revoked"]

Commit(c) ==
  /\ pc[c] = "commit"
  /\ row' = Rotated(c)
  /\ replacedBy' = [replacedBy EXCEPT ![stored[c]] = newRow[c]]
  /\ parent' = [parent EXCEPT ![newRow[c]] = stored[c]]
  /\ session' = [session EXCEPT ![newRow[c]] = session[stored[c]]]
  /\ Goto(c, "done")
  /\ UNCHANGED <<expired, active, stored, newRow, snapshot, exposed>>

(* the transaction is rolled back: timeout, lost connection, restart *)
Abort(c) ==
  /\ pc[c] \in {"claim", "commit"}
  /\ RollBack(c)
  /\ UNCHANGED <<replacedBy, expired, active, stored, newRow, snapshot, history, exposed>>

-----------------------------------------------------------------------------
(* changePassword, and revokeAllUserTokens for it and for a replay *)

UpdatePassword(p) ==
  /\ pc[p] = "idle"
  /\ exposed' = [exposed EXCEPT ![p] = LiveSessions]
  /\ Goto(p, "revoke")
  /\ UNCHANGED <<table, expired, active, stored, newRow, snapshot, history>>

RevokeBegin(c) ==
  /\ pc[c] = "revoke"
  /\ snapshot' = [snapshot EXCEPT ![c] = Live]
  /\ Goto(c, "revoking")
  /\ UNCHANGED <<table, expired, active, stored, newRow, history, exposed>>

RevokeEnd(c) ==
  /\ pc[c] = "revoking"
  /\ \A t \in snapshot[c] : ~Locked(t)
  /\ row' = [t \in Tokens |-> IF t \in snapshot[c] THEN "revoked" ELSE row[t]]
  /\ Goto(c, "ended")
  /\ UNCHANGED <<replacedBy, expired, active, stored, newRow, snapshot, history, exposed>>

-----------------------------------------------------------------------------
(* time, and the administrator *)

Expire(t) ==
  /\ row[t] \in Issued
  /\ expired' = expired \cup {t}
  /\ UNCHANGED <<table, active, pc, stored, newRow, snapshot, history, exposed>>

(* admin.controller.ts and team.service.ts set DISABLED and leave the tokens *)
Disable ==
  /\ active
  /\ active' = FALSE
  /\ UNCHANGED <<table, expired, pc, stored, newRow, snapshot, history, exposed>>

Next ==
  \/ \E l \in Logins : CheckCredentials(l) \/ IssueTokens(l)
  \/ \E c \in Refreshes : LookUp(c) \/ CheckUser(c) \/ Insert(c) \/ Claim(c)
                          \/ Commit(c) \/ Abort(c)
  \/ \E p \in Changes : UpdatePassword(p)
  \/ \E c \in Refreshes \cup Changes : RevokeBegin(c) \/ RevokeEnd(c)
  \/ \E t \in Tokens : Expire(t)
  \/ Disable

Spec == Init /\ [][Next]_vars

-----------------------------------------------------------------------------
(* Properties *)

PCs == {"idle", "issue", "rejected", "done", "user", "insert", "claim", "commit",
        "revoke", "revoking", "ended"}

(* Columns and locals have their types. *)
TypeOK ==
  /\ row \in [Tokens -> {"unissued", "pending", "live", "revoked"}]
  /\ replacedBy \in [Tokens -> Tokens \cup {None}]
  /\ expired \subseteq Tokens
  /\ active \in BOOLEAN
  /\ pc \in [Calls -> PCs]
  /\ stored \in [Calls -> Tokens \cup {None}]
  /\ newRow \in [Calls -> Tokens \cup {None}]
  /\ snapshot \in [Calls -> SUBSET Tokens]
  /\ parent \in [Tokens -> Tokens \cup {None}]
  /\ session \in [Tokens -> Logins \cup {None}]
  /\ exposed \in [Calls -> SUBSET (Logins \cup {None})]

(* auth.service.ts:283, "condition-guarded claim, no concurrent double      *)
(* spending": however many refresh calls present the same token at once, at *)
(* most one of them leaves a successor behind.                              *)
SingleSuccessor ==
  \A n, m \in Tokens : parent[n] = parent[m] /\ parent[n] # None => n = m

(* A session never has two live tokens, so a stolen copy and the original   *)
(* cannot both go on being rotated.                                         *)
OneLiveToken ==
  \A t, u \in Live : session[t] = session[u] => t = u

(* The table implements the sessions that were promised. *)
Promised == INSTANCE Sessions WITH
  current <- [s \in Logins |-> {t \in Live : session[t] = s}],
  opened  <- {l \in Logins : pc[l] = "done"},
  used    <- {t \in Tokens : row[t] \in Issued}

(* Every step of the handlers opens a session, rotates its one token, ends  *)
(* sessions, or changes nothing a client can tell: in particular a session  *)
(* that was ended is never revived by a rotation that was under way.        *)
ImplementsSessions == Promised!Spec

(* auth.service.ts:345 and schema.prisma:568: when the revocation has been  *)
(* carried out, the sessions that were live when the password was changed,  *)
(* or the replay noticed, have no live token.                               *)
RevocationEndsSessions ==
  \A c \in Refreshes \cup Changes : pc[c] = "ended" =>
    \A t \in Live : session[t] \notin exposed[c]
=============================================================================
