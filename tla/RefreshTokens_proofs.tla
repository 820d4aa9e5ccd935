------------------------ MODULE RefreshTokens_proofs ------------------------
(***************************************************************************)
(* Proofs about RefreshTokens: for any number of tokens, logins, refresh   *)
(* calls and password changes, columns and locals keep their types, a      *)
(* token has at most one successor, a session at most one live token, and  *)
(* the handlers implement the module Sessions.                             *)
(***************************************************************************)
EXTENDS RefreshTokens, TLAPS

-----------------------------------------------------------------------------
(* The inductive invariant *)

Presenting == {c \in Refreshes : pc[c] \in {"user", "insert", "claim", "commit"}}
InTransaction == {c \in Refreshes : pc[c] \in {"claim", "commit"}}
Claimed == {c \in Refreshes : pc[c] = "commit"}
Revoking == {c \in Refreshes \cup Changes : pc[c] = "revoking"}

(* a call presents a token that has been issued *)
PresentedIsIssued ==
  \A c \in Presenting : stored[c] \in Tokens /\ row[stored[c]] \in Issued

(* a transaction has inserted a row of its own, which nobody else sees *)
InsertIsPending ==
  \A c \in InTransaction :
    /\ newRow[c] \in Tokens /\ row[newRow[c]] = "pending"
    /\ \A d \in InTransaction : newRow[d] = newRow[c] => d = c

(* the row lock: one claim at a time, on a row that stays live under it *)
ClaimIsExclusive ==
  \A c \in Claimed :
    /\ row[stored[c]] = "live"
    /\ \A d \in Claimed : stored[d] = stored[c] => d = c

(* an UPDATE revokes rows that have been issued *)
SnapshotIsIssued ==
  \A c \in Revoking : \A t \in snapshot[c] : row[t] \in Issued

(* an issued row belongs to a login that was answered, others to nobody *)
RowHasSession ==
  \A t \in Tokens :
    \/ row[t] \in Issued /\ session[t] \in Logins /\ pc[session[t]] = "done"
    \/ row[t] \notin Issued /\ session[t] = None /\ parent[t] = None /\ replacedBy[t] = None

(* the chain of rotations: a rotated row is revoked and names its successor *)
ParentIsReplaced ==
  \A n \in Tokens : parent[n] # None =>
    /\ parent[n] \in Tokens
    /\ row[parent[n]] = "revoked"
    /\ replacedBy[parent[n]] = n

Inv ==
  /\ TypeOK
  /\ PresentedIsIssued
  /\ InsertIsPending
  /\ ClaimIsExclusive
  /\ SnapshotIsIssued
  /\ RowHasSession
  /\ ParentIsReplaced
  /\ OneLiveToken

-----------------------------------------------------------------------------
(* Initially no call is under way and no token is issued. *)
LEMMA InitInv == Init => Inv
<1> SUFFICES ASSUME Init PROVE Inv
  OBVIOUS
<1> USE DEF Init
<1>1. TypeOK
  BY DEF TypeOK, PCs, Calls
<1>2. /\ Presenting = {} /\ InTransaction = {} /\ Claimed = {} /\ Revoking = {}
      /\ Live = {}
  BY DEF Presenting, InTransaction, Claimed, Revoking, Live, Calls
<1> QED
  BY <1>1, <1>2 DEF Inv, PresentedIsIssued, InsertIsPending, ClaimIsExclusive, SnapshotIsIssued,
     RowHasSession, ParentIsReplaced, OneLiveToken, Issued

-----------------------------------------------------------------------------
(* Steps that leave the table as it is and bring no call into a transaction *)
(* or a revocation.                                                        *)
LEMMA QuietInv ==
  ASSUME Inv, TypeOK',
         UNCHANGED <<table, newRow, history>>,
         Presenting' \subseteq Presenting, InTransaction' \subseteq InTransaction,
         Claimed' \subseteq Claimed, Revoking' \subseteq Revoking,
         \A c \in Presenting' : stored'[c] = stored[c],
         \A c \in Revoking' : snapshot'[c] = snapshot[c],
         \A l \in Logins : pc[l] = "done" => pc'[l] = "done"
  PROVE  Inv'
<1> USE DEF Inv, table, history
<1>1. PresentedIsIssued'
  BY DEF PresentedIsIssued, Issued
<1>2. InsertIsPending'
  BY DEF InsertIsPending
<1>3. ClaimIsExclusive'
  BY DEF ClaimIsExclusive, Claimed, Presenting
<1>4. SnapshotIsIssued'
  BY DEF SnapshotIsIssued, Issued
<1>5. RowHasSession'
  BY DEF RowHasSession, Issued
<1>6. ParentIsReplaced' /\ OneLiveToken'
  BY DEF ParentIsReplaced, OneLiveToken, Live
<1> QED
  BY <1>1, <1>2, <1>3, <1>4, <1>5, <1>6

LEMMA CheckCredentialsInv ==
  ASSUME Inv, NEW l \in Logins, CheckCredentials(l)
  PROVE  Inv'
<1> USE CallsDistinct DEF CheckCredentials, Goto, table, history
<1>1. TypeOK'
  BY DEF Inv, TypeOK, PCs, Calls
<1> QED
  BY <1>1, QuietInv DEF Inv, TypeOK, Calls, Presenting, InTransaction, Claimed, Revoking

LEMMA LookUpInv ==
  ASSUME Inv, NEW c \in Refreshes, LookUp(c)
  PROVE  Inv'
<1> USE CallsDistinct DEF LookUp, Goto, Issued, table, history, Inv, TypeOK, PCs, Calls
<1>1. TypeOK'
  BY DEF Live, LiveSessions
<1>2. PresentedIsIssued'
  BY DEF PresentedIsIssued, Presenting
<1>3. InsertIsPending'
  BY DEF InsertIsPending, InTransaction
<1>4. ClaimIsExclusive'
  BY DEF ClaimIsExclusive, Claimed
<1>5. SnapshotIsIssued'
  BY DEF SnapshotIsIssued, Revoking
<1>6. RowHasSession'
  BY DEF RowHasSession
<1>7. ParentIsReplaced' /\ OneLiveToken'
  BY DEF ParentIsReplaced, OneLiveToken, Live
<1> QED
  BY <1>1, <1>2, <1>3, <1>4, <1>5, <1>6, <1>7

LEMMA CheckUserInv ==
  ASSUME Inv, NEW c \in Refreshes, CheckUser(c)
  PROVE  Inv'
<1> USE CallsDistinct DEF CheckUser, Goto, table, history
<1>1. TypeOK'
  BY DEF Inv, TypeOK, PCs, Calls
<1> QED
  BY <1>1, QuietInv DEF Inv, TypeOK, Calls, Presenting, InTransaction, Claimed, Revoking

LEMMA UpdatePasswordInv ==
  ASSUME Inv, NEW p \in Changes, UpdatePassword(p)
  PROVE  Inv'
<1> USE CallsDistinct DEF UpdatePassword, Goto, table, history
<1>1. TypeOK'
  BY DEF Inv, TypeOK, PCs, Calls, Live, LiveSessions
<1> QED
  BY <1>1, QuietInv DEF Inv, TypeOK, Calls, Presenting, InTransaction, Claimed, Revoking

LEMMA ExpireInv ==
  ASSUME Inv, NEW t \in Tokens, Expire(t)
  PROVE  Inv'
<1> USE DEF Expire, table, history
<1>1. TypeOK'
  BY DEF Inv, TypeOK
<1> QED
  BY <1>1, QuietInv DEF Presenting, InTransaction, Claimed, Revoking

LEMMA DisableInv == Inv /\ Disable => Inv'
<1> SUFFICES ASSUME Inv, Disable PROVE Inv'
  OBVIOUS
<1> USE DEF Disable, table, history
<1>1. TypeOK'
  BY DEF Inv, TypeOK
<1> QED
  BY <1>1, QuietInv DEF Presenting, InTransaction, Claimed, Revoking

LEMMA StutterInv == Inv /\ UNCHANGED vars => Inv'
<1> SUFFICES ASSUME Inv, UNCHANGED vars PROVE Inv'
  OBVIOUS
<1> USE DEF vars, table, history
<1>1. TypeOK'
  BY DEF Inv, TypeOK
<1> QED
  BY <1>1, QuietInv DEF Presenting, InTransaction, Claimed, Revoking

-----------------------------------------------------------------------------
(* Login: the new row is the only live one of its session, because a        *)
(* session with rows belongs to a login that was already answered.          *)
LEMMA IssueTokensInv ==
  ASSUME Inv, NEW l \in Logins, IssueTokens(l)
  PROVE  Inv'
<1> USE CallsDistinct, NoneIsNoToken DEF Inv, IssueTokens, Goto, Issued, table, history
<1>1. PICK n \in Tokens : /\ row[n] = "unissued"
                          /\ row' = [row EXCEPT ![n] = "live"]
                          /\ session' = [session EXCEPT ![n] = l]
  OBVIOUS
<1>2. TypeOK'
  BY <1>1 DEF TypeOK, PCs, Calls
<1>3. PresentedIsIssued'
  BY <1>1 DEF TypeOK, Calls, PresentedIsIssued, Presenting
<1>4. InsertIsPending'
  BY <1>1 DEF TypeOK, Calls, InsertIsPending, InTransaction
<1>5. ClaimIsExclusive'
  BY <1>1 DEF TypeOK, Calls, ClaimIsExclusive, Claimed
<1>6. SnapshotIsIssued'
  BY <1>1 DEF TypeOK, Calls, SnapshotIsIssued, Revoking
<1>7. RowHasSession'
  BY <1>1 DEF TypeOK, Calls, RowHasSession
<1>8. ParentIsReplaced'
  BY <1>1 DEF TypeOK, ParentIsReplaced
<1>9. OneLiveToken'
  <2>1. \A t \in Tokens : row[t] \in Issued => session[t] # l
    BY DEF RowHasSession
  <2> QED
    BY <1>1, <2>1 DEF TypeOK, OneLiveToken, Live
<1> QED
  BY <1>2, <1>3, <1>4, <1>5, <1>6, <1>7, <1>8, <1>9

-----------------------------------------------------------------------------
(* The transaction of a rotation *)

LEMMA InsertInv ==
  ASSUME Inv, NEW c \in Refreshes, Insert(c)
  PROVE  Inv'
<1> USE CallsDistinct DEF Inv, Insert, Goto, Issued, table, history
<1>1. PICK n \in Tokens : /\ row[n] = "unissued"
                          /\ row' = [row EXCEPT ![n] = "pending"]
                          /\ newRow' = [newRow EXCEPT ![c] = n]
  OBVIOUS
<1>2. TypeOK'
  BY <1>1 DEF TypeOK, PCs, Calls
<1>3. PresentedIsIssued'
  BY <1>1 DEF TypeOK, Calls, PresentedIsIssued, Presenting
<1>4. InsertIsPending'
  BY <1>1 DEF TypeOK, Calls, InsertIsPending, InTransaction
<1>5. ClaimIsExclusive'
  BY <1>1 DEF TypeOK, Calls, ClaimIsExclusive, Claimed
<1>6. SnapshotIsIssued'
  BY <1>1 DEF TypeOK, Calls, SnapshotIsIssued, Revoking
<1>7. RowHasSession'
  BY <1>1 DEF TypeOK, Calls, RowHasSession
<1>8. ParentIsReplaced'
  BY <1>1 DEF TypeOK, ParentIsReplaced
<1>9. OneLiveToken'
  BY <1>1 DEF TypeOK, OneLiveToken, Live
<1> QED
  BY <1>2, <1>3, <1>4, <1>5, <1>6, <1>7, <1>8, <1>9

(* The rows a rollback removes are its own, and were never visible. *)
LEMMA RollBackInv ==
  ASSUME Inv, NEW c \in InTransaction, RollBack(c),
         UNCHANGED <<replacedBy, expired, active, stored, newRow, snapshot, history, exposed>>
  PROVE  Inv'
<1> USE CallsDistinct DEF Inv, RollBack, Goto, Issued, history
<1>1. newRow[c] \in Tokens /\ row[newRow[c]] = "pending" /\ c \in Refreshes
  BY DEF InsertIsPending, InTransaction
<1>2. TypeOK'
  BY <1>1 DEF TypeOK, PCs, Calls
<1>3. PresentedIsIssued'
  BY <1>1 DEF TypeOK, Calls, PresentedIsIssued, Presenting
<1>4. InsertIsPending'
  BY <1>1 DEF TypeOK, Calls, InsertIsPending, InTransaction
<1>5. ClaimIsExclusive'
  BY <1>1 DEF TypeOK, Calls, ClaimIsExclusive, Claimed
<1>6. SnapshotIsIssued'
  BY <1>1 DEF TypeOK, Calls, SnapshotIsIssued, Revoking
<1>7. RowHasSession'
  BY <1>1 DEF TypeOK, Calls, RowHasSession
<1>8. ParentIsReplaced'
  BY <1>1 DEF TypeOK, ParentIsReplaced
<1>9. OneLiveToken'
  BY <1>1 DEF TypeOK, OneLiveToken, Live
<1> QED
  BY <1>2, <1>3, <1>4, <1>5, <1>6, <1>7, <1>8, <1>9

LEMMA ClaimInv ==
  ASSUME Inv, NEW c \in Refreshes, Claim(c)
  PROVE  Inv'
<1>1. CASE ClaimMatches(stored[c])
  <2> USE <1>1, CallsDistinct DEF Inv, Claim, ClaimMatches, Goto, Issued, table, history
  <2>1. TypeOK'
    BY DEF TypeOK, PCs, Calls
  <2>2. PresentedIsIssued'
    BY DEF TypeOK, Calls, PresentedIsIssued, Presenting
  <2>3. InsertIsPending'
    BY DEF TypeOK, Calls, InsertIsPending, InTransaction
  <2>4. ClaimIsExclusive'
    BY DEF TypeOK, Calls, ClaimIsExclusive, Claimed, Locked
  <2>5. SnapshotIsIssued'
    BY DEF TypeOK, Calls, SnapshotIsIssued, Revoking
  <2>6. RowHasSession'
    BY DEF TypeOK, Calls, RowHasSession
  <2>7. ParentIsReplaced' /\ OneLiveToken'
    BY DEF ParentIsReplaced, OneLiveToken, Live
  <2> QED
    BY <2>1, <2>2, <2>3, <2>4, <2>5, <2>6, <2>7
<1>2. CASE ~ClaimMatches(stored[c])
  BY <1>2, RollBackInv DEF Claim, InTransaction
<1> QED
  BY <1>1, <1>2

LEMMA AbortInv ==
  ASSUME Inv, NEW c \in Refreshes, Abort(c)
  PROVE  Inv'
BY RollBackInv DEF Abort, InTransaction

(* The successor takes over the session of the row it replaces, and that    *)
(* row, the only live one of the session, is revoked with it.               *)
LEMMA CommitInv ==
  ASSUME Inv, NEW c \in Refreshes, Commit(c)
  PROVE  Inv'
<1> DEFINE new == newRow[c]
           old == stored[c]
<1> USE CallsDistinct, NoneIsNoToken DEF Inv, Commit, Rotated, Goto, Issued, history
<1>1. /\ new \in Tokens /\ row[new] = "pending" /\ c \in InTransaction
      /\ old \in Tokens /\ row[old] = "live" /\ c \in Claimed
  BY DEF InsertIsPending, ClaimIsExclusive, PresentedIsIssued, Presenting, InTransaction, Claimed
<1>2. /\ session[old] \in Logins /\ pc[session[old]] = "done"
      /\ session[new] = None /\ parent[new] = None /\ replacedBy[new] = None
  BY <1>1 DEF RowHasSession
<1>3. /\ row' = [row EXCEPT ![new] = "live", ![old] = "revoked"]
      /\ replacedBy' = [replacedBy EXCEPT ![old] = new]
      /\ parent' = [parent EXCEPT ![new] = old]
      /\ session' = [session EXCEPT ![new] = session[old]]
      /\ pc' = [pc EXCEPT ![c] = "done"]
  OBVIOUS
<1> HIDE DEF new, old
<1>4. TypeOK'
  BY <1>1, <1>2, <1>3 DEF TypeOK, PCs, Calls
<1>5. PresentedIsIssued'
  BY <1>1, <1>3 DEF TypeOK, Calls, PresentedIsIssued, Presenting
<1>6. InsertIsPending'
  BY <1>1, <1>3 DEF TypeOK, Calls, InsertIsPending, InTransaction, new
<1>7. ClaimIsExclusive'
  <2>1. Claimed' = Claimed \ {c}
    BY <1>1, <1>3 DEF TypeOK, Calls, Claimed
  <2>2. \A d \in Claimed \ {c} : stored[d] \in Tokens /\ stored[d] # old /\ row[stored[d]] = "live"
    BY <1>1 DEF ClaimIsExclusive, Claimed, PresentedIsIssued, Presenting, old
  <2>3. \A d \in Claimed \ {c} : row'[stored[d]] = "live"
    BY <1>1, <1>3, <2>2 DEF TypeOK
  <2> QED
    BY <2>1, <2>3 DEF ClaimIsExclusive
<1>8. SnapshotIsIssued'
  BY <1>1, <1>3 DEF TypeOK, Calls, SnapshotIsIssued, Revoking
<1>9. RowHasSession'
  BY <1>1, <1>2, <1>3 DEF TypeOK, Calls, RowHasSession
<1>10. ParentIsReplaced'
  BY <1>1, <1>2, <1>3 DEF TypeOK, ParentIsReplaced
<1>11. OneLiveToken'
  BY <1>1, <1>3 DEF TypeOK, OneLiveToken, Live
<1> QED
  BY <1>4, <1>5, <1>6, <1>7, <1>8, <1>9, <1>10, <1>11

-----------------------------------------------------------------------------
(* Revocation *)

LEMMA RevokeBeginInv ==
  ASSUME Inv, NEW c \in Refreshes \cup Changes, RevokeBegin(c)
  PROVE  Inv'
<1> USE CallsDistinct DEF RevokeBegin, Goto, Issued, table, history, Inv, TypeOK, PCs, Calls
<1>1. TypeOK'
  BY DEF Live
<1>2. PresentedIsIssued'
  BY DEF PresentedIsIssued, Presenting
<1>3. InsertIsPending'
  BY DEF InsertIsPending, InTransaction
<1>4. ClaimIsExclusive'
  BY DEF ClaimIsExclusive, Claimed
<1>5. SnapshotIsIssued'
  BY DEF SnapshotIsIssued, Revoking, Live
<1>6. RowHasSession'
  BY DEF RowHasSession
<1>7. ParentIsReplaced' /\ OneLiveToken'
  BY DEF ParentIsReplaced, OneLiveToken, Live
<1> QED
  BY <1>1, <1>2, <1>3, <1>4, <1>5, <1>6, <1>7

(* It waits for the locked rows, so no claim loses its row. *)
LEMMA RevokeEndInv ==
  ASSUME Inv, NEW c \in Refreshes \cup Changes, RevokeEnd(c)
  PROVE  Inv'
<1> USE CallsDistinct DEF RevokeEnd, Goto, Issued, history, Inv, TypeOK, PCs, Calls
<1>1. TypeOK'
  OBVIOUS
<1>2. /\ c \in Revoking
      /\ \A t \in snapshot[c] : row[t] \in Issued
  BY DEF SnapshotIsIssued, Revoking
<1>3. PresentedIsIssued'
  BY DEF PresentedIsIssued, Presenting
<1>4. InsertIsPending'
  BY <1>2 DEF InsertIsPending, InTransaction
<1>5. ClaimIsExclusive'
  <2>1. Claimed' = Claimed
    BY <1>2 DEF Claimed, Revoking
  <2>2. \A d \in Claimed : stored[d] \in Tokens /\ stored[d] \notin snapshot[c]
    BY DEF Claimed, Locked, PresentedIsIssued, Presenting
  <2> QED
    BY <2>1, <2>2 DEF ClaimIsExclusive
<1>6. SnapshotIsIssued'
  BY DEF SnapshotIsIssued, Revoking
<1>7. RowHasSession'
  BY <1>2 DEF RowHasSession
<1>8. ParentIsReplaced'
  BY DEF ParentIsReplaced
<1>9. OneLiveToken'
  BY DEF OneLiveToken, Live
<1> QED
  BY <1>1, <1>3, <1>4, <1>5, <1>6, <1>7, <1>8, <1>9

-----------------------------------------------------------------------------
LEMMA StepInv == Inv /\ [Next]_vars => Inv'
<1> SUFFICES ASSUME Inv, [Next]_vars PROVE Inv'
  OBVIOUS
<1> QED
  BY CheckCredentialsInv, IssueTokensInv, LookUpInv, CheckUserInv, InsertInv, ClaimInv, CommitInv,
     AbortInv, UpdatePasswordInv, RevokeBeginInv, RevokeEndInv, ExpireInv, DisableInv, StutterInv
  DEF Next

(* In every reachable state the invariant holds. *)
THEOREM Invariance == Spec => []Inv
BY InitInv, StepInv, PTL DEF Spec

(* Columns and locals have their types, whatever login, refreshToken and    *)
(* changePassword (auth.service.ts) interleave with.                        *)
THEOREM TypeCorrect == Spec => []TypeOK
<1>1. Inv => TypeOK
  BY DEF Inv
<1> QED
  BY <1>1, Invariance, PTL

(* No double spending (auth.service.ts:283): at most one refresh call       *)
(* leaves a successor of a given token, for any number of concurrent calls. *)
THEOREM NoDoubleSpending == Spec => []SingleSuccessor
<1>1. Inv => SingleSuccessor
  BY DEF Inv, ParentIsReplaced, SingleSuccessor
<1> QED
  BY <1>1, Invariance, PTL

(* A session has at most one live token, however its rotations, replays and *)
(* revocations interleave.                                                  *)
THEOREM LiveTokenIsUnique == Spec => []OneLiveToken
<1>1. Inv => OneLiveToken
  BY DEF Inv
<1> QED
  BY <1>1, Invariance, PTL

-----------------------------------------------------------------------------
(* Refinement: the handlers implement Sessions *)

Current(s) == {t \in Live : session[t] = s}

(* A session's current token is its live row, if it has one. *)
LEMMA CurrentIsSingle ==
  ASSUME Inv, NEW t \in Live
  PROVE  session[t] \in Logins /\ Current(session[t]) = {t}
BY DEF Inv, RowHasSession, OneLiveToken, Current, Live, Issued

LEMMA InitPromised == Init => Promised!Init
BY DEF Init, Promised!Init, Live, Issued, Calls

(* Steps that keep the issued rows and answer no login cannot be told from  *)
(* doing nothing.                                                           *)
LEMMA Unseen ==
  ASSUME \A t \in Tokens : row[t] \in Issued \/ row'[t] \in Issued => row'[t] = row[t],
         UNCHANGED session,
         \A l \in Logins : pc[l] = "done" <=> pc'[l] = "done"
  PROVE  UNCHANGED Promised!vars
<1>1. Live' = Live
  BY DEF Live, Issued
<1> QED
  BY <1>1 DEF Promised!vars, Issued

LEMMA IssueTokensOpens ==
  ASSUME Inv, NEW l \in Logins, IssueTokens(l)
  PROVE  \E n \in Tokens : Promised!Open(l, n)
<1> USE CallsDistinct, NoneIsNoToken DEF Inv, TypeOK, Calls, IssueTokens, Goto
<1>1. PICK n \in Tokens : /\ row[n] = "unissued"
                          /\ row' = [row EXCEPT ![n] = "live"]
                          /\ session' = [session EXCEPT ![n] = l]
  OBVIOUS
<1>2. Live' = Live \cup {n} /\ n \notin Live
  BY <1>1 DEF Live
<1>3. \A t \in Live : session[t] # l
  BY DEF RowHasSession, Issued, Live
<1>4. \A s \in Logins : Current(s)' = IF s = l THEN {n} ELSE Current(s)
  BY <1>1, <1>2, <1>3 DEF Current, Live
<1>5. [s \in Logins |-> Current(s)]' = [[s \in Logins |-> Current(s)] EXCEPT ![l] = {n}]
  BY <1>4
<1>6. {k \in Logins : pc[k] = "done"}' = {k \in Logins : pc[k] = "done"} \cup {l}
  OBVIOUS
<1>7. {t \in Tokens : row[t] \in Issued}' = {t \in Tokens : row[t] \in Issued} \cup {n}
  BY <1>1 DEF Issued
<1> QED
  BY <1>1, <1>5, <1>6, <1>7 DEF Promised!Open, Current, Issued

LEMMA CommitRotates ==
  ASSUME Inv, NEW c \in Refreshes, Commit(c)
  PROVE  \E s \in Logins, t, n \in Tokens : Promised!Rotate(s, t, n)
<1> DEFINE new == newRow[c]
           old == stored[c]
           own == session[old]
<1>1. /\ new \in Tokens /\ row[new] = "pending"
      /\ old \in Tokens /\ row[old] = "live"
  BY DEF Inv, Commit, InsertIsPending, ClaimIsExclusive, PresentedIsIssued,
     Presenting, InTransaction, Claimed
<1>2. own \in Logins /\ Current(own) = {old}
  BY <1>1, CurrentIsSingle DEF Live
<1>3. /\ row' = [row EXCEPT ![new] = "live", ![old] = "revoked"]
      /\ session' = [session EXCEPT ![new] = own]
      /\ pc' = [pc EXCEPT ![c] = "done"]
  BY DEF Commit, Rotated, Goto
<1> USE CallsDistinct DEF Inv, TypeOK, Calls
<1> HIDE DEF new, old, own
<1>4. Live' = (Live \ {old}) \cup {new} /\ new \notin Live
  BY <1>1, <1>3 DEF Live
<1>5. \A s \in Logins : Current(s)' = IF s = own THEN {new} ELSE Current(s)
  BY <1>1, <1>2, <1>3, <1>4 DEF Current, Live
<1>6. [s \in Logins |-> Current(s)]' = [[s \in Logins |-> Current(s)] EXCEPT ![own] = {new}]
  BY <1>5
<1>7. {k \in Logins : pc[k] = "done"}' = {k \in Logins : pc[k] = "done"}
  BY <1>3
<1>8. {t \in Tokens : row[t] \in Issued}' = {t \in Tokens : row[t] \in Issued} \cup {new}
  BY <1>1, <1>3 DEF Issued
<1>9. PICK s \in Logins, t \in Tokens, n \in Tokens : s = own /\ t = old /\ n = new
  BY <1>1, <1>2
<1>10. Promised!Rotate(s, t, n)
  BY <1>1, <1>2, <1>6, <1>7, <1>8, <1>9 DEF Promised!Rotate, Current, Issued
<1> QED
  BY <1>10

LEMMA RevokeEnds ==
  ASSUME Inv, NEW c \in Refreshes \cup Changes, RevokeEnd(c)
  PROVE  \E S \in SUBSET Logins : Promised!End(S)
<1> DEFINE S == {session[t] : t \in Live \cap snapshot[c]}
<1> USE CallsDistinct DEF Inv, TypeOK, Calls, RevokeEnd, Goto
<1>1. S \in SUBSET Logins
  BY CurrentIsSingle
<1>2. Live' = Live \ snapshot[c]
  BY DEF Live
<1>3. \A s \in Logins : Current(s)' = IF s \in S THEN {} ELSE Current(s)
  BY <1>2, CurrentIsSingle DEF Current, history
<1>4. [s \in Logins |-> Current(s)]'
        = [s \in Logins |-> IF s \in S THEN {} ELSE [r \in Logins |-> Current(r)][s]]
  BY <1>3
<1>5. {k \in Logins : pc[k] = "done"}' = {k \in Logins : pc[k] = "done"}
  OBVIOUS
<1>6. {t \in Tokens : row[t] \in Issued}' = {t \in Tokens : row[t] \in Issued}
  BY DEF Issued, SnapshotIsIssued, Revoking
<1> QED
  BY <1>1, <1>4, <1>5, <1>6 DEF Promised!End, Current

LEMMA StepPromised == Inv /\ [Next]_vars => [Promised!Next]_Promised!vars
<1> SUFFICES ASSUME Inv, [Next]_vars PROVE [Promised!Next]_Promised!vars
  OBVIOUS
<1> USE CallsDistinct DEF Inv, TypeOK, Calls, Goto, Issued, table, history
<1>1. ASSUME NEW l \in Logins, CheckCredentials(l) PROVE UNCHANGED Promised!vars
  BY <1>1, Unseen DEF CheckCredentials
<1>2. ASSUME NEW l \in Logins, IssueTokens(l) PROVE Promised!Next
  BY <1>2, IssueTokensOpens DEF Promised!Next
<1>3. ASSUME NEW c \in Refreshes, LookUp(c) \/ CheckUser(c) PROVE UNCHANGED Promised!vars
  BY <1>3, Unseen DEF LookUp, CheckUser
<1>4. ASSUME NEW c \in Refreshes, Insert(c) PROVE UNCHANGED Promised!vars
  BY <1>4, Unseen DEF Insert
<1>5. ASSUME NEW c \in Refreshes, Claim(c) \/ Abort(c) PROVE UNCHANGED Promised!vars
  <2>1. c \in InTransaction /\ newRow[c] \in Tokens /\ row[newRow[c]] = "pending"
    BY <1>5 DEF Claim, Abort, InTransaction, InsertIsPending
  <2> QED
    BY <1>5, <2>1, Unseen DEF Claim, Abort, RollBack
<1>6. ASSUME NEW c \in Refreshes, Commit(c) PROVE Promised!Next
  BY <1>6, CommitRotates DEF Promised!Next
<1>7. ASSUME NEW p \in Changes, UpdatePassword(p) PROVE UNCHANGED Promised!vars
  BY <1>7, Unseen DEF UpdatePassword
<1>8. ASSUME NEW c \in Refreshes \cup Changes, RevokeBegin(c) PROVE UNCHANGED Promised!vars
  BY <1>8, Unseen DEF RevokeBegin
<1>9. ASSUME NEW c \in Refreshes \cup Changes, RevokeEnd(c) PROVE Promised!Next
  BY <1>9, RevokeEnds DEF Promised!Next
<1>10. ASSUME NEW t \in Tokens, Expire(t) PROVE UNCHANGED Promised!vars
  BY <1>10, Unseen DEF Expire
<1>11. CASE Disable
  BY <1>11, Unseen DEF Disable
<1>12. CASE UNCHANGED vars
  BY <1>12, Unseen DEF vars
<1> QED
  BY <1>1, <1>2, <1>3, <1>4, <1>5, <1>6, <1>7, <1>8, <1>9, <1>10, <1>11, <1>12 DEF Next

(* The handlers of auth.service.ts, under every interleaving, do to the     *)
(* sessions only what Sessions allows: open one, rotate its one token, end  *)
(* some. A session that was ended stays ended.                              *)
THEOREM Implementation == Spec => ImplementsSessions
BY InitPromised, StepPromised, Invariance, PTL DEF Spec, ImplementsSessions, Promised!Spec
=============================================================================
