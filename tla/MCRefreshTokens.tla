-------------------------- MODULE MCRefreshTokens ---------------------------
(* Instances of RefreshTokens for TLC. *)
EXTENDS RefreshTokens

CONSTANTS t1, t2, t3, t4, l1, l2, f1, f2, p1

TokenSet == {t1, t2, t3, t4}
ThreeTokens == {t1, t2, t3}
OneLogin == {l1}
TwoLogins == {l1, l2}
OneRefresh == {f1}
TwoRefreshes == {f1, f2}
OneChange == {p1}
=============================================================================
