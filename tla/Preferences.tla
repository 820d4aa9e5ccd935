----------------------------- MODULE Preferences -----------------------------
(***************************************************************************)
(* A user's review preferences and clause library, kept in one JSON column *)
(* (server/src/me/me.controller.ts), which every request reads and writes  *)
(* as a whole.                                                             *)
(***************************************************************************)
EXTENDS Integers, FiniteSets

CONSTANTS
  SpaceOps,       \* requests under way
  Items,          \* clauses to keep in the library
  FreeLibrary,    \* FREE_LIBRARY_LIMIT
  Prefs,          \* preferences; one of them is the default
  DefaultPrefs

ASSUME PrefsAssumption == DefaultPrefs \in Prefs /\ FreeLibrary \in Nat

VARIABLES
  meta,           \* users.metadata: preferences and library
  paid,           \* the tenant's plan includes an unlimited library
  everPaid,       \* it did at some time
  metaOp          \* metaOp[o]: the handler o

metaVars == <<meta, paid, everPaid, metaOp>>

MetaInit ==
  /\ meta = [prefs |-> DefaultPrefs, library |-> {}]
  /\ paid = FALSE /\ everPaid = FALSE
  /\ metaOp = [o \in SpaceOps |-> [pc |-> "idle"]]

MetaGo(o, place) == metaOp' = [metaOp EXCEPT ![o].pc = place]
MetaEnd(o) == metaOp' = [metaOp EXCEPT ![o] = [pc |-> "idle"]]

(* A month is bought or ends.                                              *)
ChangePlan ==
  /\ paid' = ~paid /\ everPaid' = TRUE
  /\ UNCHANGED <<meta, metaOp>>

(* Every handler reads the user and writes the whole column back.          *)
ReadMeta(o) ==
  /\ metaOp[o].pc = "idle"
  /\ \E kind \in {"prefs", "add", "remove"}, item \in Items, prefs \in Prefs :
       /\ kind # "prefs" => prefs = DefaultPrefs
       /\ kind = "prefs" => item = CHOOSE i \in Items : TRUE
       /\ kind = "add" => item \notin meta.library
       /\ metaOp' = [metaOp EXCEPT ![o] =
            [pc |-> IF kind = "add" THEN "limit" ELSE "store",
             kind |-> kind, item |-> item, prefs |-> prefs, seen |-> meta]]
  /\ UNCHANGED <<meta, paid, everPaid>>

LibraryLimit(o) ==
  /\ metaOp[o].pc = "limit"
  /\ IF paid \/ Cardinality(metaOp[o].seen.library) < FreeLibrary
     THEN MetaGo(o, "store") ELSE MetaEnd(o)
  /\ UNCHANGED <<meta, paid, everPaid>>

AddClause(op) == [op.seen EXCEPT !.library = @ \cup {op.item}]

PatchPreferences(op) == [op.seen EXCEPT !.prefs = op.prefs]

RemoveClause(op) == [op.seen EXCEPT !.library = @ \ {op.item}]

StoreMeta(o) ==
  LET op == metaOp[o] IN
  /\ op.pc = "store"
  /\ meta' = CASE op.kind = "add"    -> AddClause(op)
               [] op.kind = "prefs"  -> PatchPreferences(op)
               [] op.kind = "remove" -> RemoveClause(op)
  /\ MetaEnd(o)
  /\ UNCHANGED <<paid, everPaid>>

MetaNext ==
  \/ ChangePlan
  \/ \E o \in SpaceOps : ReadMeta(o) \/ LibraryLimit(o) \/ StoreMeta(o)

-----------------------------------------------------------------------------
MetaTypeOK == meta.library \subseteq Items /\ meta.prefs \in Prefs

(* The library of a tenant that never paid keeps to its limit even when    *)
(* clauses are added at the same time: each request counts the list that   *)
(* it writes back, so the other clause is lost instead.                    *)
LibraryWithinLimit == ~everPaid => Cardinality(meta.library) <= FreeLibrary
=============================================================================
