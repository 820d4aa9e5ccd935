------------------------------- MODULE Ledger -------------------------------
(***************************************************************************)
(* The contract ledger of one tenant (server/src/ledger/ledger.service.ts): *)
(* entries with their dates, their status and the entry they renew.  Every  *)
(* handler reads first and writes later; two handlers run at once.  Dates   *)
(* are days counted from today.                                            *)
(***************************************************************************)
EXTENDS Integers, FiniteSets

CONSTANTS
  LedgerIds,      \* identifiers of entries
  LedgerOps,      \* requests under way
  LedgerMax,      \* ledgerMaxItems of the tenant's plan
  LedgerForms,    \* the fields a request may carry
  NoEntry,        \* "no such row"
  LedgerSeed      \* the entry the tenant begins with

ASSUME LedgerSeedAssumption == LedgerSeed \in LedgerIds

VARIABLES
  ledger,         \* ledger[i]: the row i of contract_ledgers, or NoEntry
  filed,          \* the contract that entries link to still exists
  lop,            \* lop[o]: the handler o
  ledgerRaced     \* an entry was added on a count that was stale by then

ledgerVars == <<ledger, filed, lop, ledgerRaced>>

Today == 0
OpenEnd == 9999   \* endDate null: later than every date
Unchanged == -9999 \* a field the request does not carry

EntryStatus == {"ACTIVE", "RENEWED", "TERMINATED"}

(* A form leaves a field out (Unchanged) or sets it.                       *)
LedgerForm == [start : Int, end : Int, link : BOOLEAN]
ASSUME FormsAssumption == LedgerForms \subseteq LedgerForm

EntryRows == [status : EntryStatus, start : Int, end : Int, link : BOOLEAN, from : LedgerIds \cup {NoEntry}]
ASSUME LedgerAssumption ==
  /\ IsFiniteSet(LedgerIds) /\ LedgerMax \in Nat \ {0}
  /\ NoEntry \notin LedgerIds \cup EntryRows

LedgerKinds == {"create", "update", "renew", "terminate", "remove"}

Entries == {i \in LedgerIds : ledger[i] # NoEntry}

(***************************************************************************)
(* Reading: buckets, the statistics on top and the filters of the list.    *)
(***************************************************************************)

BucketOf(r) ==
  CASE r.status # "ACTIVE"      -> r.status
    [] r.status = "ACTIVE" /\ r.end = OpenEnd              -> "LONG_TERM"
    [] r.status = "ACTIVE" /\ r.end - Today < 0            -> "EXPIRED"
    [] r.status = "ACTIVE" /\ r.end - Today \in 0 .. 30    -> "DUE_30"
    [] r.status = "ACTIVE" /\ r.end - Today \in 31 .. 90   -> "DUE_90"
    [] OTHER                                               -> "ACTIVE_OK"

LedgerStats ==
  LET active == {i \in Entries : ledger[i].status = "ACTIVE"} IN
  [active   |-> Cardinality(active),
   openEnded |-> Cardinality({i \in active : ledger[i].end = OpenEnd}),
   due30    |-> Cardinality({i \in active : BucketOf(ledger[i]) = "DUE_30"}),
   expired  |-> Cardinality({i \in active : BucketOf(ledger[i]) = "EXPIRED"})]

LedgerList(filter) ==
  {i \in Entries :
     LET r == ledger[i] IN
     CASE filter = "ALL"     -> TRUE
       [] filter = "ACTIVE"  -> r.status = "ACTIVE"
       [] filter = "RENEWED" -> r.status = "RENEWED"
       [] filter = "DUE_30"  -> /\ r.status = "ACTIVE"
                                /\ r.end # OpenEnd
                                /\ r.end \in Today .. Today + 30
       [] filter = "EXPIRED" -> /\ r.status = "ACTIVE"
                                /\ r.end < Today}

(***************************************************************************)
(* cleanDto: the form over the defaults; null when it is refused.          *)
(***************************************************************************)
MergeForm(form, start, end, link) ==
  [start |-> IF form.start = Unchanged THEN start ELSE form.start,
   end   |-> IF form.end = Unchanged THEN end ELSE form.end,
   link  |-> form.link \/ link]

CleanDto(d) ==
  /\ d.start # Unchanged
  /\ d.end >= d.start
  /\ d.link => filed

(* What each operation takes over from the row it read: update everything, *)
(* renew the link but no date, create nothing.                             *)
EntryDefaults(op) ==
  CASE op.kind = "update" -> MergeForm(op.form, op.seen.start, op.seen.end, op.seen.link)
    [] op.kind = "renew"  -> MergeForm(op.form, Unchanged, OpenEnd, op.seen.link)
    [] OTHER              -> MergeForm(op.form, Unchanged, OpenEnd, FALSE)

-----------------------------------------------------------------------------
IdleOp == [pc |-> "idle"]

LedgerInit ==
  /\ ledger = [i \in LedgerIds |->
       IF i = LedgerSeed
       THEN [status |-> "ACTIVE", start |-> Today - 1, end |-> Today + 30,
             link |-> TRUE, from |-> NoEntry]
       ELSE NoEntry]
  /\ filed = TRUE
  /\ lop = [o \in LedgerOps |-> IdleOp]
  /\ ledgerRaced = FALSE

LedgerGo(o, place) == lop' = [lop EXCEPT ![o].pc = place]

LedgerEnd(o) == lop' = [lop EXCEPT ![o] = [pc |-> "done"]]

(* The router calls the service with the tenant of the token.              *)
LedgerReceive(o) ==
  /\ lop[o] = IdleOp
  /\ \E kind \in LedgerKinds, id \in LedgerIds, form \in LedgerForms :
       /\ kind \in {"create", "terminate", "remove"} => id = LedgerSeed
       /\ kind \in {"terminate", "remove"} => form = CHOOSE f \in LedgerForms : TRUE
       /\ lop' = [lop EXCEPT ![o] =
            [pc |-> IF kind = "create" THEN "limit" ELSE "own",
             kind |-> kind, id |-> id, form |-> form, seen |-> NoEntry, count |-> 0]]
  /\ UNCHANGED <<ledger, filed, ledgerRaced>>

(* getOwned: 404 when the row is gone; renew and terminate look at the     *)
(* status here and never again.                                            *)
OwnedEntry(op) ==
  /\ ledger[op.id] # NoEntry
  /\ op.kind \in {"renew", "terminate"} => ledger[op.id].status = "ACTIVE"

AfterRead(kind) ==
  CASE kind = "renew" -> "limit" [] kind = "update" -> "clean" [] OTHER -> "write"

GetOwned(o) ==
  LET op == lop[o] IN
  /\ op.pc = "own"
  /\ IF OwnedEntry(op)
     THEN lop' = [lop EXCEPT ![o].seen = ledger[op.id], ![o].pc = AfterRead(op.kind)]
     ELSE LedgerEnd(o)
  /\ UNCHANGED <<ledger, filed, ledgerRaced>>

(* assertLedgerCreate counts the rows, whatever their status.              *)
UnderLimit(count) == count < LedgerMax

AssertLedgerCreate(o) ==
  /\ lop[o].pc = "limit"
  /\ IF UnderLimit(Cardinality(Entries))
     THEN lop' = [lop EXCEPT ![o].pc = "clean", ![o].count = Cardinality(Entries)]
     ELSE LedgerEnd(o)
  /\ UNCHANGED <<ledger, filed, ledgerRaced>>

CleanEntry(o) ==
  /\ lop[o].pc = "clean"
  /\ IF CleanDto(EntryDefaults(lop[o])) THEN LedgerGo(o, "write") ELSE LedgerEnd(o)
  /\ UNCHANGED <<ledger, filed, ledgerRaced>>

LedgerRow(d, from) ==
  [status |-> "ACTIVE", start |-> d.start, end |-> d.end, link |-> d.link, from |-> from]

(* A foreign key refuses a link to a contract deleted since cleanDto.      *)
LinkHolds(d) == d.link => filed

(* Whether the count of assertLedgerCreate still is the count at the insert. *)
CountIsStale(o) == ledgerRaced' = (ledgerRaced \/ lop[o].count # Cardinality(Entries))

CreateEntry(o) ==
  LET d == EntryDefaults(lop[o]) IN
  /\ lop[o].pc = "write" /\ lop[o].kind = "create"
  /\ \/ /\ LinkHolds(d)
        /\ \E new \in LedgerIds \ Entries :
             ledger' = [ledger EXCEPT ![new] = LedgerRow(d, NoEntry)]
        /\ CountIsStale(o)
     \/ ~LinkHolds(d) /\ UNCHANGED <<ledger, ledgerRaced>>
  /\ LedgerEnd(o)
  /\ UNCHANGED filed

(* update writes the merged form, all fields of it.                        *)
UpdatedEntry(row, op) ==
  LET d == EntryDefaults(op) IN [row EXCEPT !.start = d.start, !.end = d.end, !.link = d.link]

UpdateEntry(o) ==
  LET op == lop[o] IN
  /\ op.pc = "write" /\ op.kind = "update"
  /\ IF ledger[op.id] # NoEntry /\ LinkHolds(EntryDefaults(op))
     THEN ledger' = [ledger EXCEPT ![op.id] = UpdatedEntry(ledger[op.id], op)]
     ELSE UNCHANGED ledger
  /\ LedgerEnd(o)
  /\ UNCHANGED <<filed, ledgerRaced>>

(* renew closes the old row and opens its successor in one transaction.    *)
ClosedEntry(row) == [row EXCEPT !.status = "RENEWED"]

RenewEntry(o) ==
  LET op == lop[o]
      d == EntryDefaults(op) IN
  /\ op.pc = "write" /\ op.kind = "renew"
  /\ \/ /\ ledger[op.id] # NoEntry /\ LinkHolds(d)
        /\ \E new \in LedgerIds \ Entries :
             ledger' = [ledger EXCEPT ![op.id] = ClosedEntry(ledger[op.id]),
                                      ![new] = LedgerRow(d, op.id)]
        /\ CountIsStale(o)
     \/ ~(ledger[op.id] # NoEntry /\ LinkHolds(d)) /\ UNCHANGED <<ledger, ledgerRaced>>
  /\ LedgerEnd(o)
  /\ UNCHANGED filed

(* terminate writes over whatever status the row has by now.               *)
TerminateEntry(o) ==
  LET op == lop[o] IN
  /\ op.pc = "write" /\ op.kind = "terminate"
  /\ IF ledger[op.id] # NoEntry
     THEN ledger' = [ledger EXCEPT ![op.id].status = "TERMINATED"]
     ELSE UNCHANGED ledger
  /\ LedgerEnd(o)
  /\ UNCHANGED <<filed, ledgerRaced>>

(* renewedFromId is set to null when the row it names is deleted.          *)
DeleteEntry(o) ==
  LET id == lop[o].id IN
  /\ lop[o].pc = "write" /\ lop[o].kind = "remove"
  /\ ledger' = [i \in LedgerIds |->
       CASE i = id -> NoEntry
         [] i \in Entries \ {id} /\ ledger[i].from = id -> [ledger[i] EXCEPT !.from = NoEntry]
         [] OTHER -> ledger[i]]
  /\ LedgerEnd(o)
  /\ UNCHANGED <<filed, ledgerRaced>>

(* The contract is deleted elsewhere: linkedContractId becomes null.       *)
UnlinkContract ==
  /\ filed
  /\ filed' = FALSE
  /\ ledger' = [i \in LedgerIds |->
       IF i \in Entries THEN [ledger[i] EXCEPT !.link = FALSE] ELSE NoEntry]
  /\ UNCHANGED <<lop, ledgerRaced>>

LedgerNext ==
  \/ UnlinkContract
  \/ \E o \in LedgerOps :
       \/ LedgerReceive(o) \/ GetOwned(o) \/ AssertLedgerCreate(o) \/ CleanEntry(o)
       \/ CreateEntry(o) \/ UpdateEntry(o) \/ RenewEntry(o) \/ TerminateEntry(o) \/ DeleteEntry(o)

-----------------------------------------------------------------------------
LedgerTypeOK ==
  /\ filed \in BOOLEAN
  /\ \A i \in Entries :
       /\ ledger[i].status \in EntryStatus
       /\ ledger[i].start \in Int /\ ledger[i].end \in Int
       /\ ledger[i].link \in BOOLEAN
       /\ ledger[i].from \in LedgerIds \cup {NoEntry}
  /\ \A o \in LedgerOps : lop[o].pc \in {"idle", "own", "limit", "clean", "write", "done"}

(* No entry ends before it starts, although a patch is checked against the *)
(* row as it was when the request read it and another patch may have been  *)
(* written since.                                                          *)
DatesOrdered == \A i \in Entries : ledger[i].end >= ledger[i].start

(* An entry that was renewed is not in force beside its successor, whoever *)
(* edits, renews or terminates it at the same time.                        *)
PredecessorIsClosed ==
  \A i \in Entries : ledger[i].from # NoEntry =>
    /\ ledger[i].from \in Entries
    /\ ledger[ledger[i].from].status # "ACTIVE"

(* The figures on top of the ledger and the rows that its filters list are *)
(* computed by two pieces of code, one in memory and one in SQL: they      *)
(* agree at every boundary of the buckets.                                 *)
FiguresMatchLists ==
  /\ LedgerStats.due30 = Cardinality(LedgerList("DUE_30"))
  /\ LedgerStats.expired = Cardinality(LedgerList("EXPIRED"))
  /\ LedgerStats.active = Cardinality(LedgerList("ACTIVE"))

(* The plan's limit is exceeded only when two requests were let in on one   *)
(* count; renewals, whose old entry stays in the table, count like others. *)
EntriesUnlessRaced == Cardinality(Entries) > LedgerMax => ledgerRaced
=============================================================================
