-------------------------------- MODULE Team --------------------------------
(***************************************************************************)
(* The members of one team tenant: the owners' team page                   *)
(* (server/src/team/team.service.ts) and the user console of the           *)
(* administration (server/src/admin/admin.controller.ts) write the same    *)
(* rows.  The access token carries the role its user had when it was       *)
(* issued.                                                                 *)
(***************************************************************************)
EXTENDS Integers, FiniteSets

CONSTANTS
  People,         \* accounts, each with its own e-mail address
  Founders,       \* the accounts that exist at first
  Owners,         \* those of them with role ADMIN
  TeamOps,        \* requests under way
  ConsoleCalls,   \* bound on the calls of the console
  Seats           \* seats of the plan

ASSUME TeamAssumption ==
  /\ Owners \subseteq Founders /\ Founders \subseteq People
  /\ IsFiniteSet(People) /\ Owners # {}
  /\ ConsoleCalls \in Nat /\ Seats \in Nat /\ Cardinality(Founders) <= Seats

VARIABLES
  member,         \* member[u]: the role and status of u's row
  badge,          \* badge[u]: the role in u's access token
  top,            \* top[o]: the handler o
  console,        \* calls of the console so far
  ownersRaced,    \* an owner was written away on a count that was stale by then
  seatsRaced      \* a member was added on a count that was stale by then

teamVars == <<member, badge, top, console, ownersRaced, seatsRaced>>

Roles == {"ADMIN", "USER"}
NoMember == [role |-> "USER", status |-> "none"]

Members == {u \in People : member[u] # NoMember}
Seated == {u \in Members : member[u].status # "DISABLED"}
ActiveOwners == {u \in Seated : member[u].role = "ADMIN"}

TeamIdle == [pc |-> "idle"]

TeamInit ==
  /\ member = [u \in People |->
       IF u \in Founders
       THEN [role |-> IF u \in Owners THEN "ADMIN" ELSE "USER", status |-> "ACTIVE"]
       ELSE NoMember]
  /\ badge = [u \in People |-> member[u].role]
  /\ top = [o \in TeamOps |-> TeamIdle]
  /\ console = 0
  /\ ownersRaced = FALSE /\ seatsRaced = FALSE

TeamGo(o, place) == top' = [top EXCEPT ![o].pc = place]
TeamEnd(o) == top' = [top EXCEPT ![o] = [pc |-> "done"]]

(* The roles guard compares the role in the token, not the one in the row. *)
RolesGuard(u) == badge[u] = "ADMIN"

(* A token is issued anew with the role of the row, to a user who is not   *)
(* disabled.                                                               *)
Reissue(u) ==
  /\ u \in Seated
  /\ badge' = [badge EXCEPT ![u] = member[u].role]
  /\ UNCHANGED <<member, top, console, ownersRaced, seatsRaced>>

TeamReceive(o) ==
  /\ top[o] = TeamIdle
  /\ \E by \in People, who \in People, role \in Roles :
       /\ RolesGuard(by)
       /\ \/ /\ who # by
             /\ role = "USER"
             /\ top' = [top EXCEPT ![o] = [pc |-> "email", who |-> who, seen |-> {}]]
          \/ /\ ~(who = by /\ role # "ADMIN")
             /\ top' = [top EXCEPT ![o] =
                  [pc |-> "find", kind |-> "role", who |-> who, role |-> role, seen |-> {}]]
          \/ /\ who # by
             /\ role = "USER"
             /\ top' = [top EXCEPT ![o] =
                  [pc |-> "find", kind |-> "remove", who |-> who, role |-> role, seen |-> {}]]
  /\ UNCHANGED <<member, badge, console, ownersRaced, seatsRaced>>

(* createMember: an address in use is refused, then the seats are counted, *)
(* then the row is inserted; the address is unique in the table.           *)
FindEmail(o) ==
  /\ top[o].pc = "email"
  /\ IF top[o].who \in Members THEN TeamEnd(o) ELSE TeamGo(o, "seat")
  /\ UNCHANGED <<member, badge, console, ownersRaced, seatsRaced>>

AssertSeatAvailable(o) ==
  /\ top[o].pc = "seat"
  /\ IF Cardinality(Seated) < Seats
     THEN top' = [top EXCEPT ![o].pc = "insert", ![o].seen = Seated]
     ELSE TeamEnd(o)
  /\ UNCHANGED <<member, badge, console, ownersRaced, seatsRaced>>

CreateMember(o) ==
  LET who == top[o].who IN
  /\ top[o].pc = "insert"
  /\ IF who \in Members
     THEN UNCHANGED <<member, badge, seatsRaced>>
     ELSE /\ member' = [member EXCEPT ![who] = [role |-> "USER", status |-> "ACTIVE"]]
          /\ badge' = [badge EXCEPT ![who] = "USER"]
          /\ seatsRaced' = (seatsRaced \/ top[o].seen # Seated)
  /\ TeamEnd(o)
  /\ UNCHANGED <<console, ownersRaced>>

(* updateRole and removeMember: the member is read; when it is an owner,   *)
(* the other owners are counted; then the row is written by its id.        *)
LosesOwner(op, role) == role = "ADMIN" /\ (op.kind = "remove" \/ op.role # "ADMIN")

FindMember(o) ==
  LET op == top[o] IN
  /\ op.pc = "find"
  /\ IF op.who \notin Members
     THEN TeamEnd(o)
     ELSE TeamGo(o, IF LosesOwner(op, member[op.who].role) THEN "others" ELSE "write")
  /\ UNCHANGED <<member, badge, console, ownersRaced, seatsRaced>>

OthersWithDisabled(who) == {u \in Members : member[u].role = "ADMIN"} \ {who}

OtherAdmins(who) == ActiveOwners \ {who}

CountOthers(o) ==
  LET others == OtherAdmins(top[o].who) IN
  /\ top[o].pc = "others"
  /\ IF others = {} THEN TeamEnd(o)
     ELSE top' = [top EXCEPT ![o].pc = "write", ![o].seen = others]
  /\ UNCHANGED <<member, badge, console, ownersRaced, seatsRaced>>

(* The row written away is an owner's and the owners counted beside it are *)
(* others by now (or none were counted, the row being no owner's when it   *)
(* was read).                                                              *)
Outdated(op) ==
  /\ LosesOwner(op, member[op.who].role)
  /\ op.seen \notin {OtherAdmins(op.who)} \ {{}}

WriteMember(o) ==
  LET op == top[o] IN
  /\ op.pc = "write"
  /\ IF op.who \notin Members
     THEN UNCHANGED <<member, ownersRaced>>
     ELSE /\ member' = [member EXCEPT ![op.who] =
               IF op.kind = "remove" THEN NoMember ELSE [@ EXCEPT !.role = op.role]]
          /\ ownersRaced' = (ownersRaced \/ Outdated(op))
  /\ TeamEnd(o)
  /\ UNCHANGED <<badge, console, seatsRaced>>

(* The console writes any role and status of any user of the tenant, with  *)
(* neither a look at the owners nor at the seats; a deletion disables.     *)
ConsoleStrips(row, who) == Cardinality(ActiveOwners \ {who}) = 0 /\ who \in ActiveOwners
                           /\ (row.role # "ADMIN" \/ row.status = "DISABLED")

UpdateUser ==
  \E by \in People, who \in Members, role \in Roles, status \in {"ACTIVE", "DISABLED"} :
    LET row == [role |-> role, status |-> status] IN
    /\ RolesGuard(by) /\ console < ConsoleCalls
    /\ console' = console + 1
    /\ member' = [member EXCEPT ![who] = row]
    /\ ownersRaced' = (ownersRaced \/ ConsoleStrips(row, who))
    /\ seatsRaced' = (seatsRaced \/ (member[who].status = "DISABLED" /\ status = "ACTIVE"))
    /\ UNCHANGED <<badge, top>>

DeleteUser ==
  \E by \in People, who \in Members :
    LET row == [member[who] EXCEPT !.status = "DISABLED"] IN
    /\ RolesGuard(by) /\ console < ConsoleCalls
    /\ console' = console + 1
    /\ member' = [member EXCEPT ![who] = row]
    /\ ownersRaced' = (ownersRaced \/ ConsoleStrips(row, who))
    /\ UNCHANGED <<badge, top, seatsRaced>>

TeamNext ==
  \/ UpdateUser \/ DeleteUser
  \/ \E u \in People : Reissue(u)
  \/ \E o \in TeamOps :
       \/ TeamReceive(o) \/ FindEmail(o) \/ AssertSeatAvailable(o) \/ CreateMember(o)
       \/ FindMember(o) \/ CountOthers(o) \/ WriteMember(o)

-----------------------------------------------------------------------------
TeamTypeOK ==
  /\ \A u \in People : /\ member[u].role \in Roles
                       /\ member[u].status \in {"none", "ACTIVE", "DISABLED"}
                       /\ badge[u] \in Roles
  /\ \A o \in TeamOps :
       top[o].pc \in {"idle", "email", "seat", "insert", "find", "others", "write", "done"}
  /\ console \in 0 .. ConsoleCalls

(* A team has an active owner unless the console took the last one away or *)
(* two requests wrote on counts that were stale: in particular no sequence *)
(* of requests of the team page one after the other loses the last owner.  *)
OwnerUnlessRaced == ActiveOwners = {} => ownersRaced

(* No more members than seats unless two requests were let in on one seat  *)
(* or the console enabled a member whose seat was given away.              *)
SeatsUnlessRaced == Cardinality(Seated) > Seats => seatsRaced
=============================================================================
