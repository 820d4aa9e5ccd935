------------------------------- MODULE SignIn -------------------------------
(***************************************************************************)
(* Signing up and signing in with one e-mail address: the codes of          *)
(* server/src/auth/verification-code.service.ts in Redis, and the handlers  *)
(* register, loginByCode and login of server/src/auth/auth.service.ts.      *)
(* Codes are numbered in the order they are sent; guess 0 is a wrong code.  *)
(* The fixed code of development is switched off, as in production.         *)
(***************************************************************************)
EXTENDS Integers

CONSTANTS
  SignOps,        \* requests under way
  MaxAttempts,    \* wrong guesses that make a code void
  MaxSends,       \* bound on the codes sent
  MaxGuesses      \* bound on the wrong guesses

ASSUME SignAssumption == MaxAttempts \in Nat \ {0} /\ MaxSends \in Nat /\ MaxGuesses \in Nat

VARIABLES
  code,           \* the stored code, or NoCode
  cooldown,       \* the key that delays the next code exists
  attempts,       \* the stored count of wrong guesses (0 when absent)
  account,        \* the user with this address, or NoAccount
  sends,          \* codes sent so far
  sending,        \* a code is stored and its count not yet reset
  sop,            \* sop[o]: the handler o
  guesses,        \* wrong guesses compared with the stored code
  passes,         \* requests let in by the stored code or the one before
  codeRaced       \* two requests worked on the code at once

signVars == <<code, cooldown, attempts, account, sends, sending, sop, guesses, passes, codeRaced>>

NoCode == 0
NoAccount == [status |-> "none"]
NewAccount(kind, persona) ==
  [status |-> "ACTIVE", verified |-> TRUE,
   role |-> IF kind = "register" THEN "ADMIN" ELSE "USER",
   space |-> IF kind = "register" THEN persona ELSE "PERSONAL"]

Personas == {"PERSONAL", "TEAM"}

SignIdle == [pc |-> "idle"]

SignInit ==
  /\ code = NoCode /\ cooldown = FALSE /\ attempts = 0
  /\ account = NoAccount
  /\ sends = 0 /\ sending = FALSE
  /\ sop = [o \in SignOps |-> SignIdle]
  /\ guesses = 0 /\ passes = 0 /\ codeRaced = FALSE

SignGo(o, place) == sop' = [sop EXCEPT ![o].pc = place]
SignEnd(o, in) == sop' = [sop EXCEPT ![o] = [pc |-> IF in THEN "in" ELSE "idle"]]

redisVars == <<code, cooldown, attempts, sends, sending>>
ghostVars == <<guesses, passes, codeRaced>>

-----------------------------------------------------------------------------
AtCode(o) == sop[o].pc \in {"tally", "store", "consume"}

(* sendCode: SET NX decides who sends; the code and its count are two      *)
(* writes.                                                                 *)
SendCode ==
  /\ ~cooldown /\ ~sending /\ sends < MaxSends
  /\ cooldown' = TRUE
  /\ sends' = sends + 1
  /\ code' = sends + 1
  /\ sending' = TRUE
  /\ guesses' = 0 /\ passes' = 0
  /\ codeRaced' = (codeRaced \/ \E o \in SignOps : AtCode(o))
  /\ UNCHANGED <<attempts, account, sop>>

ResetAttempts ==
  /\ sending
  /\ attempts' = 0
  /\ sending' = FALSE
  /\ codeRaced' = (codeRaced \/ guesses > 0 \/ \E o \in SignOps : AtCode(o))
  /\ UNCHANGED <<code, cooldown, account, sends, sop, guesses, passes>>

(* The delay ends before the code does, and the code, written first, ends  *)
(* before its count.                                                       *)
CooldownEnds == cooldown /\ cooldown' = FALSE
                /\ UNCHANGED <<code, attempts, sends, sending, account, sop, ghostVars>>

CodeExpires ==
  /\ code # NoCode /\ ~cooldown /\ ~sending
  /\ code' = NoCode
  /\ UNCHANGED <<cooldown, attempts, sends, sending, account, sop, ghostVars>>

AttemptsExpire ==
  /\ code = NoCode /\ attempts # 0
  /\ attempts' = 0
  /\ UNCHANGED <<code, cooldown, sends, sending, account, sop, ghostVars>>

-----------------------------------------------------------------------------
Register(o) ==
  /\ sop[o] = SignIdle
  /\ \E guess \in 0 .. sends, persona \in Personas :
       IF account # NoAccount THEN UNCHANGED sop
       ELSE sop' = [sop EXCEPT ![o] =
              [pc |-> "compare", kind |-> "register", guess |-> guess, persona |-> persona, saw |-> 0]]
  /\ UNCHANGED <<redisVars, account, ghostVars>>

LoginByCode(o) ==
  /\ sop[o] = SignIdle
  /\ \E guess \in 0 .. sends :
       sop' = [sop EXCEPT ![o] =
         [pc |-> "compare", kind |-> "byCode", guess |-> guess, persona |-> "PERSONAL", saw |-> 0]]
  /\ UNCHANGED <<redisVars, account, ghostVars>>

(* verifyCode reads the code.  A wrong guess reads the count, then writes  *)
(* it back or, at the limit, deletes both; a right one deletes both.       *)
CompareCode(o) ==
  LET op == sop[o] IN
  /\ op.pc = "compare"
  /\ op.guess # code => guesses < MaxGuesses
  /\ \/ code = NoCode /\ SignEnd(o, FALSE) /\ UNCHANGED guesses
     \/ code # NoCode /\ code = op.guess /\ SignGo(o, "consume") /\ UNCHANGED guesses
     \/ code # NoCode /\ code # op.guess /\ SignGo(o, "tally") /\ guesses' = guesses + 1
  /\ codeRaced' = (codeRaced \/ \E p \in SignOps : AtCode(p))
  /\ UNCHANGED <<redisVars, account, passes>>

Tally(o) ==
  /\ sop[o].pc = "tally"
  /\ sop' = [sop EXCEPT ![o].pc = "store", ![o].saw = attempts + 1]
  /\ UNCHANGED <<redisVars, account, ghostVars>>

VoidCode(count) == count >= MaxAttempts

StoreAttempts(o) ==
  LET count == sop[o].saw IN
  /\ sop[o].pc = "store"
  /\ IF VoidCode(count) THEN code' = NoCode /\ attempts' = 0
                    ELSE attempts' = count /\ UNCHANGED code
  /\ SignEnd(o, FALSE)
  /\ UNCHANGED <<cooldown, sends, sending, account, ghostVars>>

ConsumeCode(o) ==
  /\ sop[o].pc = "consume"
  /\ code' = NoCode /\ attempts' = 0
  /\ passes' = passes + 1
  /\ SignGo(o, IF sop[o].kind = "register" THEN "create" ELSE "lookup")
  /\ UNCHANGED <<cooldown, sends, sending, account, guesses, codeRaced>>

(* One transaction creates the tenant and the user; the address is unique, *)
(* so the second of two fails, its code spent.                             *)
CreateAccount(o) ==
  LET op == sop[o] IN
  /\ op.pc = "create"
  /\ IF account = NoAccount
     THEN account' = NewAccount(op.kind, op.persona) /\ SignGo(o, "issue")
     ELSE SignEnd(o, FALSE) /\ UNCHANGED account
  /\ UNCHANGED <<redisVars, ghostVars>>

(* loginByCode opens a free space for an unknown address, refuses a        *)
(* disabled user and marks the address of any other as verified.           *)
LookUpUser(o) ==
  /\ sop[o].pc = "lookup"
  /\ \/ account = NoAccount /\ SignGo(o, "create")
     \/ account.status = "DISABLED" /\ SignEnd(o, FALSE)
     \/ account.status = "ACTIVE" /\ SignGo(o, IF account.verified THEN "issue" ELSE "mark")
  /\ UNCHANGED <<redisVars, account, ghostVars>>

MarkVerified(o) ==
  /\ sop[o].pc = "mark"
  /\ account' = [account EXCEPT !.verified = TRUE]
  /\ SignGo(o, "issue")
  /\ UNCHANGED <<redisVars, ghostVars>>

(* login by password: validateUser reads the user, login writes the time   *)
(* of the login and issues the tokens.                                     *)
ValidateUser(o) ==
  /\ sop[o] = SignIdle
  /\ account # NoAccount
  /\ IF account.status = "ACTIVE"
     THEN sop' = [sop EXCEPT ![o] = [pc |-> "issue", kind |-> "password"]]
     ELSE UNCHANGED sop
  /\ UNCHANGED <<redisVars, account, ghostVars>>

IssueTokens(o) ==
  /\ sop[o].pc = "issue"
  /\ SignEnd(o, TRUE)
  /\ UNCHANGED <<redisVars, account, ghostVars>>

(* An owner invites the address into a team (team.service.ts), or the      *)
(* console disables it.                                                    *)
Invited ==
  /\ account = NoAccount
  /\ account' = [status |-> "ACTIVE", verified |-> FALSE, role |-> "USER", space |-> "TEAM"]
  /\ UNCHANGED <<redisVars, sop, ghostVars>>

ConsoleDisables ==
  /\ account # NoAccount
  /\ account' = [account EXCEPT !.status = "DISABLED"]
  /\ UNCHANGED <<redisVars, sop, ghostVars>>

SignNext ==
  \/ SendCode \/ ResetAttempts \/ CooldownEnds \/ CodeExpires \/ AttemptsExpire
  \/ Invited \/ ConsoleDisables
  \/ \E o \in SignOps :
       \/ Register(o) \/ LoginByCode(o) \/ CompareCode(o) \/ Tally(o) \/ StoreAttempts(o)
       \/ ConsumeCode(o) \/ CreateAccount(o) \/ LookUpUser(o) \/ MarkVerified(o)
       \/ ValidateUser(o) \/ IssueTokens(o)

-----------------------------------------------------------------------------
SignTypeOK ==
  /\ code \in 0 .. MaxSends /\ sends \in 0 .. MaxSends
  /\ attempts \in 0 .. MaxAttempts /\ guesses \in 0 .. MaxGuesses
  /\ account.status \in {"none", "ACTIVE", "DISABLED"}

(* A code lets one request in and stands MaxAttempts wrong guesses, unless *)
(* two requests worked on it at the same time: the count is read and       *)
(* written in two calls and the code is read and deleted in two.           *)
CodesUnlessRaced ==
  codeRaced \/ (passes <= 1 /\ (code # NoCode => guesses <= MaxAttempts))

(* A team member keeps role and space when the address signs up by code at *)
(* the same time as the invitation: the account is the first one's.        *)
AccountIsStable ==
  account # NoAccount => /\ account' # NoAccount
                         /\ account'.role = account.role
                         /\ account'.space = account.space
=============================================================================
