----------------------------- MODULE HttpClient -----------------------------
(***************************************************************************)
(* The one page's way to the server: requests carry the access token, an   *)
(* expired one is renewed once for all requests that wait, and a refused   *)
(* renewal signs the page out.  Two ways do not pass the interceptor: an   *)
(* upload renews the token by itself, and streams and downloads just fail. *)
(* Tokens are numbered; pair n is access token n with refresh token n, and *)
(* 0 is none.                                                              *)
(***************************************************************************)
EXTENDS Integers, Sequences, SequencesExt

CONSTANTS Requests,
          KindOf,       \* request -> "json" | "knowledge" (uploads) | "raw" (streams, contract uploads, downloads)
          TokensMax,    \* token pairs issued
          Nobody        \* no renewal under way
ASSUME HttpAssumption ==
  TokensMax \in Nat \ {0} /\ Nobody \notin [by : Requests, token : Nat, reply : Int]

VARIABLES pageAt,       \* "app" | "login"
          authStore,    \* the token pair in the store
          server,       \* [issued, refresh |-> the live refresh token, valid |-> access tokens not expired]
          sent,         \* request -> [st, token, retry, body, reply]
          refreshing,   \* isRefreshing, with who renews: [by, token, reply]
          subscribers,  \* refreshSubscribers
          excused       \* why a renewal may be refused: the session ended, or another renewal or a lost answer used the token up
httpVars == <<pageAt, authStore, server, sent, refreshing, subscribers, excused>>

Idle == [st |-> "idle", token |-> 0, retry |-> FALSE, body |-> 0, reply |-> 0]
Refused == -1
Lost == -2
HttpInit ==
  /\ pageAt = "app" /\ authStore = 1
  /\ server = [issued |-> 1, refresh |-> 1, valid |-> {1}]
  /\ sent = [r \in Requests |-> Idle]
  /\ refreshing = Nobody /\ subscribers = <<>> /\ excused = FALSE

----------------------------------------------------------------------------
(* The server: a refresh token serves once, and a replay ends the session. *)
AfterRefresh(n) ==
  IF server.refresh = n
    THEN [issued |-> server.issued + 1, refresh |-> server.issued + 1, valid |-> server.valid \cup {server.issued + 1}]
    ELSE [server EXCEPT !.refresh = 0]
ReplyTo(n) == IF server.refresh = n THEN server.issued + 1 ELSE Refused

AccessExpires ==
  /\ server.valid # {} /\ server.issued < TokensMax
  /\ server' = [server EXCEPT !.valid = {}]
  /\ UNCHANGED <<pageAt, authStore, sent, refreshing, subscribers, excused>>
SessionEnds ==
  /\ server.refresh # 0
  /\ server' = [server EXCEPT !.refresh = 0, !.valid = {}] /\ excused' = TRUE
  /\ UNCHANGED <<pageAt, authStore, sent, refreshing, subscribers>>
\* A second tab has its own memory and the same token.
OtherTabRenews ==
  /\ server.refresh # 0 /\ server.issued < TokensMax
  /\ server' = AfterRefresh(server.refresh) /\ excused' = TRUE
  /\ UNCHANGED <<pageAt, authStore, sent, refreshing, subscribers>>

----------------------------------------------------------------------------
\* setAuth, and the guard that lets only the signed in past.
SignIn ==
  /\ pageAt = "login" /\ server.issued < TokensMax
  /\ server' = [server EXCEPT !.issued = @ + 1, !.refresh = server.issued + 1, !.valid = @ \cup {server.issued + 1}]
  /\ authStore' = server.issued + 1 /\ pageAt' = "app" /\ excused' = FALSE
  /\ UNCHANGED <<sent, refreshing, subscribers>>
\* logout and window.location: the page is loaded anew and forgets all it waited for.
LogOut ==
  /\ authStore' = 0 /\ pageAt' = "login"
  /\ sent' = [r \in Requests |-> Idle] /\ refreshing' = Nobody /\ subscribers' = <<>>
Guarded == pageAt = "app" /\ authStore # 0

Send(r) ==
  /\ Guarded /\ sent[r].st = "idle"
  /\ sent' = [sent EXCEPT ![r] = [Idle EXCEPT !.st = "sent", !.token = authStore]]
  /\ UNCHANGED <<pageAt, authStore, server, refreshing, subscribers, excused>>

Ends(r, how) == sent' = [sent EXCEPT ![r].st = how]
Succeeds(r) ==
  /\ sent[r].st \in {"sent", "resent"} /\ sent[r].token \in server.valid
  /\ Ends(r, "done")
  /\ UNCHANGED <<pageAt, authStore, server, refreshing, subscribers, excused>>
\* A timeout, a refusal or a fault: the caller's promise is rejected, with a toast unless silenced.
Fails(r) ==
  /\ sent[r].st \in {"sent", "resent"}
  /\ Ends(r, "failed")
  /\ UNCHANGED <<pageAt, authStore, server, refreshing, subscribers, excused>>
\* An upload whose answer is no JSON: the listener throws and the promise stays open.
AnswerUnreadable(r) ==
  /\ KindOf[r] = "knowledge" /\ sent[r].st \in {"sent", "resent"}
  /\ Ends(r, "hung")
  /\ UNCHANGED <<pageAt, authStore, server, refreshing, subscribers, excused>>

\* The response interceptor on a 401.
Intercept(r) ==
  CASE sent[r].retry ->
         Ends(r, "failed") /\ UNCHANGED <<pageAt, authStore, refreshing, subscribers>>
    [] ~sent[r].retry /\ authStore = 0 -> LogOut
    [] ~sent[r].retry /\ authStore # 0 /\ refreshing # Nobody ->
         /\ subscribers' = Append(subscribers, r) /\ Ends(r, "queued")
         /\ UNCHANGED <<pageAt, authStore, refreshing>>
    [] OTHER ->
         /\ sent' = [sent EXCEPT ![r] = [@ EXCEPT !.st = "waiting", !.retry = TRUE]]
         /\ refreshing' = [by |-> r, token |-> authStore, reply |-> 0]
         /\ UNCHANGED <<pageAt, authStore, subscribers>>

\* 401: the interceptor takes a request through axios; an upload renews by itself, once; the rest fail.
Unauthorized(r) ==
  /\ sent[r].st \in {"sent", "resent"} /\ sent[r].token \notin server.valid
  /\ CASE KindOf[r] = "json" -> Intercept(r)
       [] KindOf[r] = "knowledge" /\ sent[r].st = "sent" /\ authStore # 0 ->
            /\ sent' = [sent EXCEPT ![r] = [@ EXCEPT !.st = "renewing", !.body = authStore]]
            /\ UNCHANGED <<pageAt, authStore, refreshing, subscribers>>
       [] OTHER -> Ends(r, "failed") /\ UNCHANGED <<pageAt, authStore, refreshing, subscribers>>
  /\ UNCHANGED <<server, excused>>

\* The server answers the renewal the interceptor sent, or the answer is lost.
RefreshServed ==
  /\ refreshing # Nobody
  /\ refreshing.reply = 0 /\ server.issued < TokensMax
  /\ \E lost \in BOOLEAN :
       /\ refreshing' = [refreshing EXCEPT !.reply = IF lost THEN Lost ELSE ReplyTo(refreshing.token)]
       /\ excused' = (excused \/ lost)
  /\ server' = AfterRefresh(refreshing.token)
  /\ UNCHANGED <<pageAt, authStore, sent, subscribers>>

\* What a request the interceptor held is sent again as.
Resent(r, token) == [sent[r] EXCEPT !.st = IF KindOf[r] = "knowledge" THEN "renewing" ELSE "sent",
                                    !.token = token, !.reply = 0]
OnRefreshedForgets(token) ==
  /\ sent' = [r \in Requests |-> IF r = refreshing.by THEN Resent(r, token) ELSE sent[r]]
  /\ subscribers' = <<>>
OnRefreshed(token) ==
  /\ sent' = [r \in Requests |-> IF r = refreshing.by \/ r \in ToSet(subscribers) THEN Resent(r, token) ELSE sent[r]]
  /\ subscribers' = <<>>
RefreshAnswered ==
  /\ refreshing # Nobody
  /\ refreshing.reply # 0
  /\ IF refreshing.reply > 0
       THEN /\ authStore' = refreshing.reply /\ refreshing' = Nobody
            /\ OnRefreshed(refreshing.reply) /\ UNCHANGED pageAt
       ELSE LogOut
  /\ UNCHANGED <<server, excused>>

\* The upload's own renewal: a request like any other, so a refusal of it is intercepted too.
RenewalServed(r) ==
  /\ sent[r].st = "renewing" /\ sent[r].reply = 0 /\ server.issued < TokensMax
  /\ sent' = [sent EXCEPT ![r].reply = ReplyTo(sent[r].body)]
  /\ server' = AfterRefresh(sent[r].body) /\ excused' = TRUE
  /\ UNCHANGED <<pageAt, authStore, refreshing, subscribers>>
RenewalAnswered(r) ==
  /\ sent[r].st = "renewing" /\ sent[r].reply # 0
  /\ IF sent[r].reply > 0
       THEN /\ authStore' = sent[r].reply
            /\ sent' = [sent EXCEPT ![r] = [@ EXCEPT !.st = "resent", !.token = sent[r].reply, !.retry = FALSE]]
            /\ UNCHANGED <<pageAt, refreshing, subscribers>>
       ELSE Intercept(r)
  /\ UNCHANGED <<server, excused>>

HttpNext ==
  \/ AccessExpires \/ SessionEnds \/ OtherTabRenews \/ SignIn \/ RefreshServed \/ RefreshAnswered
  \/ \E r \in Requests : Send(r) \/ Succeeds(r) \/ Fails(r) \/ AnswerUnreadable(r) \/ Unauthorized(r)
                         \/ RenewalServed(r) \/ RenewalAnswered(r)

----------------------------------------------------------------------------
HttpTypeOK ==
  /\ pageAt \in {"app", "login"} /\ authStore \in 0..TokensMax
  /\ server.issued \in 1..TokensMax /\ server.refresh \in 0..server.issued /\ server.valid \subseteq 1..server.issued
  /\ \A r \in Requests : sent[r].st \in {"idle", "sent", "resent", "waiting", "queued", "renewing", "done", "failed", "hung"}

\* One page with no upload renews each token once, however many of its requests expire together: it
\* is signed out only because the session ended, another renewal was made, or an answer was lost.
SessionIsKept == pageAt = "login" => excused
\* A request waits in the queue only while a renewal is under way: whichever way it ends, the queue
\* is worked off or the page is gone.
NoRequestIsStranded ==
  /\ {r \in Requests : sent[r].st = "queued"} = ToSet(subscribers)
  /\ subscribers # <<>> => refreshing # Nobody

\* The user's session as the server has it: its one refresh token, and the tokens given out.
Promised == INSTANCE Sessions WITH
  Logins  <- {"page"},
  Tokens  <- 1..TokensMax,
  current <- [s \in {"page"} |-> {server.refresh} \ {0}],
  opened  <- {"page"},
  used    <- 1..server.issued
\* Whatever the page sends, renews or forgets, the server rotates the session's token, ends the session, or leaves it
\* as it is (as RefreshTokens does for any number of sessions), until the user signs in to the next one.
ServedAsPromised == [SignIn \/ Promised!Next]_(Promised!vars)
=============================================================================
