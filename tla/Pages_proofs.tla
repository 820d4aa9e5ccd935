------------------------------ MODULE Pages_proofs ------------------------------
(***************************************************************************)
(* Pages' properties hold for any number of requests, tokens, contracts,   *)
(* visits, orders, tools and questions.  Each part has an invariant of its *)
(* own: HttpInv, ScreenInv, SalesInv and TalksInv.  A step is of the part  *)
(* the behaviour is of and leaves the others at rest.  The server the page *)
(* talks to implements Sessions between two sign-ins.                      *)
(***************************************************************************)
EXTENDS Pages, FiniteSetTheorems, SequenceTheorems, WellFoundedInduction, TLAPS


(* A nonempty set of numbers has a least one, and one between bounds a     *)
(* greatest.                                                               *)
LEMMA LeastOf ==
  ASSUME NEW S, S # {}, S \subseteq Nat
  PROVE  \E x \in S : \A y \in S : x <= y
<1> DEFINE R == OpToRel(<, Nat)
<1>1. IsWellFoundedOn(R, Nat)
  BY NatLessThanWellFounded
<1>2. \A x, y \in Nat : y < x => <<y, x>> \in R
  BY DEF OpToRel
<1> HIDE DEF R
<1>3. PICK x \in S : \A y \in S : ~(<<y, x>> \in R)
  BY <1>1, WFMin
<1>4. x \in Nat
  OBVIOUS
<1>5. ASSUME NEW y \in S PROVE x <= y
  <2>1. ~(y < x)
    BY <1>2, <1>3, <1>4
  <2> QED BY <2>1, <1>4
<1> QED BY <1>5

(* One entry of a list rewritten.                                          *)
LEMMA EntryAnew ==
  ASSUME NEW S, NEW list \in Seq(S), NEW i \in DOMAIN list, NEW e \in S
  PROVE  /\ [list EXCEPT ![i] = e] \in Seq(S) /\ Len([list EXCEPT ![i] = e]) = Len(list)
         /\ DOMAIN [list EXCEPT ![i] = e] = DOMAIN list
         /\ \A j \in DOMAIN list : [list EXCEPT ![i] = e][j] = IF j = i THEN e ELSE list[j]
<1>1. DOMAIN list = 1 .. Len(list)
  BY LenProperties
<1> QED BY <1>1, ExceptSeq

LEMMA EntryAppended ==
  ASSUME NEW S, NEW list \in Seq(S), NEW e \in S
  PROVE  /\ Append(list, e) \in Seq(S) /\ Len(Append(list, e)) = Len(list) + 1
         /\ DOMAIN list = 1 .. Len(list) /\ DOMAIN Append(list, e) = DOMAIN list \cup {Len(list) + 1}
         /\ Len(list) \in Nat /\ Append(list, e)[Len(list) + 1] = e
         /\ \A j \in DOMAIN list : list[j] \in S /\ Append(list, e)[j] = list[j]
<1>1. Append(list, e) \in Seq(S) /\ Len(Append(list, e)) = Len(list) + 1
  BY AppendProperties
<1>2. /\ DOMAIN list = 1 .. Len(list) /\ Len(list) \in Nat /\ DOMAIN Append(list, e) = 1 .. (Len(list) + 1)
      /\ \A j \in DOMAIN list : list[j] \in S
  BY <1>1, LenProperties, ElementOfSeq
<1>3. /\ \A j \in 1 .. Len(list) : Append(list, e)[j] = list[j]
      /\ Append(list, e)[Len(list) + 1] = e
  BY AppendProperties
<1> QED BY <1>1, <1>2, <1>3

LEMMA GreatestOf ==
  ASSUME NEW n \in Nat, NEW S, S # {}, S \subseteq 1 .. n
  PROVE  \E x \in S : \A y \in S : y <= x
<1> DEFINE T == {n - x : x \in S}
<1>0. \A x \in S : x \in Nat /\ x <= n /\ n - x \in Nat
  OBVIOUS
<1>1. T # {} /\ T \subseteq Nat
  BY <1>0
<1>2. PICK m \in T : \A k \in T : m <= k
  BY <1>1, LeastOf
<1>3. PICK x \in S : m = n - x
  BY <1>2
<1>4. ASSUME NEW y \in S PROVE y <= x
  <2>1. n - x <= n - y
    BY <1>2, <1>3
  <2> QED BY <1>0, <2>1
<1> QED BY <1>4

-----------------------------------------------------------------------------
(* HttpClient: tokens and requests.                                        *)
Stations == {"idle", "sent", "resent", "waiting", "queued", "renewing", "done", "failed", "hung"}
Tokens == 0..TokensMax
Held == [st : Stations, token : Tokens, retry : BOOLEAN, body : Tokens, reply : Int]
Renewals == [by : Requests, token : Tokens, reply : Int]
PageShape == pageAt \in {"app", "login"} /\ authStore \in Tokens /\ excused \in BOOLEAN
ServerShape ==
  /\ server = [issued |-> server.issued, refresh |-> server.refresh, valid |-> server.valid]
  /\ server.issued \in 1..TokensMax /\ server.refresh \in 0..server.issued /\ server.valid \subseteq 1..server.issued
SentShape == sent \in [Requests -> Held]
RenewalShape == (refreshing = Nobody \/ refreshing \in Renewals) /\ subscribers \in Seq(Requests)

(* Who waits for the one renewal.                                          *)
Queued == {r \in Requests : sent[r].st = "queued"}

(* While nothing excuses a refusal: the page holds the token that serves,  *)
(* or a renewal with it is under way, or the answer that brings the next.  *)
HoldsTheToken ==
  /\ pageAt = "app" /\ server.refresh # 0
  /\ \A r \in Requests : sent[r].reply = 0
  /\ IF refreshing = Nobody THEN authStore = server.refresh
     ELSE IF refreshing.reply = 0 THEN authStore = server.refresh /\ refreshing.token = authStore
     ELSE refreshing.reply = server.refresh

(* The page is signed in as long as it holds a token, and forgets all it   *)
(* waited for when it is not; no answer is beyond the tokens there are.    *)
RepliesAreTokens ==
  /\ pageAt = "app" <=> authStore # 0
  /\ pageAt = "login" => refreshing = Nobody /\ \A r \in Requests : sent[r] = Idle
  /\ \A r \in Requests : sent[r].reply <= TokensMax
  /\ refreshing # Nobody => refreshing.reply <= TokensMax

HttpInv ==
  /\ PageShape /\ ServerShape /\ SentShape /\ RenewalShape /\ RepliesAreTokens
  /\ excused \/ HoldsTheToken
  /\ Queued = ToSet(subscribers) /\ (subscribers # <<>> => refreshing # Nobody)

LEMMA NobodyRenews == Nobody \notin Renewals
BY HttpAssumption DEF Renewals, Tokens

LEMMA IdleIsHeld == Idle \in Held /\ \A n \in Tokens : [Idle EXCEPT !.st = "sent", !.token = n] \in Held
<1>1. 0 \in Tokens
  BY HttpAssumption DEF Tokens
<1>2. Idle \in Held
  BY <1>1 DEF Idle, Held, Stations
<1>3. \A x \in Held, n \in Tokens : [x EXCEPT !.st = "sent", !.token = n] \in Held
  BY DEF Held, Stations
<1> QED BY <1>2, <1>3

LEMMA EmptyQueue == <<>> \in Seq(Requests) /\ ToSet(<<>>) = {}
BY DEF ToSet

LEMMA HttpInitially == HttpInit => HttpInv
<1> SUFFICES ASSUME HttpInit PROVE HttpInv
  OBVIOUS
<1>1. PageShape /\ ServerShape
  <2>1. 1 \in Tokens /\ 1 \in 1..TokensMax
    BY HttpAssumption DEF Tokens
  <2>2. server = [issued |-> 1, refresh |-> 1, valid |-> {1}] /\ {1} \subseteq 1..1 /\ 1 \in 0..1
    BY DEF HttpInit
  <2>3. server.issued = 1 /\ server.refresh = 1 /\ server.valid = {1}
    BY <2>2
  <2> QED BY <2>1, <2>2, <2>3 DEF HttpInit, PageShape, ServerShape
<1>2. SentShape
  BY IdleIsHeld DEF HttpInit, SentShape
<1>3. RenewalShape
  BY EmptyQueue DEF HttpInit, RenewalShape
<1>4. RepliesAreTokens /\ HoldsTheToken
  BY HttpAssumption DEF HttpInit, RepliesAreTokens, HoldsTheToken, Idle
<1>5. Queued = {}
  BY DEF HttpInit, Queued, Idle
<1> QED BY <1>1, <1>2, <1>3, <1>4, <1>5, EmptyQueue DEF HttpInit, HttpInv

LEMMA HttpInType == HttpInv => HttpTypeOK /\ SessionIsKept /\ NoRequestIsStranded
<1> SUFFICES ASSUME HttpInv PROVE HttpTypeOK /\ SessionIsKept /\ NoRequestIsStranded
  OBVIOUS
<1>1. HttpTypeOK
  <2>1. \A r \in Requests : sent[r].st \in Stations
    BY DEF HttpInv, SentShape, Held
  <2> QED BY <2>1 DEF HttpInv, PageShape, ServerShape, HttpTypeOK, Stations, Tokens
<1>2. SessionIsKept
  BY DEF HttpInv, HoldsTheToken, SessionIsKept
<1> QED BY <1>1, <1>2 DEF HttpInv, NoRequestIsStranded, Queued

(* One request rewritten.                                                  *)
LEMMA Rewritten ==
  ASSUME SentShape, NEW r \in Requests, NEW x \in Held, sent' = [sent EXCEPT ![r] = x]
  PROVE  SentShape' /\ sent'[r] = x /\ \A q \in Requests \ {r} : sent'[q] = sent[q]
BY DEF SentShape

LEMMA Restationed ==
  ASSUME NEW x \in Held, NEW st \in Stations
  PROVE  /\ [x EXCEPT !.st = st] \in Held /\ [x EXCEPT !.st = st].st = st /\ [x EXCEPT !.st = st].reply = x.reply
         /\ [x EXCEPT !.st = st, !.retry = TRUE] \in Held
         /\ [x EXCEPT !.st = st, !.retry = TRUE].st = st /\ [x EXCEPT !.st = st, !.retry = TRUE].reply = x.reply
BY DEF Held

LEMMA SentAnew ==
  ASSUME NEW x \in Held, NEW n \in Tokens
  PROVE  /\ [x EXCEPT !.st = "renewing", !.token = n, !.reply = 0] \in Held
         /\ [x EXCEPT !.st = "renewing", !.token = n, !.reply = 0].st = "renewing"
         /\ [x EXCEPT !.st = "renewing", !.token = n, !.reply = 0].reply = 0
         /\ [x EXCEPT !.st = "sent", !.token = n, !.reply = 0] \in Held
         /\ [x EXCEPT !.st = "sent", !.token = n, !.reply = 0].st = "sent"
         /\ [x EXCEPT !.st = "sent", !.token = n, !.reply = 0].reply = 0
<1>1. PICK m \in Int : m = 0
  OBVIOUS
<1>2. /\ [x EXCEPT !.st = "renewing", !.token = n, !.reply = m] \in Held
      /\ [x EXCEPT !.st = "renewing", !.token = n, !.reply = m].st = "renewing"
      /\ [x EXCEPT !.st = "renewing", !.token = n, !.reply = m].reply = m
      /\ [x EXCEPT !.st = "sent", !.token = n, !.reply = m] \in Held
      /\ [x EXCEPT !.st = "sent", !.token = n, !.reply = m].st = "sent"
      /\ [x EXCEPT !.st = "sent", !.token = n, !.reply = m].reply = m
  BY DEF Held, Stations
<1> QED BY <1>1, <1>2

(* What one request does to the others, the queue and the session.         *)
LEMMA OneMoves ==
  ASSUME HttpInv, pageAt = "app", NEW r \in Requests, NEW x \in Held, sent' = [sent EXCEPT ![r] = x],
         x.reply \in {0, sent[r].reply}, sent[r].st # "queued", x.st # "queued",
         UNCHANGED <<pageAt, authStore, server, refreshing, subscribers, excused>>
  PROVE  HttpInv'
<1>1. SentShape' /\ sent'[r] = x /\ \A q \in Requests \ {r} : sent'[q] = sent[q]
  BY Rewritten DEF HttpInv
<1>2. PageShape' /\ ServerShape' /\ RenewalShape'
  BY DEF HttpInv, PageShape, ServerShape, RenewalShape
<1>3. RepliesAreTokens'
  <2>1. \A q \in Requests : sent'[q].reply <= TokensMax
    BY <1>1, HttpAssumption DEF HttpInv, RepliesAreTokens
  <2> QED BY <2>1 DEF HttpInv, RepliesAreTokens
<1>4. (excused \/ HoldsTheToken)'
  BY <1>1 DEF HttpInv, HoldsTheToken
<1>5. Queued' = Queued
  BY <1>1 DEF Queued
<1> QED BY <1>1, <1>2, <1>3, <1>4, <1>5 DEF HttpInv

(* One more in the queue.                                                  *)
LEMMA OneMoreQueued ==
  ASSUME NEW r \in Requests, subscribers \in Seq(Requests)
  PROVE  /\ Append(subscribers, r) \in Seq(Requests)
         /\ ToSet(Append(subscribers, r)) = ToSet(subscribers) \cup {r}
<1>1. Append(subscribers, r) \in Seq(Requests)
  OBVIOUS
<1>2. ASSUME NEW q \in ToSet(subscribers) PROVE q \in ToSet(Append(subscribers, r))
  <2>1. PICK i \in DOMAIN subscribers : q = subscribers[i]
    BY DEF ToSet
  <2>2. i \in DOMAIN Append(subscribers, r) /\ Append(subscribers, r)[i] = q
    BY <2>1
  <2> QED BY <2>2 DEF ToSet
<1>3. Len(subscribers) + 1 \in DOMAIN Append(subscribers, r) /\ Append(subscribers, r)[Len(subscribers) + 1] = r
  OBVIOUS
<1>4. r \in ToSet(Append(subscribers, r))
  BY <1>3 DEF ToSet
<1>5. ASSUME NEW q \in ToSet(Append(subscribers, r)), q # r PROVE q \in ToSet(subscribers)
  <2>1. PICK i \in DOMAIN Append(subscribers, r) : q = Append(subscribers, r)[i]
    BY DEF ToSet
  <2>2. i \in DOMAIN subscribers /\ subscribers[i] = q
    BY <2>1, <1>5
  <2> QED BY <2>2 DEF ToSet
<1> QED BY <1>1, <1>2, <1>4, <1>5

LEMMA LoggedOut ==
  ASSUME HttpInv, LogOut, UNCHANGED <<server, excused>>, excused
  PROVE  HttpInv'
<1>1. PageShape' /\ ServerShape'
  BY HttpAssumption DEF LogOut, HttpInv, PageShape, ServerShape, Tokens
<1>2. SentShape' /\ RenewalShape'
  BY IdleIsHeld, EmptyQueue DEF LogOut, SentShape, RenewalShape
<1>3. RepliesAreTokens'
  BY HttpAssumption DEF LogOut, RepliesAreTokens, Idle
<1>4. Queued' = {}
  BY DEF LogOut, Queued, Idle
<1> QED BY <1>1, <1>2, <1>3, <1>4, EmptyQueue DEF LogOut, HttpInv

(* The page of a request that is under way is open.                        *)
LEMMA UnderWayInApp ==
  ASSUME HttpInv, NEW r \in Requests, sent[r].st # "idle"
  PROVE  pageAt = "app" /\ authStore # 0 /\ sent[r] \in Held /\ sent[r].reply <= TokensMax
BY DEF HttpInv, PageShape, SentShape, RepliesAreTokens, Idle

(* The interceptor, on a request the server did not let in.                *)
LEMMA Intercepted ==
  ASSUME HttpInv, NEW r \in Requests, sent[r].st \in {"sent", "resent", "renewing"}, Intercept(r), UNCHANGED <<server, excused>>
  PROVE  HttpInv'
<1>0. pageAt = "app" /\ authStore # 0 /\ sent[r] \in Held
  BY UnderWayInApp
<1>1. CASE sent[r].retry
  <2>1. sent' = [sent EXCEPT ![r] = [sent[r] EXCEPT !.st = "failed"]] /\ UNCHANGED <<pageAt, authStore, refreshing, subscribers>>
    BY <1>1 DEF Intercept, Ends
  <2>2. /\ [sent[r] EXCEPT !.st = "failed"] \in Held /\ [sent[r] EXCEPT !.st = "failed"].st = "failed"
        /\ [sent[r] EXCEPT !.st = "failed"].reply = sent[r].reply
    BY <1>0, Restationed DEF Stations
  <2> QED BY <1>0, <2>1, <2>2, OneMoves
<1>2. CASE ~sent[r].retry /\ refreshing # Nobody
  <2>1. /\ subscribers' = Append(subscribers, r) /\ sent' = [sent EXCEPT ![r] = [sent[r] EXCEPT !.st = "queued"]]
        /\ UNCHANGED <<pageAt, authStore, refreshing>>
    BY <1>0, <1>2 DEF Intercept, Ends
  <2>2. /\ SentShape' /\ sent'[r].st = "queued" /\ sent'[r].reply = sent[r].reply
        /\ \A q \in Requests \ {r} : sent'[q] = sent[q]
    <3>1. /\ [sent[r] EXCEPT !.st = "queued"] \in Held /\ [sent[r] EXCEPT !.st = "queued"].st = "queued"
          /\ [sent[r] EXCEPT !.st = "queued"].reply = sent[r].reply
      BY <1>0, Restationed DEF Stations
    <3>2. SentShape
      BY DEF HttpInv
    <3> QED BY <2>1, <3>1, <3>2, Rewritten
  <2>3. PageShape' /\ ServerShape' /\ RenewalShape'
    BY <2>1, OneMoreQueued DEF HttpInv, PageShape, ServerShape, RenewalShape
  <2>4. RepliesAreTokens' /\ (excused \/ HoldsTheToken)'
    <3>1. \A q \in Requests : sent'[q].reply = sent[q].reply
      BY <2>2
    <3> QED BY <1>0, <2>1, <3>1 DEF HttpInv, RepliesAreTokens, HoldsTheToken
  <2>5. Queued' = Queued \cup {r}
    BY <2>2 DEF Queued
  <2> QED BY <1>2, <2>1, <2>2, <2>3, <2>4, <2>5, OneMoreQueued DEF HttpInv, RenewalShape
<1>3. CASE ~sent[r].retry /\ refreshing = Nobody
  <2>1. /\ sent' = [sent EXCEPT ![r] = [sent[r] EXCEPT !.st = "waiting", !.retry = TRUE]]
        /\ refreshing' = [by |-> r, token |-> authStore, reply |-> 0]
        /\ UNCHANGED <<pageAt, authStore, subscribers>>
    BY <1>0, <1>3 DEF Intercept
  <2>2. refreshing' \in Renewals /\ refreshing' # Nobody /\ refreshing'.reply = 0 /\ refreshing'.token = authStore
    BY <2>1, NobodyRenews DEF HttpInv, PageShape, Renewals
  <2>3. /\ SentShape' /\ sent'[r].st = "waiting" /\ sent'[r].reply = sent[r].reply
        /\ \A q \in Requests \ {r} : sent'[q] = sent[q]
    <3>1. /\ [sent[r] EXCEPT !.st = "waiting", !.retry = TRUE] \in Held
          /\ [sent[r] EXCEPT !.st = "waiting", !.retry = TRUE].st = "waiting"
          /\ [sent[r] EXCEPT !.st = "waiting", !.retry = TRUE].reply = sent[r].reply
      BY <1>0, Restationed DEF Stations
    <3>2. SentShape
      BY DEF HttpInv
    <3> QED BY <2>1, <3>1, <3>2, Rewritten
  <2>4. PageShape' /\ ServerShape' /\ RenewalShape'
    BY <2>1, <2>2 DEF HttpInv, PageShape, ServerShape, RenewalShape
  <2>5. RepliesAreTokens' /\ (excused \/ HoldsTheToken)'
    <3>1. \A q \in Requests : sent'[q].reply = sent[q].reply
      BY <2>3
    <3> QED BY <1>0, <1>3, <2>1, <2>2, <3>1, HttpAssumption DEF HttpInv, RepliesAreTokens, HoldsTheToken
  <2>6. Queued' = Queued
    BY <2>3 DEF Queued
  <2> QED BY <2>1, <2>2, <2>3, <2>4, <2>5, <2>6 DEF HttpInv
<1> QED BY <1>1, <1>2, <1>3

(* An answered renewal is the next token, which is then the one that       *)
(* serves, or a refusal.                                                   *)
LEMMA RenewedOrRefused ==
  ASSUME ServerShape, NEW n \in Tokens, server.issued < TokensMax, server' = AfterRefresh(n)
  PROVE  /\ ServerShape'
         /\ ReplyTo(n) \in Int /\ ReplyTo(n) # 0 /\ ReplyTo(n) <= TokensMax
         /\ n = server.refresh => ReplyTo(n) = server'.refresh /\ ReplyTo(n) > 0
<1> USE HttpAssumption
<1>1. CASE server.refresh = n
  <2>1. server' = [issued |-> server.issued + 1, refresh |-> server.issued + 1, valid |-> server.valid \cup {server.issued + 1}]
    BY <1>1 DEF AfterRefresh
  <2>2. /\ server.issued + 1 \in 1..TokensMax
        /\ server.valid \cup {server.issued + 1} \subseteq 1..(server.issued + 1)
    BY DEF ServerShape
  <2>3. ReplyTo(n) = server.issued + 1
    BY <1>1 DEF ReplyTo
  <2> QED BY <2>1, <2>2, <2>3 DEF ServerShape
<1>2. CASE server.refresh # n
  <2>1. server' = [server EXCEPT !.refresh = 0] /\ ReplyTo(n) = -1
    BY <1>2 DEF AfterRefresh, ReplyTo, Refused
  <2>2. server' = [issued |-> server.issued, refresh |-> 0, valid |-> server.valid]
    BY <2>1 DEF ServerShape
  <2> QED BY <1>2, <2>1, <2>2 DEF ServerShape
<1> QED BY <1>1, <1>2

LEMMA HttpPreserved == HttpInv /\ [HttpNext]_httpVars => HttpInv'
<1> SUFFICES ASSUME HttpInv, [HttpNext]_httpVars PROVE HttpInv'
  OBVIOUS
<1> USE HttpAssumption
<1>0. PageShape /\ ServerShape /\ SentShape /\ RenewalShape /\ RepliesAreTokens
  BY DEF HttpInv
<1>1. CASE UNCHANGED httpVars
  BY <1>1 DEF httpVars, HttpInv, PageShape, ServerShape, SentShape, RenewalShape, RepliesAreTokens, HoldsTheToken, Queued
<1>2. ASSUME UNCHANGED <<pageAt, authStore, sent, refreshing, subscribers>>, ServerShape', excused' \in BOOLEAN,
             excused' \/ (HoldsTheToken /\ server'.refresh = server.refresh)
      PROVE  HttpInv'
  <2>1. PageShape' /\ SentShape' /\ RenewalShape' /\ RepliesAreTokens'
    BY <1>0, <1>2 DEF PageShape, SentShape, RenewalShape, RepliesAreTokens
  <2>2. (excused \/ HoldsTheToken)'
    BY <1>2 DEF HoldsTheToken
  <2> QED BY <1>2, <2>1, <2>2 DEF HttpInv, Queued
<1>3. CASE AccessExpires
  <2>1. server' = [issued |-> server.issued, refresh |-> server.refresh, valid |-> {}]
    BY <1>0, <1>3 DEF AccessExpires, ServerShape
  <2> QED BY <1>0, <1>2, <1>3, <2>1 DEF AccessExpires, ServerShape, PageShape, HttpInv
<1>4. CASE SessionEnds
  <2>1. server' = [issued |-> server.issued, refresh |-> 0, valid |-> {}]
    BY <1>0, <1>4 DEF SessionEnds, ServerShape
  <2>2. ServerShape'
    BY <1>0, <2>1 DEF ServerShape
  <2> QED BY <1>2, <1>4, <2>2 DEF SessionEnds
<1>5. CASE OtherTabRenews
  <2>1. server.refresh \in Tokens
    BY <1>0 DEF ServerShape, Tokens
  <2> QED BY <1>0, <1>2, <1>5, <2>1, RenewedOrRefused DEF OtherTabRenews
<1>6. CASE SignIn
  <2>1. /\ server.issued < TokensMax /\ pageAt = "login"
        /\ server' = [server EXCEPT !.issued = @ + 1, !.refresh = server.issued + 1, !.valid = @ \cup {server.issued + 1}]
        /\ authStore' = server.issued + 1 /\ pageAt' = "app" /\ excused' = FALSE
        /\ UNCHANGED <<sent, refreshing, subscribers>>
    BY <1>6 DEF SignIn
  <2>2. server' = [issued |-> server.issued + 1, refresh |-> server.issued + 1, valid |-> server.valid \cup {server.issued + 1}]
    BY <1>0, <2>1 DEF ServerShape
  <2>3. /\ server.issued + 1 \in 1..TokensMax
        /\ server.valid \cup {server.issued + 1} \subseteq 1..(server.issued + 1)
    BY <1>0, <2>1 DEF ServerShape
  <2>4. ServerShape' /\ PageShape'
    <3>1. server.issued + 1 \in Tokens /\ server.issued + 1 \in 0..(server.issued + 1)
      BY <2>3 DEF Tokens
    <3>2. ServerShape'
      BY <2>2, <2>3, <3>1 DEF ServerShape
    <3> QED BY <2>1, <3>1, <3>2 DEF PageShape
  <2>5. SentShape' /\ RenewalShape'
    BY <1>0, <2>1 DEF SentShape, RenewalShape
  <2>6. refreshing = Nobody /\ \A r \in Requests : sent[r].reply = 0
    BY <1>0, <2>1 DEF RepliesAreTokens, Idle
  <2>7. RepliesAreTokens' /\ HoldsTheToken'
    BY <2>1, <2>2, <2>3, <2>6 DEF RepliesAreTokens, HoldsTheToken
  <2> QED BY <2>1, <2>4, <2>5, <2>7 DEF HttpInv, Queued
<1>7. CASE RefreshServed
  <2>1. /\ refreshing # Nobody /\ refreshing.reply = 0 /\ server.issued < TokensMax
        /\ server' = AfterRefresh(refreshing.token)
        /\ UNCHANGED <<pageAt, authStore, sent, subscribers>>
    BY <1>7 DEF RefreshServed
  <2>2. PICK lost \in BOOLEAN :
          /\ refreshing' = [refreshing EXCEPT !.reply = IF lost THEN Lost ELSE ReplyTo(refreshing.token)]
          /\ excused' = (excused \/ lost)
    BY <1>7 DEF RefreshServed
  <2>3. refreshing \in Renewals /\ refreshing.token \in Tokens
    BY <1>0, <2>1 DEF RenewalShape, Renewals
  <2>4. /\ ServerShape' /\ ReplyTo(refreshing.token) \in Int /\ ReplyTo(refreshing.token) # 0 /\ ReplyTo(refreshing.token) <= TokensMax
        /\ refreshing.token = server.refresh => ReplyTo(refreshing.token) = server'.refresh /\ ReplyTo(refreshing.token) > 0
    BY <1>0, <2>1, <2>3, RenewedOrRefused
  <2>5. /\ refreshing' \in Renewals /\ refreshing' # Nobody
        /\ refreshing'.reply <= TokensMax /\ refreshing'.reply # 0
        /\ ~lost => refreshing'.reply = ReplyTo(refreshing.token)
    BY <2>2, <2>3, <2>4, NobodyRenews DEF Lost, Renewals
  <2>6. PageShape' /\ SentShape' /\ RenewalShape'
    BY <1>0, <2>1, <2>2, <2>5 DEF PageShape, SentShape, RenewalShape
  <2>7. RepliesAreTokens'
    BY <1>0, <2>1, <2>5 DEF RepliesAreTokens
  <2>8. ASSUME ~excused' PROVE HoldsTheToken'
    <3>1. HoldsTheToken /\ ~lost
      BY <2>2, <2>8 DEF HttpInv
    <3> QED BY <2>1, <2>4, <2>5, <3>1 DEF HoldsTheToken
  <2> QED BY <2>1, <2>4, <2>5, <2>6, <2>7, <2>8 DEF HttpInv, Queued
<1>8. CASE RefreshAnswered
  <2>1. refreshing # Nobody /\ refreshing.reply # 0 /\ UNCHANGED <<server, excused>>
    BY <1>8 DEF RefreshAnswered
  <2>2. refreshing \in Renewals /\ pageAt = "app" /\ refreshing.reply \in Int
    BY <1>0, <2>1 DEF RenewalShape, RepliesAreTokens, PageShape, Renewals
  <2>3. CASE ~(refreshing.reply > 0)
    <3>1. LogOut
      BY <1>8, <2>3 DEF RefreshAnswered
    <3>2. excused
      BY <1>0, <2>1, <2>3 DEF HttpInv, HoldsTheToken, ServerShape
    <3> QED BY <2>1, <3>1, <3>2, LoggedOut
  <2>4. CASE refreshing.reply > 0
    <3>1. /\ authStore' = refreshing.reply /\ refreshing' = Nobody /\ UNCHANGED pageAt
          /\ sent' = [r \in Requests |-> IF r = refreshing.by \/ r \in ToSet(subscribers)
                                           THEN Resent(r, refreshing.reply) ELSE sent[r]]
          /\ subscribers' = <<>>
      BY <1>8, <2>4 DEF RefreshAnswered, OnRefreshed
    <3>2. refreshing.reply \in 1..TokensMax
      BY <1>0, <2>1, <2>2, <2>4 DEF RepliesAreTokens
    <3>3. ASSUME NEW r \in Requests
          PROVE  sent'[r] \in Held /\ sent'[r].reply \in {0, sent[r].reply} /\ sent'[r].st # "queued"
      <4>0. sent[r] \in Held
        BY <1>0 DEF SentShape
      <4>1. CASE r = refreshing.by \/ r \in ToSet(subscribers)
        <5>1. sent'[r] = Resent(r, refreshing.reply)
          BY <3>1, <4>1
        <5>2. PICK st \in {"renewing", "sent"} : sent'[r] = [sent[r] EXCEPT !.st = st, !.token = refreshing.reply, !.reply = 0]
          BY <5>1 DEF Resent
        <5>3. refreshing.reply \in Tokens
          BY <3>2 DEF Tokens
        <5>4. \/ sent'[r] = [sent[r] EXCEPT !.st = "renewing", !.token = refreshing.reply, !.reply = 0]
              \/ sent'[r] = [sent[r] EXCEPT !.st = "sent", !.token = refreshing.reply, !.reply = 0]
          BY <5>2
        <5>5. CASE sent'[r] = [sent[r] EXCEPT !.st = "renewing", !.token = refreshing.reply, !.reply = 0]
          <6>1. /\ [sent[r] EXCEPT !.st = "renewing", !.token = refreshing.reply, !.reply = 0] \in Held
                /\ [sent[r] EXCEPT !.st = "renewing", !.token = refreshing.reply, !.reply = 0].st = "renewing"
                /\ [sent[r] EXCEPT !.st = "renewing", !.token = refreshing.reply, !.reply = 0].reply = 0
            BY <4>0, <5>3, SentAnew
          <6> QED BY <5>5, <6>1
        <5>6. CASE sent'[r] = [sent[r] EXCEPT !.st = "sent", !.token = refreshing.reply, !.reply = 0]
          <6>1. /\ [sent[r] EXCEPT !.st = "sent", !.token = refreshing.reply, !.reply = 0] \in Held
                /\ [sent[r] EXCEPT !.st = "sent", !.token = refreshing.reply, !.reply = 0].st = "sent"
                /\ [sent[r] EXCEPT !.st = "sent", !.token = refreshing.reply, !.reply = 0].reply = 0
            BY <4>0, <5>3, SentAnew
          <6> QED BY <5>6, <6>1
        <5> QED BY <5>4, <5>5, <5>6
      <4>2. CASE ~(r = refreshing.by \/ r \in ToSet(subscribers))
        BY <3>1, <4>0, <4>2 DEF HttpInv, Queued
      <4> QED BY <4>1, <4>2
    <3>4. PageShape' /\ ServerShape' /\ SentShape' /\ RenewalShape'
      BY <1>0, <2>1, <3>1, <3>2, <3>3, EmptyQueue DEF PageShape, ServerShape, SentShape, RenewalShape, Tokens
    <3>5. RepliesAreTokens'
      <4>1. \A r \in Requests : sent'[r].reply <= TokensMax
        BY <1>0, <3>3 DEF RepliesAreTokens
      <4> QED BY <2>2, <3>1, <3>2, <4>1 DEF RepliesAreTokens
    <3>6. (excused \/ HoldsTheToken)'
      BY <2>1, <2>2, <2>4, <3>1, <3>3 DEF HttpInv, HoldsTheToken
    <3>7. Queued' = {}
      BY <3>3 DEF Queued
    <3> QED BY <3>1, <3>4, <3>5, <3>6, <3>7, EmptyQueue DEF HttpInv
  <2> QED BY <2>3, <2>4
<1>9. ASSUME NEW r \in Requests, Send(r) PROVE HttpInv'
  <2>1. /\ sent' = [sent EXCEPT ![r] = [Idle EXCEPT !.st = "sent", !.token = authStore]]
        /\ sent[r].st # "queued" /\ pageAt = "app"
        /\ UNCHANGED <<pageAt, authStore, server, refreshing, subscribers, excused>>
    BY <1>9 DEF Send, Guarded
  <2>2. [Idle EXCEPT !.st = "sent", !.token = authStore] \in Held
    BY <1>0, IdleIsHeld DEF PageShape
  <2>3. /\ [Idle EXCEPT !.st = "sent", !.token = authStore].st = "sent"
        /\ [Idle EXCEPT !.st = "sent", !.token = authStore].reply = 0
    BY DEF Idle
  <2> QED BY <2>1, <2>2, <2>3, OneMoves
<1>10. ASSUME NEW r \in Requests, Succeeds(r) \/ Fails(r) \/ AnswerUnreadable(r) PROVE HttpInv'
  <2>1. /\ \E st \in {"done", "failed", "hung"} : sent' = [sent EXCEPT ![r] = [sent[r] EXCEPT !.st = st]]
        /\ sent[r].st \in {"sent", "resent"}
        /\ UNCHANGED <<pageAt, authStore, server, refreshing, subscribers, excused>>
    BY <1>10 DEF Succeeds, Fails, AnswerUnreadable, Ends
  <2>2. PICK st \in {"done", "failed", "hung"} : sent' = [sent EXCEPT ![r] = [sent[r] EXCEPT !.st = st]]
    BY <2>1
  <2>3. pageAt = "app" /\ sent[r] \in Held
    BY <2>1, UnderWayInApp
  <2>4. /\ [sent[r] EXCEPT !.st = st] \in Held /\ [sent[r] EXCEPT !.st = st].st = st
        /\ [sent[r] EXCEPT !.st = st].reply = sent[r].reply
    <3>1. st \in Stations
      BY DEF Stations
    <3> QED BY <2>3, <3>1, Restationed
  <2> QED BY <2>1, <2>2, <2>3, <2>4, OneMoves
<1>11. ASSUME NEW r \in Requests, Unauthorized(r) PROVE HttpInv'
  <2>1. sent[r].st \in {"sent", "resent"} /\ UNCHANGED <<server, excused>>
    BY <1>11 DEF Unauthorized
  <2>2. CASE KindOf[r] = "json"
    <3>1. Intercept(r)
      BY <1>11, <2>2 DEF Unauthorized
    <3> QED BY <2>1, <3>1, Intercepted
  <2>3. CASE KindOf[r] # "json"
    <3>0. pageAt = "app" /\ sent[r] \in Held
      BY <2>1, UnderWayInApp
    <3>1. UNCHANGED <<pageAt, authStore, refreshing, subscribers>>
      BY <1>11, <2>3 DEF Unauthorized
    <3>2. \/ sent' = [sent EXCEPT ![r] = [sent[r] EXCEPT !.st = "renewing", !.body = authStore]]
          \/ sent' = [sent EXCEPT ![r] = [sent[r] EXCEPT !.st = "failed"]]
      BY <1>11, <2>3 DEF Unauthorized, Ends
    <3>3. /\ [sent[r] EXCEPT !.st = "renewing", !.body = authStore] \in Held
          /\ [sent[r] EXCEPT !.st = "renewing", !.body = authStore].st = "renewing"
          /\ [sent[r] EXCEPT !.st = "renewing", !.body = authStore].reply = sent[r].reply
      BY <1>0, <3>0 DEF PageShape, Held, Stations
    <3>4. CASE sent' = [sent EXCEPT ![r] = [sent[r] EXCEPT !.st = "renewing", !.body = authStore]]
      BY <2>1, <3>0, <3>1, <3>3, <3>4, OneMoves
    <3>5. CASE sent' = [sent EXCEPT ![r] = [sent[r] EXCEPT !.st = "failed"]]
      <4>1. /\ [sent[r] EXCEPT !.st = "failed"] \in Held /\ [sent[r] EXCEPT !.st = "failed"].st = "failed"
            /\ [sent[r] EXCEPT !.st = "failed"].reply = sent[r].reply
        BY <3>0, Restationed DEF Stations
      <4> QED BY <2>1, <3>0, <3>1, <3>5, <4>1, OneMoves
    <3> QED BY <3>2, <3>4, <3>5
  <2> QED BY <2>2, <2>3
<1>12. ASSUME NEW r \in Requests, RenewalServed(r) PROVE HttpInv'
  <2>1. /\ sent[r].st = "renewing" /\ server.issued < TokensMax
        /\ sent' = [sent EXCEPT ![r] = [sent[r] EXCEPT !.reply = ReplyTo(sent[r].body)]]
        /\ server' = AfterRefresh(sent[r].body) /\ excused' = TRUE
        /\ UNCHANGED <<pageAt, authStore, refreshing, subscribers>>
    BY <1>12 DEF RenewalServed
  <2>2. pageAt = "app" /\ sent[r] \in Held
    BY <2>1, UnderWayInApp
  <2>3. sent[r].body \in Tokens
    BY <2>2 DEF Held
  <2>4. /\ ServerShape' /\ ReplyTo(sent[r].body) \in Int /\ ReplyTo(sent[r].body) <= TokensMax
    BY <1>0, <2>1, <2>3, RenewedOrRefused
  <2>5. /\ [sent[r] EXCEPT !.reply = ReplyTo(sent[r].body)] \in Held
        /\ [sent[r] EXCEPT !.reply = ReplyTo(sent[r].body)].st = "renewing"
        /\ [sent[r] EXCEPT !.reply = ReplyTo(sent[r].body)].reply <= TokensMax
    BY <2>1, <2>2, <2>4 DEF Held
  <2>6. /\ SentShape' /\ sent'[r].st = "renewing" /\ sent'[r].reply <= TokensMax
        /\ \A q \in Requests \ {r} : sent'[q] = sent[q]
    BY <1>0, <2>1, <2>5, Rewritten
  <2>7. PageShape' /\ RenewalShape' /\ RepliesAreTokens'
    BY <1>0, <2>1, <2>2, <2>6 DEF PageShape, RenewalShape, RepliesAreTokens
  <2>8. Queued' = Queued
    BY <2>1, <2>6 DEF Queued
  <2> QED BY <2>1, <2>4, <2>6, <2>7, <2>8 DEF HttpInv
<1>13. ASSUME NEW r \in Requests, RenewalAnswered(r) PROVE HttpInv'
  <2>1. sent[r].st = "renewing" /\ sent[r].reply # 0 /\ UNCHANGED <<server, excused>>
    BY <1>13 DEF RenewalAnswered
  <2>2. pageAt = "app" /\ sent[r] \in Held /\ sent[r].reply <= TokensMax
    BY <2>1, UnderWayInApp
  <2>3. excused
    BY <2>1 DEF HttpInv, HoldsTheToken
  <2>4. CASE ~(sent[r].reply > 0)
    <3>1. Intercept(r)
      BY <1>13, <2>4 DEF RenewalAnswered
    <3> QED BY <2>1, <3>1, Intercepted
  <2>5. CASE sent[r].reply > 0
    <3>1. /\ authStore' = sent[r].reply
          /\ sent' = [sent EXCEPT ![r] = [sent[r] EXCEPT !.st = "resent", !.token = sent[r].reply, !.retry = FALSE]]
          /\ UNCHANGED <<pageAt, refreshing, subscribers>>
      BY <1>13, <2>5 DEF RenewalAnswered
    <3>2. sent[r].reply \in 1..TokensMax
      BY <2>2, <2>5 DEF Held
    <3>3. /\ [sent[r] EXCEPT !.st = "resent", !.token = sent[r].reply, !.retry = FALSE] \in Held
          /\ [sent[r] EXCEPT !.st = "resent", !.token = sent[r].reply, !.retry = FALSE].st = "resent"
          /\ [sent[r] EXCEPT !.st = "resent", !.token = sent[r].reply, !.retry = FALSE].reply = sent[r].reply
      <4>1. sent[r].reply \in Tokens
        BY <3>2 DEF Tokens
      <4> QED BY <2>2, <4>1 DEF Held, Stations
    <3>4. /\ SentShape' /\ sent'[r].st = "resent" /\ sent'[r].reply = sent[r].reply
          /\ \A q \in Requests \ {r} : sent'[q] = sent[q]
      BY <1>0, <3>1, <3>3, Rewritten
    <3>5. PageShape' /\ ServerShape' /\ RenewalShape'
      BY <1>0, <2>1, <3>1, <3>2 DEF PageShape, ServerShape, RenewalShape, Tokens
    <3>6. RepliesAreTokens'
      BY <1>0, <2>2, <3>1, <3>2, <3>4 DEF RepliesAreTokens
    <3>7. Queued' = Queued
      BY <2>1, <3>4 DEF Queued
    <3> QED BY <2>1, <2>3, <3>1, <3>4, <3>5, <3>6, <3>7 DEF HttpInv
  <2> QED BY <2>4, <2>5
<1> QED BY <1>1, <1>3, <1>4, <1>5, <1>6, <1>7, <1>8, <1>9, <1>10, <1>11, <1>12, <1>13 DEF HttpNext

-----------------------------------------------------------------------------
(* HttpClient's server keeps what Sessions promises.  No renewal goes      *)
(* without a token: the page renews only while it holds one, and an upload *)
(* keeps the one it renews with until the renewal has ended.               *)
Renewing == {"renewing", "waiting", "queued"}
RenewsWithTokens ==
  /\ refreshing # Nobody => refreshing.token # 0 /\ sent[refreshing.by].st = "waiting"
  /\ \A r \in Requests : /\ sent[r].st = "renewing" => KindOf[r] = "knowledge"
                         /\ sent[r].st \in Renewing /\ KindOf[r] = "knowledge" => sent[r].body # 0

LEMMA TokensInitially == HttpInit => RenewsWithTokens
BY DEF HttpInit, RenewsWithTokens, Idle, Renewing

(* What a step must leave alone of the requests that renew.                *)
LEMMA RenewsAsBefore ==
  ASSUME RenewsWithTokens, NEW r \in Requests, SentShape, UNCHANGED refreshing,
         refreshing = Nobody \/ refreshing \in Renewals, sent[r].st # "waiting",
         NEW x \in Held, sent' = [sent EXCEPT ![r] = x],
         x.st = "renewing" => KindOf[r] = "knowledge",
         x.st \in Renewing /\ KindOf[r] = "knowledge" => x.body # 0
  PROVE  RenewsWithTokens'
<1>1. sent'[r] = x /\ \A q \in Requests \ {r} : sent'[q] = sent[q]
  BY Rewritten
<1>2. refreshing # Nobody => refreshing.by \in Requests \ {r}
  BY DEF RenewsWithTokens, Renewals
<1> QED BY <1>1, <1>2 DEF RenewsWithTokens

LEMMA InterceptedWithTokens ==
  ASSUME HttpInv, RenewsWithTokens, NEW r \in Requests, sent[r].st \in {"sent", "resent", "renewing"}, Intercept(r),
         KindOf[r] = "json" \/ sent[r].st = "renewing"
  PROVE  RenewsWithTokens'
<1>0. authStore # 0 /\ sent[r] \in Held /\ SentShape /\ (refreshing = Nobody \/ refreshing \in Renewals)
  BY UnderWayInApp DEF HttpInv, RenewalShape
<1>1. KindOf[r] = "knowledge" => sent[r].body # 0
  BY DEF RenewsWithTokens, Renewing
<1>2. \A st \in {"failed", "queued"} :
        /\ [sent[r] EXCEPT !.st = st] \in Held /\ [sent[r] EXCEPT !.st = st].st = st
        /\ [sent[r] EXCEPT !.st = st].body = sent[r].body
  BY <1>0 DEF Held, Stations
<1>3. CASE sent[r].retry \/ refreshing # Nobody
  <2>1. PICK st \in {"failed", "queued"} : sent' = [sent EXCEPT ![r] = [sent[r] EXCEPT !.st = st]] /\ UNCHANGED refreshing
    BY <1>0, <1>3 DEF Intercept, Ends
  <2>2. /\ [sent[r] EXCEPT !.st = st] \in Held /\ [sent[r] EXCEPT !.st = st].st = st
        /\ [sent[r] EXCEPT !.st = st].body = sent[r].body
    BY <1>2
  <2> QED BY <1>0, <1>1, <2>1, <2>2, RenewsAsBefore
<1>4. CASE ~sent[r].retry /\ refreshing = Nobody
  <2>1. /\ sent' = [sent EXCEPT ![r] = [sent[r] EXCEPT !.st = "waiting", !.retry = TRUE]]
        /\ refreshing' = [by |-> r, token |-> authStore, reply |-> 0]
    BY <1>0, <1>4 DEF Intercept
  <2>2. refreshing'.by = r /\ refreshing'.token = authStore
    BY <2>1
  <2>3. /\ [sent[r] EXCEPT !.st = "waiting", !.retry = TRUE] \in Held
        /\ [sent[r] EXCEPT !.st = "waiting", !.retry = TRUE].st = "waiting"
        /\ [sent[r] EXCEPT !.st = "waiting", !.retry = TRUE].body = sent[r].body
    BY <1>0 DEF Held, Stations
  <2>4. sent'[r].st = "waiting" /\ sent'[r].body = sent[r].body /\ \A q \in Requests \ {r} : sent'[q] = sent[q]
    BY <1>0, <2>1, <2>3, Rewritten
  <2> QED BY <1>0, <1>1, <2>2, <2>4 DEF RenewsWithTokens
<1> QED BY <1>3, <1>4

LEMMA LoggedOutWithTokens == LogOut => RenewsWithTokens'
BY DEF LogOut, RenewsWithTokens, Idle, Renewing

LEMMA TokensPreserved == HttpInv /\ RenewsWithTokens /\ [HttpNext]_httpVars => RenewsWithTokens'
<1> SUFFICES ASSUME HttpInv, RenewsWithTokens, [HttpNext]_httpVars PROVE RenewsWithTokens'
  OBVIOUS
<1>0. PageShape /\ SentShape /\ (refreshing = Nobody \/ refreshing \in Renewals)
  BY DEF HttpInv, RenewalShape
<1>1. ASSUME UNCHANGED <<sent, refreshing>> PROVE RenewsWithTokens'
  BY <1>1 DEF RenewsWithTokens
<1>2. CASE UNCHANGED httpVars \/ AccessExpires \/ SessionEnds \/ OtherTabRenews \/ SignIn
  BY <1>1, <1>2 DEF httpVars, AccessExpires, SessionEnds, OtherTabRenews, SignIn
<1>3. CASE RefreshServed
  <2>1. refreshing # Nobody /\ UNCHANGED sent
    BY <1>3 DEF RefreshServed
  <2>2. PICK n \in {Lost, ReplyTo(refreshing.token)} : refreshing' = [refreshing EXCEPT !.reply = n]
    BY <1>3 DEF RefreshServed
  <2>3. refreshing'.token = refreshing.token /\ refreshing'.by = refreshing.by
    BY <1>0, <2>1, <2>2 DEF Renewals
  <2> QED BY <2>1, <2>3 DEF RenewsWithTokens
<1>4. CASE RefreshAnswered
  <2>1. CASE ~(refreshing.reply > 0)
    BY <1>4, <2>1, LoggedOutWithTokens DEF RefreshAnswered
  <2>2. CASE refreshing.reply > 0
    <3>1. /\ refreshing # Nobody /\ refreshing' = Nobody
          /\ sent' = [r \in Requests |-> IF r = refreshing.by \/ r \in ToSet(subscribers)
                                           THEN Resent(r, refreshing.reply) ELSE sent[r]]
      BY <1>4, <2>2 DEF RefreshAnswered, OnRefreshed
    <3>2. ASSUME NEW r \in Requests, r = refreshing.by \/ r \in ToSet(subscribers)
          PROVE  /\ sent'[r].st = "renewing" => KindOf[r] = "knowledge"
                 /\ sent'[r].st \in Renewing /\ KindOf[r] = "knowledge" => sent'[r].body # 0
      <4>1. sent[r].st \in {"waiting", "queued"} /\ sent[r] \in Held
        BY <1>0, <3>1, <3>2 DEF HttpInv, Queued, RenewsWithTokens, SentShape
      <4>2. sent'[r] = Resent(r, refreshing.reply)
        BY <3>1, <3>2
      <4>3. sent'[r].st = (IF KindOf[r] = "knowledge" THEN "renewing" ELSE "sent") /\ sent'[r].body = sent[r].body
        BY <4>1, <4>2 DEF Resent, Held
      <4> QED BY <4>1, <4>3 DEF RenewsWithTokens, Renewing
    <3>3. \A r \in Requests : ~(r = refreshing.by \/ r \in ToSet(subscribers)) => sent'[r] = sent[r]
      BY <3>1
    <3> QED BY <3>1, <3>2, <3>3 DEF RenewsWithTokens
  <2> QED BY <2>1, <2>2
<1>5. ASSUME NEW r \in Requests, Send(r) PROVE RenewsWithTokens'
  <2>1. /\ sent' = [sent EXCEPT ![r] = [Idle EXCEPT !.st = "sent", !.token = authStore]]
        /\ sent[r].st = "idle" /\ UNCHANGED refreshing
    BY <1>5 DEF Send
  <2>2. /\ [Idle EXCEPT !.st = "sent", !.token = authStore] \in Held
        /\ [Idle EXCEPT !.st = "sent", !.token = authStore].st = "sent"
    BY <1>0, IdleIsHeld DEF PageShape, Idle
  <2> QED BY <1>0, <2>1, <2>2, RenewsAsBefore DEF Renewing
<1>6. ASSUME NEW r \in Requests, NEW st \in {"done", "failed", "hung"}, sent[r].st \in {"sent", "resent"}, UNCHANGED refreshing,
             sent' = [sent EXCEPT ![r] = [sent[r] EXCEPT !.st = st]]
      PROVE  RenewsWithTokens'
  <2>1. sent[r] \in Held /\ st \in Stations
    BY <1>0 DEF SentShape, Stations
  <2>2. [sent[r] EXCEPT !.st = st] \in Held /\ [sent[r] EXCEPT !.st = st].st = st
    BY <2>1, Restationed
  <2> QED BY <1>0, <1>6, <2>2, RenewsAsBefore DEF Renewing
<1>7. ASSUME NEW r \in Requests, Succeeds(r) \/ Fails(r) \/ AnswerUnreadable(r) PROVE RenewsWithTokens'
  <2>1. \E st \in {"done", "failed", "hung"} : sent' = [sent EXCEPT ![r] = [sent[r] EXCEPT !.st = st]]
    BY <1>7 DEF Succeeds, Fails, AnswerUnreadable, Ends
  <2> QED BY <1>6, <1>7, <2>1 DEF Succeeds, Fails, AnswerUnreadable
<1>8. ASSUME NEW r \in Requests, Unauthorized(r) PROVE RenewsWithTokens'
  <2>1. sent[r].st \in {"sent", "resent"}
    BY <1>8 DEF Unauthorized
  <2>2. CASE KindOf[r] = "json"
    BY <1>8, <2>1, <2>2, InterceptedWithTokens DEF Unauthorized
  <2>3. CASE KindOf[r] = "knowledge" /\ sent[r].st = "sent" /\ authStore # 0
    <3>1. sent' = [sent EXCEPT ![r] = [sent[r] EXCEPT !.st = "renewing", !.body = authStore]] /\ UNCHANGED refreshing
      BY <1>8, <2>3 DEF Unauthorized
    <3>2. /\ [sent[r] EXCEPT !.st = "renewing", !.body = authStore] \in Held
          /\ [sent[r] EXCEPT !.st = "renewing", !.body = authStore].body = authStore
      BY <1>0 DEF PageShape, SentShape, Held, Stations
    <3> QED BY <1>0, <2>3, <3>1, <3>2, RenewsAsBefore
  <2>4. CASE KindOf[r] # "json" /\ ~(KindOf[r] = "knowledge" /\ sent[r].st = "sent" /\ authStore # 0)
    <3>1. sent' = [sent EXCEPT ![r] = [sent[r] EXCEPT !.st = "failed"]] /\ UNCHANGED refreshing
      BY <1>8, <2>4 DEF Unauthorized, Ends
    <3> QED BY <1>6, <2>1, <3>1
  <2> QED BY <2>2, <2>3, <2>4
<1>9. ASSUME NEW r \in Requests, RenewalServed(r) PROVE RenewsWithTokens'
  <2>1. /\ sent[r].st = "renewing" /\ UNCHANGED refreshing
        /\ sent' = [sent EXCEPT ![r] = [sent[r] EXCEPT !.reply = ReplyTo(sent[r].body)]]
    BY <1>9 DEF RenewalServed
  <2>2. ReplyTo(sent[r].body) \in Int
    BY DEF HttpInv, ServerShape, ReplyTo, Refused
  <2>3. /\ [sent[r] EXCEPT !.reply = ReplyTo(sent[r].body)] \in Held
        /\ [sent[r] EXCEPT !.reply = ReplyTo(sent[r].body)].body = sent[r].body
    BY <1>0, <2>2 DEF SentShape, Held
  <2>4. KindOf[r] = "knowledge" /\ sent[r].body # 0
    BY <2>1 DEF RenewsWithTokens, Renewing
  <2> QED BY <1>0, <2>1, <2>3, <2>4, RenewsAsBefore
<1>10. ASSUME NEW r \in Requests, RenewalAnswered(r) PROVE RenewsWithTokens'
  <2>1. sent[r].st = "renewing"
    BY <1>10 DEF RenewalAnswered
  <2>2. CASE ~(sent[r].reply > 0)
    BY <1>10, <2>1, <2>2, InterceptedWithTokens DEF RenewalAnswered
  <2>3. CASE sent[r].reply > 0
    <3>1. /\ sent' = [sent EXCEPT ![r] = [sent[r] EXCEPT !.st = "resent", !.token = sent[r].reply, !.retry = FALSE]]
          /\ UNCHANGED refreshing
      BY <1>10, <2>3 DEF RenewalAnswered
    <3>2. sent[r].reply \in Tokens
      BY <1>0, <2>1, <2>3, UnderWayInApp DEF SentShape, Held, Tokens
    <3>3. /\ [sent[r] EXCEPT !.st = "resent", !.token = sent[r].reply, !.retry = FALSE] \in Held
          /\ [sent[r] EXCEPT !.st = "resent", !.token = sent[r].reply, !.retry = FALSE].st = "resent"
      BY <1>0, <3>2 DEF SentShape, Held, Stations
    <3> QED BY <1>0, <2>1, <3>1, <3>3, RenewsAsBefore DEF Renewing
  <2> QED BY <2>2, <2>3
<1> QED BY <1>2, <1>3, <1>4, <1>5, <1>7, <1>8, <1>9, <1>10 DEF HttpNext

(* A renewal with a token rotates it, if it is the one that serves, and    *)
(* ends the session if it is not.                                          *)
LEMMA RenewalAsPromised ==
  ASSUME ServerShape, NEW n \in Tokens, n # 0, server.issued < TokensMax, server' = AfterRefresh(n)
  PROVE  [Promised!Next]_(Promised!vars)
<1> USE HttpAssumption
<1>1. CASE server.refresh = n
  <2>1. /\ server'.refresh = server.issued + 1 /\ server'.issued = server.issued + 1
        /\ server.issued + 1 \in 1..TokensMax /\ n \in 1..TokensMax /\ server.issued + 1 \notin 1..server.issued
    BY <1>1 DEF AfterRefresh, ServerShape, Tokens
  <2>2. {server.refresh} \ {0} = {n} /\ {server'.refresh} \ {0} = {server.issued + 1}
    BY <1>1, <2>1
  <2>3. 1..server'.issued = (1..server.issued) \cup {server.issued + 1}
    BY <2>1 DEF ServerShape
  <2>4. Promised!Rotate("page", n, server.issued + 1)
    BY <2>1, <2>2, <2>3 DEF Promised!Rotate
  <2> QED BY <2>1, <2>4 DEF Promised!Next
<1>2. CASE server.refresh # n
  <2>1. server'.refresh = 0 /\ server'.issued = server.issued
    BY <1>2 DEF AfterRefresh, ServerShape
  <2>2. Promised!End({"page"})
    BY <2>1 DEF Promised!End
  <2> QED BY <2>2 DEF Promised!Next
<1> QED BY <1>1, <1>2

LEMMA ServesPromised == HttpInv /\ RenewsWithTokens /\ [HttpNext]_httpVars => ServedAsPromised
<1> SUFFICES ASSUME HttpInv, RenewsWithTokens, [HttpNext]_httpVars PROVE ServedAsPromised
  OBVIOUS
<1>0. ServerShape /\ SentShape /\ (refreshing = Nobody \/ refreshing \in Renewals)
  BY DEF HttpInv, RenewalShape
<1>1. ASSUME server'.refresh = server.refresh, server'.issued = server.issued PROVE ServedAsPromised
  BY <1>1 DEF ServedAsPromised, Promised!vars
<1>2. ASSUME NEW n \in Tokens, n # 0, server.issued < TokensMax, server' = AfterRefresh(n) PROVE ServedAsPromised
  BY <1>0, <1>2, RenewalAsPromised DEF ServedAsPromised
<1>3. CASE UNCHANGED httpVars \/ AccessExpires
  BY <1>0, <1>1, <1>3 DEF httpVars, AccessExpires, ServerShape
<1>4. CASE SessionEnds
  <2>1. server'.refresh = 0 /\ server'.issued = server.issued
    BY <1>0, <1>4 DEF SessionEnds, ServerShape
  <2>2. Promised!End({"page"})
    BY <2>1 DEF Promised!End
  <2> QED BY <2>2 DEF ServedAsPromised, Promised!Next
<1>5. CASE OtherTabRenews
  <2>1. server.refresh \in Tokens
    BY <1>0, HttpAssumption DEF ServerShape, Tokens
  <2> QED BY <1>2, <1>5, <2>1 DEF OtherTabRenews
<1>6. CASE SignIn
  BY <1>6 DEF ServedAsPromised
<1>7. CASE RefreshServed
  <2>1. refreshing.token \in Tokens /\ refreshing.token # 0
    BY <1>0, <1>7 DEF RefreshServed, Renewals, RenewsWithTokens
  <2> QED BY <1>2, <1>7, <2>1 DEF RefreshServed
<1>8. ASSUME NEW r \in Requests, RenewalServed(r) PROVE ServedAsPromised
  <2>1. sent[r].body \in Tokens /\ sent[r].body # 0
    BY <1>0, <1>8 DEF RenewalServed, SentShape, Held, RenewsWithTokens, Renewing
  <2> QED BY <1>2, <1>8, <2>1 DEF RenewalServed
<1>9. ASSUME NEW r \in Requests,
             RefreshAnswered \/ Send(r) \/ Succeeds(r) \/ Fails(r) \/ AnswerUnreadable(r) \/ Unauthorized(r) \/ RenewalAnswered(r)
      PROVE  ServedAsPromised
  <2>1. UNCHANGED server
    BY <1>9 DEF RefreshAnswered, Send, Succeeds, Fails, AnswerUnreadable, Unauthorized, RenewalAnswered
  <2> QED BY <1>1, <2>1
<1>10. CASE RefreshAnswered
  BY <1>1, <1>10 DEF RefreshAnswered
<1> QED BY <1>3, <1>4, <1>5, <1>6, <1>7, <1>8, <1>9, <1>10 DEF HttpNext

-----------------------------------------------------------------------------
(* Screens: the page of one contract.                                      *)
ServedRows == [status : Statuses, review : Nat, task : {"none", "RUNNING", "WAITING_REVIEW", "APPROVED", "REJECTED"}, deep : BOOLEAN]
DetailRows == [c : Files, status : Statuses, review : Nat, task : {"none", "RUNNING", "WAITING_REVIEW", "APPROVED", "REJECTED"}, deep : BOOLEAN]
PageRows == [at : Files \cup {Nowhere}, start : BOOLEAN, auto : BOOLEAN, timer : Files \cup {Nowhere}, unchanged : BOOLEAN, unread : BOOLEAN,
             decisions : SUBSET (Files \X Nat), facts : Files \cup {Nowhere}]
(* A contract never reviewed is still where it began, a rejected one waits *)
(* for another start.                                                      *)
RowHolds(c, row) ==
  /\ row.review <= RunsMax[c]
  /\ row.review = 0 => row.task = "none" /\ row.status \in {"UPLOADED", "PARSING", "READY", "FAILED"}
  /\ row.task = "REJECTED" => row.status \in Startable
ScreenShape ==
  /\ team \in BOOLEAN /\ planDeep \in BOOLEAN /\ entDeep \in BOOLEAN
  /\ srv \in [Files -> ServedRows] /\ \A c \in Files : RowHolds(c, srv[c])
  /\ page \in PageRows /\ detail \in DetailRows \cup {Nowhere} /\ loads \subseteq Files
  /\ calls \in [Files -> {"none", "asked", "running", "over"}]
  /\ live \subseteq Files /\ factLoads \subseteq Files

(* Until a page is left with something under way, all that is under way is *)
(* of the page open.                                                       *)
FactsOfShown == IF detail = Nowhere THEN FALSE ELSE page.facts = detail.c
OwnAffairs ==
  ~overtaken => /\ loads \subseteq {page.at} /\ factLoads \subseteq {page.at}
                /\ \A c \in Files : c # page.at => calls[c] = "none"
                /\ page.timer \in {Nowhere, page.at} /\ (page.facts \in {Nowhere, page.at} \/ FactsOfShown)
PersonalHasNoFacts == ~team => factLoads = {} /\ page.facts = Nowhere
LiveIsOwn == ~overtaken /\ team /\ page.at # Nowhere => live \subseteq {page.at}
DetailIsAsked == Shown /\ ~overtaken => detail.c = page.at \/ page.at \in loads \/ page.unread
DecisionsAreOfShown == ~carried => page.decisions \subseteq {<<detail.c, detail.review>>}
ScreenInv ==
  /\ ScreenShape /\ OwnAffairs /\ PersonalHasNoFacts /\ LiveIsOwn /\ DetailIsAsked /\ DecisionsAreOfShown
  /\ PollsUnlessUnchanged /\ DecidedAsSeen

LEMMA AfterEffectHas ==
  ASSUME NEW pg \in PageRows, NEW d
  PROVE  /\ AfterEffect(pg, d) \in PageRows /\ AfterEffect(pg, d).at = pg.at
         /\ AfterEffect(pg, d).timer = IF Polls(pg, d) THEN pg.at ELSE Nowhere
         /\ AfterEffect(pg, d).decisions = pg.decisions /\ AfterEffect(pg, d).facts = pg.facts
         /\ AfterEffect(pg, d).unread = pg.unread
<1> DEFINE t == IF Polls(pg, d) THEN pg.at ELSE Nowhere
           a == pg.auto \/ AutoStarts(pg, d)
<1>1. t \in Files \cup {Nowhere} /\ a \in BOOLEAN
  BY DEF PageRows
<1>2. AfterEffect(pg, d) = [pg EXCEPT !.timer = t, !.unchanged = FALSE, !.auto = a]
  BY DEF AfterEffect
<1> HIDE DEF a
<1> QED BY <1>1, <1>2 DEF PageRows

LEMMA NoPageHas == NoPage \in PageRows /\ NoPage.at = Nowhere /\ NoPage.timer = Nowhere /\ NoPage.decisions = {} /\ NoPage.facts = Nowhere
BY DEF NoPage, PageRows

LEMMA SnapshotHas ==
  ASSUME ScreenShape, NEW c \in Files
  PROVE  Snapshot(c) \in DetailRows /\ Snapshot(c).c = c /\ Snapshot(c).review = srv[c].review /\ Snapshot(c).status = srv[c].status
BY DEF ScreenShape, Snapshot, ServedRows, DetailRows


LEMMA ScreenInitially == ASSUME ScreenAssumption, ScreenInit PROVE ScreenInv
<1>1. /\ page \in PageRows /\ page.at = Nowhere /\ page.timer = Nowhere /\ page.decisions = {} /\ page.facts = Nowhere
  BY NoPageHas DEF ScreenInit
<1>2. srv \in [Files -> ServedRows] /\ \A c \in Files : RowHolds(c, srv[c])
  BY DEF ScreenInit, ServedRows, Statuses, ScreenAssumption, RowHolds
<1>3. ScreenShape
  BY <1>1, <1>2 DEF ScreenInit, ScreenShape, ScreenAssumption
<1> QED BY <1>1, <1>3 DEF ScreenInit, ScreenInv, OwnAffairs, PersonalHasNoFacts, LiveIsOwn, DetailIsAsked, DecisionsAreOfShown,
           PollsUnlessUnchanged, DecidedAsSeen, Shown

(* What the server does by itself.                                         *)
LEMMA ServedShape ==
  ASSUME ScreenAssumption, ScreenShape, NEW c \in Files,
         Parses(c) \/ OtherStarts(c) \/ RunEnds(c) \/ CallServed(c)
  PROVE  /\ srv' \in [Files -> ServedRows] /\ \A d \in Files : RowHolds(d, srv'[d])
         /\ calls' \in [Files -> {"none", "asked", "running", "over"}]
         /\ \A d \in Files : calls[d] = "none" => calls'[d] = "none"
<1>1. /\ srv[c] \in ServedRows /\ srv[c].review \in Nat /\ RunsMax[c] \in Nat /\ team \in BOOLEAN /\ planDeep \in BOOLEAN
      /\ srv \in [Files -> ServedRows] /\ \A d \in Files : RowHolds(d, srv[d])
      /\ calls \in [Files -> {"none", "asked", "running", "over"}]
  BY DEF ScreenShape, ServedRows, ScreenAssumption
<1>2. ASSUME NEW row \in ServedRows, RowHolds(c, row), srv' = [srv EXCEPT ![c] = row]
      PROVE  srv' \in [Files -> ServedRows] /\ \A d \in Files : RowHolds(d, srv'[d])
  BY <1>1, <1>2
<1>3. ASSUME NEW deep \in BOOLEAN, srv[c].review < RunsMax[c], srv' = Begun(c, deep)
      PROVE  srv' \in [Files -> ServedRows] /\ \A d \in Files : RowHolds(d, srv'[d])
  <2> DEFINE row == [srv[c] EXCEPT !.status = "REVIEWING", !.review = srv[c].review + 1, !.task = "RUNNING", !.deep = deep]
  <2>1. row \in ServedRows /\ RowHolds(c, row)
    <3>1. srv[c].review + 1 \in Nat /\ srv[c].review + 1 <= RunsMax[c]
      BY <1>1, <1>3
    <3>2. row \in ServedRows /\ row.task = "RUNNING" /\ row.review = srv[c].review + 1
      BY <1>1, <3>1 DEF ServedRows, Statuses
    <3> HIDE DEF row
    <3> QED BY <1>1, <3>1, <3>2 DEF RowHolds
  <2>2. srv' = [srv EXCEPT ![c] = row]
    BY <1>3 DEF Begun
  <2> HIDE DEF row
  <2> QED BY <1>2, <2>1, <2>2
<1>4. CASE Parses(c)
  <2> DEFINE row == [srv[c] EXCEPT !.status = IF @ = "UPLOADED" THEN "PARSING" ELSE "READY"]
  <2>1. row \in ServedRows /\ row.review = srv[c].review /\ row.task = srv[c].task /\ row.status \in {"PARSING", "READY"}
    BY <1>1 DEF ServedRows, Statuses
  <2>2. srv' = [srv EXCEPT ![c] = row] /\ calls' = calls /\ srv[c].status \in Parsing
    BY <1>4 DEF Parses
  <2> HIDE DEF row
  <2>3. RowHolds(c, row)
    BY <1>1, <2>1, <2>2 DEF RowHolds, Parsing, Startable
  <2> QED BY <1>1, <1>2, <2>1, <2>2, <2>3
<1>5. CASE OtherStarts(c)
  BY <1>1, <1>3, <1>5 DEF OtherStarts
<1>6. CASE RunEnds(c)
  <2> DEFINE row == [srv[c] EXCEPT !.status = IF team THEN "WAITING_REVIEW" ELSE "COMPLETED",
                                   !.task = IF team THEN "WAITING_REVIEW" ELSE "APPROVED"]
  <2>1. row \in ServedRows /\ row.review = srv[c].review /\ row.task # "REJECTED"
    BY <1>1 DEF ServedRows, Statuses
  <2>2. /\ srv' = [srv EXCEPT ![c] = row] /\ calls' = [calls EXCEPT ![c] = IF @ = "running" THEN "over" ELSE @]
        /\ srv[c].task = "RUNNING"
    BY <1>6 DEF RunEnds
  <2> HIDE DEF row
  <2>3. RowHolds(c, row)
    BY <1>1, <2>1, <2>2 DEF RowHolds
  <2> QED BY <1>1, <1>2, <2>1, <2>2, <2>3
<1>7. CASE CallServed(c)
  <2>1. \/ srv' = srv
        \/ srv[c].review < RunsMax[c] /\ \E coupon \in {FALSE, ~team} : srv' = Begun(c, planDeep \/ coupon)
    BY <1>7 DEF CallServed
  <2>2. srv' \in [Files -> ServedRows] /\ \A d \in Files : RowHolds(d, srv'[d])
    BY <1>1, <1>3, <2>1
  <2>3. calls[c] = "asked" /\ (calls' = [calls EXCEPT ![c] = "running"] \/ calls' = [calls EXCEPT ![c] = "over"])
    BY <1>7 DEF CallServed
  <2> QED BY <1>1, <2>2, <2>3
<1> QED BY <1>4, <1>5, <1>6, <1>7

LEMMA ServedPreserves ==
  ASSUME ScreenAssumption, ScreenInv, NEW c \in Files,
         Parses(c) \/ OtherStarts(c) \/ RunEnds(c) \/ CallServed(c)
  PROVE  ScreenInv'
<1>1. UNCHANGED <<team, planDeep, entDeep, canDecide, page, detail, loads, reviewing, live, factLoads, submitted, overtaken, carried>>
  BY DEF Parses, OtherStarts, RunEnds, CallServed, ServerOnly
<1>2. /\ srv' \in [Files -> ServedRows] /\ \A d \in Files : RowHolds(d, srv'[d])
      /\ calls' \in [Files -> {"none", "asked", "running", "over"}]
      /\ \A d \in Files : calls[d] = "none" => calls'[d] = "none"
  BY ServedShape DEF ScreenInv
<1>3. ScreenShape'
  BY <1>1, <1>2 DEF ScreenInv, ScreenShape
<1>4. OwnAffairs'
  BY <1>1, <1>2 DEF ScreenInv, OwnAffairs, FactsOfShown
<1> QED BY <1>1, <1>3, <1>4 DEF ScreenInv, PersonalHasNoFacts, LiveIsOwn, DetailIsAsked, DecisionsAreOfShown, PollsUnlessUnchanged,
           DecidedAsSeen, Shown

(* A start that is asked for, or not, of the page's own contract.          *)
LEMMA StartsHave ==
  ASSUME ScreenShape, NEW asked1, NEW c \in Files, StartsIf(asked1, c)
  PROVE  /\ calls' \in [Files -> {"none", "asked", "running", "over"}] /\ \A d \in Files : d # c => calls'[d] = calls[d]
         /\ live' \subseteq live
BY DEF StartsIf, AskedFor, ScreenShape

LEMMA OpenPreserves ==
  ASSUME ScreenAssumption, ScreenInv, NEW c \in Files, NEW start \in BOOLEAN, Open(c, start)
  PROVE  ScreenInv'
<1> DEFINE blank == [NoPage EXCEPT !.at = c, !.start = start, !.facts = FactsBrought]
<1>1. UNCHANGED <<team, planDeep, entDeep, canDecide, srv, detail, submitted, overtaken, carried>> /\ page.at = Nowhere
  BY DEF Open
<1>13. /\ FactsBrought \in Files \cup {Nowhere} /\ (~team => FactsBrought = Nowhere)
       /\ IF detail = Nowhere THEN FactsBrought = Nowhere ELSE FactsBrought \in {detail.c, Nowhere}
  BY DEF FactsBrought, ScreenInv, ScreenShape, DetailRows
<1>2. blank \in PageRows /\ blank.at = c /\ blank.decisions = {} /\ blank.facts = FactsBrought
  BY <1>13 DEF NoPage, PageRows
<1>3. page' = AfterEffect(blank, detail) /\ loads' = loads \cup {c}
  BY DEF Open, Mounted
<1>14. factLoads' = factLoads \/ (team /\ factLoads' = factLoads \cup {c})
  BY DEF Open, Mounted, NoFactsBrought
<1>4. /\ page' \in PageRows /\ page'.at = c /\ page'.timer \in {Nowhere, c} /\ page'.decisions = {} /\ page'.facts = FactsBrought
      /\ page'.timer = IF Polls(blank, detail) THEN c ELSE Nowhere
  <2> HIDE DEF blank
  <2> QED BY <1>2, <1>3, AfterEffectHas
<1>5. /\ calls' \in [Files -> {"none", "asked", "running", "over"}] /\ \A d \in Files : d # c => calls'[d] = calls[d]
      /\ live' \subseteq live /\ (team => live' = {})
  <2>1. ScreenShape
    BY DEF ScreenInv
  <2>2. CASE team
    BY <2>1, <2>2 DEF Open, ScreenShape
  <2>3. CASE ~team
    BY <2>1, <2>3, StartsHave DEF Open
  <2> QED BY <2>2, <2>3
<1>6. ScreenShape /\ OwnAffairs /\ PersonalHasNoFacts
  BY DEF ScreenInv
<1>7. ScreenShape'
  BY <1>1, <1>3, <1>4, <1>5, <1>6, <1>14 DEF ScreenShape
<1>8. ~overtaken => loads = {} /\ factLoads = {} /\ \A d \in Files : calls[d] = "none"
  BY <1>1, <1>6 DEF OwnAffairs, ScreenShape, ScreenAssumption
<1>9. OwnAffairs'
  BY <1>1, <1>3, <1>4, <1>5, <1>8, <1>13, <1>14 DEF OwnAffairs, FactsOfShown
<1>10. PersonalHasNoFacts' /\ LiveIsOwn'
  BY <1>1, <1>4, <1>5, <1>6, <1>13, <1>14 DEF PersonalHasNoFacts, LiveIsOwn
<1>11. DetailIsAsked' /\ PollsUnlessUnchanged'
  <2>1. Shown' => detail # Nowhere
    BY <1>1 DEF Shown
  <2> QED BY <1>1, <1>3, <1>4, <2>1 DEF DetailIsAsked, PollsUnlessUnchanged, Polls, ScreenAssumption
<1>12. DecisionsAreOfShown' /\ DecidedAsSeen'
  BY <1>1, <1>4 DEF ScreenInv, DecisionsAreOfShown, DecidedAsSeen
<1> QED BY <1>7, <1>9, <1>10, <1>11, <1>12 DEF ScreenInv

LEMMA LeavePreserves == ASSUME ScreenAssumption, ScreenInv, Leave PROVE ScreenInv'
<1>1. /\ UNCHANGED <<team, planDeep, entDeep, canDecide, srv, detail, loads, calls, reviewing, live, factLoads, submitted, carried>>
      /\ page' = NoPage /\ page.at # Nowhere /\ (~overtaken' => ~overtaken /\ ~UnderWay(page.at))
  BY DEF Leave
<1>2. /\ page' \in PageRows /\ page'.at = Nowhere /\ page'.timer = Nowhere /\ page'.decisions = {} /\ page'.facts = Nowhere
  BY <1>1, NoPageHas
<1>3. ScreenShape /\ OwnAffairs
  BY DEF ScreenInv
<1>4. ScreenShape'
  BY <1>1, <1>2, <1>3 DEF ScreenShape
<1>5. ~overtaken' => loads = {} /\ factLoads = {} /\ \A d \in Files : calls[d] = "none"
  BY <1>1, <1>3 DEF OwnAffairs, ScreenShape, UnderWay
<1>6. OwnAffairs'
  BY <1>1, <1>2, <1>5 DEF OwnAffairs
<1>7. ~Shown'
  BY <1>2 DEF Shown
<1> QED BY <1>1, <1>2, <1>4, <1>6, <1>7 DEF ScreenInv, PersonalHasNoFacts, LiveIsOwn, DetailIsAsked, DecisionsAreOfShown,
           PollsUnlessUnchanged, DecidedAsSeen

LEMMA FollowNoticePreserves == ASSUME ScreenAssumption, ScreenInv, NEW c \in Files, FollowNotice(c) PROVE ScreenInv'
<1>1. /\ UNCHANGED <<team, planDeep, entDeep, canDecide, srv, detail, calls, reviewing, live, factLoads, submitted, carried>>
      /\ page' = [page EXCEPT !.at = c, !.start = FALSE, !.unread = FALSE] /\ page.at # Nowhere /\ ~team /\ loads' = loads \cup {c}
      /\ ~overtaken' => ~overtaken /\ ~UnderWay(page.at) /\ page.timer = Nowhere
  BY DEF FollowNotice
<1>2. ScreenShape /\ OwnAffairs /\ PersonalHasNoFacts
  BY DEF ScreenInv
<1>3. /\ page' \in PageRows /\ page'.at = c /\ page'.timer = page.timer /\ page'.decisions = page.decisions
      /\ page'.facts = page.facts /\ page.facts = Nowhere
  BY <1>1, <1>2 DEF ScreenShape, PageRows, PersonalHasNoFacts
<1>4. ScreenShape'
  BY <1>1, <1>2, <1>3 DEF ScreenShape
<1>5. ~overtaken' => loads = {} /\ factLoads = {} /\ \A d \in Files : calls[d] = "none"
  BY <1>1, <1>2 DEF OwnAffairs, ScreenShape, UnderWay
<1>6. OwnAffairs'
  BY <1>1, <1>3, <1>5 DEF OwnAffairs
<1>7. DetailIsAsked' /\ PollsUnlessUnchanged'
  BY <1>1, <1>3 DEF DetailIsAsked, PollsUnlessUnchanged
<1>8. PersonalHasNoFacts' /\ LiveIsOwn' /\ DecisionsAreOfShown' /\ DecidedAsSeen'
  BY <1>1, <1>2, <1>3 DEF ScreenInv, PersonalHasNoFacts, LiveIsOwn, DecisionsAreOfShown, DecidedAsSeen
<1> QED BY <1>4, <1>6, <1>7, <1>8 DEF ScreenInv

(* What asks for the detail of the page's own contract, or of the one its  *)
(* timer was set for.                                                      *)
LEMMA AsksPreserve == ASSUME ScreenAssumption, ScreenInv, TimerFires \/ Refresh PROVE ScreenInv'
<1>1. ScreenShape /\ OwnAffairs
  BY DEF ScreenInv
<1>2. PICK c \in Files : loads' = loads \cup {c} /\ (~overtaken => c = page.at)
  BY <1>1 DEF ScreenShape, PageRows, OwnAffairs, TimerFires, Refresh
<1>3. UNCHANGED <<team, planDeep, entDeep, canDecide, srv, detail, calls, reviewing, live, factLoads, submitted, overtaken, carried>>
  BY DEF TimerFires, Refresh
<1>4. page' = page \/ (~team /\ page' = [page EXCEPT !.timer = Nowhere])
  BY <1>1 DEF TimerFires, Refresh, ScreenShape, PageRows
<1>5. /\ page' \in PageRows /\ page'.at = page.at /\ page'.timer \in {Nowhere, page.timer} /\ page'.facts = page.facts
      /\ page'.decisions = page.decisions /\ page'.unread = page.unread /\ (team => page'.timer = page.timer)
  BY <1>1, <1>4 DEF ScreenShape, PageRows
<1>6. ScreenShape'
  BY <1>1, <1>2, <1>3, <1>5 DEF ScreenShape
<1>7. OwnAffairs'
  BY <1>1, <1>2, <1>3, <1>5 DEF OwnAffairs, FactsOfShown
<1>8. DetailIsAsked' /\ PollsUnlessUnchanged'
  BY <1>2, <1>3, <1>5 DEF ScreenInv, DetailIsAsked, PollsUnlessUnchanged, Shown
<1>9. PersonalHasNoFacts' /\ LiveIsOwn' /\ DecisionsAreOfShown' /\ DecidedAsSeen'
  BY <1>3, <1>5 DEF ScreenInv, PersonalHasNoFacts, LiveIsOwn, DecisionsAreOfShown, DecidedAsSeen
<1> QED BY <1>6, <1>7, <1>8, <1>9 DEF ScreenInv

LEMMA LoadAnsweredPreserves == ASSUME ScreenAssumption, ScreenInv, NEW c \in loads, LoadAnswered(c) PROVE ScreenInv'
<1> DEFINE d == Snapshot(c)
           changed == IF detail = Nowhere THEN TRUE ELSE detail.status # srv[c].status
           shownFacts == IF team THEN FactsShown(page, d) ELSE Nowhere
           pg == [page EXCEPT !.facts = shownFacts, !.unread = @ /\ c # page.at]
<1>1. /\ UNCHANGED <<team, planDeep, entDeep, canDecide, srv, submitted, overtaken>>
      /\ loads' = loads \ {c} /\ detail' = d /\ factLoads' = FactsAsked(d)
      /\ carried' = (carried \/ (page.decisions # {} /\ page.decisions # {<<c, srv[c].review>>}))
  BY DEF LoadAnswered
<1>2. ScreenShape /\ OwnAffairs /\ PersonalHasNoFacts /\ LiveIsOwn /\ page \in PageRows /\ c \in Files
  BY DEF ScreenInv, ScreenShape
<1>3. d \in DetailRows /\ d.c = c /\ d.review = srv[c].review /\ d.status = srv[c].status
  BY <1>2, SnapshotHas
<1> HIDE DEF d
<1>4. shownFacts \in Files \cup {Nowhere} /\ (~overtaken /\ page.at # Nowhere => shownFacts \in {Nowhere, page.at})
  <2>1. page.facts \in Files \cup {Nowhere}
    BY <1>2 DEF PageRows
  <2>2. ~overtaken => c = page.at /\ (page.facts \in {Nowhere, page.at} \/ FactsOfShown)
    BY <1>2 DEF OwnAffairs
  <2>3. shownFacts \in {c, Nowhere} \/ (detail # Nowhere /\ detail.c = c /\ shownFacts = page.facts)
    BY <1>3 DEF FactsShown
  <2> QED BY <1>2, <2>1, <2>2, <2>3 DEF FactsOfShown
<1> HIDE DEF shownFacts
<1>5. pg \in PageRows /\ pg.at = page.at /\ pg.timer = page.timer /\ pg.decisions = page.decisions /\ pg.facts = shownFacts
  BY <1>2, <1>4 DEF PageRows
<1>6. factLoads' \subseteq Files /\ (~team => factLoads' = {}) /\ (~overtaken /\ page.at # Nowhere => factLoads' \subseteq {page.at})
  <2>1. factLoads' = factLoads \/ (team /\ page.at # Nowhere /\ factLoads' = factLoads \cup {page.at})
    BY <1>1 DEF FactsAsked
  <2>2. page.at \in Files \cup {Nowhere}
    BY <1>2 DEF PageRows
  <2> QED BY <1>2, <2>1, <2>2 DEF OwnAffairs, PersonalHasNoFacts, ScreenShape
<1>7. CASE page.at = Nowhere
  <2>1. UNCHANGED <<page, calls, reviewing, live>>
    BY <1>7 DEF LoadAnswered
  <2>2. overtaken
    BY <1>2, <1>7 DEF OwnAffairs, ScreenAssumption
  <2>3. ~Shown'
    BY <1>7, <2>1 DEF Shown
  <2>4. ScreenShape'
    BY <1>1, <1>2, <1>3, <1>6, <2>1 DEF ScreenShape
  <2>5. OwnAffairs' /\ LiveIsOwn' /\ DetailIsAsked' /\ PollsUnlessUnchanged'
    BY <1>1, <2>2 DEF OwnAffairs, LiveIsOwn, DetailIsAsked, PollsUnlessUnchanged
  <2>6. PersonalHasNoFacts'
    BY <1>1, <1>2, <1>6, <2>1 DEF PersonalHasNoFacts
  <2>7. DecisionsAreOfShown' /\ DecidedAsSeen'
    BY <1>1, <1>3, <2>1 DEF ScreenInv, DecisionsAreOfShown, DecidedAsSeen
  <2> QED BY <2>4, <2>5, <2>6, <2>7 DEF ScreenInv
<1>8. CASE page.at # Nowhere
  <2>1. /\ page' = IF changed \/ team THEN AfterEffect(pg, d) ELSE [pg EXCEPT !.unchanged = TRUE]
        /\ \E asked1 \in BOOLEAN : StartsIf(asked1, page.at)
    <3>1. StartsIf(changed /\ AutoStarts(page, d), page.at) /\ (changed /\ AutoStarts(page, d)) \in BOOLEAN
      BY <1>8 DEF LoadAnswered, d
    <3> HIDE DEF pg, changed
    <3>2. page' = IF changed \/ team THEN AfterEffect(pg, d) ELSE [pg EXCEPT !.unchanged = TRUE]
      BY <1>8 DEF LoadAnswered, d, pg, changed, shownFacts
    <3> QED BY <3>1, <3>2
  <2> HIDE DEF pg, changed
  <2>2. page.at \in Files
    BY <1>2, <1>8 DEF PageRows
  <2>3. /\ calls' \in [Files -> {"none", "asked", "running", "over"}] /\ \A e \in Files : e # page.at => calls'[e] = calls[e]
        /\ live' \subseteq live
    BY <1>2, <2>1, <2>2, StartsHave
  <2>4. /\ page' \in PageRows /\ page'.at = page.at /\ page'.decisions = page.decisions /\ page'.facts = shownFacts
        /\ (page'.unchanged /\ ~team) \/ page'.timer = IF Polls(pg, d) THEN page.at ELSE Nowhere
        /\ page'.timer \in {Nowhere, page.at, page.timer}
    <3>1. CASE changed \/ team
      <4>1. page' = AfterEffect(pg, d)
        BY <2>1, <3>1
      <4> QED BY <1>5, <4>1, AfterEffectHas
    <3>2. CASE ~(changed \/ team)
      <4>1. page' = [pg EXCEPT !.unchanged = TRUE]
        BY <2>1, <3>2
      <4> QED BY <1>5, <3>2, <4>1 DEF PageRows
    <3> QED BY <3>1, <3>2
  <2>5. ScreenShape'
    BY <1>1, <1>2, <1>3, <1>6, <2>3, <2>4 DEF ScreenShape
  <2>6. OwnAffairs'
    BY <1>1, <1>2, <1>4, <1>6, <1>8, <2>3, <2>4 DEF OwnAffairs
  <2>7. PersonalHasNoFacts' /\ LiveIsOwn'
    <3>1. ~team => shownFacts = Nowhere
      BY DEF shownFacts
    <3> QED BY <1>1, <1>2, <1>6, <2>3, <2>4, <3>1 DEF PersonalHasNoFacts, LiveIsOwn
  <2>8. DetailIsAsked'
    BY <1>1, <1>2, <1>3, <2>4 DEF DetailIsAsked, OwnAffairs
  <2>9. PollsUnlessUnchanged'
    <3>1. detail'.status \in Parsing => detail' = Nowhere \/ Polls(pg, d)
      BY <1>1 DEF Polls
    <3>2. Shown' => detail' # Nowhere
      BY DEF Shown
    <3> QED BY <1>1, <1>8, <2>4, <3>1, <3>2 DEF PollsUnlessUnchanged
  <2>10. DecisionsAreOfShown' /\ DecidedAsSeen'
    BY <1>1, <1>3, <2>4 DEF ScreenInv, DecisionsAreOfShown, DecidedAsSeen
  <2> QED BY <2>5, <2>6, <2>7, <2>8, <2>9, <2>10 DEF ScreenInv
<1> QED BY <1>7, <1>8

LEMMA LoadFailsPreserves == ASSUME ScreenAssumption, ScreenInv, NEW c \in loads, LoadFails(c) PROVE ScreenInv'
<1>1. /\ UNCHANGED <<team, planDeep, entDeep, canDecide, srv, detail, calls, reviewing, live, factLoads, submitted, overtaken, carried>>
      /\ loads' = loads \ {c} /\ page' = [page EXCEPT !.unread = @ \/ c = page.at]
  BY DEF LoadFails
<1>2. ScreenShape /\ OwnAffairs /\ page \in PageRows
  BY DEF ScreenInv, ScreenShape
<1>3. /\ page' \in PageRows /\ page'.at = page.at /\ page'.timer = page.timer /\ page'.decisions = page.decisions
      /\ page'.facts = page.facts /\ page'.unchanged = page.unchanged /\ page'.unread = (page.unread \/ c = page.at)
  BY <1>1, <1>2 DEF PageRows
<1>4. ScreenShape' /\ OwnAffairs'
  BY <1>1, <1>2, <1>3 DEF ScreenShape, OwnAffairs, FactsOfShown
<1>5. ~overtaken => c = page.at
  BY <1>2 DEF OwnAffairs
<1>6. DetailIsAsked' /\ PollsUnlessUnchanged'
  BY <1>1, <1>3, <1>5 DEF ScreenInv, DetailIsAsked, PollsUnlessUnchanged, Shown
<1> QED BY <1>1, <1>3, <1>4, <1>6 DEF ScreenInv, PersonalHasNoFacts, LiveIsOwn, DecisionsAreOfShown, DecidedAsSeen

LEMMA FactsAnsweredPreserves == ASSUME ScreenAssumption, ScreenInv, NEW c \in Files, FactsAnswered(c) PROVE ScreenInv'
<1>1. /\ UNCHANGED <<team, planDeep, entDeep, canDecide, srv, detail, loads, calls, reviewing, live, submitted, overtaken, carried>>
      /\ factLoads' = factLoads \ {c} /\ c \in factLoads
      /\ page' = page \/ page' = [page EXCEPT !.facts = c]
  BY DEF FactsAnswered
<1>2. ScreenShape /\ OwnAffairs /\ PersonalHasNoFacts
  BY DEF ScreenInv
<1>3. /\ page' \in PageRows /\ page'.at = page.at /\ page'.timer = page.timer /\ page'.decisions = page.decisions
      /\ page'.facts \in {page.facts, c} /\ page'.unchanged = page.unchanged /\ page'.unread = page.unread
  BY <1>1, <1>2 DEF ScreenShape, PageRows
<1>4. ScreenShape'
  BY <1>1, <1>2, <1>3 DEF ScreenShape
<1>5. OwnAffairs'
  BY <1>1, <1>2, <1>3 DEF OwnAffairs, FactsOfShown
<1>6. PersonalHasNoFacts'
  BY <1>1, <1>2 DEF PersonalHasNoFacts
<1> QED BY <1>1, <1>3, <1>4, <1>5, <1>6 DEF ScreenInv, LiveIsOwn, DetailIsAsked, DecisionsAreOfShown, PollsUnlessUnchanged,
           DecidedAsSeen, Shown

LEMMA RunEventPreserves == ASSUME ScreenAssumption, ScreenInv, NEW c \in Files, RunEvent(c) PROVE ScreenInv'
<1>1. /\ UNCHANGED <<team, planDeep, entDeep, canDecide, srv, page, detail, loads, calls, reviewing, factLoads, submitted, overtaken, carried>>
      /\ live' = live \cup {c} /\ calls[c] = "running"
  BY DEF RunEvent
<1>2. ScreenShape' /\ LiveIsOwn'
  BY <1>1 DEF ScreenInv, ScreenShape, LiveIsOwn, OwnAffairs
<1> QED BY <1>1, <1>2 DEF ScreenInv, OwnAffairs, FactsOfShown, PersonalHasNoFacts, DetailIsAsked, DecisionsAreOfShown, PollsUnlessUnchanged,
           DecidedAsSeen, Shown

LEMMA CallReturnsPreserves == ASSUME ScreenAssumption, ScreenInv, NEW c \in Files, CallReturns(c) PROVE ScreenInv'
<1>1. /\ UNCHANGED <<team, planDeep, entDeep, canDecide, srv, page, detail, live, factLoads, submitted, overtaken, carried>>
      /\ loads' = loads \cup {c} /\ calls' = [calls EXCEPT ![c] = "none"] /\ calls[c] # "none"
  BY DEF CallReturns
<1>2. ScreenShape /\ OwnAffairs
  BY DEF ScreenInv
<1>3. ScreenShape' /\ OwnAffairs'
  BY <1>1, <1>2 DEF ScreenShape, OwnAffairs, FactsOfShown
<1> QED BY <1>1, <1>3 DEF ScreenInv, PersonalHasNoFacts, LiveIsOwn, DetailIsAsked, DecisionsAreOfShown, PollsUnlessUnchanged,
           DecidedAsSeen, Shown

LEMMA StartedPreserves == ASSUME ScreenAssumption, ScreenInv, HandleStart \/ RunWithCoupon PROVE ScreenInv'
<1>1. /\ UNCHANGED <<team, planDeep, entDeep, canDecide, srv, detail, loads, factLoads, submitted, overtaken, carried>>
      /\ AskedFor(page.at) /\ Shown
  BY DEF HandleStart, RunWithCoupon, StartOffered, PanelStart, AgainStart
<1>2. ScreenShape /\ OwnAffairs
  BY DEF ScreenInv
<1>3. page' = page \/ page' = [page EXCEPT !.decisions = {}]
  BY DEF HandleStart, RunWithCoupon
<1>4. /\ page' \in PageRows /\ page'.at = page.at /\ page'.timer = page.timer /\ page'.decisions \subseteq page.decisions
      /\ page'.facts = page.facts /\ page'.unchanged = page.unchanged /\ page'.unread = page.unread
  BY <1>2, <1>3 DEF ScreenShape, PageRows
<1>5. page.at \in Files
  BY <1>1, <1>2 DEF Shown, ScreenShape, PageRows
<1>6. calls' = [calls EXCEPT ![page.at] = "asked"] /\ live' = {}
  BY <1>1 DEF AskedFor
<1>7. ScreenShape' /\ OwnAffairs'
  BY <1>1, <1>2, <1>4, <1>5, <1>6 DEF ScreenShape, OwnAffairs, FactsOfShown
<1> QED BY <1>1, <1>4, <1>6, <1>7 DEF ScreenInv, PersonalHasNoFacts, LiveIsOwn, DetailIsAsked, DecisionsAreOfShown,
           PollsUnlessUnchanged, DecidedAsSeen, Shown

LEMMA DecideRiskPreserves == ASSUME ScreenAssumption, ScreenInv, DecideRisk PROVE ScreenInv'
<1>1. /\ UNCHANGED <<team, planDeep, entDeep, canDecide, srv, detail, loads, calls, reviewing, live, factLoads, submitted, overtaken, carried>>
      /\ page' = [page EXCEPT !.decisions = @ \cup {<<detail.c, detail.review>>}] /\ Shown
  BY DEF DecideRisk, CardsOpen, ReviewOpen
<1>2. ScreenShape /\ detail \in DetailRows
  BY <1>1 DEF ScreenInv, ScreenShape, Shown
<1>3. <<detail.c, detail.review>> \in Files \X Nat
  BY <1>2 DEF DetailRows
<1>4. /\ page' \in PageRows /\ page'.at = page.at /\ page'.timer = page.timer /\ page'.facts = page.facts
      /\ page'.decisions = page.decisions \cup {<<detail.c, detail.review>>} /\ page'.unchanged = page.unchanged /\ page'.unread = page.unread
  BY <1>1, <1>2, <1>3 DEF ScreenShape, PageRows
<1>5. ScreenShape'
  BY <1>1, <1>2, <1>4 DEF ScreenShape
<1> QED BY <1>1, <1>4, <1>5 DEF ScreenInv, OwnAffairs, FactsOfShown, PersonalHasNoFacts, LiveIsOwn, DetailIsAsked, DecisionsAreOfShown,
           PollsUnlessUnchanged, DecidedAsSeen, Shown

LEMMA DoSubmitPreserves ==
  ASSUME ScreenAssumption, ScreenInv, NEW final \in {"APPROVED", "REJECTED"}, DoSubmit(final)
  PROVE  ScreenInv'
<1> DEFINE row == [srv[detail.c] EXCEPT !.task = final, !.status = IF final = "APPROVED" THEN "COMPLETED" ELSE "READY"]
<1>1. /\ UNCHANGED <<team, planDeep, entDeep, canDecide, page, detail, calls, reviewing, live, factLoads, overtaken, carried>>
      /\ submitted' = [review |-> <<detail.c, detail.review>>, actions |-> page.decisions]
      /\ srv' = srv \/ srv' = [srv EXCEPT ![detail.c] = row]
      /\ loads' \in {loads, loads \cup {page.at}} /\ Shown
      /\ srv' # srv => srv[detail.c].task = "WAITING_REVIEW"
  BY DEF DoSubmit, FinalOffered, ReviewOpen, Decided
<1>2. ScreenShape /\ OwnAffairs /\ detail \in DetailRows /\ page.at \in Files
  BY <1>1 DEF ScreenInv, ScreenShape, Shown, PageRows
<1>3. /\ row \in ServedRows /\ detail.c \in Files
      /\ srv[detail.c].task = "WAITING_REVIEW" => RowHolds(detail.c, row)
  <2>1. detail.c \in Files
    BY <1>2 DEF DetailRows
  <2>2. srv[detail.c] \in ServedRows
    BY <1>2, <2>1 DEF ScreenShape
  <2>3. row \in ServedRows /\ row.review = srv[detail.c].review /\ (row.task = "REJECTED" => row.status = "READY")
    BY <2>2 DEF ServedRows, Statuses
  <2>4. RowHolds(detail.c, srv[detail.c])
    BY <1>2, <2>1 DEF ScreenShape
  <2> HIDE DEF row
  <2> QED BY <2>1, <2>3, <2>4 DEF RowHolds, Startable
<1> HIDE DEF row
<1>4. srv' \in [Files -> ServedRows] /\ \A d \in Files : RowHolds(d, srv'[d])
  BY <1>1, <1>2, <1>3 DEF ScreenShape
<1>5. ScreenShape' /\ OwnAffairs'
  BY <1>1, <1>2, <1>4 DEF ScreenShape, OwnAffairs, FactsOfShown
<1>6. DecidedAsSeen'
  BY <1>1 DEF ScreenInv, DecidedAsSeen, DecisionsAreOfShown
<1> QED BY <1>1, <1>5, <1>6 DEF ScreenInv, PersonalHasNoFacts, LiveIsOwn, DetailIsAsked, DecisionsAreOfShown,
           PollsUnlessUnchanged, Shown

LEMMA PlanPreserves == ASSUME ScreenAssumption, ScreenInv, PlanBought \/ EntitlementAnswered PROVE ScreenInv'
<1>1. /\ UNCHANGED <<team, srv, page, detail, loads, calls, live, factLoads, submitted, overtaken, carried>>
      /\ planDeep' \in BOOLEAN /\ entDeep' \in BOOLEAN
  BY DEF ScreenInv, ScreenShape, PlanBought, EntitlementAnswered
<1>2. ScreenShape'
  BY <1>1 DEF ScreenInv, ScreenShape
<1> QED BY <1>1, <1>2 DEF ScreenInv, OwnAffairs, FactsOfShown, PersonalHasNoFacts, LiveIsOwn, DetailIsAsked, DecisionsAreOfShown,
           PollsUnlessUnchanged, DecidedAsSeen, Shown

LEMMA ScreensPreserved == ASSUME ScreenAssumption, ScreenInv, ScreenNext PROVE ScreenInv'
BY ServedPreserves, OpenPreserves, LeavePreserves, FollowNoticePreserves, AsksPreserve, LoadAnsweredPreserves, LoadFailsPreserves, FactsAnsweredPreserves,
   RunEventPreserves, CallReturnsPreserves, StartedPreserves, DecideRiskPreserves, DoSubmitPreserves, PlanPreserves DEF ScreenNext

LEMMA ScreensInType ==
  ASSUME ScreenAssumption, ScreenInv
  PROVE  ScreenTypeOK /\ ShownIsAsked /\ FactsAreShown /\ PollsUnlessUnchanged /\ DecidedAsSeen /\ OffersAreAccepted
<1>1. ScreenShape /\ OwnAffairs /\ LiveIsOwn /\ DetailIsAsked
  BY DEF ScreenInv
<1>2. ScreenTypeOK
  <2>1. ASSUME NEW c \in Files PROVE srv[c].review \in 0 .. RunsMax[c]
    BY <1>1 DEF ScreenShape, ServedRows, ScreenAssumption, RowHolds
  <2> QED BY <1>1, <2>1 DEF ScreenTypeOK, ScreenShape, PageRows
<1>3. ShownIsAsked /\ FactsAreShown
  BY <1>1 DEF ShownIsAsked, FactsAreShown, DetailIsAsked, LiveIsOwn, OwnAffairs, FactsOfShown, RiskList, Shown
<1>4. OffersAreAccepted
  <2>1. SUFFICES ASSUME Shown, detail = Snapshot(page.at)
                 PROVE  /\ StartOffered \/ AgainStart => srv[page.at].status \in Startable
                        /\ PanelStart => srv[page.at].status \in Startable \cup Parsing \cup {"FAILED"}
                        /\ FinalOffered => srv[page.at].task = "WAITING_REVIEW"
                        /\ (~team /\ entDeep = planDeep /\ ResultPage.word) => srv[page.at].deep \/ planDeep
    BY DEF OffersAreAccepted
  <2>2. detail.status = srv[page.at].status /\ detail.task = srv[page.at].task /\ detail.deep = srv[page.at].deep
        /\ detail.review = srv[page.at].review /\ detail # Nowhere
    BY <2>1 DEF Snapshot, Shown
  <2>3. srv[page.at].status \in Statuses /\ RowHolds(page.at, srv[page.at])
    BY <1>1, <2>1 DEF ScreenShape, Shown, PageRows, ServedRows
  <2>4. StartOffered => srv[page.at].status \in Startable
    BY <2>2, <2>3 DEF StartOffered, Startable, Statuses
  <2>8. AgainStart => srv[page.at].status \in Startable
    BY <2>2, <2>3 DEF AgainStart, RowHolds
  <2>9. PanelStart => srv[page.at].status \in Startable \cup Parsing \cup {"FAILED"}
    BY <2>2, <2>3 DEF PanelStart, RowHolds, Startable, Parsing
  <2>5. FinalOffered => srv[page.at].task = "WAITING_REVIEW"
    BY <2>2 DEF FinalOffered, ReviewOpen
  <2>6. ResultPage.word = Deep
    BY DEF ResultPage
  <2>7. (~team /\ entDeep = planDeep /\ ResultPage.word) => srv[page.at].deep \/ planDeep
    <3>1. Deep => detail.deep \/ entDeep
      BY <2>2 DEF Deep
    <3>3. ResultPage.word => Deep
      BY <2>6
    <3>4. CASE detail.deep
      BY <2>2, <3>4
    <3> QED BY <2>2, <3>1, <3>3, <3>4
  <2> QED BY <2>4, <2>5, <2>7, <2>8, <2>9
<1> QED BY <1>2, <1>3, <1>4 DEF ScreenInv

----------------------------------------------------------------------------
(* Checkout: orders and contracts.                                         *)
Plans == {"FREE", "PERSONAL", "TEAM"}
Personal == {"PERSONAL_MONTHLY", "PERSONAL_YEARLY"}
Visits == [link : Links, phase : {"idle", "ordering", "paying", "paid"}, order : Nat]
OrderRows == [item : OrderItems, status : {"PENDING", "PAID"}, by : Nat]
StartShaped(s) ==
  s \in [n : {s.n}, visit : Nat, content : {s.content}, coupon : BOOLEAN, wall : BOOLEAN, phase : {"check", "upload", "list"}]
SpaceShape ==
  /\ space \in [plan : Plans, coupons : Nat, used : 0 .. FreeReviews, cancel : BOOLEAN]
  /\ asks \subseteq {"entitlement", "orders", "cancel"}
OrdersShape == visit \in Seq(Visits) /\ orders \in Seq(OrderRows) /\ lostAnswer \in BOOLEAN
DraftShaped(d) == d \in [content : {d.content}, busy : BOOLEAN, paywall : {d.paywall}, using : {d.using}]
StartsShape ==
  /\ \A s \in starts : StartShaped(s)
  /\ made \in Seq(Nat) /\ unled \in Seq(Nat) /\ Len(unled) = Len(made) /\ DOMAIN unled = DOMAIN made
  /\ DraftShaped(draft)

(* An order is one visit's, of the item its address names; a visit that    *)
(* pays has an order, one that says it has paid has paid it, and no other  *)
(* unless an answer was lost.                                              *)
PaidBy(v) == {i \in DOMAIN orders : orders[i].by = v /\ orders[i].status = "PAID"}
OrderIsOf(i) == orders[i].by \in DOMAIN visit /\ orders[i].item = ResolveItem(visit[orders[i].by].link)
VisitPays(v) ==
  /\ visit[v].phase # "idle" => ResolveItem(visit[v].link) \in OrderItems
  /\ visit[v].phase \in {"paying", "paid"} =>
       /\ visit[v].order \in DOMAIN orders /\ orders[visit[v].order].by = v
       /\ visit[v].phase = "paid" => orders[visit[v].order].status = "PAID"
  /\ ~lostAnswer => PaidBy(v) \subseteq IF visit[v].phase = "paid" THEN {visit[v].order} ELSE {}
OrdersInv == (\A i \in DOMAIN orders : OrderIsOf(i)) /\ (\A v \in DOMAIN visit : VisitPays(v))

(* A visit has one start, which has made a contract to lead to when it     *)
(* waits for the list; the page open has led to none, and has none to lead *)
(* to but by the start that is under way, which it says is.                *)
Led(v) == made[v] - unled[v]
OneStart ==
  /\ \A s, t \in starts : s.visit = t.visit => s = t
  /\ \A s \in starts : s.visit \in DOMAIN made /\ Led(s.visit) = IF s.phase = "list" THEN 1 ELSE 0
  /\ at = "new" => /\ Len(made) \in DOMAIN made
                   /\ Led(Len(made)) = 0 \/ \E s \in starts : s.visit = Len(made)
                   /\ \A s \in starts : s.visit = Len(made) => draft.busy
  /\ \A v \in DOMAIN made : Led(v) <= 1
StartsInv == "coupon" \in hasty \/ OneStart

(* What the store shows is what the server holds, or is asked for.         *)
NeverAsked == at = "home" /\ starts = {} /\ visit = <<>>
EntitlementIsAsked ==
  lostAnswer \/ "entitlement" \in asks \/ entShown = EntitlementNow \/ (entShown = Renewed /\ NeverAsked)
PayingIsOpen == Paying => at = "checkout" \/ "left" \in hasty
OrdersAreAsked == at = "billing" /\ "left" \notin hasty => "orders" \in asks \/ ordersShown = Newest(orders)
PlanIsPaid == space.plan = "PERSONAL" => \E i \in DOMAIN orders : orders[i].status = "PAID" /\ orders[i].item \in Personal
ShownInv == EntitlementIsAsked /\ PayingIsOpen /\ OrdersAreAsked /\ PlanIsPaid

SalesInv == SpaceShape /\ OrdersShape /\ StartsShape /\ OrdersInv /\ StartsInv /\ ShownInv

LEMMA ItemsNamed == \A v : ResolveItem(visit[v].link) \in OrderItems \cup {Renewed}
BY DEF ResolveItem, OrderItems

LEMMA CheckoutInitially == CheckoutInit => SalesInv
<1> SUFFICES ASSUME CheckoutInit PROVE SalesInv
  OBVIOUS
<1> USE CheckoutAssumption DEF CheckoutInit
<1>0. \A S : <<>> \in Seq(S) /\ DOMAIN <<>> = {}
  BY EmptySeq
<1>1. SpaceShape /\ OrdersShape
  <2>1. space \in [plan : Plans, coupons : Nat, used : 0 .. FreeReviews, cancel : BOOLEAN]
    BY DEF Plans
  <2> QED BY <1>0, <2>1 DEF SpaceShape, OrdersShape
<1>2. StartsShape
  BY <1>0 DEF StartsShape, DraftShaped, NoDraft
<1>3. OrdersInv /\ StartsInv
  BY <1>0 DEF OrdersInv, StartsInv, OneStart
<1>4. ShownInv
  BY <1>0 DEF ShownInv, EntitlementIsAsked, PayingIsOpen, OrdersAreAsked, PlanIsPaid, NeverAsked, Paying
<1> QED BY <1>1, <1>2, <1>3, <1>4 DEF SalesInv

LEMMA TradeFacts ==
  ASSUME OrdersShape, NEW v \in DOMAIN visit
  PROVE  /\ visit[v] \in Visits /\ v \in Nat
         /\ \A p \in {"idle", "ordering", "paying", "paid"} : [visit[v] EXCEPT !.phase = p] \in Visits
         /\ \A p \in {"idle", "ordering", "paying", "paid"} :
               LET e == [visit[v] EXCEPT !.phase = p] IN e.link = visit[v].link /\ e.phase = p /\ e.order = visit[v].order
<1>1. visit[v] \in Visits /\ v \in Nat
  BY ElementOfSeq, LenProperties DEF OrdersShape
<1> QED BY <1>1 DEF Visits

(* What a step leaves as it was.                                           *)
LEMMA PaysAsBefore ==
  ASSUME NEW j, VisitPays(j), visit'[j] = visit[j], PaidBy(j)' = PaidBy(j), lostAnswer => lostAnswer',
         \A i \in DOMAIN orders : i \in DOMAIN orders' /\ (orders[i].by = j => orders'[i] = orders[i])
  PROVE  VisitPays(j)'
BY DEF VisitPays

LEMMA OrderedAsBefore ==
  ASSUME NEW i \in DOMAIN orders, OrderIsOf(i), orders'[i].by = orders[i].by, orders'[i].item = orders[i].item,
         DOMAIN visit \subseteq DOMAIN visit', \A v \in DOMAIN visit : visit'[v].link = visit[v].link
  PROVE  OrderIsOf(i)'
BY DEF OrderIsOf

(* A visit goes on without an order.                                       *)
LEMMA VisitMoves ==
  ASSUME OrdersShape, OrdersInv, NEW v \in DOMAIN visit, NEW p \in {"idle", "ordering"},
         visit' = [visit EXCEPT ![v].phase = p], UNCHANGED <<orders, lostAnswer>>,
         p = "ordering" => ResolveItem(visit[v].link) \in OrderItems, visit[v].phase # "paid"
  PROVE  OrdersShape' /\ OrdersInv'
<1> DEFINE e == [visit[v] EXCEPT !.phase = p]
<1>0. visit' = [visit EXCEPT ![v] = e]
  OBVIOUS
<1>1. e \in Visits /\ e.link = visit[v].link /\ e.phase = p /\ e.order = visit[v].order
  BY TradeFacts
<1> HIDE DEF e
<1>2. /\ visit' \in Seq(Visits) /\ DOMAIN visit' = DOMAIN visit
      /\ visit'[v] = e /\ \A j \in DOMAIN visit \ {v} : visit'[j] = visit[j]
  <2>1. visit \in Seq(Visits)
    BY DEF OrdersShape
  <2> QED BY <1>0, <1>1, <2>1, EntryAnew
<1>3. \A j \in DOMAIN visit : visit'[j].link = visit[j].link /\ PaidBy(j)' = PaidBy(j)
  BY <1>1, <1>2 DEF PaidBy
<1>4. OrdersShape'
  BY <1>2 DEF OrdersShape
<1>5. \A i \in DOMAIN orders : OrderIsOf(i)
  BY DEF OrdersInv, OrderIsOf, VisitPays
<1>6. \A i \in DOMAIN orders' : OrderIsOf(i)'
  BY <1>2, <1>3, <1>5 DEF OrderIsOf
<1>7. ASSUME NEW j \in DOMAIN visit'
      PROVE  VisitPays(j)'
  BY <1>1, <1>2, <1>3 DEF OrdersInv, OrderIsOf, VisitPays
<1> QED BY <1>4, <1>6, <1>7 DEF OrdersInv

LEMMA OrdersPreserved ==
  ASSUME OrdersShape, OrdersInv, CheckoutNext \/ UNCHANGED checkoutVars
  PROVE  OrdersShape' /\ OrdersInv'
<1>1. CASE UNCHANGED <<visit, orders, lostAnswer>>
  <2>1. \A v \in DOMAIN visit : visit'[v].link = visit[v].link /\ PaidBy(v)' = PaidBy(v)
    BY <1>1 DEF PaidBy
  <2> QED BY <1>1, <2>1 DEF OrdersShape, OrdersInv, OrderIsOf, VisitPays
<1>2. ASSUME NEW l \in Links, OpenCheckout(l) PROVE OrdersShape' /\ OrdersInv'
  <2> DEFINE e == [link |-> l, phase |-> "idle", order |-> 0]
  <2>1. visit' = Append(visit, e) /\ UNCHANGED <<orders, lostAnswer>>
    BY <1>2 DEF OpenCheckout
  <2>2. e \in Visits /\ e.phase = "idle"
    BY DEF Visits
  <2> HIDE DEF e
  <2>3. /\ visit' \in Seq(Visits) /\ DOMAIN visit' = DOMAIN visit \cup {Len(visit) + 1}
        /\ visit'[Len(visit) + 1] = e /\ Len(visit) + 1 \notin DOMAIN visit
        /\ \A j \in DOMAIN visit : visit'[j] = visit[j]
    <3>1. Len(visit) + 1 \notin 1 .. Len(visit)
      BY EntryAppended DEF OrdersShape
    <3> QED BY <2>1, <2>2, <3>1, EntryAppended DEF OrdersShape
  <2>4. \A j \in DOMAIN visit : visit'[j].link = visit[j].link /\ PaidBy(j)' = PaidBy(j)
    BY <2>1, <2>3 DEF PaidBy
  <2>6. \A i \in DOMAIN orders' : OrderIsOf(i)'
    BY <2>1, <2>3, <2>4 DEF OrdersInv, OrderIsOf, VisitPays
  <2>7. ASSUME NEW j \in DOMAIN visit'
        PROVE  VisitPays(j)'
    <3>1. CASE j = Len(visit) + 1
      <4>1. PaidBy(j)' = {} /\ visit'[j].phase = "idle"
        BY <2>1, <2>2, <2>3, <3>1 DEF PaidBy, OrdersInv, OrderIsOf
      <4> QED BY <4>1 DEF VisitPays
    <3>2. CASE j \in DOMAIN visit
      BY <2>1, <2>3, <2>4, <3>2 DEF OrdersInv, OrderIsOf, VisitPays
    <3> QED BY <2>3, <3>1, <3>2
  <2> QED BY <2>1, <2>3, <2>6, <2>7 DEF OrdersShape, OrdersInv
<1>3. ASSUME NEW v \in DOMAIN visit, Pay(v) PROVE OrdersShape' /\ OrdersInv'
  <2>1. ResolveItem(visit[v].link) \in OrderItems /\ visit[v].phase = "idle"
    BY <1>3, ItemsNamed DEF Pay, Item, NoSuchItem, OffersPay
  <2> QED BY <1>3, <2>1, VisitMoves DEF Pay
<1>4. ASSUME NEW v \in DOMAIN visit, PaymentFails(v) PROVE OrdersShape' /\ OrdersInv'
  BY <1>4, VisitMoves DEF PaymentFails
<1>5. ASSUME NEW v \in DOMAIN visit, NEW lost \in BOOLEAN, OrderAnswers(v, lost) PROVE OrdersShape' /\ OrdersInv'
  <2>0. visit[v].phase = "ordering" /\ ResolveItem(visit[v].link) \in OrderItems
    BY <1>5 DEF OrderAnswers, OrdersInv, OrderIsOf, VisitPays
  <2>1. CASE ~Purchasable(Item(v))
    BY <1>5, <2>0, <2>1, VisitMoves DEF OrderAnswers
  <2>2. CASE Purchasable(Item(v))
    <3> DEFINE row == [item |-> Item(v), status |-> "PENDING", by |-> v]
               e == [visit[v] EXCEPT !.phase = IF lost THEN "idle" ELSE "paying",
                                     !.order = IF lost THEN @ ELSE Len(orders) + 1]
    <3>1. orders' = Append(orders, row) /\ visit' = [visit EXCEPT ![v] = e] /\ lostAnswer' = (lostAnswer \/ lost)
      BY <1>5, <2>2 DEF OrderAnswers
    <3>2. visit[v] \in Visits /\ v \in Nat /\ Len(orders) \in Nat
      BY TradeFacts, LenProperties DEF OrdersShape
    <3>3. row \in OrderRows /\ row.item = Item(v) /\ row.status = "PENDING" /\ row.by = v
      BY <2>0, <3>2 DEF OrderRows, Item
    <3>4. /\ e \in Visits /\ e.link = visit[v].link
          /\ lost => e.phase = "idle"
          /\ ~lost => e.phase = "paying" /\ e.order = Len(orders) + 1
      <4>1. CASE lost
        BY <3>2, <4>1 DEF Visits
      <4>2. CASE ~lost
        <5>1. e = [visit[v] EXCEPT !.phase = "paying", !.order = Len(orders) + 1] /\ Len(orders) + 1 \in Nat
          BY <3>2, <4>2
        <5>2. [visit[v] EXCEPT !.phase = "paying", !.order = Len(orders) + 1] \in Visits
          BY <3>2, <5>1 DEF Visits
        <5> QED BY <3>2, <4>2, <5>1, <5>2 DEF Visits
      <4> QED BY <4>1, <4>2
    <3> HIDE DEF row, e
    <3>5. /\ visit' \in Seq(Visits) /\ DOMAIN visit' = DOMAIN visit
          /\ visit'[v] = e /\ \A j \in DOMAIN visit \ {v} : visit'[j] = visit[j]
      BY <3>1, <3>4, EntryAnew DEF OrdersShape
    <3>6. /\ orders' \in Seq(OrderRows) /\ DOMAIN orders' = DOMAIN orders \cup {Len(orders) + 1}
          /\ orders'[Len(orders) + 1] = row /\ Len(orders) + 1 \notin DOMAIN orders
          /\ \A i \in DOMAIN orders : orders'[i] = orders[i]
      <4>1. Len(orders) + 1 \notin 1 .. Len(orders)
        BY <3>2
      <4> QED BY <3>1, <3>3, <4>1, EntryAppended DEF OrdersShape
    <3>7. \A j \in DOMAIN visit : visit'[j].link = visit[j].link
      BY <3>4, <3>5 DEF Item
    <3>8. \A j \in DOMAIN visit : PaidBy(j)' = PaidBy(j)
      BY <3>3, <3>6 DEF PaidBy
    <3>9. \A i \in DOMAIN orders' : OrderIsOf(i)'
      <4> SUFFICES ASSUME NEW i \in DOMAIN orders'
                   PROVE  OrderIsOf(i)'
        OBVIOUS
      <4>1. CASE i \in DOMAIN orders
        BY <3>5, <3>6, <3>7, <4>1 DEF OrdersInv, OrderIsOf, VisitPays
      <4>2. CASE i = Len(orders) + 1
        BY <3>3, <3>5, <3>6, <3>7, <4>2 DEF OrderIsOf, Item
      <4> QED BY <3>6, <4>1, <4>2
    <3>10. ASSUME NEW j \in DOMAIN visit'
           PROVE  VisitPays(j)'
      <4>1. CASE j # v
        <5>1. VisitPays(j) /\ visit'[j] = visit[j] /\ PaidBy(j)' = PaidBy(j)
          BY <3>5, <3>8, <4>1 DEF OrdersInv
        <5> QED BY <3>1, <3>6, <5>1, PaysAsBefore
      <4>2. CASE j = v
        <5>1. ~lostAnswer => PaidBy(v) = {}
          BY <2>0 DEF OrdersInv, OrderIsOf, VisitPays
        <5> QED BY <2>0, <3>1, <3>3, <3>4, <3>5, <3>6, <3>7, <3>8, <4>2, <5>1 DEF VisitPays
      <4> QED BY <4>1, <4>2
    <3> QED BY <3>1, <3>5, <3>6, <3>9, <3>10 DEF OrdersShape, OrdersInv
  <2> QED BY <2>1, <2>2
<1>6. ASSUME NEW v \in DOMAIN visit, NEW lost \in BOOLEAN, PaymentAnswers(v, lost) PROVE OrdersShape' /\ OrdersInv'
  <2> DEFINE o == visit[v].order
             row == [orders[o] EXCEPT !.status = "PAID"]
             e == [visit[v] EXCEPT !.phase = AfterPayment(lost)]
  <2>0. /\ visit[v].phase = "paying" /\ ResolveItem(visit[v].link) \in OrderItems
        /\ o \in DOMAIN orders /\ orders[o].by = v /\ orders[o] \in OrderRows
    BY <1>6, ElementOfSeq, LenProperties DEF PaymentAnswers, OrdersInv, OrderIsOf, VisitPays, OrdersShape
  <2>1. orders' = [orders EXCEPT ![o] = row] /\ visit' = [visit EXCEPT ![v] = e] /\ lostAnswer' = (lostAnswer \/ lost)
    BY <1>6 DEF PaymentAnswers
  <2>2. row \in OrderRows /\ row.item = orders[o].item /\ row.status = "PAID" /\ row.by = v
    BY <2>0 DEF OrderRows
  <2>3. /\ e \in Visits /\ e.link = visit[v].link /\ e.order = o
        /\ lost => e.phase = "idle"
        /\ ~lost => e.phase = "paid"
    BY TradeFacts DEF AfterPayment
  <2> HIDE DEF row, e
  <2>4. /\ visit' \in Seq(Visits) /\ DOMAIN visit' = DOMAIN visit
        /\ visit'[v] = e /\ \A j \in DOMAIN visit \ {v} : visit'[j] = visit[j]
    BY <2>1, <2>3, EntryAnew DEF OrdersShape
  <2>5. /\ orders' \in Seq(OrderRows) /\ DOMAIN orders' = DOMAIN orders
        /\ orders'[o] = row /\ \A i \in DOMAIN orders \ {o} : orders'[i] = orders[i]
    BY <2>0, <2>1, <2>2, EntryAnew DEF OrdersShape
  <2>6. \A j \in DOMAIN visit : visit'[j].link = visit[j].link
    BY <2>3, <2>4 DEF Item
  <2>7. \A j \in DOMAIN visit \ {v} : PaidBy(j)' = PaidBy(j)
    BY <2>0, <2>2, <2>5 DEF PaidBy
  <2>8. ~lostAnswer => PaidBy(v)' = {o}
    <3>1. ~lostAnswer => PaidBy(v) = {}
      BY <2>0 DEF OrdersInv, OrderIsOf, VisitPays
    <3> QED BY <2>0, <2>2, <2>5, <3>1 DEF PaidBy
  <2>9. \A i \in DOMAIN orders' : OrderIsOf(i)'
    <3> SUFFICES ASSUME NEW i \in DOMAIN orders' PROVE OrderIsOf(i)'
      OBVIOUS
    <3>1. i \in DOMAIN orders /\ OrderIsOf(i) /\ orders'[i].by = orders[i].by /\ orders'[i].item = orders[i].item
      BY <2>0, <2>2, <2>5 DEF OrdersInv
    <3> QED BY <2>4, <2>6, <3>1, OrderedAsBefore
  <2>10. ASSUME NEW j \in DOMAIN visit'
         PROVE  VisitPays(j)'
    <3>1. CASE j # v
      <4>1. VisitPays(j) /\ visit'[j] = visit[j] /\ PaidBy(j)' = PaidBy(j)
        BY <2>4, <2>7, <3>1 DEF OrdersInv
      <4>2. \A i \in DOMAIN orders : i \in DOMAIN orders' /\ (orders[i].by = j => orders'[i] = orders[i])
        BY <2>0, <2>5, <3>1
      <4> QED BY <2>1, <4>1, <4>2, PaysAsBefore
    <3>2. CASE j = v
      BY <2>0, <2>1, <2>2, <2>3, <2>4, <2>5, <2>6, <2>8, <3>2 DEF VisitPays
    <3> QED BY <3>1, <3>2
  <2> QED BY <2>1, <2>4, <2>5, <2>9, <2>10 DEF OrdersShape, OrdersInv
<1>7. CASE CheckoutNext
  <2>1. \/ UNCHANGED <<visit, orders, lostAnswer>>
        \/ \E l \in Links : OpenCheckout(l)
        \/ \E v \in DOMAIN visit : \/ Pay(v) \/ PaymentFails(v)
                                   \/ \E lost \in BOOLEAN : OrderAnswers(v, lost) \/ PaymentAnswers(v, lost)
    BY <1>7 DEF CheckoutNext, EntitlementAnswers, OrdersAnswer, OpenNew, ClosePaywall, UseCoupon, ReviewBegins, Paste,
         Start, CheckAnswers, UploadAnswers, ListAnswers, StartFails, Leaves, Goes, OpenDialog, Confirm, CancelAnswers
  <2> QED BY <1>1, <1>2, <1>3, <1>4, <1>5, <1>6, <2>1
<1> QED BY <1>1, <1>7 DEF checkoutVars

LEMMA StartGoesOn ==
  ASSUME NEW s, StartShaped(s), NEW p \in {"upload", "list"}
  PROVE  /\ StartShaped([s EXCEPT !.phase = p]) /\ [s EXCEPT !.phase = p].visit = s.visit
         /\ [s EXCEPT !.phase = p].phase = p
BY DEF StartShaped

(* One more is counted of a visit.                                         *)
LEMMA OneMore ==
  ASSUME NEW f \in Seq(Nat), NEW v \in Nat
  PROVE  LET g == [f EXCEPT ![v] = f[v] + 1]
         IN /\ g \in Seq(Nat) /\ Len(g) = Len(f) /\ DOMAIN g = DOMAIN f
            /\ \A j \in DOMAIN f : f[j] \in Nat /\ g[j] = IF j = v THEN f[j] + 1 ELSE f[j]
<1> DEFINE g == [f EXCEPT ![v] = f[v] + 1]
<1>1. \A j \in DOMAIN f : f[j] \in Nat
  BY ElementOfSeq, LenProperties
<1>2. CASE v \in DOMAIN f
  BY <1>1, <1>2, EntryAnew
<1>3. CASE v \notin DOMAIN f
  <2>1. g = f
    BY <1>3, LenProperties
  <2> HIDE DEF g
  <2>2. g \in Seq(Nat) /\ Len(g) = Len(f) /\ DOMAIN g = DOMAIN f /\ \A j \in DOMAIN f : g[j] = f[j] /\ j # v
    BY <1>3, <2>1
  <2> QED BY <1>1, <2>2 DEF g
<1> QED BY <1>2, <1>3

LEMMA DraftStaysShaped ==
  ASSUME NEW d, DraftShaped(d), NEW b \in BOOLEAN, NEW p, NEW u
  PROVE  /\ DraftShaped([d EXCEPT !.busy = b]) /\ [d EXCEPT !.busy = b].busy = b
         /\ DraftShaped([d EXCEPT !.busy = b, !.using = u]) /\ [d EXCEPT !.busy = b, !.using = u].busy = b
         /\ DraftShaped([d EXCEPT !.paywall = p]) /\ [d EXCEPT !.paywall = p].busy = d.busy
         /\ DraftShaped([d EXCEPT !.busy = b, !.paywall = p, !.using = u])
BY DEF DraftShaped

LEMMA EmptyDraft == DraftShaped(NoDraft)
BY DEF DraftShaped, NoDraft

(* A start begins where none was under way, or with the coupon in haste.   *)
LEMMA StartBegins ==
  ASSUME StartsShape, StartsInv, NEW coupon \in BOOLEAN, NEW wall \in BOOLEAN,
         starts' = Begin(coupon, wall), UNCHANGED <<made, unled, at>>, at = "new",
         DraftShaped(draft'), draft'.busy, hasty \subseteq hasty', draft.busy => "coupon" \in hasty'
  PROVE  StartsShape' /\ StartsInv'
<1> DEFINE s0 == [n |-> FreeNumber, visit |-> Len(made), content |-> draft.content, coupon |-> coupon, wall |-> wall, phase |-> "check"]
<1>1. starts' = starts \cup {s0}
  BY DEF Begin
<1>2. Len(made) \in Nat
  BY LenProperties DEF StartsShape
<1>3. StartShaped(s0) /\ s0.visit = Len(made) /\ s0.phase = "check"
  BY <1>2 DEF StartShaped
<1> HIDE DEF s0
<1>4. StartsShape'
  BY <1>1, <1>3 DEF StartsShape
<1>5. ASSUME "coupon" \notin hasty' PROVE OneStart'
  <2>1. OneStart /\ ~draft.busy
    BY <1>5 DEF StartsInv
  <2>2. \A s \in starts : s.visit # Len(made)
    BY <2>1 DEF OneStart, Led
  <2>3. Len(made) \in DOMAIN made /\ Led(Len(made)) = 0
    BY <2>1, <2>2 DEF OneStart
  <2> QED BY <1>1, <1>3, <2>1, <2>2, <2>3 DEF OneStart, Led
<1> QED BY <1>4, <1>5 DEF StartsInv

(* A start ends on its page: what it made of its visit it leads no more    *)
(* to.                                                                     *)
LEMMA StartEnds ==
  ASSUME StartsShape, StartsInv, NEW s \in starts, NEW paywall \in BOOLEAN,
         starts' = starts \ {s}, draft' = Ended(s, paywall), UNCHANGED <<at, hasty>>,
         made' \in Seq(Nat), Len(made') = Len(made), DOMAIN made' = DOMAIN made,
         unled' \in Seq(Nat), Len(unled') = Len(unled), DOMAIN unled' = DOMAIN unled,
         \A v \in DOMAIN made : Led(v)' = IF v = s.visit /\ s.phase = "list" THEN Led(v) - 1 ELSE Led(v)
  PROVE  StartsShape' /\ StartsInv'
<1>1. DraftShaped(draft')
  BY DraftStaysShaped DEF Ended, StartsShape
<1>2. StartsShape'
  BY <1>1 DEF StartsShape
<1>3. ASSUME OneStart PROVE OneStart'
  <2>1. ASSUME at = "new", NEW t \in starts', t.visit = Len(made) PROVE draft'.busy
    <3>1. t \in starts /\ t # s /\ s.visit # Len(made)
      BY <1>3, <2>1 DEF OneStart
    <3>2. draft' = draft
      BY <3>1 DEF Ended, OnItsPage
    <3> QED BY <1>3, <2>1, <3>1, <3>2 DEF OneStart
  <2>2. Led(s.visit)' = 0 /\ s.visit \in DOMAIN made
    BY <1>3 DEF OneStart
  <2>3. \A v \in DOMAIN made : Led(v)' <= 1 /\ (v # s.visit => Led(v)' = Led(v))
    BY <1>3, <2>2 DEF OneStart
  <2>4. \A t \in starts' : t \in starts /\ t # s /\ t.visit # s.visit /\ t.visit \in DOMAIN made
    BY <1>3 DEF OneStart
  <2>5. at = "new" => Led(Len(made))' = 0 \/ \E t \in starts' : t.visit = Len(made)
    <3>1. ASSUME at = "new", Len(made) # s.visit PROVE Led(Len(made))' = 0 \/ \E t \in starts' : t.visit = Len(made)
      BY <1>3, <2>3, <3>1 DEF OneStart
    <3> QED BY <2>2, <3>1
  <2> HIDE DEF Led
  <2> QED BY <1>3, <2>1, <2>3, <2>4, <2>5 DEF OneStart
<1> QED BY <1>2, <1>3 DEF StartsInv

LEMMA StartsPreserved ==
  ASSUME StartsShape, StartsInv, CheckoutNext \/ UNCHANGED checkoutVars
  PROVE  StartsShape' /\ StartsInv'
<1>1. CASE UNCHANGED <<starts, made, unled, at, draft, hasty>>
  BY <1>1 DEF StartsShape, StartsInv, OneStart, Led
<1>2. ASSUME at' # "new", draft' = NoDraft, UNCHANGED <<starts, made, unled>>, hasty \subseteq hasty' PROVE StartsShape' /\ StartsInv'
  BY <1>2, EmptyDraft DEF StartsShape, StartsInv, OneStart, Led
<1>3. CASE OpenNew
  <2>1. /\ at' = "new" /\ draft' = NoDraft /\ UNCHANGED <<starts, hasty>>
        /\ made' = Append(made, 0) /\ unled' = Append(unled, 0)
    BY <1>3 DEF OpenNew
  <2>2. /\ made' \in Seq(Nat) /\ Len(made') = Len(made) + 1 /\ DOMAIN made' = DOMAIN made \cup {Len(made) + 1}
        /\ made'[Len(made) + 1] = 0 /\ Len(made) + 1 \notin DOMAIN made
        /\ \A j \in DOMAIN made : made'[j] = made[j]
    <3>1. Len(made) + 1 \notin 1 .. Len(made)
      BY EntryAppended DEF StartsShape
    <3> QED BY <2>1, <3>1, EntryAppended DEF StartsShape
  <2>5. /\ unled' \in Seq(Nat) /\ Len(unled') = Len(made') /\ DOMAIN unled' = DOMAIN made'
        /\ unled'[Len(made) + 1] = 0 /\ \A j \in DOMAIN made : unled'[j] = unled[j]
    BY <2>1, <2>2, EntryAppended DEF StartsShape
  <2>6. Led(Len(made))' = 0 /\ \A j \in DOMAIN made : Led(j)' = Led(j)
    BY <2>2, <2>5 DEF Led
  <2>3. StartsShape'
    BY <2>1, <2>2, <2>5, EmptyDraft DEF StartsShape
  <2>4. ASSUME OneStart PROVE OneStart'
    BY <2>1, <2>2, <2>4, <2>6 DEF OneStart
  <2> QED BY <2>1, <2>3, <2>4 DEF StartsInv
<1>4. ASSUME NEW c \in Contents, Paste(c) PROVE StartsShape' /\ StartsInv'
  <2>1. PICK p : /\ draft' = [draft EXCEPT !.content = c, !.paywall = p]
                 /\ UNCHANGED <<starts, made, unled, at, hasty>>
    <3>1. PICK p : p = (draft.paywall \/ (c.scene = "CUSTOM" /\ ~DeepPlan(ShownPlan)))
      OBVIOUS
    <3> QED BY <1>4, <3>1 DEF Paste
  <2>2. DraftShaped(draft') /\ draft'.busy = draft.busy
    <3>1. DraftShaped(draft)
      BY DEF StartsShape
    <3>2. /\ DraftShaped([draft EXCEPT !.content = c, !.paywall = p])
          /\ [draft EXCEPT !.content = c, !.paywall = p].busy = draft.busy
      BY <3>1 DEF DraftShaped
    <3> QED BY <2>1, <3>2
  <2> QED BY <2>1, <2>2 DEF StartsShape, StartsInv, OneStart, Led
<1>5. CASE ClosePaywall
  <2>1. draft' = [draft EXCEPT !.paywall = FALSE] /\ UNCHANGED <<starts, made, unled, at, hasty>>
    BY <1>5 DEF ClosePaywall
  <2>2. DraftShaped(draft') /\ draft'.busy = draft.busy
    BY <2>1, DraftStaysShaped DEF StartsShape
  <2> QED BY <2>1, <2>2 DEF StartsShape, StartsInv, OneStart, Led
<1>6. ASSUME NEW coupon \in BOOLEAN, Start(coupon) PROVE StartsShape' /\ StartsInv'
  <2>1. /\ starts' = Begin(coupon, FALSE) /\ UNCHANGED <<made, unled, at>> /\ at = "new"
        /\ draft' = [draft EXCEPT !.busy = TRUE] /\ hasty \subseteq hasty'
        /\ draft.busy => "coupon" \in hasty'
    BY <1>6 DEF Start, OffersStart
  <2>2. DraftShaped(draft') /\ draft'.busy
    BY <2>1, DraftStaysShaped DEF StartsShape
  <2> QED BY <2>1, <2>2, StartBegins
<1>7. CASE UseCoupon
  <2>1. /\ UNCHANGED <<made, unled, at>> /\ at = "new" /\ hasty \subseteq hasty'
        /\ draft.busy => "coupon" \in hasty'
    BY <1>7 DEF UseCoupon
  <2>2. CASE draft.content = Renewed
    <3>1. starts' = starts /\ draft' = [draft EXCEPT !.paywall = FALSE]
      BY <1>7, <2>2 DEF UseCoupon
    <3>2. DraftShaped(draft') /\ draft'.busy = draft.busy
      BY <3>1, DraftStaysShaped DEF StartsShape
    <3> QED BY <2>1, <3>1, <3>2 DEF StartsShape, StartsInv, OneStart, Led
  <2>3. CASE draft.content # Renewed
    <3>1. starts' = Begin(TRUE, TRUE) /\ draft' = [draft EXCEPT !.busy = TRUE, !.using = TRUE]
      BY <1>7, <2>3 DEF UseCoupon
    <3>2. DraftShaped(draft') /\ draft'.busy
      BY <3>1, DraftStaysShaped DEF StartsShape
    <3> QED BY <2>1, <3>1, <3>2, StartBegins
  <2> QED BY <2>2, <2>3
<1>8. ASSUME NEW s \in starts, CheckAnswers(s) PROVE StartsShape' /\ StartsInv'
  <2>0. UNCHANGED <<made, unled, at, hasty>>
    BY <1>8 DEF CheckAnswers
  <2>1. CASE ~Allowed(s)
    BY <1>8, <2>0, <2>1, StartEnds DEF CheckAnswers, Led, StartsShape
  <2>2. CASE Allowed(s)
    <3> DEFINE t == [s EXCEPT !.phase = "upload"]
    <3>1. starts' = (starts \ {s}) \cup {t} /\ draft' = draft /\ s.phase = "check"
      BY <1>8, <2>2 DEF CheckAnswers
    <3>2. StartShaped(t) /\ t.visit = s.visit /\ t.phase = "upload"
      BY StartGoesOn DEF StartsShape
    <3> HIDE DEF t
    <3> QED BY <2>0, <3>1, <3>2 DEF StartsShape, StartsInv, OneStart, Led
  <2> QED BY <2>1, <2>2
<1>14. ASSUME NEW s \in starts
       PROVE  /\ s.visit \in Nat /\ made \in Seq(Nat) /\ unled \in Seq(Nat)
              /\ Len(unled) = Len(made) /\ DOMAIN unled = DOMAIN made
              /\ \A v \in DOMAIN made : made[v] \in Nat /\ unled[v] \in Nat
  BY <1>14, ElementOfSeq, LenProperties DEF StartsShape, StartShaped
<1>9. ASSUME NEW s \in starts, NEW lost \in BOOLEAN, UploadAnswers(s, lost) PROVE StartsShape' /\ StartsInv'
  <2>1. /\ made' = [made EXCEPT ![s.visit] = made[s.visit] + 1] /\ s.phase = "upload" /\ UNCHANGED <<at, hasty>>
    BY <1>9 DEF UploadAnswers
  <2>2. /\ made' \in Seq(Nat) /\ Len(made') = Len(made) /\ DOMAIN made' = DOMAIN made
        /\ \A j \in DOMAIN made : made[j] \in Nat /\ made'[j] = IF j = s.visit THEN made[j] + 1 ELSE made[j]
    BY <1>14, <2>1, OneMore
  <2>3. CASE lost
    <3>1. starts' = starts \ {s} /\ draft' = Ended(s, FALSE) /\ unled' = [unled EXCEPT ![s.visit] = unled[s.visit] + 1]
      BY <1>9, <2>3 DEF UploadAnswers
    <3>2. /\ unled' \in Seq(Nat) /\ Len(unled') = Len(unled) /\ DOMAIN unled' = DOMAIN unled
          /\ \A j \in DOMAIN unled : unled[j] \in Nat /\ unled'[j] = IF j = s.visit THEN unled[j] + 1 ELSE unled[j]
      BY <1>14, <3>1, OneMore
    <3>3. \A v \in DOMAIN made : Led(v)' = Led(v)
      <4>1. ASSUME NEW v \in DOMAIN made PROVE Led(v)' = Led(v)
        <5>1. made[v] \in Nat /\ unled[v] \in Nat /\ v \in DOMAIN unled
          BY <1>14
        <5>2. CASE v = s.visit
          <6>1. made'[v] = made[v] + 1 /\ unled'[v] = unled[v] + 1
            BY <2>2, <3>2, <5>1, <5>2
          <6> QED BY <5>1, <6>1 DEF Led
        <5>3. CASE v # s.visit
          <6>1. made'[v] = made[v] /\ unled'[v] = unled[v]
            BY <2>2, <3>2, <5>1, <5>3
          <6> QED BY <6>1 DEF Led
        <5> QED BY <5>2, <5>3
      <4> QED BY <4>1
    <3> QED BY <2>1, <2>2, <3>1, <3>2, <3>3, StartEnds
  <2>4. CASE ~lost
    <3> DEFINE t == [s EXCEPT !.phase = "list"]
    <3>1. starts' = (starts \ {s}) \cup {t} /\ UNCHANGED <<draft, unled>>
      BY <1>9, <2>4 DEF UploadAnswers
    <3>2. StartShaped(t) /\ t.visit = s.visit /\ t.phase = "list"
      BY StartGoesOn DEF StartsShape
    <3> HIDE DEF t
    <3>3. StartsShape'
      BY <2>2, <3>1, <3>2 DEF StartsShape
    <3>4. ASSUME OneStart PROVE OneStart'
      <4>1. s.visit \in DOMAIN made /\ Led(s.visit) = 0 /\ \A u \in starts \ {s} : u.visit # s.visit
        BY <2>1, <3>4 DEF OneStart
      <4>2. Led(s.visit)' = 1 /\ \A v \in DOMAIN made \ {s.visit} : Led(v)' = Led(v)
        BY <1>14, <2>2, <3>1, <4>1 DEF Led
      <4>3. \A u \in starts' : u = t \/ (u \in starts /\ u # s /\ u.visit # s.visit)
        BY <3>1, <4>1
      <4>4. \A u, w \in starts' : u.visit = w.visit => u = w
        BY <3>2, <3>4, <4>3 DEF OneStart
      <4>5. ASSUME NEW u \in starts' PROVE u.visit \in DOMAIN made' /\ Led(u.visit)' = IF u.phase = "list" THEN 1 ELSE 0
        <5>1. CASE u = t
          BY <2>2, <3>2, <4>1, <4>2, <5>1
        <5>2. CASE u # t
          <6>1. u \in starts /\ u.visit # s.visit
            BY <4>3, <5>2
          <6>2. u.visit \in DOMAIN made /\ Led(u.visit) = IF u.phase = "list" THEN 1 ELSE 0
            BY <3>4, <6>1 DEF OneStart
          <6>3. Led(u.visit)' = Led(u.visit)
            BY <4>2, <6>1, <6>2
          <6> QED BY <2>2, <6>2, <6>3
        <5> QED BY <5>1, <5>2
      <4>6. ASSUME at' = "new"
            PROVE  /\ Len(made') \in DOMAIN made'
                   /\ Led(Len(made))' = 0 \/ \E u \in starts' : u.visit = Len(made')
                   /\ \A u \in starts' : u.visit = Len(made') => draft'.busy
        <5>1. /\ Len(made) \in DOMAIN made
              /\ Led(Len(made)) = 0 \/ \E u \in starts : u.visit = Len(made)
              /\ \A u \in starts : u.visit = Len(made) => draft.busy
          BY <2>1, <3>4, <4>6 DEF OneStart
        <5>2. \A u \in starts' : u.visit = Len(made) => draft.busy
          BY <3>2, <4>3, <5>1
        <5>3. CASE Len(made) = s.visit
          BY <2>2, <3>1, <3>2, <5>1, <5>2, <5>3
        <5>4. CASE Len(made) # s.visit
          <6> DEFINE m == Len(made)
          <6>0. m \in DOMAIN made \ {s.visit} /\ Len(made') = m
            BY <2>2, <5>1, <5>4
          <6> HIDE DEF m
          <6>3. made'[m] - unled'[m] = made[m] - unled[m]
            BY <4>2, <6>0 DEF Led
          <6>1. Led(Len(made))' = Led(Len(made))
            BY <2>2, <6>0, <6>3 DEF Led, m
          <6>2. \A u \in starts : u.visit = Len(made) => u \in starts'
            BY <3>1, <5>4
          <6> QED BY <2>2, <3>1, <5>1, <5>2, <6>1, <6>2
        <5> QED BY <5>3, <5>4
      <4>7. \A v \in DOMAIN made' : Led(v)' <= 1
        <5>1. \A v \in DOMAIN made : Led(v) <= 1
          BY <3>4 DEF OneStart
        <5> QED BY <2>2, <4>2, <5>1
      <4> QED BY <4>4, <4>5, <4>6, <4>7 DEF OneStart
    <3> QED BY <2>1, <3>3, <3>4 DEF StartsInv
  <2> QED BY <2>3, <2>4
<1>15. ASSUME NEW s \in starts, ListAnswers(s) PROVE StartsShape' /\ StartsInv'
  <2>1. /\ starts' = starts \ {s} /\ UNCHANGED <<made, unled>>
        /\ at' = "review" /\ draft' = NoDraft /\ hasty \subseteq hasty'
    BY <1>15 DEF ListAnswers, AsLeft
  <2> QED BY <2>1, EmptyDraft DEF StartsShape, StartsInv, OneStart, Led
<1>10. ASSUME NEW s \in starts, StartFails(s) PROVE StartsShape' /\ StartsInv'
  <2>1. /\ starts' = starts \ {s} /\ draft' = Ended(s, FALSE) /\ UNCHANGED <<made, at, hasty>>
        /\ unled' = IF s.phase = "list" THEN [unled EXCEPT ![s.visit] = unled[s.visit] + 1] ELSE unled
    BY <1>10 DEF StartFails
  <2>2. /\ unled' \in Seq(Nat) /\ Len(unled') = Len(unled) /\ DOMAIN unled' = DOMAIN unled
        /\ \A j \in DOMAIN unled : unled'[j] = IF j = s.visit /\ s.phase = "list" THEN unled[j] + 1 ELSE unled[j]
    BY <1>14, <2>1, OneMore
  <2>3. \A v \in DOMAIN made : Led(v)' = IF v = s.visit /\ s.phase = "list" THEN Led(v) - 1 ELSE Led(v)
    BY <1>14, <2>1, <2>2 DEF Led
  <2> QED BY <1>14, <2>1, <2>2, <2>3, StartEnds
<1>11. ASSUME NEW l \in Links, OpenCheckout(l) PROVE StartsShape' /\ StartsInv'
  BY <1>2, <1>11 DEF OpenCheckout
<1>12. ASSUME NEW next \in {"home", "billing", "team"}, Leaves(next) PROVE StartsShape' /\ StartsInv'
  BY <1>2, <1>12 DEF Leaves, Goes, AsLeft
<1>13. CASE CheckoutNext
  <2>1. EntitlementAnswers \/ OrdersAnswer \/ ReviewBegins \/ OpenDialog \/ Confirm \/ CancelAnswers
          => UNCHANGED <<starts, made, unled, at, draft, hasty>>
    BY DEF EntitlementAnswers, OrdersAnswer, ReviewBegins, OpenDialog, Confirm, CancelAnswers
  <2>2. ASSUME NEW v \in DOMAIN visit, Pay(v) \/ PaymentFails(v) PROVE UNCHANGED <<starts, made, unled, at, draft, hasty>>
    BY <2>2 DEF Pay, PaymentFails
  <2>3. ASSUME NEW v \in DOMAIN visit, NEW lost \in BOOLEAN, OrderAnswers(v, lost) \/ PaymentAnswers(v, lost)
        PROVE  UNCHANGED <<starts, made, unled, at, draft, hasty>>
    BY <2>3 DEF OrderAnswers, PaymentAnswers
  <2>4. \/ UNCHANGED <<starts, made, unled, at, draft, hasty>>
        \/ OpenNew \/ ClosePaywall \/ UseCoupon
        \/ \E c \in Contents : Paste(c)
        \/ \E coupon \in BOOLEAN : Start(coupon)
        \/ \E s \in starts : CheckAnswers(s) \/ ListAnswers(s) \/ StartFails(s) \/ \E lost \in BOOLEAN : UploadAnswers(s, lost)
        \/ \E l \in Links : OpenCheckout(l)
        \/ \E next \in {"home", "billing", "team"} : Leaves(next)
    BY <1>13, <2>1, <2>2, <2>3 DEF CheckoutNext
  <2> QED BY <1>1, <1>3, <1>4, <1>5, <1>6, <1>7, <1>8, <1>9, <1>10, <1>11, <1>12, <1>15, <2>4
<1> QED BY <1>1, <1>13 DEF checkoutVars

(* What an order or a payment does to the space.                           *)
LEMMA SpaceGoesOn ==
  ASSUME SpaceShape
  PROVE  /\ \A item \in OrderItems :
              /\ Applied(item) \in [plan : Plans, coupons : Nat, used : 0 .. FreeReviews, cancel : BOOLEAN]
              /\ Applied(item).plan = "PERSONAL" => space.plan = "PERSONAL" \/ item \in Personal
         /\ [space EXCEPT !.cancel = TRUE] \in [plan : Plans, coupons : Nat, used : 0 .. FreeReviews, cancel : BOOLEAN]
         /\ [space EXCEPT !.cancel = TRUE].plan = space.plan
<1> USE CheckoutAssumption
<1>0. space \in [plan : Plans, coupons : Nat, used : 0 .. FreeReviews, cancel : BOOLEAN]
  BY DEF SpaceShape
<1>1. ASSUME NEW item \in OrderItems
      PROVE  /\ Applied(item) \in [plan : Plans, coupons : Nat, used : 0 .. FreeReviews, cancel : BOOLEAN]
             /\ Applied(item).plan = "PERSONAL" => space.plan = "PERSONAL" \/ item \in Personal
  <2>1. CASE item = "COUPON_PACK"
    <3>1. Applied(item) = [space EXCEPT !.coupons = space.coupons + PackCoupons]
      BY <2>1 DEF Applied
    <3>2. space.coupons + PackCoupons \in Nat
      BY <1>0
    <3> QED BY <1>0, <3>1, <3>2
  <2>2. CASE item # "COUPON_PACK"
    <3>1. PICK plan \in {"TEAM", "PERSONAL"} : /\ Applied(item) = [space EXCEPT !.plan = plan, !.cancel = FALSE]
                                               /\ plan = "PERSONAL" => item \in Personal
      BY <2>2 DEF Applied, Personal, OrderItems
    <3>2. plan \in Plans
      BY DEF Plans
    <3> QED BY <1>0, <3>1, <3>2
  <2> QED BY <2>1, <2>2
<1> QED BY <1>0, <1>1

LEMMA SpacePreserved ==
  ASSUME SpaceShape, OrdersShape, OrdersInv, CheckoutNext \/ UNCHANGED checkoutVars
  PROVE  SpaceShape'
<1> USE CheckoutAssumption
<1>1. CASE UNCHANGED space
  <2>1. asks' \subseteq asks \cup {"entitlement", "orders", "cancel"}
    BY <1>1 DEF checkoutVars, CheckoutNext, EntitlementAnswers, OrdersAnswer, OpenNew, ClosePaywall, UseCoupon, ReviewBegins, Paste,
         Start, CheckAnswers, UploadAnswers, ListAnswers, StartFails, OpenCheckout, Pay, PaymentFails, OrderAnswers, PaymentAnswers, Leaves, Goes,
         Opened, OpenDialog, Confirm, CancelAnswers, LoadEntitlement, LoadOrders
  <2> QED BY <1>1, <2>1 DEF SpaceShape
<1>2. CASE ReviewBegins
  <2>1. space' = [space EXCEPT !.used = space.used + 1] /\ space.used < FreeReviews /\ asks' = asks
    BY <1>2 DEF ReviewBegins
  <2>2. space.used + 1 \in 0 .. FreeReviews
    BY <2>1 DEF SpaceShape
  <2> QED BY <2>1, <2>2 DEF SpaceShape
<1>3. ASSUME NEW v \in DOMAIN visit, NEW lost \in BOOLEAN, PaymentAnswers(v, lost) PROVE SpaceShape'
  <2>1. visit[v].order \in DOMAIN orders /\ orders[visit[v].order].item \in OrderItems
    <3>1. visit[v].order \in DOMAIN orders
      BY <1>3 DEF PaymentAnswers, OrdersInv, VisitPays
    <3>2. orders[visit[v].order] \in OrderRows
      BY <3>1, ElementOfSeq, LenProperties DEF OrdersShape
    <3> QED BY <3>1, <3>2 DEF OrderRows
  <2>2. space' = Applied(orders[visit[v].order].item) /\ asks' \subseteq asks \cup {"entitlement"}
    BY <1>3 DEF PaymentAnswers, LoadEntitlement
  <2> QED BY <2>1, <2>2, SpaceGoesOn DEF SpaceShape
<1>4. CASE CancelAnswers
  <2>1. space' \in {space, [space EXCEPT !.cancel = TRUE]} /\ asks' \subseteq asks \cup {"entitlement"}
    BY <1>4 DEF CancelAnswers
  <2> QED BY <2>1, SpaceGoesOn DEF SpaceShape
<1>5. CASE CheckoutNext
  <2>1. \/ UNCHANGED space \/ ReviewBegins \/ CancelAnswers
        \/ \E v \in DOMAIN visit, lost \in BOOLEAN : PaymentAnswers(v, lost)
    BY <1>5 DEF CheckoutNext, EntitlementAnswers, OrdersAnswer, OpenNew, ClosePaywall, UseCoupon, Paste,
         Start, CheckAnswers, UploadAnswers, ListAnswers, StartFails, OpenCheckout, Pay, PaymentFails, OrderAnswers, Leaves, Goes,
         OpenDialog, Confirm
  <2> QED BY <1>1, <1>2, <1>3, <1>4, <2>1
<1> QED BY <1>1, <1>5 DEF checkoutVars

(* What a step that leaves orders and the space alone does.                *)
LEMMA ShownAsBefore ==
  ASSUME ShownInv, UNCHANGED <<orders, lostAnswer>>, EntitlementNow' = EntitlementNow, space'.plan = space.plan,
         "entitlement" \in asks' \/ ("entitlement" \notin asks /\ entShown' = entShown /\ (NeverAsked => NeverAsked'))
           \/ entShown' = EntitlementNow,
         "left" \in hasty => "left" \in hasty',
         at' = "billing" => "orders" \in asks' \/ ordersShown' = Newest(orders)
                            \/ (at = "billing" /\ "orders" \notin asks /\ ordersShown' = ordersShown),
         Paying' => at' = "checkout" \/ "left" \in hasty'
  PROVE  ShownInv'
<1>1. EntitlementIsAsked'
  BY DEF ShownInv, EntitlementIsAsked
<1>2. OrdersAreAsked'
  BY DEF ShownInv, OrdersAreAsked, Newest
<1>3. PayingIsOpen' /\ PlanIsPaid'
  BY DEF ShownInv, PayingIsOpen, PlanIsPaid
<1> QED BY <1>1, <1>2, <1>3 DEF ShownInv

LEMMA ShownPreserved ==
  ASSUME SalesInv, CheckoutNext \/ UNCHANGED checkoutVars
  PROVE  ShownInv'
<1>0. SpaceShape /\ OrdersShape /\ OrdersInv /\ ShownInv
  BY DEF SalesInv
<1>a. Paying => at = "checkout" \/ "left" \in hasty
  BY <1>0 DEF ShownInv, PayingIsOpen
<1>b. UNCHANGED space => EntitlementNow' = EntitlementNow /\ space'.plan = space.plan
  BY DEF EntitlementNow
<1>c. UNCHANGED visit => Paying' = Paying
  BY DEF Paying
<1>1. CASE EntitlementAnswers
  <2>1. /\ UNCHANGED <<space, visit, orders, lostAnswer, at, hasty, ordersShown>> /\ entShown' = EntitlementNow
        /\ asks' = asks \ {"entitlement"}
    BY <1>1 DEF EntitlementAnswers
  <2> QED BY <1>0, <1>a, <1>b, <1>c, <2>1, ShownAsBefore
<1>2. CASE OrdersAnswer
  <2>1. /\ UNCHANGED <<space, visit, orders, lostAnswer, at, hasty, entShown, starts>> /\ ordersShown' = Newest(orders)
        /\ asks' = asks \ {"orders"}
    BY <1>2 DEF OrdersAnswer
  <2>2. NeverAsked' = NeverAsked
    BY <2>1 DEF NeverAsked
  <2> QED BY <1>0, <1>a, <1>b, <1>c, <2>1, <2>2, ShownAsBefore
<1>3. CASE OpenNew
  <2>1. /\ UNCHANGED <<space, visit, orders, lostAnswer, hasty, entShown, starts>> /\ at' = "new" /\ at # "checkout"
        /\ "entitlement" \in asks'
    BY <1>3 DEF OpenNew, LoadEntitlement
  <2> QED BY <1>0, <1>a, <1>b, <1>c, <2>1, ShownAsBefore
<1>4. ASSUME UNCHANGED <<space, visit, orders, lostAnswer, entShown, ordersShown>>, asks \subseteq asks', NeverAsked => NeverAsked',
             "left" \in hasty => "left" \in hasty', at' = at \/ (at' # "billing" /\ (Paying => "left" \in hasty'))
      PROVE  ShownInv'
  BY <1>0, <1>a, <1>b, <1>c, <1>4, ShownAsBefore
<1>5. CASE ClosePaywall \/ UseCoupon \/ OpenDialog \/ Confirm \/ (\E c \in Contents : Paste(c)) \/ (\E coupon \in BOOLEAN : Start(coupon))
  <2>1. /\ UNCHANGED <<space, visit, orders, lostAnswer, entShown, ordersShown, at>> /\ asks \subseteq asks'
        /\ "left" \in hasty => "left" \in hasty'
        /\ starts' = starts \/ at = "new"
    BY <1>5 DEF ClosePaywall, UseCoupon, OpenDialog, Confirm, Paste, Start
  <2>2. NeverAsked => NeverAsked'
    BY <2>1 DEF NeverAsked
  <2> QED BY <1>4, <2>1, <2>2
<1>6. ASSUME NEW s \in starts, CheckAnswers(s) \/ StartFails(s) \/ ListAnswers(s) \/ \E lost \in BOOLEAN : UploadAnswers(s, lost)
      PROVE  ShownInv'
  <2>1. /\ UNCHANGED <<space, visit, orders, lostAnswer, entShown, ordersShown, asks>>
        /\ "left" \in hasty => "left" \in hasty'
        /\ at' = at \/ (at' = "review" /\ (Paying => "left" \in hasty'))
    BY <1>6 DEF CheckAnswers, StartFails, ListAnswers, UploadAnswers, AsLeft
  <2>2. ~NeverAsked
    BY DEF NeverAsked
  <2> QED BY <1>4, <2>1, <2>2
<1>7. CASE ReviewBegins
  <2>1. /\ space' = [space EXCEPT !.used = space.used + 1] /\ at = "review"
        /\ UNCHANGED <<visit, orders, lostAnswer, entShown, ordersShown, asks, at, hasty, starts>>
    BY <1>7 DEF ReviewBegins
  <2>2. EntitlementNow' = EntitlementNow /\ space'.plan = space.plan
    BY <1>0, <2>1 DEF SpaceShape, EntitlementNow
  <2>3. NeverAsked' = NeverAsked
    BY <2>1 DEF NeverAsked
  <2> QED BY <1>0, <1>a, <1>c, <2>1, <2>2, <2>3, ShownAsBefore
<1>8. ASSUME NEW l \in Links, OpenCheckout(l) PROVE ShownInv'
  <2>1. /\ UNCHANGED <<space, orders, lostAnswer, entShown, ordersShown, hasty>> /\ at' = "checkout"
        /\ "entitlement" \in asks'
    BY <1>8 DEF OpenCheckout, LoadEntitlement
  <2> QED BY <1>0, <1>b, <2>1, ShownAsBefore
<1>9. ASSUME NEW next \in {"home", "billing", "team"}, Leaves(next) PROVE ShownInv'
  <2>1. /\ UNCHANGED <<space, visit, orders, lostAnswer, entShown, ordersShown, starts>> /\ at' = next /\ at # next
        /\ hasty' = AsLeft /\ asks' = IF next = "home" THEN asks ELSE asks \cup {"entitlement", "orders"}
    BY <1>9 DEF Leaves, Goes, Opened, LoadEntitlement, LoadOrders
  <2>2. next = "home" => ~NeverAsked
    BY <2>1 DEF NeverAsked
  <2>3. (Paying => "left" \in hasty') /\ ("left" \in hasty => "left" \in hasty')
    BY <2>1 DEF AsLeft
  <2>4. CASE next = "home"
    BY <1>0, <1>b, <1>c, <2>1, <2>2, <2>3, <2>4, ShownAsBefore
  <2>5. CASE next # "home"
    BY <1>0, <1>b, <1>c, <2>1, <2>3, <2>5, ShownAsBefore
  <2> QED BY <2>4, <2>5
<1>10. ASSUME NEW v \in DOMAIN visit, Pay(v) PROVE ShownInv'
  <2>1. /\ UNCHANGED <<space, orders, lostAnswer, entShown, ordersShown, asks, at, hasty>> /\ at = "checkout"
    BY <1>10 DEF Pay
  <2>2. ~NeverAsked
    BY <2>1 DEF NeverAsked
  <2> QED BY <1>0, <1>b, <2>1, <2>2, ShownAsBefore
(* An order or a payment answers: a visit was paying.                      *)
<1>d. ASSUME NEW v \in DOMAIN visit, visit[v].phase \in {"ordering", "paying"}, NEW x, visit' = [visit EXCEPT ![v] = x]
      PROVE  Paying /\ (~NeverAsked) /\ DOMAIN visit' = DOMAIN visit /\ (at = "checkout" \/ "left" \in hasty)
  <2>1. Paying
    BY <1>d DEF Paying
  <2>2. at = "home" => at # "checkout"
    OBVIOUS
  <2>3. visit # <<>>
    BY EmptySeq
  <2> QED BY <1>a, <1>d, <2>1, <2>3 DEF NeverAsked
<1>11. ASSUME NEW v \in DOMAIN visit, PaymentFails(v) PROVE ShownInv'
  <2>1. /\ UNCHANGED <<space, orders, lostAnswer, entShown, ordersShown, asks, at, hasty>>
        /\ visit[v].phase = "paying" /\ visit' = [visit EXCEPT ![v] = [visit[v] EXCEPT !.phase = "idle"]]
    BY <1>11 DEF PaymentFails
  <2>2. (at = "checkout" \/ "left" \in hasty) /\ ~NeverAsked
    BY <1>d, <2>1
  <2> QED BY <1>0, <1>b, <2>1, <2>2, ShownAsBefore
<1>12. ASSUME NEW v \in DOMAIN visit, NEW lost \in BOOLEAN, OrderAnswers(v, lost) PROVE ShownInv'
  <2>1. /\ UNCHANGED <<space, entShown, ordersShown, asks, at, hasty>> /\ (lostAnswer => lostAnswer')
        /\ visit[v].phase = "ordering"
        /\ \E x : visit' = [visit EXCEPT ![v] = x]
        /\ orders' = orders \/ \E row \in OrderRows : orders' = Append(orders, row)
    <3>1. v \in Nat /\ ResolveItem(visit[v].link) \in OrderItems
      BY <1>0, <1>12, TradeFacts DEF OrderAnswers, OrdersInv, VisitPays
    <3>2. [item |-> Item(v), status |-> "PENDING", by |-> v] \in OrderRows
      BY <3>1 DEF OrderRows, Item
    <3> QED BY <1>12, <3>2 DEF OrderAnswers
  <2>2. (at = "checkout" \/ "left" \in hasty) /\ ~NeverAsked
    BY <1>d, <2>1
  <2>3. EntitlementIsAsked' /\ PayingIsOpen' /\ OrdersAreAsked'
    BY <1>0, <1>b, <2>1, <2>2 DEF ShownInv, EntitlementIsAsked, PayingIsOpen, OrdersAreAsked
  <2>4. \A i \in DOMAIN orders : i \in DOMAIN orders' /\ orders'[i] = orders[i]
    BY <1>0, <2>1, EntryAppended DEF OrdersShape
  <2>5. PlanIsPaid'
    BY <1>0, <2>1, <2>4 DEF ShownInv, PlanIsPaid
  <2> QED BY <2>3, <2>5 DEF ShownInv
<1>13. ASSUME NEW v \in DOMAIN visit, NEW lost \in BOOLEAN, PaymentAnswers(v, lost) PROVE ShownInv'
  <2> DEFINE o == visit[v].order
             row == [orders[o] EXCEPT !.status = "PAID"]
  <2>1. /\ UNCHANGED <<entShown, ordersShown, at, hasty>> /\ lostAnswer' = (lostAnswer \/ lost)
        /\ lost \/ "entitlement" \in asks'
        /\ visit[v].phase = "paying"
        /\ \E x : visit' = [visit EXCEPT ![v] = x]
        /\ orders' = [orders EXCEPT ![o] = row] /\ space' = Applied(orders[o].item)
    BY <1>13 DEF PaymentAnswers, LoadEntitlement
  <2>2. (at = "checkout" \/ "left" \in hasty) /\ ~NeverAsked
    BY <1>d, <2>1
  <2>3. EntitlementIsAsked' /\ PayingIsOpen' /\ OrdersAreAsked'
    BY <2>1, <2>2 DEF EntitlementIsAsked, PayingIsOpen, OrdersAreAsked
  <2>4. o \in DOMAIN orders /\ orders[o] \in OrderRows
    BY <1>0, <2>1, ElementOfSeq, LenProperties DEF OrdersInv, VisitPays, OrdersShape
  <2>5. row \in OrderRows /\ row.item = orders[o].item /\ row.status = "PAID"
    BY <2>4 DEF OrderRows
  <2>6. orders[o].item \in OrderItems
    BY <2>4 DEF OrderRows
  <2> HIDE DEF row
  <2>7. \A i \in DOMAIN orders : i \in DOMAIN orders' /\ orders'[i] = IF i = o THEN row ELSE orders[i]
    BY <1>0, <2>1, <2>4, <2>5, EntryAnew DEF OrdersShape
  <2>8. PlanIsPaid'
    <3>1. space'.plan = "PERSONAL" => space.plan = "PERSONAL" \/ orders[o].item \in Personal
      BY <1>0, <2>1, <2>6, SpaceGoesOn
    <3>2. CASE orders[o].item \in Personal
      BY <2>4, <2>5, <2>7, <3>2 DEF PlanIsPaid
    <3>3. CASE space.plan = "PERSONAL"
      <4>1. PICK i \in DOMAIN orders : orders[i].status = "PAID" /\ orders[i].item \in Personal
        BY <1>0, <3>3 DEF ShownInv, PlanIsPaid
      <4>2. orders'[i].status = "PAID" /\ orders'[i].item \in Personal /\ i \in DOMAIN orders'
        BY <2>5, <2>7, <4>1
      <4> QED BY <4>2 DEF PlanIsPaid
    <3> QED BY <3>1, <3>2, <3>3 DEF PlanIsPaid
  <2> QED BY <2>3, <2>8 DEF ShownInv
<1>14. CASE CancelAnswers
  <2>1. /\ UNCHANGED <<orders, entShown, ordersShown, at, visit, hasty, starts, lostAnswer>>
        /\ asks \ {"cancel"} \subseteq asks'
        /\ UNCHANGED space \/ ("entitlement" \in asks' /\ space' = [space EXCEPT !.cancel = TRUE])
    BY <1>14 DEF CancelAnswers
  <2>2. NeverAsked' = NeverAsked
    BY <2>1 DEF NeverAsked
  <2>3. CASE UNCHANGED space
    BY <1>0, <1>a, <1>b, <1>c, <2>1, <2>2, <2>3, ShownAsBefore
  <2>4. CASE "entitlement" \in asks' /\ space' = [space EXCEPT !.cancel = TRUE]
    <3>1. space'.plan = space.plan
      BY <1>0, <2>4, SpaceGoesOn
    <3>2. EntitlementIsAsked' /\ PlanIsPaid'
      BY <1>0, <2>1, <2>4, <3>1 DEF ShownInv, EntitlementIsAsked, PlanIsPaid
    <3>3. PayingIsOpen' /\ OrdersAreAsked'
      BY <1>0, <1>c, <2>1 DEF ShownInv, PayingIsOpen, OrdersAreAsked, Newest
    <3> QED BY <3>2, <3>3 DEF ShownInv
  <2> QED BY <2>1, <2>3, <2>4
<1>15. CASE UNCHANGED checkoutVars
  <2>1. NeverAsked' = NeverAsked
    BY <1>15 DEF checkoutVars, NeverAsked
  <2> QED BY <1>4, <1>15, <2>1 DEF checkoutVars
<1> QED BY <1>1, <1>2, <1>3, <1>5, <1>6, <1>7, <1>8, <1>9, <1>10, <1>11, <1>12, <1>13, <1>14, <1>15 DEF CheckoutNext

LEMMA CheckoutPreserved == SalesInv /\ [CheckoutNext]_checkoutVars => SalesInv'
BY OrdersPreserved, StartsPreserved, SpacePreserved, ShownPreserved DEF SalesInv

LEMMA SoldAsAsked == SalesInv => CheckoutTypeOK /\ PaidAsAsked /\ OneContractAsked /\ BilledAsShown
<1> SUFFICES ASSUME SalesInv PROVE CheckoutTypeOK /\ PaidAsAsked /\ OneContractAsked /\ BilledAsShown
  OBVIOUS
<1>0. SpaceShape /\ OrdersShape /\ StartsShape /\ OrdersInv /\ StartsInv /\ ShownInv
  BY DEF SalesInv
<1>1. \A i \in DOMAIN orders : orders[i] \in OrderRows /\ i \in Nat
  BY <1>0, ElementOfSeq, LenProperties DEF OrdersShape
<1>2. CheckoutTypeOK
  <2>1. \A v \in DOMAIN visit : visit[v].phase \in {"idle", "ordering", "paying", "paid"}
    BY <1>0, TradeFacts DEF Visits
  <2>2. \A i \in DOMAIN orders : orders[i].item \in OrderItems /\ orders[i].status \in {"PENDING", "PAID"}
    BY <1>1 DEF OrderRows
  <2>3. \A s \in starts : s.phase \in {"check", "upload", "list"}
    BY <1>0 DEF StartsShape, StartShaped
  <2> QED BY <1>0, <2>1, <2>2, <2>3 DEF CheckoutTypeOK, SpaceShape, Plans
<1>3. PaidAsAsked
  <2> SUFFICES ASSUME NEW v \in DOMAIN visit
               PROVE  /\ Cardinality(PaidBy(v)) <= 1 \/ lostAnswer
                      /\ \A i \in PaidBy(v) : orders[i].item = Item(v)
                      /\ visit[v].phase = "paid" => PaidBy(v) # {}
    BY DEF PaidAsAsked, PaidBy
  <2>1. VisitPays(v)
    BY <1>0 DEF OrdersInv
  <2>2. CASE ~lostAnswer
    <3>1. PaidBy(v) = {} \/ PaidBy(v) = {visit[v].order}
      BY <2>1, <2>2 DEF VisitPays
    <3>2. Cardinality(PaidBy(v)) <= 1
      BY <3>1, FS_EmptySet, FS_Singleton
    <3> QED BY <1>0, <2>1, <3>2 DEF VisitPays, OrdersInv, OrderIsOf, PaidBy, Item
  <2>3. CASE lostAnswer
    BY <1>0, <2>1, <2>3 DEF VisitPays, OrdersInv, OrderIsOf, PaidBy, Item
  <2> QED BY <2>2, <2>3
<1>4. OneContractAsked
  BY <1>0 DEF StartsInv, OneStart, Led, OneContractAsked
<1>5. BilledAsShown
  <2> SUFFICES ASSUME at = "billing", asks = {}, "left" \notin hasty, ~lostAnswer
               PROVE  /\ entShown = EntitlementNow /\ ordersShown = Newest(orders)
                      /\ ShownPlan = "PERSONAL" => PeriodShown \in {"PERSONAL_MONTHLY", "PERSONAL_YEARLY"}
    BY DEF BilledAsShown
  <2>1. entShown = EntitlementNow /\ ordersShown = Newest(orders)
    BY <1>0 DEF ShownInv, EntitlementIsAsked, OrdersAreAsked, NeverAsked
  <2>2. ASSUME ShownPlan = "PERSONAL" PROVE PeriodShown \in {"PERSONAL_MONTHLY", "PERSONAL_YEARLY"}
    <3> DEFINE paid == {i \in DOMAIN ordersShown : ordersShown[i].status = "PAID" /\ ordersShown[i].item \in {"PERSONAL_MONTHLY", "PERSONAL_YEARLY"}}
    <3>1. space.plan = "PERSONAL"
      BY <2>1, <2>2 DEF ShownPlan, EntitlementNow
    <3>2. PICK i \in DOMAIN orders : orders[i].status = "PAID" /\ orders[i].item \in Personal
      BY <1>0, <3>1 DEF ShownInv, PlanIsPaid
    <3>3. DOMAIN orders = 1 .. Len(orders) /\ Len(orders) \in Nat
      BY <1>0, LenProperties DEF OrdersShape
    <3>4. DOMAIN ordersShown = DOMAIN orders /\ \A j \in DOMAIN orders : ordersShown[j] = orders[Len(orders) + 1 - j]
      BY <2>1 DEF Newest
    <3>5. Len(orders) + 1 - i \in DOMAIN orders /\ Len(orders) + 1 - (Len(orders) + 1 - i) = i
      BY <3>3
    <3>6. Len(orders) + 1 - i \in paid
      BY <3>2, <3>4, <3>5 DEF Personal
    <3>7. PICK j \in paid : \A k \in paid : j <= k
      <4>1. paid # {} /\ paid \subseteq Nat
        BY <3>3, <3>4, <3>6
      <4> QED BY <4>1, LeastOf
    <3>8. PeriodShown = ordersShown[CHOOSE m \in paid : \A k \in paid : m <= k].item
      BY <3>6 DEF PeriodShown
    <3>9. (CHOOSE m \in paid : \A k \in paid : m <= k) \in paid
      BY <3>7
    <3> QED BY <3>8, <3>9
  <2> QED BY <2>1, <2>2
<1> QED BY <1>2, <1>3, <1>4, <1>5

-----------------------------------------------------------------------------
(* Conversations: the agent.                                               *)
Calls == [tool : Tools, state : {"open", "answered", "threw"}]
Steps == [tool : Tools, status : {"running", "done"}, result : Nat \cup {Pending}]
TaskRows == [status : {"running", "done", "error"}, steps : Seq(Steps), answered : BOOLEAN]
RunStates == {"none", "open", "answered", "over"}
TasksShape ==
  /\ tasks \in [DOMAIN tasks -> TaskRows]
  /\ run \in [task : Nat, calls : Seq(Calls), state : RunStates] /\ run.task <= born.tasks
  /\ born \in [tasks : Nat, bubbles : Nat] /\ sameTool \in BOOLEAN /\ silent \subseteq {"agent", "base"}
  /\ thrown \subseteq Nat \X Nat /\ \A x \in thrown : x[1] <= born.tasks

(* Running steps and unanswered calls of a tool: as many of one as of the  *)
(* other.  While no tool was called twice at once they are the very same,  *)
(* and a call that is open comes after those that threw.                   *)
RunningOf(steps, tool) == {i \in DOMAIN steps : steps[i].tool = tool /\ steps[i].status = "running"}
UnansweredOf(called, tool) == {i \in DOMAIN called : called[i].tool = tool /\ called[i].state # "answered"}
OpenOf(called, tool) == {i \in DOMAIN called : called[i].tool = tool /\ called[i].state = "open"}
StepsFollow(same, steps, called) ==
  /\ Len(steps) = Len(called)
  /\ \A i \in DOMAIN steps : steps[i].tool = called[i].tool
  /\ \A tool \in Tools :
       /\ Cardinality(RunningOf(steps, tool)) = Cardinality(UnansweredOf(called, tool))
       /\ ~same => /\ RunningOf(steps, tool) = UnansweredOf(called, tool)
                   /\ \A i \in OpenOf(called, tool), j \in UnansweredOf(called, tool) : j <= i
(* The steps of a done task that still run are those whose call threw.     *)
ThrewOf(lost, t, steps, tool) == {i \in DOMAIN steps : steps[i].tool = tool /\ <<t, i>> \in lost}
CardsTrue(same, lost, t, task) ==
  /\ \A i \in DOMAIN task.steps : task.steps[i].result = Pending \/ task.steps[i].result = i \/ same
  /\ task.status = "done" =>
       \A tool \in Tools : /\ Cardinality(RunningOf(task.steps, tool)) = Cardinality(ThrewOf(lost, t, task.steps, tool))
                           /\ same \/ RunningOf(task.steps, tool) = ThrewOf(lost, t, task.steps, tool)
ThrownIsThrown(lost, t, called) == \A i \in Nat : <<t, i>> \in lost <=> i \in DOMAIN called /\ called[i].state = "threw"
TaskInv ==
  /\ TasksShape
  /\ running <=> run.state # "none"
  /\ "agent" \notin silent => \A t \in DOMAIN tasks : tasks[t].status = "running" => run.state = "open" /\ run.task = t
  /\ run.state = "open" /\ run.task \in DOMAIN tasks =>
        tasks[run.task].status = "running" /\ StepsFollow(sameTool, tasks[run.task].steps, run.calls)
  /\ run.state = "answered" /\ run.task \in DOMAIN tasks => tasks[run.task].status = "done"
  /\ run.state = "open" => ThrownIsThrown(thrown, run.task, run.calls)
  /\ \A t \in DOMAIN tasks : CardsTrue(sameTool, thrown, t, tasks[t])

LEMMA OfToolFinite ==
  ASSUME NEW s, s \in Seq(Steps) \/ s \in Seq(Calls), NEW tool
  PROVE  /\ Len(s) \in Nat /\ DOMAIN s = 1 .. Len(s)
         /\ IsFiniteSet(RunningOf(s, tool)) /\ RunningOf(s, tool) \subseteq 1 .. Len(s)
         /\ IsFiniteSet(UnansweredOf(s, tool)) /\ UnansweredOf(s, tool) \subseteq 1 .. Len(s)
<1>1. Len(s) \in Nat /\ DOMAIN s = 1 .. Len(s)
  BY LenProperties
<1>2. IsFiniteSet(1 .. Len(s))
  BY <1>1, FS_Interval
<1> QED BY <1>1, <1>2, FS_Subset DEF RunningOf, UnansweredOf

(* A call starts its step.                                                 *)
LEMMA StepStarts ==
  ASSUME NEW steps \in Seq(Steps), NEW called \in Seq(Calls), NEW tool \in Tools, NEW same, NEW later, StepsFollow(same, steps, called),
         later = (same \/ OpenOf(called, tool) # {})
  PROVE  StepsFollow(later, Append(steps, [tool |-> tool, status |-> "running", result |-> Pending]),
                     Append(called, [tool |-> tool, state |-> "open"]))
<1> DEFINE s0 == [tool |-> tool, status |-> "running", result |-> Pending]
           c0 == [tool |-> tool, state |-> "open"]
           n == Len(steps) + 1
           steps2 == Append(steps, s0)
           called2 == Append(called, c0)
<1>1. s0 \in Steps /\ c0 \in Calls
  BY DEF Steps, Calls
<1>2. Len(steps) = Len(called) /\ Len(steps) \in Nat
  BY OfToolFinite DEF StepsFollow
<1>3. /\ Len(steps2) = Len(called2)
      /\ DOMAIN steps2 = DOMAIN steps \cup {n} /\ steps2[n] = s0 /\ n \notin DOMAIN steps
      /\ \A i \in DOMAIN steps : steps2[i] = steps[i]
      /\ DOMAIN called2 = DOMAIN called \cup {n} /\ called2[n] = c0 /\ n \notin DOMAIN called
      /\ \A i \in DOMAIN called : called2[i] = called[i]
      /\ DOMAIN steps = DOMAIN called /\ \A i \in DOMAIN called : i <= n
      /\ n \in Nat
  <2>1. n \notin 1 .. Len(steps)
    BY <1>2
  <2>2. DOMAIN steps = 1 .. Len(steps) /\ DOMAIN called = 1 .. Len(steps)
    BY <1>2, LenProperties
  <2>3. \A i \in DOMAIN called : i <= n
    BY <1>2, <2>2
  <2> QED BY <1>1, <1>2, <2>1, <2>2, <2>3, EntryAppended
<1>4. s0.tool = tool /\ s0.status = "running" /\ c0.tool = tool /\ c0.state = "open"
  OBVIOUS
<1> HIDE DEF n, s0, c0, steps2, called2
<1>5. \A i \in DOMAIN steps2 : steps2[i].tool = called2[i].tool
  BY <1>3, <1>4 DEF StepsFollow
<1>6. ASSUME NEW x \in Tools
      PROVE  /\ Cardinality(RunningOf(steps2, x)) = Cardinality(UnansweredOf(called2, x))
             /\ ~later => /\ RunningOf(steps2, x) = UnansweredOf(called2, x)
                          /\ \A i \in OpenOf(called2, x), j \in UnansweredOf(called2, x) : j <= i
  <2>1. /\ IsFiniteSet(RunningOf(steps, x)) /\ IsFiniteSet(UnansweredOf(called, x))
        /\ n \notin RunningOf(steps, x) /\ n \notin UnansweredOf(called, x)
        /\ Cardinality(RunningOf(steps, x)) = Cardinality(UnansweredOf(called, x))
    <3>1. IsFiniteSet(RunningOf(steps, x)) /\ IsFiniteSet(UnansweredOf(called, x))
      BY OfToolFinite
    <3> QED BY <1>3, <3>1 DEF RunningOf, UnansweredOf, StepsFollow
  <2>2. ~later => /\ ~same /\ RunningOf(steps, x) = UnansweredOf(called, x)
                  /\ \A i \in OpenOf(called, x), j \in UnansweredOf(called, x) : j <= i
    BY DEF StepsFollow
  <2>3. CASE x = tool
    <3>1. /\ RunningOf(steps2, x) = RunningOf(steps, x) \cup {n} /\ UnansweredOf(called2, x) = UnansweredOf(called, x) \cup {n}
          /\ OpenOf(called2, x) = OpenOf(called, x) \cup {n}
      BY <1>3, <1>4, <2>3 DEF RunningOf, UnansweredOf, OpenOf
    <3>2. Cardinality(RunningOf(steps2, x)) = Cardinality(UnansweredOf(called2, x))
      <4>1. /\ Cardinality(RunningOf(steps, x) \cup {n}) = Cardinality(RunningOf(steps, x)) + 1
            /\ Cardinality(UnansweredOf(called, x) \cup {n}) = Cardinality(UnansweredOf(called, x)) + 1
        BY <2>1, FS_AddElement
      <4> QED BY <2>1, <3>1, <4>1
    <3>3. ~later => OpenOf(called, x) = {}
      BY <2>3
    <3>4. \A j \in UnansweredOf(called, x) \cup {n} : j <= n
      BY <1>3 DEF UnansweredOf
    <3> QED BY <2>2, <3>1, <3>2, <3>3, <3>4
  <2>4. CASE x # tool
    <3>1. /\ RunningOf(steps2, x) = RunningOf(steps, x) /\ UnansweredOf(called2, x) = UnansweredOf(called, x)
          /\ OpenOf(called2, x) = OpenOf(called, x)
      BY <1>3, <1>4, <2>4 DEF RunningOf, UnansweredOf, OpenOf
    <3> QED BY <2>1, <2>2, <3>1
  <2> QED BY <2>3, <2>4
<1>7. StepsFollow(later, steps2, called2)
  BY <1>3, <1>5, <1>6 DEF StepsFollow
<1> QED BY <1>7 DEF steps2, called2, s0, c0

(* A call gets its answer, or its tool throws: the calls with it anew.     *)
Anew(later, called, call, state) ==
  /\ later \in Seq(Calls) /\ DOMAIN later = DOMAIN called /\ Len(later) = Len(called)
  /\ later[call].tool = called[call].tool /\ later[call].state = state
  /\ \A i \in DOMAIN called \ {call} : later[i] = called[i]
LEMMA CallAnew ==
  ASSUME NEW called \in Seq(Calls), NEW call \in DOMAIN called
  PROVE  /\ called[call].tool \in Tools /\ call \in Nat
         /\ Anew([called EXCEPT ![call] = [called[call] EXCEPT !.state = "answered"]], called, call, "answered")
         /\ Anew([called EXCEPT ![call] = [called[call] EXCEPT !.state = "threw"]], called, call, "threw")
<1> DEFINE c1 == [called[call] EXCEPT !.state = "answered"]
           c2 == [called[call] EXCEPT !.state = "threw"]
<1>1. called[call] \in Calls /\ call \in Nat
  BY ElementOfSeq, LenProperties
<1>2. /\ called[call].tool \in Tools
      /\ c1 \in Calls /\ c1.tool = called[call].tool /\ c1.state = "answered"
      /\ c2 \in Calls /\ c2.tool = called[call].tool /\ c2.state = "threw"
  BY <1>1 DEF Calls
<1> HIDE DEF c1, c2
<1>3. Anew([called EXCEPT ![call] = c1], called, call, "answered")
  BY <1>2, EntryAnew DEF Anew
<1>4. Anew([called EXCEPT ![call] = c2], called, call, "threw")
  BY <1>2, EntryAnew DEF Anew
<1> QED BY <1>1, <1>2, <1>3, <1>4 DEF c1, c2

(* A tool that throws leaves its step running.                             *)
LEMMA StepKept ==
  ASSUME NEW steps \in Seq(Steps), NEW called \in Seq(Calls), NEW call \in DOMAIN called, NEW same, NEW later,
         called[call].state = "open", StepsFollow(same, steps, called), Anew(later, called, call, "threw")
  PROVE  StepsFollow(same, steps, later)
<1>1. /\ DOMAIN later = DOMAIN called /\ Len(later) = Len(called)
      /\ later[call].tool = called[call].tool /\ later[call].state = "threw"
      /\ \A i \in DOMAIN called \ {call} : later[i] = called[i]
      /\ \A i \in DOMAIN called : later[i].tool = called[i].tool
  BY DEF Anew
<1>2. \A x : UnansweredOf(later, x) = UnansweredOf(called, x) /\ OpenOf(later, x) \subseteq OpenOf(called, x)
  BY <1>1 DEF UnansweredOf, OpenOf
<1>3. DOMAIN steps = DOMAIN called
  BY LenProperties DEF StepsFollow
<1> QED BY <1>1, <1>2, <1>3 DEF StepsFollow

(* A result ends the last running step of its tool.                        *)
LEMMA StepEnds ==
  ASSUME NEW steps \in Seq(Steps), NEW called \in Seq(Calls), NEW call \in DOMAIN called, NEW same, NEW after, NEW later,
         called[call].state = "open", StepsFollow(same, steps, called),
         after = WithResult(steps, called[call].tool, call), Anew(later, called, call, "answered")
  PROVE  /\ StepsFollow(same, after, later)
         /\ after \in Seq(Steps) /\ DOMAIN after = DOMAIN steps
         /\ \A i \in DOMAIN steps : \/ after[i] = steps[i]
                                   \/ /\ after[i].status = "done"
                                      /\ after[i].result = i \/ same
<1> DEFINE tool == called[call].tool
<1>1. /\ tool \in Tools /\ call \in Nat
      /\ later \in Seq(Calls) /\ DOMAIN later = DOMAIN called /\ Len(later) = Len(called)
      /\ later[call].tool = tool /\ later[call].state = "answered"
      /\ \A i \in DOMAIN called \ {call} : later[i] = called[i]
      /\ \A i \in DOMAIN called : later[i].tool = called[i].tool
  BY CallAnew DEF Anew
<1>2. /\ IsFiniteSet(RunningOf(steps, tool)) /\ IsFiniteSet(UnansweredOf(called, tool))
      /\ Cardinality(RunningOf(steps, tool)) = Cardinality(UnansweredOf(called, tool))
      /\ call \in UnansweredOf(called, tool) /\ call \in OpenOf(called, tool)
      /\ Len(steps) \in Nat /\ RunningOf(steps, tool) \subseteq 1 .. Len(steps)
  <2>1. IsFiniteSet(RunningOf(steps, tool)) /\ IsFiniteSet(UnansweredOf(called, tool)) /\ Len(steps) \in Nat
        /\ RunningOf(steps, tool) \subseteq 1 .. Len(steps)
    BY OfToolFinite
  <2> QED BY <1>1, <2>1 DEF StepsFollow, UnansweredOf, OpenOf
<1>3. RunningOf(steps, tool) # {}
  BY <1>2, FS_EmptySet
<1>4. PICK g \in RunningOf(steps, tool) : \A y \in RunningOf(steps, tool) : y <= g
  BY <1>2, <1>3, GreatestOf
<1>5. RunningStep(steps, tool) = {g}
  <2>1. RunningStep(steps, tool) = {i \in RunningOf(steps, tool) : \A j \in RunningOf(steps, tool) : j <= i}
    BY DEF RunningStep, StepsOfTool, RunningOf
  <2>2. \A i \in RunningOf(steps, tool) : i \in Nat
    BY <1>2
  <2> QED BY <1>4, <2>1, <2>2
<1>6. /\ after = [i \in DOMAIN steps |-> IF i = g THEN [steps[i] EXCEPT !.status = "done", !.result = call] ELSE steps[i]]
      /\ g \in DOMAIN steps
  BY <1>4, <1>5 DEF WithResult, RunningOf
<1>7. DOMAIN steps = 1 .. Len(steps) /\ \A i \in DOMAIN steps : steps[i] \in Steps
  BY LenProperties, ElementOfSeq
<1>8. ASSUME NEW i \in DOMAIN steps PROVE after[i] \in Steps
  <2>1. CASE i = g
    <3>1. after[i] = [steps[i] EXCEPT !.status = "done", !.result = call]
      BY <1>6, <2>1
    <3> QED BY <1>1, <1>7, <3>1 DEF Steps
  <2>2. CASE i # g
    <3>1. after[i] = steps[i]
      BY <1>6, <2>2
    <3> QED BY <1>7, <3>1
  <2> QED BY <2>1, <2>2
<1>9. after \in Seq(Steps) /\ Len(after) = Len(steps)
  <2>1. after \in [1 .. Len(steps) -> Steps]
    BY <1>6, <1>7, <1>8
  <2>2. after \in Seq(Steps)
    BY <1>2, <2>1, SeqDef
  <2>3. DOMAIN after = 1 .. Len(after) /\ Len(after) \in Nat
    BY <2>2, LenProperties
  <2>4. 1 .. Len(after) = 1 .. Len(steps)
    BY <1>6, <1>7, <2>3
  <2>5. Len(after) = Len(steps)
    BY <1>2, <2>3, <2>4
  <2> QED BY <2>2, <2>5
<1>10. after[g].tool = tool /\ after[g].status = "done" /\ after[g].result = call /\ \A i \in DOMAIN steps \ {g} : after[i] = steps[i]
  BY <1>4, <1>6, <1>7 DEF RunningOf, Steps
<1>11. DOMAIN after = DOMAIN steps /\ DOMAIN steps = DOMAIN called
  BY <1>6, LenProperties DEF StepsFollow
<1>12. ~same => g = call
  <2>1. SUFFICES ASSUME ~same PROVE g = call
    OBVIOUS
  <2>2. RunningOf(steps, tool) = UnansweredOf(called, tool) /\ \A j \in UnansweredOf(called, tool) : j <= call
    BY <1>1, <1>2, <2>1 DEF StepsFollow
  <2>3. g \in Nat /\ g <= call /\ call <= g
    BY <1>2, <1>4, <2>2
  <2> QED BY <1>1, <2>3
<1>13. \A i \in DOMAIN after : after[i].tool = later[i].tool
  <2>1. \A i \in DOMAIN steps : steps[i].tool = called[i].tool
    BY DEF StepsFollow
  <2>2. steps[g].tool = tool
    BY <1>4 DEF RunningOf
  <2>3. \A i \in DOMAIN steps : after[i].tool = steps[i].tool
    BY <1>10, <2>2
  <2> QED BY <1>1, <1>11, <2>1, <2>3
<1> HIDE DEF tool
<1>14. ASSUME NEW x \in Tools
       PROVE  /\ Cardinality(RunningOf(after, x)) = Cardinality(UnansweredOf(later, x))
              /\ ~same => /\ RunningOf(after, x) = UnansweredOf(later, x)
                          /\ \A i \in OpenOf(later, x), j \in UnansweredOf(later, x) : j <= i
  <2>1. /\ Cardinality(RunningOf(steps, x)) = Cardinality(UnansweredOf(called, x))
        /\ ~same => /\ RunningOf(steps, x) = UnansweredOf(called, x)
                    /\ \A i \in OpenOf(called, x), j \in UnansweredOf(called, x) : j <= i
    BY DEF StepsFollow
  <2>2. UnansweredOf(later, x) \subseteq UnansweredOf(called, x) /\ OpenOf(later, x) \subseteq OpenOf(called, x)
    BY <1>1 DEF UnansweredOf, OpenOf
  <2>3. CASE x = tool
    <3>1. RunningOf(after, x) = RunningOf(steps, x) \ {g}
      BY <1>10, <1>11, <2>3 DEF RunningOf
    <3>2. UnansweredOf(later, x) = UnansweredOf(called, x) \ {call}
      BY <1>1, <2>3 DEF UnansweredOf
    <3>3. /\ Cardinality(RunningOf(steps, x) \ {g}) = Cardinality(RunningOf(steps, x)) - 1
          /\ Cardinality(UnansweredOf(called, x) \ {call}) = Cardinality(UnansweredOf(called, x)) - 1
      BY <1>2, <1>4, <2>3, FS_RemoveElement
    <3> QED BY <1>12, <2>1, <2>2, <3>1, <3>2, <3>3
  <2>4. CASE x # tool
    <3>1. RunningOf(after, x) = RunningOf(steps, x)
      BY <1>4, <1>10, <1>11, <2>4 DEF RunningOf
    <3>2. UnansweredOf(later, x) = UnansweredOf(called, x)
      BY <1>1, <2>4 DEF UnansweredOf
    <3> QED BY <2>1, <2>2, <3>1, <3>2
  <2> QED BY <2>3, <2>4
<1>15. Len(after) = Len(later)
  BY <1>1, <1>9 DEF StepsFollow
<1>16. StepsFollow(same, after, later)
  BY <1>13, <1>14, <1>15 DEF StepsFollow
<1>17. \A i \in DOMAIN steps : \/ after[i] = steps[i]
                               \/ /\ after[i].status = "done"
                                  /\ after[i].result = i \/ same
  BY <1>10, <1>12
<1> QED BY <1>9, <1>11, <1>16, <1>17

LEMMA TaskPatched ==
  ASSUME TasksShape, NEW row, run.task \in DOMAIN tasks => row \in TaskRows, tasks' = PatchTask(run.task, row)
  PROVE  /\ tasks' \in [DOMAIN tasks' -> TaskRows] /\ DOMAIN tasks' = DOMAIN tasks
         /\ \A t \in DOMAIN tasks : t # run.task => tasks'[t] = tasks[t]
         /\ run.task \in DOMAIN tasks => tasks'[run.task] = row
<1>1. CASE run.task \in DOMAIN tasks
  <2>1. tasks' = [tasks EXCEPT ![run.task] = row]
    BY <1>1 DEF PatchTask
  <2> QED BY <1>1, <2>1 DEF TasksShape
<1>2. CASE run.task \notin DOMAIN tasks
  <2>1. tasks' = tasks
    BY <1>2 DEF PatchTask
  <2> QED BY <1>2, <2>1 DEF TasksShape
<1> QED BY <1>1, <1>2

(* Calls made while another of the tool was open make no card less true,   *)
(* nor does what another task's tools throw.                               *)
LEMMA CardsStayTrue ==
  ASSUME NEW task \in TaskRows, NEW same, NEW later, same => later, NEW t, NEW lost, NEW lostLater, CardsTrue(same, lost, t, task),
         \A i : <<t, i>> \in lostLater <=> <<t, i>> \in lost
  PROVE  CardsTrue(later, lostLater, t, task)
<1>1. \A tool : ThrewOf(lostLater, t, task.steps, tool) = ThrewOf(lost, t, task.steps, tool)
  BY DEF ThrewOf
<1> QED BY <1>1 DEF CardsTrue

LEMMA RunTaskPreserves == TaskInv /\ RunTask => TaskInv'
<1> SUFFICES ASSUME TaskInv, RunTask PROVE TaskInv'
  OBVIOUS
<1> DEFINE n == born.tasks + 1
           row == [status |-> "running", steps |-> <<>>, answered |-> FALSE]
<1>1. TasksShape /\ ~running /\ run.state = "none"
  BY DEF TaskInv, RunTask, TasksShape
<1>2. n \in Nat /\ row \in TaskRows
  BY <1>1 DEF TasksShape, TaskRows
<1>3. /\ tasks' \in [DOMAIN tasks \cup {n} -> TaskRows] /\ DOMAIN tasks' = DOMAIN tasks \cup {n} /\ tasks'[n] = row
      /\ \A t \in DOMAIN tasks : t # n => tasks'[t] = tasks[t]
  <2>1. tasks' = WithEntry(tasks, n, row)
    BY DEF RunTask
  <2>2. tasks \in [DOMAIN tasks -> TaskRows]
    BY <1>1 DEF TasksShape
  <2> HIDE DEF n, row
  <2>3. row \in TaskRows
    BY <1>2
  <2>4. /\ WithEntry(tasks, n, row) \in [DOMAIN tasks \cup {n} -> TaskRows]
        /\ DOMAIN WithEntry(tasks, n, row) = DOMAIN tasks \cup {n} /\ WithEntry(tasks, n, row)[n] = row
        /\ \A t \in DOMAIN tasks : t # n => WithEntry(tasks, n, row)[t] = tasks[t]
    BY <2>2, <2>3 DEF WithEntry
  <2> QED BY <2>1, <2>4
<1>4. /\ run' = [task |-> n, calls |-> <<>>, state |-> "open"] /\ running' = TRUE /\ born'.tasks = n
      /\ UNCHANGED <<sameTool, silent, thrown>>
  BY <1>1 DEF RunTask, TasksShape
<1>5. TasksShape'
  <2>1. born' \in [tasks : Nat, bubbles : Nat]
    BY <1>1, <1>2 DEF RunTask, TasksShape
  <2>2. run' \in [task : Nat, calls : Seq(Calls), state : RunStates] /\ run'.task <= born'.tasks
    <3>1. <<>> \in Seq(Calls)
      OBVIOUS
    <3>2. n <= n
      BY <1>2
    <3> QED BY <1>2, <1>4, <3>1, <3>2 DEF RunStates
  <2>3. \A x \in thrown' : x[1] <= born'.tasks
    <3>1. SUFFICES ASSUME NEW x \in thrown PROVE x[1] <= n
      BY <1>4
    <3>2. x[1] \in Nat /\ x[1] <= born.tasks /\ born.tasks \in Nat
      BY <1>1 DEF TasksShape
    <3> QED BY <3>2
  <2> QED BY <1>1, <1>3, <1>4, <2>1, <2>2, <2>3 DEF TasksShape
<1>6. (running <=> run.state # "none")'
  BY <1>4
<1>7. ("agent" \notin silent => \A t \in DOMAIN tasks : tasks[t].status = "running" => run.state = "open" /\ run.task = t)'
  <2>1. "agent" \notin silent => \A t \in DOMAIN tasks : tasks[t].status # "running"
    BY <1>1 DEF TaskInv
  <2> QED BY <1>3, <1>4, <2>1
<1>8. row.steps = <<>> /\ run'.calls = <<>> /\ tasks'[run'.task] = row /\ run'.task = n
  BY <1>3, <1>4
<1>9. \A same : StepsFollow(same, <<>>, <<>>)
  BY DEF StepsFollow, RunningOf, UnansweredOf, OpenOf
<1>10. (run.state = "open" /\ run.task \in DOMAIN tasks =>
          tasks[run.task].status = "running" /\ StepsFollow(sameTool, tasks[run.task].steps, run.calls))'
  BY <1>8, <1>9
<1>11. ThrownIsThrown(thrown', n, <<>>)
  <2>1. ASSUME NEW i \in Nat, <<n, i>> \in thrown PROVE FALSE
    <3>1. n <= born.tasks /\ born.tasks \in Nat
      BY <1>1, <2>1 DEF TasksShape
    <3> QED BY <3>1
  <2> QED BY <1>4, <2>1 DEF ThrownIsThrown
<1>12. (\A t \in DOMAIN tasks : CardsTrue(sameTool, thrown, t, tasks[t]))'
  <2>1. CardsTrue(sameTool, thrown, n, row)
    BY DEF CardsTrue
  <2>2. ASSUME NEW t \in DOMAIN tasks' PROVE CardsTrue(sameTool, thrown, t, tasks'[t])
    <3>1. CASE t = n
      BY <1>3, <2>1, <3>1
    <3>2. CASE t # n
      BY <1>3, <3>2 DEF TaskInv
    <3> QED BY <3>1, <3>2
  <2> QED BY <1>4, <2>2
<1>13. (run.state = "open" => ThrownIsThrown(thrown, run.task, run.calls))'
  BY <1>8, <1>11
<1>14. run'.state = "open"
  BY <1>4
<1> QED BY <1>5, <1>6, <1>7, <1>10, <1>12, <1>13, <1>14 DEF TaskInv

(* The task of the run under way, as the store holds it.                   *)
LEMMA TaskUnderWay ==
  ASSUME TaskInv, run.state = "open", run.task \in DOMAIN tasks
  PROVE  /\ TaskOf = tasks[run.task] /\ TaskOf \in TaskRows /\ TaskOf.status = "running" /\ TaskOf.steps \in Seq(Steps)
         /\ StepsFollow(sameTool, TaskOf.steps, run.calls) /\ CardsTrue(sameTool, thrown, run.task, TaskOf)
<1>1. TaskOf = tasks[run.task]
  BY DEF TaskOf
<1>2. tasks[run.task] \in TaskRows
  BY DEF TaskInv, TasksShape
<1>3. tasks[run.task].steps \in Seq(Steps)
  BY <1>2 DEF TaskRows
<1> QED BY <1>1, <1>2, <1>3 DEF TaskInv

(* What is left to show of an action that patches the run's task.          *)
LEMMA PatchPreserves ==
  ASSUME TaskInv, run.state \in {"open", "answered"}, NEW row, tasks' = PatchTask(run.task, row),
         run.task \in DOMAIN tasks => row \in TaskRows /\ CardsTrue(sameTool', thrown', run.task, row),
         run' \in [task : Nat, calls : Seq(Calls), state : RunStates \ {"none"}], run'.task = run.task, UNCHANGED <<born, running>>,
         sameTool' \in BOOLEAN, sameTool => sameTool', silent' \subseteq {"agent", "base"}, silent \subseteq silent',
         thrown' \subseteq Nat \X Nat, \A x \in thrown' : x \in thrown \/ x[1] = run.task, thrown \subseteq thrown',
         run'.state = "open" => (run.task \in DOMAIN tasks => row.status = "running" /\ StepsFollow(sameTool', row.steps, run'.calls)),
         run'.state = "open" => ThrownIsThrown(thrown', run.task, run'.calls),
         run'.state = "answered" => (run.task \in DOMAIN tasks => row.status = "done"),
         "agent" \notin silent' /\ run'.state = "over" => (run.task \in DOMAIN tasks => row.status # "running")
  PROVE  TaskInv'
<1>1. TasksShape
  BY DEF TaskInv
<1>2. /\ tasks' \in [DOMAIN tasks' -> TaskRows] /\ DOMAIN tasks' = DOMAIN tasks
      /\ \A t \in DOMAIN tasks : t # run.task => tasks'[t] = tasks[t]
      /\ run.task \in DOMAIN tasks => tasks'[run.task] = row
  BY <1>1, TaskPatched
<1>3. TasksShape'
  <2>1. run' \in [task : Nat, calls : Seq(Calls), state : RunStates] /\ run'.task <= born'.tasks
    BY <1>1 DEF TasksShape
  <2>2. \A x \in thrown' : x[1] <= born'.tasks
    BY <1>1 DEF TasksShape
  <2> QED BY <1>1, <1>2, <2>1, <2>2 DEF TasksShape
<1>4. (running <=> run.state # "none")'
  BY DEF TaskInv
<1>5. ("agent" \notin silent => \A t \in DOMAIN tasks : tasks[t].status = "running" => run.state = "open" /\ run.task = t)'
  <2>1. SUFFICES ASSUME "agent" \notin silent', NEW t \in DOMAIN tasks', tasks'[t].status = "running"
                 PROVE  run'.state = "open" /\ run'.task = t
    OBVIOUS
  <2>2. t = run.task
    BY <1>2, <2>1 DEF TaskInv
  <2>3. tasks'[t] = row
    BY <1>2, <2>1, <2>2
  <2>4. run'.state \in {"open", "answered", "over"}
    BY DEF RunStates
  <2> QED BY <1>2, <2>1, <2>2, <2>3, <2>4
<1>6. /\ (run.state = "open" /\ run.task \in DOMAIN tasks =>
            tasks[run.task].status = "running" /\ StepsFollow(sameTool, tasks[run.task].steps, run.calls))'
      /\ (run.state = "answered" /\ run.task \in DOMAIN tasks => tasks[run.task].status = "done")'
      /\ (run.state = "open" => ThrownIsThrown(thrown, run.task, run.calls))'
  BY <1>2
<1>7. (\A t \in DOMAIN tasks : CardsTrue(sameTool, thrown, t, tasks[t]))'
  <2>1. ASSUME NEW t \in DOMAIN tasks' PROVE CardsTrue(sameTool', thrown', t, tasks'[t])
    <3>1. CASE t = run.task
      BY <1>2, <3>1
    <3>2. CASE t # run.task
      <4>1. tasks'[t] = tasks[t] /\ tasks[t] \in TaskRows /\ CardsTrue(sameTool, thrown, t, tasks[t])
        BY <1>1, <1>2, <3>2 DEF TaskInv, TasksShape
      <4>2. \A i : <<t, i>> \in thrown' <=> <<t, i>> \in thrown
        BY <3>2
      <4> QED BY <4>1, <4>2, CardsStayTrue
    <3> QED BY <3>1, <3>2
  <2> QED BY <2>1
<1> QED BY <1>3, <1>4, <1>5, <1>6, <1>7 DEF TaskInv

LEMMA ToolCallPreserves == ASSUME NEW tool \in Tools, TaskInv, ToolCall(tool) PROVE TaskInv'
<1> DEFINE step == [tool |-> tool, status |-> "running", result |-> Pending]
           call == [tool |-> tool, state |-> "open"]
           row == [TaskOf EXCEPT !.steps = Append(@, step)]
<1>1. /\ run.state = "open" /\ run' = [run EXCEPT !.calls = Append(@, call)] /\ tasks' = PatchTask(run.task, row)
      /\ sameTool' = (sameTool \/ OpenOf(run.calls, tool) # {}) /\ UNCHANGED <<born, running, silent, thrown>>
  BY DEF ToolCall, OthersThanAgent, OpenCalls, OpenOf
<1>2. TasksShape /\ run.calls \in Seq(Calls) /\ call \in Calls /\ step \in Steps
  BY DEF TaskInv, TasksShape, Calls, Steps
<1>3. /\ run' \in [task : Nat, calls : Seq(Calls), state : RunStates \ {"none"}] /\ run'.task = run.task
      /\ run'.state = "open" /\ run'.calls = Append(run.calls, call)
      /\ ThrownIsThrown(thrown', run.task, run'.calls)
  <2>1. /\ Append(run.calls, call) \in Seq(Calls) /\ DOMAIN Append(run.calls, call) = DOMAIN run.calls \cup {Len(run.calls) + 1}
        /\ Append(run.calls, call)[Len(run.calls) + 1] = call
        /\ \A i \in DOMAIN run.calls : Append(run.calls, call)[i] = run.calls[i]
    BY <1>2, EntryAppended
  <2>2. call.state # "threw" /\ Len(run.calls) + 1 \notin DOMAIN run.calls
    BY <1>2, LenProperties
  <2> HIDE DEF call
  <2>3. /\ run' \in [task : Nat, calls : Seq(Calls), state : RunStates \ {"none"}] /\ run'.task = run.task
        /\ run'.state = "open" /\ run'.calls = Append(run.calls, call)
    BY <1>1, <1>2, <2>1 DEF TasksShape, RunStates
  <2>4. ThrownIsThrown(thrown, run.task, run.calls)
    BY <1>1 DEF TaskInv
  <2>5. ThrownIsThrown(thrown, run.task, Append(run.calls, call))
    BY <2>1, <2>2, <2>4 DEF ThrownIsThrown
  <2> QED BY <1>1, <2>3, <2>5
<1>4. sameTool' \in BOOLEAN /\ (sameTool => sameTool')
  BY <1>1, <1>2 DEF TasksShape
<1>5. ASSUME run.task \in DOMAIN tasks
      PROVE  /\ row \in TaskRows /\ CardsTrue(sameTool', thrown', run.task, row) /\ row.status = "running"
             /\ StepsFollow(sameTool', row.steps, run'.calls)
  <2>1. /\ TaskOf \in TaskRows /\ TaskOf.status = "running" /\ TaskOf.steps \in Seq(Steps)
        /\ StepsFollow(sameTool, TaskOf.steps, run.calls) /\ CardsTrue(sameTool, thrown, run.task, TaskOf)
    BY <1>1, <1>5, TaskUnderWay
  <2>2. /\ Append(TaskOf.steps, step) \in Seq(Steps)
        /\ DOMAIN Append(TaskOf.steps, step) = DOMAIN TaskOf.steps \cup {Len(TaskOf.steps) + 1}
        /\ Append(TaskOf.steps, step)[Len(TaskOf.steps) + 1] = step
        /\ \A i \in DOMAIN TaskOf.steps : Append(TaskOf.steps, step)[i] = TaskOf.steps[i]
    BY <1>2, <2>1, EntryAppended
  <2>3. row.steps = Append(TaskOf.steps, step) /\ row.status = "running" /\ row \in TaskRows
    <3> HIDE DEF step
    <3> QED BY <2>1, <2>2 DEF TaskRows
  <2>4. StepsFollow(sameTool', row.steps, run'.calls)
    <3>1. StepsFollow(sameTool', Append(TaskOf.steps, step), Append(run.calls, call))
      BY <1>1, <1>2, <2>1, StepStarts
    <3> QED BY <1>3, <2>3, <3>1
  <2>5. CardsTrue(sameTool', thrown', run.task, row)
    <3>1. step.result = Pending
      OBVIOUS
    <3>2. row.status # "done"
      BY <2>3
    <3> HIDE DEF step, row
    <3> QED BY <1>4, <2>1, <2>2, <2>3, <3>1, <3>2 DEF CardsTrue
  <2> QED BY <2>3, <2>4, <2>5
<1>6. silent' \subseteq {"agent", "base"} /\ silent \subseteq silent' /\ thrown' = thrown /\ thrown \subseteq Nat \X Nat
  BY <1>1, <1>2 DEF TasksShape
<1> HIDE DEF row, call
<1> QED BY <1>1, <1>3, <1>4, <1>5, <1>6, PatchPreserves

LEMMA ToolResultPreserves == ASSUME NEW call \in DOMAIN run.calls, TaskInv, ToolResult(call) PROVE TaskInv'
<1> DEFINE later == [run.calls EXCEPT ![call] = [run.calls[call] EXCEPT !.state = "answered"]]
           after == WithResult(TaskOf.steps, run.calls[call].tool, call)
           row == [TaskOf EXCEPT !.steps = after]
<1>1. /\ run.state = "open" /\ run.calls[call].state = "open" /\ run' = [run EXCEPT !.calls = later]
      /\ tasks' = PatchTask(run.task, row) /\ UNCHANGED <<born, running, silent, sameTool, thrown>>
  <2>1. run' = [run EXCEPT !.calls[call].state = "answered"]
    BY DEF ToolResult
  <2>2. run' = [run EXCEPT !.calls = later]
    BY <2>1
  <2> QED BY <2>2 DEF ToolResult, OthersThanAgent, OpenCalls
<1>2. TasksShape /\ run.calls \in Seq(Calls)
  BY DEF TaskInv, TasksShape
<1>3. Anew(later, run.calls, call, "answered")
  BY <1>2, CallAnew
<1>a. /\ later \in Seq(Calls) /\ DOMAIN later = DOMAIN run.calls /\ later[call].state = "answered"
      /\ \A i \in DOMAIN run.calls \ {call} : later[i] = run.calls[i]
  BY <1>3 DEF Anew
<1>4. /\ run' \in [task : Nat, calls : Seq(Calls), state : RunStates \ {"none"}] /\ run'.task = run.task
      /\ run'.state = "open" /\ run'.calls = later /\ ThrownIsThrown(thrown', run.task, run'.calls)
  <2> HIDE DEF later
  <2>1. run' \in [task : Nat, calls : Seq(Calls), state : RunStates \ {"none"}] /\ run'.task = run.task
        /\ run'.state = "open" /\ run'.calls = later
    BY <1>1, <1>2, <1>a DEF TasksShape, RunStates
  <2>2. ThrownIsThrown(thrown, run.task, run.calls)
    BY <1>1 DEF TaskInv
  <2>3. ThrownIsThrown(thrown, run.task, later)
    BY <1>1, <1>a, <2>2 DEF ThrownIsThrown
  <2> QED BY <1>1, <2>1, <2>3
<1>5. sameTool' \in BOOLEAN /\ (sameTool => sameTool')
  BY <1>1, <1>2 DEF TasksShape
<1>6. ASSUME run.task \in DOMAIN tasks
      PROVE  /\ row \in TaskRows /\ CardsTrue(sameTool', thrown', run.task, row) /\ row.status = "running"
             /\ StepsFollow(sameTool', row.steps, run'.calls)
  <2>1. /\ TaskOf \in TaskRows /\ TaskOf.status = "running" /\ TaskOf.steps \in Seq(Steps)
        /\ StepsFollow(sameTool, TaskOf.steps, run.calls) /\ CardsTrue(sameTool, thrown, run.task, TaskOf)
    BY <1>1, <1>6, TaskUnderWay
  <2>2. /\ StepsFollow(sameTool, after, later) /\ after \in Seq(Steps) /\ DOMAIN after = DOMAIN TaskOf.steps
        /\ \A i \in DOMAIN TaskOf.steps : \/ after[i] = TaskOf.steps[i]
                                          \/ /\ after[i].status = "done"
                                             /\ after[i].result = i \/ sameTool
    <3>1. after = WithResult(TaskOf.steps, run.calls[call].tool, call)
      OBVIOUS
    <3>2. TaskOf.steps \in Seq(Steps) /\ run.calls \in Seq(Calls) /\ call \in DOMAIN run.calls /\ run.calls[call].state = "open"
          /\ StepsFollow(sameTool, TaskOf.steps, run.calls)
      BY <1>1, <1>2, <2>1
    <3> HIDE DEF after, later
    <3> QED BY <1>3, <3>1, <3>2, StepEnds
  <2> HIDE DEF after, later
  <2>3. row.steps = after /\ row.status = "running" /\ row \in TaskRows
    BY <2>1, <2>2 DEF TaskRows
  <2>4. StepsFollow(sameTool', row.steps, run'.calls)
    BY <1>1, <1>4, <2>2, <2>3
  <2>5. CardsTrue(sameTool', thrown', run.task, row)
    <3>1. row.status # "done"
      BY <2>3
    <3> HIDE DEF row
    <3> QED BY <1>1, <2>1, <2>2, <2>3, <3>1 DEF CardsTrue
  <2> QED BY <2>3, <2>4, <2>5
<1>7. silent' \subseteq {"agent", "base"} /\ silent \subseteq silent' /\ thrown' = thrown /\ thrown \subseteq Nat \X Nat
  BY <1>1, <1>2 DEF TasksShape
<1> HIDE DEF row, later, after
<1> QED BY <1>1, <1>4, <1>5, <1>6, <1>7, PatchPreserves

LEMMA ToolThrowsPreserves == ASSUME NEW call \in DOMAIN run.calls, TaskInv, ToolThrows(call) PROVE TaskInv'
<1> DEFINE later == [run.calls EXCEPT ![call] = [run.calls[call] EXCEPT !.state = "threw"]]
<1>1. /\ run.state = "open" /\ run.calls[call].state = "open" /\ run' = [run EXCEPT !.calls = later]
      /\ thrown' = thrown \cup {<<run.task, call>>} /\ UNCHANGED <<tasks, born, running, silent, sameTool>>
  <2>1. run' = [run EXCEPT !.calls[call].state = "threw"]
    BY DEF ToolThrows
  <2>2. run' = [run EXCEPT !.calls = later]
    BY <2>1
  <2> QED BY <2>2 DEF ToolThrows, OthersThanAgent, OpenCalls
<1>2. TasksShape /\ run.calls \in Seq(Calls) /\ run.task \in Nat
  BY DEF TaskInv, TasksShape
<1>a. call \in Nat /\ Anew(later, run.calls, call, "threw")
  BY <1>2, CallAnew
<1>3. /\ call \in Nat /\ later \in Seq(Calls) /\ DOMAIN later = DOMAIN run.calls /\ later[call].state = "threw"
      /\ \A i \in DOMAIN run.calls \ {call} : later[i] = run.calls[i]
  BY <1>a DEF Anew
<1>4. run' \in [task : Nat, calls : Seq(Calls), state : RunStates \ {"none"}] /\ run'.task = run.task
      /\ run'.state = "open" /\ run'.calls = later
  <2> HIDE DEF later
  <2> QED BY <1>1, <1>2, <1>3 DEF TasksShape, RunStates
<1>5. ThrownIsThrown(thrown', run.task, run'.calls)
  <2>1. ThrownIsThrown(thrown, run.task, run.calls)
    BY <1>1 DEF TaskInv
  <2> HIDE DEF later
  <2>2. ASSUME NEW i \in Nat PROVE <<run.task, i>> \in thrown' <=> i \in DOMAIN later /\ later[i].state = "threw"
    <3>1. CASE i = call
      BY <1>1, <1>3, <3>1
    <3>2. CASE i # call
      <4>1. <<run.task, i>> \in thrown' <=> <<run.task, i>> \in thrown
        BY <1>1, <3>2
      <4> QED BY <1>3, <2>1, <3>2, <4>1 DEF ThrownIsThrown
    <3> QED BY <3>1, <3>2
  <2> QED BY <1>4, <2>2 DEF ThrownIsThrown
<1>6. tasks' = PatchTask(run.task, TaskOf)
  BY <1>1, <1>2 DEF PatchTask, TaskOf, TasksShape
<1>7. ASSUME run.task \in DOMAIN tasks
      PROVE  /\ TaskOf \in TaskRows /\ CardsTrue(sameTool', thrown', run.task, TaskOf) /\ TaskOf.status = "running"
             /\ StepsFollow(sameTool', TaskOf.steps, run'.calls)
  <2>1. /\ TaskOf \in TaskRows /\ TaskOf.status = "running" /\ TaskOf.steps \in Seq(Steps)
        /\ StepsFollow(sameTool, TaskOf.steps, run.calls) /\ CardsTrue(sameTool, thrown, run.task, TaskOf)
    BY <1>1, <1>7, TaskUnderWay
  <2>2. StepsFollow(sameTool, TaskOf.steps, later)
    <3> HIDE DEF later
    <3> QED BY <1>1, <1>2, <1>a, <2>1, StepKept
  <2> QED BY <1>1, <1>4, <2>1, <2>2 DEF CardsTrue
<1>8. /\ sameTool' \in BOOLEAN /\ (sameTool => sameTool') /\ silent' \subseteq {"agent", "base"} /\ silent \subseteq silent'
      /\ thrown' \subseteq Nat \X Nat /\ thrown \subseteq thrown' /\ \A x \in thrown' : x \in thrown \/ x[1] = run.task
  BY <1>1, <1>2, <1>3 DEF TasksShape
<1> HIDE DEF later
<1> QED BY <1>1, <1>4, <1>5, <1>6, <1>7, <1>8, PatchPreserves

LEMMA AgentTalksPreserves == ASSUME TaskInv, AgentTalks PROVE TaskInv'
<1> DEFINE row == [TaskOf EXCEPT !.answered = TRUE]
<1>1. /\ run.state = "open" /\ tasks' = PatchTask(run.task, row) /\ UNCHANGED <<born, running, silent, sameTool, run, thrown>>
  BY DEF AgentTalks, OthersThanAgent
<1>2. TasksShape
  BY DEF TaskInv
<1>3. ASSUME run.task \in DOMAIN tasks
      PROVE  /\ row \in TaskRows /\ CardsTrue(sameTool', thrown', run.task, row) /\ row.status = "running"
             /\ StepsFollow(sameTool', row.steps, run'.calls)
  <2>1. /\ TaskOf \in TaskRows /\ TaskOf.status = "running"
        /\ StepsFollow(sameTool, TaskOf.steps, run.calls) /\ CardsTrue(sameTool, thrown, run.task, TaskOf)
    BY <1>1, <1>3, TaskUnderWay
  <2>2. row.steps = TaskOf.steps /\ row.status = "running" /\ row \in TaskRows
    BY <2>1 DEF TaskRows
  <2> HIDE DEF row
  <2> QED BY <1>1, <2>1, <2>2 DEF CardsTrue
<1>4. /\ run' \in [task : Nat, calls : Seq(Calls), state : RunStates \ {"none"}] /\ run'.task = run.task /\ run'.state = "open"
      /\ sameTool' \in BOOLEAN /\ (sameTool => sameTool') /\ silent' \subseteq {"agent", "base"} /\ silent \subseteq silent'
      /\ thrown' = thrown /\ thrown \subseteq Nat \X Nat
  BY <1>1, <1>2 DEF TasksShape, RunStates
<1>5. ThrownIsThrown(thrown', run.task, run'.calls)
  BY <1>1 DEF TaskInv
<1> HIDE DEF row
<1> QED BY <1>1, <1>3, <1>4, <1>5, PatchPreserves

(* A task is done: the calls without an answer are those whose tool threw. *)
LEMMA AgentDonePreserves == ASSUME TaskInv, AgentDone PROVE TaskInv'
<1> DEFINE row == [TaskOf EXCEPT !.status = "done"]
<1>1. /\ run.state = "open" /\ tasks' = PatchTask(run.task, row) /\ UNCHANGED <<born, running, sameTool, thrown, silent>>
      /\ run' = [run EXCEPT !.state = "answered"] /\ OpenCalls = {}
  <2>1. StatusAfter("done") = "done"
    BY DEF StatusAfter
  <2> QED BY <2>1 DEF AgentDone, OthersThanAgent
<1>2. TasksShape /\ run.calls \in Seq(Calls)
  BY DEF TaskInv, TasksShape
<1>3. ASSUME run.task \in DOMAIN tasks
      PROVE  row \in TaskRows /\ CardsTrue(sameTool', thrown', run.task, row) /\ row.status = "done"
  <2>1. /\ TaskOf \in TaskRows /\ TaskOf.status = "running" /\ TaskOf.steps \in Seq(Steps)
        /\ StepsFollow(sameTool, TaskOf.steps, run.calls) /\ CardsTrue(sameTool, thrown, run.task, TaskOf)
    BY <1>1, <1>3, TaskUnderWay
  <2>2. row.steps = TaskOf.steps /\ row.status = "done" /\ row \in TaskRows
    BY <2>1 DEF TaskRows
  <2>3. ASSUME NEW tool \in Tools PROVE UnansweredOf(run.calls, tool) = ThrewOf(thrown, run.task, TaskOf.steps, tool)
    <3>1. DOMAIN TaskOf.steps = DOMAIN run.calls /\ \A i \in DOMAIN run.calls : i \in Nat /\ TaskOf.steps[i].tool = run.calls[i].tool
      BY <1>2, <2>1, LenProperties DEF StepsFollow
    <3>2. \A i \in DOMAIN run.calls : run.calls[i].state # "answered" <=> run.calls[i].state = "threw"
      <4>1. \A i \in DOMAIN run.calls : run.calls[i] \in Calls /\ run.calls[i].state # "open"
        BY <1>1, <1>2, ElementOfSeq, LenProperties DEF OpenCalls
      <4> QED BY <4>1 DEF Calls
    <3>3. ThrownIsThrown(thrown, run.task, run.calls)
      BY <1>1 DEF TaskInv
    <3> QED BY <3>1, <3>2, <3>3 DEF UnansweredOf, ThrewOf, ThrownIsThrown
  <2> HIDE DEF row
  <2> QED BY <1>1, <2>1, <2>2, <2>3 DEF CardsTrue, StepsFollow
<1>4. /\ run' \in [task : Nat, calls : Seq(Calls), state : RunStates \ {"none"}] /\ run'.task = run.task /\ run'.state = "answered"
      /\ sameTool' \in BOOLEAN /\ (sameTool => sameTool') /\ silent' \subseteq {"agent", "base"} /\ silent \subseteq silent'
      /\ thrown' = thrown /\ thrown \subseteq Nat \X Nat
  BY <1>1, <1>2 DEF TasksShape, RunStates
<1> HIDE DEF row
<1> QED BY <1>1, <1>3, <1>4, PatchPreserves

LEMMA AgentEndsPreserves == ASSUME NEW how \in {"error", "silent"}, TaskInv, AgentEnds(how) PROVE TaskInv'
<1> DEFINE row == [TaskOf EXCEPT !.status = StatusAfter(how), !.answered = @ \/ how = "error"]
<1>1. /\ run.state \in {"open", "answered"} /\ tasks' = PatchTask(run.task, row) /\ UNCHANGED <<born, running, sameTool, thrown>>
      /\ run' = [run EXCEPT !.state = "over"]
      /\ silent' = IF how = "silent" THEN silent \cup {"agent"} ELSE silent
  BY DEF AgentEnds, OthersThanAgent
<1>2. TasksShape
  BY DEF TaskInv
<1>3. ASSUME run.task \in DOMAIN tasks
      PROVE  row \in TaskRows /\ CardsTrue(sameTool', thrown', run.task, row) /\ ("agent" \notin silent' => row.status # "running")
  <2>1. TaskOf \in TaskRows /\ CardsTrue(sameTool, thrown, run.task, TaskOf)
    BY <1>2, <1>3 DEF TaskOf, TaskInv, TasksShape
  <2>2. StatusAfter(how) \in {"running", "error"} /\ (StatusAfter(how) = "running" <=> how = "silent")
    BY DEF StatusAfter
  <2>3. row.steps = TaskOf.steps /\ row.status = StatusAfter(how) /\ row \in TaskRows
    <3>1. (TaskOf.answered \/ how = "error") \in BOOLEAN
      OBVIOUS
    <3> QED BY <2>1, <2>2, <3>1 DEF TaskRows
  <2> HIDE DEF row
  <2> QED BY <1>1, <2>1, <2>2, <2>3 DEF CardsTrue
<1>4. /\ run' \in [task : Nat, calls : Seq(Calls), state : RunStates \ {"none"}] /\ run'.task = run.task /\ run'.state = "over"
      /\ sameTool' \in BOOLEAN /\ (sameTool => sameTool') /\ silent' \subseteq {"agent", "base"} /\ silent \subseteq silent'
      /\ thrown' = thrown /\ thrown \subseteq Nat \X Nat
  BY <1>1, <1>2 DEF TasksShape, RunStates
<1> HIDE DEF row
<1> QED BY <1>1, <1>3, <1>4, PatchPreserves

LEMMA TasksPreserved == TaskInv /\ TaskNext => TaskInv'
<1> SUFFICES ASSUME TaskInv, TaskNext PROVE TaskInv'
  OBVIOUS
<1>1. TasksShape
  BY DEF TaskInv
<1>2. CASE RunReturns
  <2>1. run' = NoRun /\ running' = FALSE /\ UNCHANGED <<tasks, sameTool, silent, thrown, born>>
      /\ run.state \in {"answered", "over"}
    BY <1>2 DEF RunReturns, OthersThanAgent
  <2>2. TasksShape'
    <3>1. <<>> \in Seq(Calls)
      OBVIOUS
    <3> QED BY <1>1, <2>1, <3>1 DEF TasksShape, NoRun, RunStates
  <2>3. run'.state = "none"
    BY <2>1 DEF NoRun
  <2>4. "agent" \notin silent => \A t \in DOMAIN tasks : tasks[t].status # "running"
    BY <2>1 DEF TaskInv
  <2> QED BY <2>1, <2>2, <2>3, <2>4 DEF TaskInv
<1>3. CASE ClearTasks
  <2>1. tasks' = EmptyList /\ UNCHANGED <<running, run, sameTool, silent, thrown, born>>
    BY <1>3 DEF ClearTasks, OthersThanAgent
  <2>2. DOMAIN tasks' = {} /\ tasks' \in [DOMAIN tasks' -> TaskRows]
    BY <2>1 DEF EmptyList
  <2> QED BY <1>1, <2>1, <2>2 DEF TaskInv, TasksShape
<1> QED BY <1>2, <1>3, RunTaskPreserves, AgentTalksPreserves, ToolCallPreserves, ToolResultPreserves, ToolThrowsPreserves,
           AgentDonePreserves, AgentEndsPreserves DEF TaskNext

(* Conversations: the knowledge base and the assistant.                    *)
Bubbles == [streaming : BOOLEAN, content : BOOLEAN]
QueryInv ==
  /\ bubbles \in [DOMAIN bubbles -> Bubbles]
  /\ answer \in [bubble : Nat, state : {"none", "open", "over"}]
  /\ querying <=> answer.state # "none"
  /\ "base" \notin silent =>
        \A b \in DOMAIN bubbles : bubbles[b].streaming => answer.state = "open" /\ answer.bubble = b

(* What was said, and the history its question began with, are of the page *)
(* open, which is never left while something was said unless it is crossed.*)
PaperInv ==
  /\ paper \in Papers \cup {Pending} /\ messages \in Seq([of : Papers, by : {"human", "ai"}])
  /\ ~crossed => \A i \in DOMAIN messages : messages[i].of = paper
  /\ asked # Pending => /\ asked.of \in Papers /\ asked.history = messages /\ messages # <<>>
                        /\ ~crossed => asked.of = paper
TalksInv == TaskInv /\ QueryInv /\ PaperInv

LEMMA TalksInitially == TalkInit => TalksInv
<1> SUFFICES ASSUME TalkInit PROVE TalksInv
  OBVIOUS
<1>1. /\ DOMAIN tasks = {} /\ DOMAIN bubbles = {} /\ tasks \in [DOMAIN tasks -> TaskRows]
      /\ bubbles \in [DOMAIN bubbles -> Bubbles]
  BY DEF TalkInit, EmptyList
<1>2. TaskInv
  <2>1. /\ run = [task |-> 0, calls |-> <<>>, state |-> "none"] /\ born = [tasks |-> 0, bubbles |-> 0]
        /\ ~running /\ sameTool = FALSE /\ silent = {} /\ thrown = {}
    BY DEF TalkInit, NoRun
  <2>2. TasksShape
    <3>1. run \in [task : Nat, calls : Seq(Calls), state : RunStates] /\ run.task <= born.tasks
      <4>1. <<>> \in Seq(Calls)
        OBVIOUS
      <4> QED BY <2>1, <4>1 DEF RunStates
    <3>2. born \in [tasks : Nat, bubbles : Nat]
      BY <2>1
    <3> QED BY <1>1, <2>1, <3>1, <3>2 DEF TasksShape
  <2>3. run.state = "none"
    BY <2>1
  <2> QED BY <1>1, <2>1, <2>2, <2>3 DEF TaskInv
<1>3. QueryInv
  BY <1>1 DEF TalkInit, QueryInv, NoAnswer
<1>4. PaperInv
  BY DEF TalkInit, PaperInv
<1> QED BY <1>2, <1>3, <1>4 DEF TalksInv

LEMMA QueryPreserves == TalksInv /\ QueryNext => TalksInv'
<1> SUFFICES ASSUME TalksInv, QueryNext PROVE TalksInv'
  OBVIOUS
<1>1. /\ UNCHANGED <<tasks, running, run, sameTool, thrown, paper, messages, asked, locked, crossed>>
      /\ "agent" \in silent' <=> "agent" \in silent
      /\ silent \subseteq silent' /\ silent' \subseteq silent \cup {"base"}
      /\ born' \in [tasks : Nat, bubbles : Nat] /\ born'.tasks = born.tasks
  <2>1. born \in [tasks : Nat, bubbles : Nat]
    BY DEF TalksInv, TaskInv, TasksShape
  <2> QED BY <2>1 DEF QueryNext, Query, QueryTalks, QueryEnds, QueryReturns, ClearMessages, OthersThanBase
<1>2. TaskInv'
  <2>1. TasksShape'
    BY <1>1 DEF TalksInv, TaskInv, TasksShape
  <2> QED BY <1>1, <2>1 DEF TalksInv, TaskInv
<1>3. PaperInv'
  BY <1>1 DEF TalksInv, PaperInv
<1>4. QueryInv /\ born.bubbles \in Nat
  BY DEF TalksInv, TaskInv, TasksShape
<1>5. QueryInv'
  <2>1. CASE Query
    <3> DEFINE n == born.bubbles + 1
               row == [streaming |-> TRUE, content |-> FALSE]
    <3>1. n \in Nat /\ row \in Bubbles /\ bubbles \in [DOMAIN bubbles -> Bubbles]
      BY <1>4 DEF Bubbles, QueryInv
    <3>2. bubbles' = WithEntry(bubbles, n, row)
      BY <2>1 DEF Query
    <3> HIDE DEF n, row
    <3>3. /\ bubbles' \in [DOMAIN bubbles' -> Bubbles] /\ DOMAIN bubbles' = DOMAIN bubbles \cup {n}
          /\ \A b \in DOMAIN bubbles : b # n => bubbles'[b] = bubbles[b]
      BY <3>1, <3>2 DEF WithEntry
    <3>4. answer' = [bubble |-> n, state |-> "open"] /\ querying' = TRUE /\ ~querying /\ silent' = silent
      BY <2>1 DEF Query, n
    <3>5. answer' \in [bubble : Nat, state : {"none", "open", "over"}]
      BY <3>1, <3>4
    <3>6. (querying <=> answer.state # "none")'
      BY <3>4
    <3>7. "base" \notin silent => \A b \in DOMAIN bubbles : ~bubbles[b].streaming
      BY <1>4, <3>4 DEF QueryInv
    <3>8. ("base" \notin silent =>
             \A b \in DOMAIN bubbles : bubbles[b].streaming => answer.state = "open" /\ answer.bubble = b)'
      BY <3>3, <3>4, <3>7
    <3> QED BY <3>3, <3>5, <3>6, <3>8 DEF QueryInv
  <2>2. CASE QueryTalks
    <3>1. /\ bubbles' = [bubbles EXCEPT ![answer.bubble].content = TRUE] /\ UNCHANGED <<querying, answer, silent>>
          /\ answer.bubble \in DOMAIN bubbles
      BY <2>2 DEF QueryTalks
    <3>2. bubbles[answer.bubble] \in Bubbles
      BY <1>4, <3>1 DEF QueryInv
    <3>3. [bubbles[answer.bubble] EXCEPT !.content = TRUE] \in Bubbles
      BY <3>2 DEF Bubbles
    <3>4. /\ bubbles' \in [DOMAIN bubbles' -> Bubbles] /\ DOMAIN bubbles' = DOMAIN bubbles
      BY <1>4, <3>1, <3>3 DEF QueryInv
    <3>5. \A b \in DOMAIN bubbles : bubbles'[b].streaming = bubbles[b].streaming
      BY <1>4, <3>1, <3>2 DEF QueryInv, Bubbles
    <3> QED BY <1>4, <3>1, <3>4, <3>5 DEF QueryInv
  <2>3. ASSUME NEW how \in {"done", "error", "silent"}, QueryEnds(how) PROVE QueryInv'
    <3> DEFINE row == [streaming |-> StatusAfter(how) = "running",
                       content |-> bubbles[answer.bubble].content \/ how = "error"]
    <3>1. /\ bubbles' = IF answer.bubble \in DOMAIN bubbles THEN [bubbles EXCEPT ![answer.bubble] = row] ELSE bubbles
          /\ answer' = [answer EXCEPT !.state = "over"] /\ querying' = querying /\ answer.state = "open"
          /\ silent' = IF how = "silent" THEN silent \cup {"base"} ELSE silent
      BY <2>3 DEF QueryEnds
    <3>2. row \in Bubbles /\ (row.streaming => how = "silent")
      BY DEF Bubbles, StatusAfter
    <3> HIDE DEF row
    <3>3. /\ bubbles' \in [DOMAIN bubbles' -> Bubbles] /\ DOMAIN bubbles' = DOMAIN bubbles
          /\ \A b \in DOMAIN bubbles : bubbles'[b] = IF b = answer.bubble THEN row ELSE bubbles[b]
      BY <1>4, <3>1, <3>2 DEF QueryInv
    <3>4. answer' \in [bubble : Nat, state : {"none", "open", "over"}] /\ answer'.state = "over"
      BY <1>4, <3>1 DEF QueryInv
    <3>5. (querying <=> answer.state # "none")'
      BY <1>4, <3>1, <3>4 DEF QueryInv
    <3>6. ("base" \notin silent => \A b \in DOMAIN bubbles : ~bubbles[b].streaming)'
      <4>1. SUFFICES ASSUME "base" \notin silent', NEW b \in DOMAIN bubbles PROVE ~bubbles'[b].streaming
        BY <3>3
      <4>2. how # "silent" /\ "base" \notin silent
        BY <3>1, <4>1
      <4> QED BY <1>4, <3>2, <3>3, <4>2 DEF QueryInv
    <3> QED BY <3>3, <3>4, <3>5, <3>6 DEF QueryInv
  <2>4. CASE QueryReturns
    BY <1>4, <2>4 DEF QueryReturns, NoAnswer, QueryInv
  <2>5. CASE ClearMessages
    <3>1. DOMAIN bubbles' = {} /\ bubbles' \in [DOMAIN bubbles' -> Bubbles]
      BY <2>5 DEF ClearMessages, EmptyList
    <3> QED BY <1>4, <2>5, <3>1 DEF ClearMessages, QueryInv
  <2> QED BY <2>1, <2>2, <2>3, <2>4, <2>5 DEF QueryNext
<1> QED BY <1>2, <1>3, <1>5 DEF TalksInv

LEMMA PaperPreserves == TalksInv /\ PaperNext => TalksInv'
<1> SUFFICES ASSUME TalksInv, PaperNext PROVE TalksInv'
  OBVIOUS
<1>1. UNCHANGED <<born, tasks, running, run, sameTool, thrown, bubbles, querying, answer, silent>>
  BY DEF PaperNext, OpenPaper, LeavePaper, FollowsNotice, SendQuestion, AskAnswered, OthersThanAssistant
<1>2. TaskInv' /\ QueryInv'
  BY <1>1 DEF TalksInv, TaskInv, TasksShape, QueryInv
<1>3. PaperInv
  BY DEF TalksInv
<1>4. PaperInv'
  <2>1. ASSUME NEW c \in Papers, OpenPaper(c) PROVE PaperInv'
    BY <2>1 DEF OpenPaper, PaperInv
  <2>2. CASE LeavePaper
    BY <2>2 DEF LeavePaper, PaperInv
  <2>3. ASSUME NEW c \in Papers, FollowsNotice(c) PROVE PaperInv'
    <3>1. paper' = c /\ UNCHANGED <<messages, asked>> /\ (~crossed' => ~crossed /\ messages = <<>>)
      BY <2>3 DEF FollowsNotice
    <3>2. ~crossed' => asked = Pending /\ DOMAIN messages = {}
      BY <1>3, <3>1 DEF PaperInv
    <3> QED BY <1>3, <3>1, <3>2 DEF PaperInv
  <2>4. CASE SendQuestion
    <3> DEFINE word == [of |-> paper, by |-> "human"]
    <3>1. /\ messages' = Append(messages, word) /\ asked' = [of |-> paper, history |-> messages'] /\ paper # Pending
          /\ UNCHANGED <<paper, crossed>>
      BY <2>4 DEF SendQuestion
    <3>2. paper \in Papers /\ word \in [of : Papers, by : {"human", "ai"}] /\ messages \in Seq([of : Papers, by : {"human", "ai"}])
      BY <1>3, <3>1 DEF PaperInv
    <3>3. word.of = paper
      OBVIOUS
    <3> HIDE DEF word
    <3>4. /\ messages' \in Seq([of : Papers, by : {"human", "ai"}]) /\ messages' # <<>>
          /\ \A i \in DOMAIN messages' : messages'[i] = word \/ (i \in DOMAIN messages /\ messages'[i] = messages[i])
      <4>1. /\ messages' \in Seq([of : Papers, by : {"human", "ai"}]) /\ DOMAIN messages' = DOMAIN messages \cup {Len(messages) + 1}
            /\ messages'[Len(messages) + 1] = word /\ \A i \in DOMAIN messages : messages'[i] = messages[i]
        BY <3>1, <3>2, EntryAppended
      <4> QED BY <4>1
    <3> QED BY <1>3, <3>1, <3>2, <3>3, <3>4 DEF PaperInv
  <2>5. ASSUME NEW how \in {"answer", "locked", "failure"}, AskAnswered(how) PROVE PaperInv'
    <3>1. asked # Pending /\ asked' = Pending /\ UNCHANGED <<paper, crossed>>
      BY <2>5 DEF AskAnswered
    <3>2. CASE how # "answer"
      BY <1>3, <2>5, <3>1, <3>2 DEF AskAnswered, PaperInv
    <3>3. CASE how = "answer"
      <4> DEFINE word == [of |-> asked.of, by |-> "ai"]
      <4>1. messages' = Append(messages, word)
        BY <1>3, <2>5, <3>1, <3>3 DEF AskAnswered, PaperInv
      <4>2. word \in [of : Papers, by : {"human", "ai"}] /\ messages \in Seq([of : Papers, by : {"human", "ai"}])
        BY <1>3, <3>1 DEF PaperInv
      <4>3. ~crossed => word.of = paper
        BY <1>3, <3>1 DEF PaperInv
      <4> HIDE DEF word
      <4>4. /\ messages' \in Seq([of : Papers, by : {"human", "ai"}])
            /\ \A i \in DOMAIN messages' : messages'[i] = word \/ (i \in DOMAIN messages /\ messages'[i] = messages[i])
        <5>1. /\ messages' \in Seq([of : Papers, by : {"human", "ai"}]) /\ DOMAIN messages' = DOMAIN messages \cup {Len(messages) + 1}
              /\ messages'[Len(messages) + 1] = word /\ \A i \in DOMAIN messages : messages'[i] = messages[i]
          BY <4>1, <4>2, EntryAppended
        <5> QED BY <5>1
      <4> QED BY <1>3, <3>1, <4>3, <4>4 DEF PaperInv
    <3> QED BY <3>2, <3>3
  <2> QED BY <2>1, <2>2, <2>3, <2>4, <2>5 DEF PaperNext
<1> QED BY <1>2, <1>4 DEF TalksInv

LEMMA TalksPreserved == TalksInv /\ (TaskNext \/ QueryNext \/ PaperNext) => TalksInv'
<1> SUFFICES ASSUME TalksInv, TaskNext PROVE TalksInv'
  BY QueryPreserves, PaperPreserves
<1>1. TaskInv'
  BY TasksPreserved DEF TalksInv
<1>2. UNCHANGED <<bubbles, querying, answer, paper, messages, asked, locked, crossed>> /\ silent \subseteq silent'
  BY DEF TaskNext, RunTask, ToolCall, ToolResult, ToolThrows, AgentTalks, AgentDone, AgentEnds, RunReturns, ClearTasks, OthersThanAgent
<1> QED BY <1>1, <1>2 DEF TalksInv, QueryInv, PaperInv

LEMMA TalksInType == TalksInv => TalkTypeOK /\ ResultsAtTheirSteps /\ NothingSpinsForEver /\ SaidOfThisPaper
<1> SUFFICES ASSUME TalksInv PROVE TalkTypeOK /\ ResultsAtTheirSteps /\ NothingSpinsForEver /\ SaidOfThisPaper
  OBVIOUS
<1>1. TaskInv /\ QueryInv /\ PaperInv
  BY DEF TalksInv
<1>2. TalkTypeOK
  <2>1. \A t \in DOMAIN tasks : tasks[t].status \in {"running", "done", "error"}
    BY <1>1 DEF TaskInv, TasksShape, TaskRows
  <2>2. run.state \in {"none", "open", "answered", "over"} /\ silent \subseteq {"agent", "base"}
    BY <1>1 DEF TaskInv, TasksShape, RunStates
  <2>3. answer.state \in {"none", "open", "over"} /\ (asked # Pending => asked.of \in Papers)
    BY <1>1 DEF QueryInv, PaperInv
  <2> QED BY <2>1, <2>2, <2>3 DEF TalkTypeOK
<1>3. ResultsAtTheirSteps
  <2>1. ASSUME NEW t \in DOMAIN tasks
        PROVE  /\ DOMAIN TaskBlock(tasks[t]).cards = DOMAIN tasks[t].steps
               /\ \A i \in DOMAIN tasks[t].steps : TaskBlock(tasks[t]).cards[i].shows = tasks[t].steps[i].result
               /\ \A tool : /\ Spinning(TaskBlock(tasks[t]).cards, tool) = RunningOf(tasks[t].steps, tool)
                            /\ Threw(t, TaskBlock(tasks[t]).cards, tool) = ThrewOf(thrown, t, tasks[t].steps, tool)
    BY DEF TaskBlock, StepCard, Spinning, Threw, RunningOf, ThrewOf
  <2>2. \A t \in DOMAIN tasks : CardsTrue(sameTool, thrown, t, tasks[t])
    BY <1>1 DEF TaskInv
  <2> QED BY <2>1, <2>2 DEF CardsTrue, ResultsAtTheirSteps
<1>4. NothingSpinsForEver
  BY <1>1 DEF TaskInv, QueryInv, NothingSpinsForEver, Spins
<1>5. SaidOfThisPaper
  BY <1>1 DEF PaperInv, SaidOfThisPaper
<1> QED BY <1>2, <1>3, <1>4, <1>5

-----------------------------------------------------------------------------
(* The parts together.                                                     *)
PagesInv ==
  /\ part = "session" => HttpInv /\ RenewsWithTokens
  /\ part = "screens" => ScreenInv
  /\ part = "checkout" => SalesInv
  /\ part \in Talks => TalksInv

LEMMA PageOfPart ==
  ASSUME [Next]_vars
  PROVE  /\ part' = part
         /\ part = "session" => [HttpNext]_httpVars
         /\ part = "screens" => [ScreenNext]_screenVars
         /\ part = "checkout" => [CheckoutNext]_checkoutVars
         /\ part \in Talks => [TaskNext \/ QueryNext \/ PaperNext]_talkVars
<1> USE DEF Next, SessionGoes, ScreensGo, CheckoutGoes, TasksGo, QueriesGo, PaperGoes
<1>1. CASE UNCHANGED vars
  BY <1>1 DEF vars
<1>2. CASE Next
  <2>1. part' = part
    BY <1>2
  <2>2. part = "session" => HttpNext
    BY <1>2
  <2>3. part = "screens" => ScreenNext
    BY <1>2
  <2>4. part = "checkout" => CheckoutNext
    BY <1>2
  <2>5. part \in Talks => TaskNext \/ QueryNext \/ PaperNext
    BY <1>2 DEF Talks
  <2> QED BY <2>1, <2>2, <2>3, <2>4, <2>5
<1> QED BY <1>1, <1>2

LEMMA ScreensStutter == ScreenInv /\ UNCHANGED screenVars => ScreenInv'
<1> SUFFICES ASSUME ScreenInv, UNCHANGED screenVars PROVE ScreenInv'
  OBVIOUS
<1>1. UNCHANGED <<team, planDeep, entDeep, canDecide, srv, page, detail, loads, calls, live, factLoads, submitted, overtaken, carried>>
  BY DEF screenVars
<1> USE <1>1
<1>2. ScreenShape' /\ OwnAffairs' /\ PersonalHasNoFacts' /\ LiveIsOwn'
  BY DEF ScreenInv, ScreenShape, OwnAffairs, PersonalHasNoFacts, LiveIsOwn, FactsOfShown
<1>3. DetailIsAsked' /\ DecisionsAreOfShown' /\ PollsUnlessUnchanged' /\ DecidedAsSeen'
  BY DEF ScreenInv, DetailIsAsked, DecisionsAreOfShown, PollsUnlessUnchanged, DecidedAsSeen, Shown
<1> QED BY <1>2, <1>3 DEF ScreenInv

LEMMA TalksStutter == TalksInv /\ UNCHANGED talkVars => TalksInv'
<1> SUFFICES ASSUME TalksInv, UNCHANGED talkVars PROVE TalksInv'
  OBVIOUS
<1>1. UNCHANGED <<tasks, running, run, sameTool, thrown, bubbles, querying, answer, silent, paper, messages, asked, born, crossed>>
  BY DEF talkVars
<1> QED BY <1>1 DEF TalksInv, TaskInv, TasksShape, QueryInv, PaperInv

LEMMA PagesInitially == Init => PagesInv
<1> SUFFICES ASSUME Init PROVE PagesInv
  OBVIOUS
<1>1. part = "session" => HttpInv /\ RenewsWithTokens
  BY HttpInitially, TokensInitially DEF Init
<1>2. part = "screens" => ScreenInv
  BY ScreenInitially, ScreenAssumption DEF Init
<1>3. part = "checkout" => SalesInv
  BY CheckoutInitially DEF Init
<1>4. part \in Talks => TalksInv
  BY TalksInitially DEF Init
<1> QED BY <1>1, <1>2, <1>3, <1>4 DEF PagesInv

LEMMA PagesPreserved == PagesInv /\ [Next]_vars => PagesInv'
<1> SUFFICES ASSUME PagesInv, [Next]_vars PROVE PagesInv'
  OBVIOUS
<1>0. /\ part' = part
      /\ part = "session" => [HttpNext]_httpVars
      /\ part = "screens" => [ScreenNext]_screenVars
      /\ part = "checkout" => [CheckoutNext]_checkoutVars
      /\ part \in Talks => [TaskNext \/ QueryNext \/ PaperNext]_talkVars
  BY PageOfPart
<1>1. part = "session" => HttpInv' /\ RenewsWithTokens'
  BY <1>0, HttpPreserved, TokensPreserved DEF PagesInv
<1>2. part = "screens" => ScreenInv'
  BY <1>0, ScreensPreserved, ScreensStutter, ScreenAssumption DEF PagesInv
<1>3. part = "checkout" => SalesInv'
  BY <1>0, CheckoutPreserved DEF PagesInv
<1>4. part \in Talks => TalksInv'
  BY <1>0, TalksPreserved, TalksStutter DEF PagesInv
<1> QED BY <1>0, <1>1, <1>2, <1>3, <1>4 DEF PagesInv

LEMMA PagesInvariant == Spec => []PagesInv
BY PagesInitially, PagesPreserved, PTL DEF Spec

\* However many requests meet an expired access token, one renewal serves them all: each is sent again or told that it
\* failed, and the user stays signed in until the session ends at the server, a sign-out or a renewal that is lost
\* (utils/http.js, stores/auth.js).
THEOREM SessionsAreKept == Spec => []SessionIsKeptAndServed
<1>1. PagesInv => SessionIsKeptAndServed
  BY HttpInType DEF PagesInv, SessionIsKeptAndServed
<1> QED BY <1>1, PagesInvariant, PTL

\* The server the page talks to keeps what Sessions promises of the user's session: whatever requests, uploads and other
\* tabs renew, lose or repeat, a renewal rotates the session's one token or ends the session, and never revives one that
\* was ended (auth.service.ts as utils/http.js and stores/knowledge.js use it).
THEOREM SessionsAreAsPromised == Spec => SessionIsAsPromised
<1>1. ASSUME PagesInv, [Next]_vars PROVE [part = "session" => ServedAsPromised]_vars
  BY <1>1, PageOfPart, ServesPromised DEF PagesInv
<1> QED BY <1>1, PagesInvariant, PTL DEF Spec, SessionIsAsPromised

\* Whatever order answers, stages and facts come in and whichever of the reads fail, the page of a contract shows what it
\* was opened for unless reading that failed, a decision goes with the verdicts on the review decided, and a page up to
\* date offers what the server accepts, a start of the panel excepted, unless a page was left while something was under
\* way (ReviewResultView.jsx, ReviewWorkbench.jsx, stores/contract.js).
THEOREM ScreensAreTrue == Spec => []ScreensAgree
<1>1. PagesInv => ScreensAgree
  BY ScreensInType, ScreenAssumption DEF PagesInv, ScreensAgree
<1> QED BY <1>1, PagesInvariant, PTL

\* However the answers to orders, payments and starts are lost or late, a visit of the checkout pays one order of the item
\* it shows, and a visit of the page for a new review leads to one contract, besides those it made whose answers or lists
\* failed (CheckoutView.jsx, NewReviewView.jsx).
THEOREM OrdersAreAsAsked == Spec => []OrdersAsAsked
<1>1. PagesInv => OrdersAsAsked
  BY SoldAsAsked DEF PagesInv, OrdersAsAsked
<1> QED BY <1>1, PagesInvariant, PTL

\* For any number of tasks, calls and questions: a card shows the result of its own call unless one tool was called twice
\* at once, nothing spins once its stream has ended but the cards of calls that threw, and what is said on a page is about
\* its contract (stores/agent.js, stores/knowledge.js, ReviewResultView.jsx).
THEOREM TranscriptsAreTrue == Spec => []TranscriptsHold
<1>1. PagesInv => TranscriptsHold
  BY TalksInType DEF PagesInv, TranscriptsHold
<1> QED BY <1>1, PagesInvariant, PTL
================================================================================
