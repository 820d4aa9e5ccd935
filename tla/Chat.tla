--------------------------------- MODULE Chat ---------------------------------
(***************************************************************************)
(* A conversation (server/src/chat/chat.controller.ts and                  *)
(* services/chat/memory.ts): the stream that answers a message, from the   *)
(* cache or from the model, and stores both; and the deletion of a         *)
(* session.                                                                *)
(***************************************************************************)
EXTENDS AnswerCache

CONSTANTS
  ChatUsers,      \* users
  TenantOf,       \* [ChatUsers -> tenants]
  ChatIds,        \* identifiers of sessions, taken in their order
  Questions,      \* messages; the role, hence the system prompt, is one
  ChatOps,        \* streams under way
  HistoryTake,    \* the 100 messages getHistory loads
  TokenBudget,    \* the 2000 tokens trimHistory fills, one message being one
  ChatMax,        \* bound on the messages of a session
  ChatFaultMax,   \* bound on failing calls
  NoChat

(* The rows of a session: a question, or an answer with the tenant it was  *)
(* made for.                                                               *)
ChatTenants == {TenantOf[u] : u \in ChatUsers}
Answers == [q : Questions, tenant : ChatTenants]
ChatRows ==
  [role : {"USER"}, q : Questions] \cup [role : {"ASSISTANT"}, q : Questions, tenant : ChatTenants]

ASSUME ChatAssumption ==
  /\ HistoryTake \in Nat /\ TokenBudget \in Nat \ {0} /\ ChatFaultMax \in Nat
  /\ NoChat \notin [owner : ChatUsers, messages : Seq(ChatRows)] /\ Nothing \notin Answers

VARIABLES
  chats,          \* chats[s]: owner and messages of a session, or NoChat
  chatOp,         \* chatOp[o]: the stream o
  chatFaults,     \* calls that failed
  chatRaced       \* two requests worked on one session

chatVars == <<chats, chatOp, chatFaults, chatRaced, cacheVars>>

ChatIdle == [pc |-> "idle"]
OpenChats == {s \in ChatIds : chats[s] # NoChat}
UsedBy(s) == {o \in ChatOps : chatOp[o].pc # "idle" /\ chatOp[o].sid = s}

ChatInit ==
  /\ CacheInit
  /\ chats = [s \in ChatIds |-> NoChat]
  /\ chatOp = [o \in ChatOps |-> ChatIdle]
  /\ chatFaults = 0 /\ chatRaced = FALSE

ChatGo(o, place) == chatOp' = [chatOp EXCEPT ![o].pc = place]
ChatEnd(o) == chatOp' = [chatOp EXCEPT ![o] = ChatIdle]

Ask(q) == [role |-> "USER", q |-> q]
Reply(entry) == [role |-> "ASSISTANT", q |-> entry.q, tenant |-> entry.tenant]

(* A row of a session that is gone violates its foreign key.               *)
Store(o, rows, place) ==
  IF chatOp[o].sid \in OpenChats
  THEN /\ chats' = [chats EXCEPT ![chatOp[o].sid].messages = @ \o rows]
       /\ ChatGo(o, place)
  ELSE ChatGo(o, "failed") /\ UNCHANGED chats

-----------------------------------------------------------------------------
(* stream: without a session one is created, with one its owner is checked.*)
StreamNew(o) ==
  /\ chatOp[o] = ChatIdle
  /\ \E s \in ChatIds \ OpenChats, u \in ChatUsers, q \in Questions :
       /\ UsedBy(s) = {} /\ \A s0 \in ChatIds : s0 < s => s0 \in OpenChats
       /\ chats' = [chats EXCEPT ![s] = [owner |-> u, messages |-> <<>>]]
       /\ chatOp' = [chatOp EXCEPT ![o] = [pc |-> "cache", sid |-> s, by |-> u, q |-> q, new |-> TRUE]]
  /\ UNCHANGED <<chatFaults, chatRaced, cacheVars>>

StreamOn(o) ==
  /\ chatOp[o] = ChatIdle
  /\ \E s \in OpenChats, q \in Questions :
       /\ Len(chats[s].messages) < ChatMax
       /\ chatOp' = [chatOp EXCEPT ![o] =
            [pc |-> "cache", sid |-> s, by |-> chats[s].owner, q |-> q, new |-> FALSE]]
       /\ chatRaced' = (chatRaced \/ UsedBy(s) # {})
  /\ UNCHANGED <<chats, chatFaults, cacheVars>>

(* digest: the tenant is the namespace, the session is not part of it.     *)
CacheKey(op) == <<TenantOf[op.by], op.q>>

ReadCache(o) ==
  LET op == chatOp[o] IN
  /\ op.pc = "cache"
  /\ \E answers \in BOOLEAN :
     \E found \in {r.entry : r \in ToSet(l1) \cup l2} \cup {Nothing} :
       /\ CacheGet(CacheKey(op), answers, found)
       /\ chatOp' = [chatOp EXCEPT ![o] =
            IF found = Nothing THEN [op EXCEPT !.pc = "history"]
            ELSE [pc |-> "hitAsk", sid |-> op.sid, by |-> op.by, q |-> op.q, new |-> op.new, entry |-> found]]
  /\ UNCHANGED <<chats, chatFaults, chatRaced>>

(* A hit is stored too, question and answer by two statements.             *)
StoreHitAsk(o) ==
  /\ chatOp[o].pc = "hitAsk"
  /\ Store(o, <<Ask(chatOp[o].q)>>, "hitReply")
  /\ UNCHANGED <<chatFaults, chatRaced, cacheVars>>

StoreHitReply(o) ==
  /\ chatOp[o].pc = "hitReply"
  /\ Store(o, <<Reply(chatOp[o].entry)>>, "end")
  /\ UNCHANGED <<chatFaults, chatRaced, cacheVars>>

(* getHistory takes the first messages by time, trimHistory the last of    *)
(* those that fit.                                                         *)
GetHistory(messages) == SubSeq(messages, 1, IF Len(messages) < HistoryTake THEN Len(messages) ELSE HistoryTake)

TrimHistory(history) ==
  SubSeq(history, IF Len(history) > TokenBudget THEN Len(history) - TokenBudget + 1 ELSE 1, Len(history))

ReadHistory(o) ==
  LET op == chatOp[o]
      messages == IF op.sid \in OpenChats THEN chats[op.sid].messages ELSE <<>>
  IN
  /\ op.pc = "history"
  /\ chatOp' = [chatOp EXCEPT ![o] = [pc |-> "model", sid |-> op.sid, by |-> op.by, q |-> op.q, new |-> op.new,
                                      prompt |-> TrimHistory(GetHistory(messages))]]
  /\ UNCHANGED <<chats, chatFaults, chatRaced, cacheVars>>

(* The model's answer and both rows at once.                               *)
StoreAnswer(o) ==
  LET op == chatOp[o] IN
  /\ op.pc = "model"
  /\ Store(o, <<Ask(op.q), Reply([q |-> op.q, tenant |-> TenantOf[op.by]])>>, "store")
  /\ UNCHANGED <<chatFaults, chatRaced, cacheVars>>

StoreCache(o) ==
  LET op == chatOp[o] IN
  /\ op.pc = "store"
  /\ \E answers \in BOOLEAN :
       CacheSet(CacheKey(op), [q |-> op.q, tenant |-> TenantOf[op.by]], answers)
  /\ ChatGo(o, "end")
  /\ UNCHANGED <<chats, chatFaults, chatRaced>>

StreamEnds(o) ==
  /\ chatOp[o].pc = "end" /\ ChatEnd(o)
  /\ UNCHANGED <<chats, chatFaults, chatRaced, cacheVars>>

(* The quota, the model or the database refuses.                           *)
StreamFails(o) ==
  /\ chatOp[o].pc \in {"cache", "hitAsk", "hitReply", "history", "model"}
  /\ chatFaults < ChatFaultMax /\ chatFaults' = chatFaults + 1
  /\ ChatGo(o, "failed")
  /\ UNCHANGED <<chats, chatRaced, cacheVars>>

(* The handler of a failed stream counts the messages of a session it      *)
(* created itself and, with none, deletes it.                              *)
CleansUp(op) == op.new /\ op.sid \in OpenChats /\ chats[op.sid].messages = <<>>

CountMessages(o) ==
  /\ chatOp[o].pc = "failed"
  /\ IF CleansUp(chatOp[o]) THEN ChatGo(o, "delete") ELSE ChatEnd(o)
  /\ UNCHANGED <<chats, chatFaults, chatRaced, cacheVars>>

DeleteEmpty(o) ==
  /\ chatOp[o].pc = "delete"
  /\ chats' = [chats EXCEPT ![chatOp[o].sid] = NoChat]
  /\ ChatEnd(o)
  /\ UNCHANGED <<chatFaults, chatRaced, cacheVars>>

(* clearSession: the messages go with the session.                         *)
ClearChat ==
  /\ \E s \in OpenChats :
       /\ chats' = [chats EXCEPT ![s] = NoChat]
       /\ chatRaced' = (chatRaced \/ UsedBy(s) # {})
  /\ UNCHANGED <<chatOp, chatFaults, cacheVars>>

ChatNext ==
  \/ CacheTick /\ UNCHANGED <<chats, chatOp, chatFaults, chatRaced>>
  \/ ClearChat
  \/ \E o \in ChatOps :
       \/ StreamNew(o) \/ StreamOn(o) \/ ReadCache(o) \/ StoreHitAsk(o) \/ StoreHitReply(o)
       \/ ReadHistory(o) \/ StoreAnswer(o) \/ StoreCache(o) \/ StreamEnds(o) \/ StreamFails(o)
       \/ CountMessages(o) \/ DeleteEmpty(o)

-----------------------------------------------------------------------------
ChatTypeOK ==
  /\ Len(l1) <= L1Max
  /\ cacheNow \in 0 .. CacheTimeMax /\ chatFaults \in 0 .. ChatFaultMax
  /\ \A s \in OpenChats : chats[s].owner \in ChatUsers

(* An answer shown to a user was produced for this question and this       *)
(* user's tenant.                                                          *)
CachedAnswersFit ==
  \A s \in OpenChats : \A i \in DOMAIN chats[s].messages :
    LET msg == chats[s].messages[i] IN
    msg.role = "ASSISTANT" =>
      /\ msg.tenant = TenantOf[chats[s].owner]
      /\ i > 1 /\ (~chatRaced => chats[s].messages[i - 1] = Ask(msg.q))

(* A session that no stream works on is not empty, and its questions are   *)
(* all answered, unless a call failed between the two rows of a hit or two *)
(* requests worked on the session.                                         *)
ChatsAnsweredUnlessRaced ==
  ~chatRaced =>
    \A s \in OpenChats : UsedBy(s) = {} =>
      /\ chats[s].messages # <<>>
      /\ chatFaults = 0 => chats[s].messages[Len(chats[s].messages)].role = "ASSISTANT"

(* The model is shown the messages before the question, up to the budget,  *)
(* as long as the session has no more than getHistory loads.               *)
PromptIsRecent ==
  ~chatRaced => \A o \in ChatOps : chatOp[o].pc = "model" =>
    LET seen == chats[chatOp[o].sid].messages
        prompt == chatOp[o].prompt
    IN  Len(seen) <= HistoryTake =>
      /\ IsSuffix(prompt, seen)
      /\ Len(seen) >= TokenBudget => Len(prompt) = TokenBudget
==============================================================================
