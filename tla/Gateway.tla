------------------------------- MODULE Gateway -------------------------------
(***************************************************************************)
(* What a request passes before its controller: the token bucket of its    *)
(* address, in Redis or, when that fails, in the process                   *)
(* (server/src/middleware/rate-limiter.middleware.ts, redis.service.ts),   *)
(* and the checks of an uploaded file by its name and then by its first    *)
(* bytes (file-upload.middleware.ts, utils/file-guard.ts).                 *)
(***************************************************************************)
EXTENDS Integers, FiniteSets

CONSTANTS
  Capacity, RefillRate,  \* of a bucket; RefillRate tokens a tick
  KeyLife,               \* EXPIRE of the bucket, in ticks
  GateTimeMax,           \* bound on the ticks
  NoBucket

ASSUME BucketAssumption ==
  /\ {Capacity, RefillRate, KeyLife, GateTimeMax} \subseteq Nat
  /\ KeyLife * RefillRate >= Capacity   \* 60 s at 10 tokens a second against 30
  /\ NoBucket \notin [tokens : Nat, lastRefill : Nat] \cup [tokens : Nat, lastRefill : Nat, expires : Nat]

VARIABLES
  bucket,         \* the hash in Redis: tokens, lastRefill, expires; or NoBucket
  local,          \* the bucket in the process; it is never removed
  gateNow,        \* Date.now()
  granted,        \* requests let through by each bucket
  forgotten,      \* Redis lost the bucket
  upload          \* the last file handed to a parser: extension and content

gateVars == <<bucket, local, gateNow, granted, forgotten, upload>>

Least(a, b) == IF a < b THEN a ELSE b

Extensions == {"txt", "pdf", "docx", "png", "xlsx"}    \* md is as txt, jpg as png
Contents == {"text", "utf16", "pdf", "zip", "png", "binary", "empty"}
NoUpload == [ext |-> "none", content |-> "empty"]

GateInit ==
  /\ bucket = NoBucket /\ local = NoBucket
  /\ gateNow = 0
  /\ granted = [redis |-> 0, local |-> 0]
  /\ forgotten = FALSE
  /\ upload = NoUpload

(* Both buckets fill up with the time since the last refill.               *)
RefillUncapped(b) ==
  IF b = NoBucket THEN Capacity ELSE b.tokens + (gateNow - b.lastRefill) * RefillRate

Refill(b) ==
  IF b = NoBucket THEN Capacity
  ELSE Least(Capacity, b.tokens + (gateNow - b.lastRefill) * RefillRate)

(* consumeToken, one script: a refusal leaves the bucket as it was.        *)
ConsumeToken ==
  /\ IF Refill(bucket) >= 1
     THEN /\ bucket' = [tokens |-> Refill(bucket) - 1, lastRefill |-> gateNow, expires |-> gateNow + KeyLife]
          /\ granted' = [granted EXCEPT !.redis = @ + 1]
     ELSE UNCHANGED <<bucket, granted>>
  /\ UNCHANGED <<local, gateNow, forgotten, upload>>

(* localConsume, when the script fails: a refusal notes the refill.        *)
LocalConsume ==
  LET tokens == Refill(local) IN
  /\ local' = [tokens |-> IF tokens >= 1 THEN tokens - 1 ELSE tokens, lastRefill |-> gateNow]
  /\ granted' = IF tokens >= 1 THEN [granted EXCEPT !.local = @ + 1] ELSE granted
  /\ UNCHANGED <<bucket, gateNow, forgotten, upload>>

GateTick ==
  /\ gateNow < GateTimeMax /\ gateNow' = gateNow + 1
  /\ bucket' = IF bucket # NoBucket THEN (IF bucket.expires <= gateNow' THEN NoBucket ELSE bucket) ELSE bucket
  /\ UNCHANGED <<local, granted, forgotten, upload>>

(* Redis comes back without its data (once).                               *)
RedisForgets ==
  /\ bucket # NoBucket /\ ~forgotten
  /\ bucket' = NoBucket /\ forgotten' = TRUE
  /\ UNCHANGED <<local, gateNow, granted, upload>>

(* The file filters of the two upload routes, by the name alone.           *)
KnowledgeAllows == {"txt", "pdf"}
ContractAllows == KnowledgeAllows \cup {"docx", "png"}

(* assertRealFileType: the first bytes are those of the extension.         *)
RealFileType(ext, content) ==
  \/ ext \in {"pdf", "png"} /\ content = ext
  \/ ext \in {"docx", "xlsx"} /\ content = "zip"
  \/ ext = "txt" /\ content \in {"text", "utf16", "pdf"}

TakesFile ==
  /\ \E allowed \in {KnowledgeAllows, ContractAllows}, ext \in Extensions, content \in Contents :
       upload' = IF ext \in allowed /\ RealFileType(ext, content)
                 THEN [ext |-> ext, content |-> content] ELSE upload
  /\ UNCHANGED <<bucket, local, gateNow, granted, forgotten>>

GateNext == ConsumeToken \/ LocalConsume \/ GateTick \/ RedisForgets \/ TakesFile

-----------------------------------------------------------------------------
GateTypeOK ==
  /\ bucket # NoBucket => bucket.tokens \in 0 .. Capacity
  /\ local # NoBucket => local.tokens \in 0 .. Capacity
  /\ upload.ext \in Extensions \cup {"none"}

(* However the requests of an address fall, and whenever its bucket        *)
(* expires, each bucket lets through its capacity and what refills, no     *)
(* more; only a Redis that lost its data starts again with a full one.     *)
RateIsKept ==
  /\ ~forgotten => granted.redis <= Capacity + RefillRate * gateNow
  /\ granted.local <= Capacity + RefillRate * gateNow
==============================================================================
