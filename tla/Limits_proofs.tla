----------------------------- MODULE Limits_proofs -----------------------------
(***************************************************************************)
(* The parts of the server that count before they act: the limits hold for *)
(* any number of requests and any limit.  Each part has an inductive       *)
(* invariant of its own; Workspace_proofs puts them together.              *)
(***************************************************************************)
EXTENDS Ledger, Team, SignIn, Playbook, Preferences, Onboarding, Assistant, Gateway, FiniteSetTheorems, TLAPS

(* Counting a set of requests over a step that moves one of them.          *)
LEMMA OneMore ==
  ASSUME NEW S, NEW T, NEW x, IsFiniteSet(S), T \subseteq S \cup {x}
  PROVE  IsFiniteSet(T) /\ Cardinality(T) \in Nat /\ Cardinality(T) <= Cardinality(S) + 1
<1>1. /\ IsFiniteSet(S \cup {x})
      /\ \/ Cardinality(S \cup {x}) = Cardinality(S)
         \/ Cardinality(S \cup {x}) = Cardinality(S) + 1
  BY FS_AddElement
<1>2. Cardinality(S) \in Nat
  BY FS_CardinalityType
<1>3. IsFiniteSet(T) /\ Cardinality(T) <= Cardinality(S \cup {x})
  BY <1>1, FS_Subset
<1>4. Cardinality(T) \in Nat
  BY <1>3, FS_CardinalityType
<1> QED BY <1>1, <1>2, <1>3, <1>4

LEMMA OneLess ==
  ASSUME NEW S, NEW T, NEW x \in S, IsFiniteSet(S), T \subseteq S \ {x}
  PROVE  IsFiniteSet(T) /\ Cardinality(T) \in Nat /\ Cardinality(T) <= Cardinality(S) - 1
<1>1. IsFiniteSet(S \ {x}) /\ Cardinality(S \ {x}) = Cardinality(S) - 1
  BY FS_RemoveElement
<1>2. IsFiniteSet(T) /\ Cardinality(T) <= Cardinality(S \ {x})
  BY <1>1, FS_Subset
<1>3. Cardinality(T) \in Nat
  BY <1>2, FS_CardinalityType
<1> QED BY <1>1, <1>2, <1>3

LEMMA NoMore ==
  ASSUME NEW S, NEW T, IsFiniteSet(S), T \subseteq S
  PROVE  IsFiniteSet(T) /\ Cardinality(T) \in Nat /\ Cardinality(T) <= Cardinality(S)
BY FS_Subset, FS_CardinalityType

-----------------------------------------------------------------------------
(* Preferences: what a request that stores a longer library has seen.      *)
Columns == [prefs : Prefs, library : SUBSET Items]
MetaCalls == {[pc |-> "idle"]} \cup
  [pc : {"limit", "store"}, kind : {"prefs", "add", "remove"}, item : Items, prefs : Prefs, seen : Columns]

InLimit(items) == IsFiniteSet(items) /\ Cardinality(items) <= FreeLibrary

MetaShape ==
  /\ meta \in Columns /\ paid \in BOOLEAN /\ everPaid \in BOOLEAN
  /\ metaOp \in [SpaceOps -> MetaCalls]

SeenInLimit ==
  ~everPaid =>
    /\ ~paid
    /\ InLimit(meta.library)
    /\ \A o \in SpaceOps : metaOp[o].pc # "idle" =>
         /\ InLimit(metaOp[o].seen.library)
         /\ metaOp[o].pc = "store" /\ metaOp[o].kind = "add" =>
              Cardinality(metaOp[o].seen.library) < FreeLibrary

MetaInv == MetaShape /\ SeenInLimit

LEMMA MetaInitially ==
  ASSUME MetaInit PROVE MetaInv
<1>1. MetaShape
  BY PrefsAssumption DEF MetaInit, MetaShape, Columns, MetaCalls
<1>2. InLimit(meta.library)
  BY PrefsAssumption, FS_EmptySet DEF MetaInit, InLimit
<1> QED BY <1>1, <1>2 DEF MetaInit, MetaInv, SeenInLimit

LEMMA MetaPreserved ==
  ASSUME MetaInv, [MetaNext]_metaVars PROVE MetaInv'
<1> USE DEF MetaInv
<1>1. CASE UNCHANGED metaVars
  BY <1>1 DEF metaVars, MetaShape, SeenInLimit, InLimit
<1>2. CASE ChangePlan
  BY <1>2 DEF ChangePlan, MetaShape, SeenInLimit
<1>3. ASSUME NEW o \in SpaceOps, ReadMeta(o) PROVE MetaInv'
  <2>1. PICK kind \in {"prefs", "add", "remove"}, item \in Items, prefs \in Prefs :
          metaOp' = [metaOp EXCEPT ![o] = [pc |-> IF kind = "add" THEN "limit" ELSE "store",
                       kind |-> kind, item |-> item, prefs |-> prefs, seen |-> meta]]
    BY <1>3 DEF ReadMeta
  <2>2. UNCHANGED <<meta, paid, everPaid>>
    BY <1>3 DEF ReadMeta
  <2> QED BY <2>1, <2>2 DEF MetaShape, SeenInLimit, MetaCalls
<1>4. ASSUME NEW o \in SpaceOps, LibraryLimit(o) PROVE MetaInv'
  BY <1>4 DEF LibraryLimit, MetaGo, MetaEnd, MetaShape, SeenInLimit, MetaCalls
<1>5. ASSUME NEW o \in SpaceOps, StoreMeta(o) PROVE MetaInv'
  <2> DEFINE op == metaOp[o]
  <2>1. /\ op.pc = "store" /\ op \in MetaCalls
        /\ op.kind \in {"prefs", "add", "remove"} /\ op.item \in Items /\ op.prefs \in Prefs /\ op.seen \in Columns
    BY <1>5 DEF StoreMeta, MetaShape, MetaCalls
  <2>2. UNCHANGED <<paid, everPaid>> /\ metaOp' = [metaOp EXCEPT ![o] = [pc |-> "idle"]]
    BY <1>5 DEF StoreMeta, MetaEnd
  <2>3. \/ op.kind = "add" /\ meta' = [op.seen EXCEPT !.library = @ \cup {op.item}]
        \/ op.kind = "prefs" /\ meta' = [op.seen EXCEPT !.prefs = op.prefs]
        \/ op.kind = "remove" /\ meta' = [op.seen EXCEPT !.library = @ \ {op.item}]
    BY <1>5, <2>1 DEF StoreMeta, AddClause, PatchPreferences, RemoveClause
  <2>4. MetaShape'
    BY <2>1, <2>2, <2>3 DEF MetaShape, Columns, MetaCalls
  <2>5. ASSUME ~everPaid PROVE InLimit(meta'.library)
    <3>1. InLimit(op.seen.library) /\ (op.kind = "add" => Cardinality(op.seen.library) < FreeLibrary)
      BY <2>1, <2>5 DEF SeenInLimit
    <3>2. Cardinality(op.seen.library) \in Nat
      BY <3>1, FS_CardinalityType DEF InLimit
    <3>3. CASE op.kind = "add"
      <4>1. meta'.library = op.seen.library \cup {op.item}
        BY <2>1, <2>3, <3>3 DEF Columns
      <4>2. IsFiniteSet(op.seen.library)
        BY <3>1 DEF InLimit
      <4>3. /\ IsFiniteSet(op.seen.library \cup {op.item})
            /\ \/ Cardinality(op.seen.library \cup {op.item}) = Cardinality(op.seen.library)
               \/ Cardinality(op.seen.library \cup {op.item}) = Cardinality(op.seen.library) + 1
        BY <4>2, FS_AddElement
      <4> QED BY <3>1, <3>2, <3>3, <4>1, <4>3, PrefsAssumption DEF InLimit
    <3>4. CASE op.kind = "prefs"
      BY <2>1, <2>3, <3>1, <3>4 DEF Columns
    <3>5. CASE op.kind = "remove"
      <4>1. meta'.library = op.seen.library \ {op.item}
        BY <2>1, <2>3, <3>5 DEF Columns
      <4>2. /\ IsFiniteSet(meta'.library)
            /\ Cardinality(meta'.library) \in Nat /\ Cardinality(meta'.library) <= Cardinality(op.seen.library)
        BY <3>1, <4>1, FS_Subset, FS_CardinalityType DEF InLimit
      <4> QED BY <3>1, <3>2, <4>2, PrefsAssumption DEF InLimit
    <3> QED BY <2>1, <3>3, <3>4, <3>5
  <2> QED BY <2>2, <2>4, <2>5 DEF SeenInLimit, MetaShape
<1> QED BY <1>1, <1>2, <1>3, <1>4, <1>5 DEF MetaNext

LEMMA LibraryInType ==
  ASSUME MetaInv PROVE MetaTypeOK /\ LibraryWithinLimit
BY DEF MetaInv, MetaShape, SeenInLimit, InLimit, Columns, MetaTypeOK, LibraryWithinLimit

-----------------------------------------------------------------------------

(* The assistant: the free questions that will be answered, together with  *)
(* those that were, are among the first that were counted.                 *)
AskCalls == {[pc |-> "idle"]} \cup [pc : {"count", "gate", "model"}, deep : BOOLEAN, used : Nat]

AskShape ==
  /\ asked \in Nat /\ askKeyed \in BOOLEAN /\ answered \in Nat /\ questions \in 0 .. AskMax
  /\ askOp \in [AskOps -> AskCalls]

Uncounted == {o \in AskOps : askOp[o].pc = "count"}
Admitted == {o \in AskOps :
  \/ askOp[o].pc = "gate" /\ ~askOp[o].deep /\ askOp[o].used <= FreeAsks
  \/ askOp[o].pc = "model" /\ ~askOp[o].deep}

AskCounts ==
  /\ IsFiniteSet(Uncounted) /\ IsFiniteSet(Admitted)
  /\ asked + Cardinality(Uncounted) <= questions
  /\ answered + Cardinality(Admitted) <= asked
  /\ answered + Cardinality(Admitted) <= FreeAsks

AskInv == AskShape /\ AskCounts

LEMMA AssistantInitially ==
  ASSUME AssistantInit PROVE AskInv
<1>0. 0 \in 0 .. AskMax /\ [pc |-> "idle"] \in AskCalls
  BY AskAssumption DEF AskCalls
<1>1. AskShape
  BY <1>0 DEF AssistantInit, AskShape
<1>2. Uncounted = {} /\ Admitted = {}
  BY DEF AssistantInit, Uncounted, Admitted
<1> QED BY <1>1, <1>2, FS_EmptySet, AskAssumption DEF AskInv, AskCounts, AssistantInit

LEMMA AssistantPreserved ==
  ASSUME AskInv, [AssistantNext]_assistantVars PROVE AskInv'
<1> USE DEF AskInv
<1>0. Cardinality(Uncounted) \in Nat /\ Cardinality(Admitted) \in Nat
  BY FS_CardinalityType DEF AskCounts
<1>1. CASE UNCHANGED assistantVars
  BY <1>1 DEF assistantVars, AskShape, AskCounts, Uncounted, Admitted
<1>2. CASE AskKeyExpires
  <2>1. AskShape'
    BY <1>2 DEF AskKeyExpires, AskShape
  <2>2. Uncounted' = {} /\ Admitted' = {}
    BY <1>2 DEF AskKeyExpires, Uncounted, Admitted
  <2> QED BY <1>2, <2>1, <2>2, FS_EmptySet, AskAssumption DEF AskKeyExpires, AskCounts, AskShape
<1>3. ASSUME NEW o \in AskOps, AskReceive(o) PROVE AskInv'
  <2>1. AskShape'
    BY <1>3, AskAssumption DEF AskReceive, AskShape, AskCalls
  <2>2. Uncounted' \subseteq Uncounted \cup {o} /\ Admitted' \subseteq Admitted
    BY <1>3 DEF AskReceive, Uncounted, Admitted, AskShape
  <2>3. IsFiniteSet(Uncounted') /\ Cardinality(Uncounted') \in Nat /\ Cardinality(Uncounted') <= Cardinality(Uncounted) + 1
    BY <2>2, OneMore DEF AskCounts
  <2>4. IsFiniteSet(Admitted') /\ Cardinality(Admitted') \in Nat /\ Cardinality(Admitted') <= Cardinality(Admitted)
    BY <2>2, NoMore DEF AskCounts
  <2>5. questions' = questions + 1 /\ asked' = asked /\ answered' = answered
    BY <1>3 DEF AskReceive
  <2> QED BY <1>0, <2>1, <2>3, <2>4, <2>5, AskAssumption DEF AskCounts, AskShape
<1>4. ASSUME NEW o \in AskOps, CountAsk(o) PROVE AskInv'
  <2>1. o \in Uncounted
    BY <1>4 DEF CountAsk, Uncounted
  <2>2. AskShape'
    BY <1>4, AskAssumption DEF CountAsk, IncrCount, AskShape, AskCalls
  <2>3. Uncounted' \subseteq Uncounted \ {o}
    BY <1>4 DEF CountAsk, IncrCount, Uncounted, AskShape, AskCalls
  <2>4. IsFiniteSet(Uncounted') /\ Cardinality(Uncounted') \in Nat /\ Cardinality(Uncounted') <= Cardinality(Uncounted) - 1
    BY <2>1, <2>3, OneLess DEF AskCounts
  <2>5. questions' = questions /\ answered' = answered
    BY <1>4 DEF CountAsk
  <2>6. CASE asked' = asked + 1 /\ askOp' = [askOp EXCEPT ![o].used = asked + 1, ![o].pc = "gate"] /\ asked < FreeAsks
    <3>1. Admitted' \subseteq Admitted \cup {o}
      BY <2>6 DEF Admitted, AskShape, AskCalls
    <3>2. IsFiniteSet(Admitted') /\ Cardinality(Admitted') \in Nat /\ Cardinality(Admitted') <= Cardinality(Admitted) + 1
      BY <3>1, OneMore DEF AskCounts
    <3> QED BY <1>0, <2>2, <2>4, <2>5, <2>6, <3>2, AskAssumption DEF AskCounts, AskShape
  <2>7. CASE /\ asked' \in {asked, asked + 1}
             /\ asked' = asked + 1 => asked >= FreeAsks
             /\ askOp' = [askOp EXCEPT ![o].used = IF asked' = asked THEN FreeAsks + 1 ELSE asked + 1, ![o].pc = "gate"]
    <3>0. /\ askOp'[o].pc = "gate" /\ ~(askOp'[o].used <= FreeAsks)
          /\ \A p \in AskOps \ {o} : askOp'[p] = askOp[p]
      <4>1. askOp[o] \in [pc : {"count"}, deep : BOOLEAN, used : Nat]
        BY <1>4 DEF CountAsk, AskShape, AskCalls
      <4>2. askOp'[o].pc = "gate" /\ askOp'[o].used = IF asked' = asked THEN FreeAsks + 1 ELSE asked + 1
        BY <2>7, <4>1 DEF AskShape
      <4>3. \A p \in AskOps \ {o} : askOp'[p] = askOp[p]
        BY <2>7 DEF AskShape
      <4> QED BY <2>7, <4>2, <4>3, AskAssumption DEF AskShape
    <3>1. Admitted' \subseteq Admitted
      BY <3>0 DEF Admitted
    <3>2. IsFiniteSet(Admitted') /\ Cardinality(Admitted') \in Nat /\ Cardinality(Admitted') <= Cardinality(Admitted)
      BY <3>1, NoMore DEF AskCounts
    <3> QED BY <1>0, <2>2, <2>4, <2>5, <2>7, <3>2, AskAssumption DEF AskCounts, AskShape
  <2>8. asked \in Nat /\ FreeAsks \in Nat
    BY AskAssumption DEF AskShape
  <2> QED BY <1>4, <2>6, <2>7, <2>8 DEF CountAsk, IncrCount
<1>5. ASSUME NEW o \in AskOps, GateAsk(o) PROVE AskInv'
  <2>0. askOp' \in [AskOps -> AskCalls]
    BY <1>5 DEF GateAsk, AskEnd, AskShape, AskCalls
  <2>1. AskShape'
    BY <1>5, <2>0 DEF GateAsk, AskShape
  <2>2. Uncounted' \subseteq Uncounted /\ Admitted' \subseteq Admitted
    BY <1>5, AskAssumption DEF GateAsk, AskEnd, Uncounted, Admitted, AskShape, AskCalls
  <2>3. /\ IsFiniteSet(Uncounted') /\ Cardinality(Uncounted') \in Nat /\ Cardinality(Uncounted') <= Cardinality(Uncounted)
        /\ IsFiniteSet(Admitted') /\ Cardinality(Admitted') \in Nat /\ Cardinality(Admitted') <= Cardinality(Admitted)
    BY <2>2, NoMore DEF AskCounts
  <2>4. asked' = asked /\ questions' = questions /\ answered' = answered
    BY <1>5 DEF GateAsk
  <2> QED BY <1>0, <2>1, <2>3, <2>4, AskAssumption DEF AskCounts, AskShape
<1>6. ASSUME NEW o \in AskOps, Answer(o) PROVE AskInv'
  <2>1. AskShape'
    BY <1>6 DEF Answer, AskEnd, AskShape, AskCalls
  <2>2. Uncounted' \subseteq Uncounted /\ Admitted' \subseteq Admitted \ {o}
    BY <1>6 DEF Answer, AskEnd, Uncounted, Admitted, AskShape, AskCalls
  <2>3. IsFiniteSet(Uncounted') /\ Cardinality(Uncounted') \in Nat /\ Cardinality(Uncounted') <= Cardinality(Uncounted)
    BY <2>2, NoMore DEF AskCounts
  <2>4. asked' = asked /\ questions' = questions
    BY <1>6 DEF Answer
  <2>5. CASE askOp[o].deep
    <3>1. answered' = answered
      BY <1>6, <2>5 DEF Answer
    <3>2. IsFiniteSet(Admitted') /\ Cardinality(Admitted') \in Nat /\ Cardinality(Admitted') <= Cardinality(Admitted)
      BY <2>2, NoMore DEF AskCounts
    <3> QED BY <1>0, <2>1, <2>3, <2>4, <3>1, <3>2, AskAssumption DEF AskCounts, AskShape
  <2>6. CASE ~askOp[o].deep
    <3>1. o \in Admitted /\ answered' \in {answered, answered + 1}
      BY <1>6, <2>6 DEF Answer, Admitted
    <3>2. IsFiniteSet(Admitted') /\ Cardinality(Admitted') \in Nat /\ Cardinality(Admitted') <= Cardinality(Admitted) - 1
      BY <2>2, <3>1, OneLess DEF AskCounts
    <3> QED BY <1>0, <2>1, <2>3, <2>4, <3>1, <3>2, AskAssumption DEF AskCounts, AskShape
  <2> QED BY <2>5, <2>6
<1> QED BY <1>1, <1>2, <1>3, <1>4, <1>5, <1>6 DEF AssistantNext

LEMMA AskedInType ==
  ASSUME AskInv PROVE AssistantTypeOK /\ FreeAsksWithinLimit
<1>1. Cardinality(Uncounted) \in Nat /\ Cardinality(Admitted) \in Nat
  BY FS_CardinalityType DEF AskInv, AskCounts
<1>2. asked \in 0 .. AskMax /\ answered \in 0 .. AskMax /\ questions \in 0 .. AskMax /\ answered <= FreeAsks
  BY <1>1, AskAssumption DEF AskInv, AskCounts, AskShape
<1> QED BY <1>2 DEF AskInv, AskShape, AskCalls, AssistantTypeOK, FreeAsksWithinLimit

-----------------------------------------------------------------------------

(* The sample contract: while no call failed and no two requests           *)
(* overlapped, a sample without the marker is in one request's hands.      *)
SampleRows == [job : BOOLEAN, keep : BOOLEAN]
SampleCalls == {[pc |-> "idle"]} \cup
  [pc : {"plan", "contract", "enqueue", "mark"}, keep : BOOLEAN, at : Nat]

SampleShape ==
  /\ keeps \in BOOLEAN /\ sampleMarked \in BOOLEAN /\ sampleRaced \in BOOLEAN /\ sampleFaults \in Nat
  /\ samples \in Seq(SampleRows)
  /\ sampleOp \in [SampleOps -> SampleCalls]

Creating == {o \in SampleOps : sampleOp[o].pc \in {"enqueue", "mark"}}

SampleWorks ==
  /\ \A o \in Creating : /\ sampleOp[o].at \in 1 .. Len(samples)
                         /\ sampleOp[o].pc = "mark" => samples[sampleOp[o].at].job
  /\ MarkedHasJob
  /\ \/ sampleRaced \/ sampleFaults > 0
     \/ Len(samples) <= 1 /\ (Len(samples) = 1 => sampleMarked \/ Creating # {})

SampleInv == SampleShape /\ SampleWorks

LEMMA SampleInitially ==
  ASSUME SampleInit PROVE SampleInv
<1>1. [pc |-> "idle"] \in SampleCalls /\ <<>> \in Seq(SampleRows) /\ Len(<<>>) = 0
  BY DEF SampleCalls
<1>2. SampleShape
  BY <1>1 DEF SampleInit, SampleShape
<1>3. Creating = {}
  BY DEF SampleInit, Creating
<1> QED BY <1>1, <1>2, <1>3 DEF SampleInit, SampleInv, SampleWorks, MarkedHasJob

LEMMA SamplePreserved ==
  ASSUME SampleInv, [SampleNext]_sampleVars PROVE SampleInv'
<1> USE DEF SampleInv
<1>0. Len(samples) \in Nat /\ DOMAIN samples = 1 .. Len(samples)
  BY DEF SampleShape
<1>1. CASE UNCHANGED sampleVars
  BY <1>1 DEF sampleVars, SampleShape, SampleWorks, Creating, MarkedHasJob
<1>2. CASE BuyMonth
  BY <1>2 DEF BuyMonth, SampleShape, SampleWorks, Creating, MarkedHasJob
<1>3. ASSUME NEW o \in SampleOps, HasSampleContract(o) PROVE SampleInv'
  <2>1. sampleOp' = [sampleOp EXCEPT ![o] = [pc |-> "plan", keep |-> FALSE, at |-> 0]]
    BY <1>3 DEF HasSampleContract
  <2>2. [pc |-> "plan", keep |-> FALSE, at |-> 0] \in SampleCalls
    BY DEF SampleCalls
  <2>3. Creating' = Creating /\ \A p \in Creating : sampleOp'[p] = sampleOp[p]
    BY <1>3, <2>1 DEF HasSampleContract, Creating, SampleShape
  <2>4. UNCHANGED <<keeps, samples, sampleMarked, sampleFaults, sampleRaced>>
    BY <1>3 DEF HasSampleContract
  <2>5. SampleShape'
    BY <2>1, <2>2, <2>4 DEF SampleShape
  <2> QED BY <2>3, <2>4, <2>5 DEF SampleWorks, MarkedHasJob
<1>4. ASSUME NEW o \in SampleOps, ReadSpacePlan(o) PROVE SampleInv'
  <2>1. UNCHANGED <<keeps, samples, sampleMarked, sampleFaults, sampleRaced>>
    BY <1>4 DEF ReadSpacePlan
  <2>0. sampleOp[o] \in [pc : {"plan"}, keep : BOOLEAN, at : Nat]
    BY <1>4 DEF ReadSpacePlan, SampleShape, SampleCalls
  <2>2. SampleShape'
    <3>1. [sampleOp[o] EXCEPT !.pc = "contract", !.keep = keeps] \in SampleCalls
      BY <2>0 DEF SampleShape, SampleCalls
    <3> QED BY <1>4, <2>1, <3>1 DEF ReadSpacePlan, SampleShape
  <2>3. Creating' = Creating /\ \A p \in Creating : sampleOp'[p] = sampleOp[p]
    BY <1>4 DEF ReadSpacePlan, Creating, SampleShape, SampleCalls
  <2> QED BY <2>1, <2>2, <2>3 DEF SampleWorks, MarkedHasJob
<1>5. ASSUME NEW o \in SampleOps, CreateSample(o) PROVE SampleInv'
  <2> DEFINE row == [job |-> FALSE, keep |-> sampleOp[o].keep]
  <2>1. /\ sampleOp[o].pc = "contract"
        /\ sampleOp[o] \in [pc : {"contract"}, keep : BOOLEAN, at : Nat]
    BY <1>5 DEF CreateSample, SampleShape, SampleCalls
  <2>2. row \in SampleRows /\ samples' = Append(samples, row)
    BY <1>5, <2>1 DEF CreateSample, SampleRows
  <2>3. /\ samples' \in Seq(SampleRows) /\ Len(samples') = Len(samples) + 1
        /\ \A i \in 1 .. Len(samples) : samples'[i] = samples[i]
        /\ DOMAIN samples' = 1 .. Len(samples) + 1
    BY <2>2 DEF SampleShape
  <2>4. /\ sampleOp' = [sampleOp EXCEPT ![o].pc = "enqueue", ![o].at = Len(samples) + 1]
        /\ UNCHANGED <<keeps, sampleMarked, sampleFaults>>
        /\ sampleRaced' = (sampleRaced \/ sampleMarked \/ \E p \in SampleOps \ {o} : sampleOp[p].pc \in {"enqueue", "mark"})
    BY <1>5 DEF CreateSample
  <2>5. /\ sampleOp' \in [SampleOps -> SampleCalls]
        /\ sampleOp'[o].pc = "enqueue" /\ sampleOp'[o].at = Len(samples) + 1
        /\ \A p \in SampleOps \ {o} : sampleOp'[p] = sampleOp[p]
    <3> DEFINE up == [sampleOp[o] EXCEPT !.pc = "enqueue"]
               op == [up EXCEPT !.at = Len(samples) + 1]
    <3>0. up \in [pc : {"enqueue"}, keep : BOOLEAN, at : Nat]
      BY <2>1
    <3>2. sampleOp' = [sampleOp EXCEPT ![o] = op]
      BY <2>4
    <3> HIDE DEF up
    <3>1. op \in [pc : {"enqueue"}, keep : BOOLEAN, at : Nat] /\ op.at = Len(samples) + 1
      BY <1>0, <3>0
    <3>3. op \in SampleCalls /\ op.pc = "enqueue"
      BY <3>1 DEF SampleCalls
    <3> HIDE DEF op
    <3> QED BY <3>1, <3>2, <3>3 DEF SampleShape
  <2>6. SampleShape'
    BY <2>3, <2>4, <2>5 DEF SampleShape
  <2>7. Creating' = Creating \cup {o} /\ o \notin Creating
    BY <2>1, <2>5 DEF Creating
  <2>8. \A p \in Creating' : /\ sampleOp'[p].at \in 1 .. Len(samples')
                             /\ sampleOp'[p].pc = "mark" => samples'[sampleOp'[p].at].job
    BY <1>0, <2>3, <2>5, <2>7 DEF SampleWorks, Creating
  <2>9. MarkedHasJob'
    BY <1>0, <2>3, <2>4 DEF SampleWorks, MarkedHasJob
  <2>10. ~sampleRaced' => Creating = {} /\ ~sampleMarked /\ ~sampleRaced
    BY <2>4, <2>7 DEF Creating, SampleShape
  <2>11. sampleRaced' \/ sampleFaults' > 0 \/ (Len(samples') <= 1 /\ Creating' # {})
    BY <1>0, <2>3, <2>4, <2>7, <2>10 DEF SampleWorks, SampleShape
  <2> QED BY <2>6, <2>8, <2>9, <2>11 DEF SampleWorks
<1>6. ASSUME NEW o \in SampleOps, EnqueueSample(o) PROVE SampleInv'
  <2>1. /\ o \in Creating /\ sampleOp[o].at \in 1 .. Len(samples)
        /\ sampleOp[o] \in [pc : {"enqueue"}, keep : BOOLEAN, at : Nat]
    BY <1>6 DEF EnqueueSample, Creating, SampleWorks, SampleShape, SampleCalls
  <2>2. /\ samples' = [samples EXCEPT ![sampleOp[o].at].job = TRUE]
        /\ sampleOp' = [sampleOp EXCEPT ![o].pc = "mark"]
        /\ UNCHANGED <<keeps, sampleMarked, sampleFaults, sampleRaced>>
    BY <1>6 DEF EnqueueSample, Enqueued, SampleGo
  <2>3. /\ samples' \in Seq(SampleRows) /\ Len(samples') = Len(samples)
        /\ \A i \in 1 .. Len(samples) : samples[i].job => samples'[i].job
        /\ samples'[sampleOp[o].at].job
        /\ DOMAIN samples' = 1 .. Len(samples)
    <3>1. \A i \in 1 .. Len(samples) : samples[i] \in SampleRows
      BY DEF SampleShape
    <3>2. [samples[sampleOp[o].at] EXCEPT !.job = TRUE] \in SampleRows /\ [samples[sampleOp[o].at] EXCEPT !.job = TRUE].job
      BY <2>1, <3>1 DEF SampleRows
    <3>3. samples' = [samples EXCEPT ![sampleOp[o].at] = [samples[sampleOp[o].at] EXCEPT !.job = TRUE]]
      BY <2>2
    <3> HIDE <2>2
    <3>4. samples' \in Seq(SampleRows) /\ Len(samples') = Len(samples) /\ DOMAIN samples' = 1 .. Len(samples)
      BY <2>1, <3>2, <3>3 DEF SampleShape
    <3>5. /\ samples'[sampleOp[o].at].job
          /\ \A i \in 1 .. Len(samples) : i # sampleOp[o].at => samples'[i] = samples[i]
      BY <1>0, <2>1, <3>2, <3>3
    <3> QED BY <3>4, <3>5
  <2>4. /\ sampleOp' \in [SampleOps -> SampleCalls]
        /\ sampleOp'[o].pc = "mark" /\ sampleOp'[o].at = sampleOp[o].at
        /\ \A p \in SampleOps \ {o} : sampleOp'[p] = sampleOp[p]
    BY <2>1, <2>2 DEF SampleShape, SampleCalls
  <2>5. SampleShape'
    BY <2>2, <2>3, <2>4 DEF SampleShape
  <2>6. Creating' = Creating
    BY <2>1, <2>4 DEF Creating
  <2>7. \A p \in Creating' : /\ sampleOp'[p].at \in 1 .. Len(samples')
                             /\ sampleOp'[p].pc = "mark" => samples'[sampleOp'[p].at].job
    BY <2>1, <2>3, <2>4, <2>6 DEF SampleWorks, Creating
  <2>8. MarkedHasJob'
    BY <1>0, <2>2, <2>3 DEF SampleWorks, MarkedHasJob
  <2> QED BY <2>2, <2>3, <2>5, <2>6, <2>7, <2>8 DEF SampleWorks
<1>7. ASSUME NEW o \in SampleOps, MarkSample(o) PROVE SampleInv'
  <2>1. /\ o \in Creating /\ sampleOp[o].at \in DOMAIN samples /\ samples[sampleOp[o].at].job
    BY <1>0, <1>7 DEF MarkSample, Creating, SampleWorks
  <2>2. /\ sampleOp' = [sampleOp EXCEPT ![o] = [pc |-> "idle"]] /\ sampleMarked' = TRUE
        /\ UNCHANGED <<keeps, samples, sampleFaults, sampleRaced>>
    BY <1>7 DEF MarkSample, SampleEnd
  <2>3. [pc |-> "idle"] \in SampleCalls
    BY DEF SampleCalls
  <2>4. SampleShape'
    BY <2>2, <2>3 DEF SampleShape
  <2>5. \A p \in Creating' : p \in Creating /\ sampleOp'[p] = sampleOp[p]
    BY <2>2 DEF Creating, SampleShape
  <2> QED BY <2>1, <2>2, <2>4, <2>5 DEF SampleWorks, MarkedHasJob
<1>8. ASSUME NEW o \in SampleOps, SampleFails(o) PROVE SampleInv'
  <2>1. /\ sampleOp' = [sampleOp EXCEPT ![o] = [pc |-> "idle"]] /\ sampleFaults' = sampleFaults + 1
        /\ UNCHANGED <<keeps, samples, sampleMarked, sampleRaced>>
    BY <1>8 DEF SampleFails, SampleEnd
  <2>2. [pc |-> "idle"] \in SampleCalls
    BY DEF SampleCalls
  <2>3. SampleShape' /\ sampleFaults' > 0
    BY <2>1, <2>2 DEF SampleShape
  <2>4. \A p \in Creating' : p \in Creating /\ sampleOp'[p] = sampleOp[p]
    BY <2>1 DEF Creating, SampleShape
  <2> QED BY <2>1, <2>3, <2>4 DEF SampleWorks, MarkedHasJob
<1> QED BY <1>1, <1>2, <1>3, <1>4, <1>5, <1>6, <1>7, <1>8 DEF SampleNext

LEMMA SamplesAgree ==
  ASSUME SampleInv PROVE SampleTypeOK /\ OneSampleUnlessRaced /\ MarkedHasJob
<1>1. Len(samples) \in Nat /\ \A i \in DOMAIN samples : samples[i] \in SampleRows
  BY DEF SampleInv, SampleShape
<1> QED BY <1>1 DEF SampleInv, SampleWorks, SampleRows, SampleTypeOK, OneSampleUnlessRaced

-----------------------------------------------------------------------------

(* The playbook: a rule's counter is not behind the scans that are over,   *)
(* and a copy of the pack that raced no other brings titles not there yet. *)
BookCalls == {[pc |-> "idle"]}
  \cup [pc : {"write"}, kind : {"title", "toggle", "delete"}, id : RuleIds]
  \cup [pc : {"copy"}, fresh : SUBSET PackTitles]
ScanPlaces == [pc : {"idle", "done"}] \cup [pc : {"insert", "count"}, hit : SUBSET RuleIds]

BookShape ==
  /\ book \in [RuleIds -> BookRows \cup {Unwritten, Deleted}]
  /\ found \subseteq Scans \X RuleIds
  /\ rop \in [RuleOps -> BookCalls]
  /\ scan \in [Scans -> ScanPlaces]
  /\ packRaced \in BOOLEAN

ScansDone == {t \in Scans : scan[t].pc = "done"}
CountedIn(i) == {t \in ScansDone : <<t, i>> \in found}

FindingsOfScans ==
  \A t \in Scans, i \in RuleIds : <<t, i>> \in found =>
    /\ book[i] # Unwritten
    /\ scan[t].pc \in {"count", "done"}
    /\ scan[t].pc = "count" => i \in scan[t].hit
HitsOfRules ==
  \A t \in Scans : scan[t].pc \in {"insert", "count"} => \A i \in scan[t].hit : book[i] # Unwritten
HitsBounded ==
  \A i \in BookRules : book[i].hits >= Cardinality(CountedIn(i)) /\ book[i].hits <= Cardinality(ScansDone)

ScansAgree == FindingsOfScans /\ HitsOfRules /\ HitsBounded

BookInv == BookShape /\ ScansAgree /\ PackOnceUnlessRaced

LEMMA PlaybookInitially ==
  ASSUME PlaybookInit PROVE BookInv
<1>1. [pc |-> "idle"] \in BookCalls /\ [pc |-> "idle"] \in ScanPlaces
  BY DEF BookCalls, ScanPlaces
<1>2. BookShape
  BY <1>1 DEF PlaybookInit, BookShape
<1>3. BookRules = {}
  BY DEF PlaybookInit, BookRules
<1> QED BY <1>2, <1>3 DEF PlaybookInit, BookInv, ScansAgree, FindingsOfScans, HitsOfRules, HitsBounded, PackOnceUnlessRaced

(* What a step keeps that leaves findings and scans alone and neither      *)
(* brings a row back nor changes the hits of one.                          *)
LEMMA RowsWritten ==
  ASSUME BookInv, BookShape', UNCHANGED <<found, scan>>,
         \A i \in RuleIds : book[i] # Unwritten => book'[i] # Unwritten,
         \A i \in BookRules' : \/ i \in BookRules /\ book'[i].hits = book[i].hits
                               \/ book[i] = Unwritten /\ book'[i].hits = 0
  PROVE  ScansAgree'
<1> USE DEF BookInv
<1>1. ScansDone' = ScansDone /\ \A i : CountedIn(i)' = CountedIn(i)
  BY DEF ScansDone, CountedIn
<1>2. IsFiniteSet(ScansDone) /\ Cardinality(ScansDone) \in Nat
  BY PlaybookAssumption, FS_Subset, FS_CardinalityType DEF ScansDone
<1>3. ASSUME NEW i \in RuleIds, book[i] = Unwritten PROVE CountedIn(i) = {}
  BY <1>3 DEF ScansAgree, FindingsOfScans, HitsOfRules, HitsBounded, CountedIn, ScansDone
<1>4. ASSUME NEW i \in BookRules'
      PROVE  book'[i].hits >= Cardinality(CountedIn(i)) /\ book'[i].hits <= Cardinality(ScansDone)
  <2>1. CASE i \in BookRules /\ book'[i].hits = book[i].hits
    BY <2>1 DEF ScansAgree, FindingsOfScans, HitsOfRules, HitsBounded
  <2>2. CASE book[i] = Unwritten /\ book'[i].hits = 0
    <3>1. CountedIn(i) = {}
      BY <1>3, <1>4, <2>2 DEF BookRules
    <3> QED BY <1>2, <2>2, <3>1, FS_EmptySet
  <2> QED BY <1>4, <2>1, <2>2
<1>5. HitsBounded'
  BY <1>1, <1>4 DEF HitsBounded
<1>6. FindingsOfScans'
  BY DEF ScansAgree, FindingsOfScans
<1>7. HitsOfRules'
  BY DEF ScansAgree, HitsOfRules, BookShape, ScanPlaces
<1> QED BY <1>5, <1>6, <1>7 DEF ScansAgree

LEMMA PlaybookPreserved ==
  ASSUME BookInv, [PlaybookNext]_playbookVars PROVE BookInv'
<1> USE DEF BookInv
<1>1. CASE UNCHANGED playbookVars
  BY <1>1 DEF playbookVars, BookShape, ScansAgree, FindingsOfScans, HitsOfRules, HitsBounded, BookRules, CountedIn, ScansDone, PackOnceUnlessRaced
<1>2. CASE CreateRule
  <2>1. PICK n \in FreshRows : book' = [book EXCEPT ![n] = BookRow(OwnTitle, "MANUAL")]
    BY <1>2 DEF CreateRule
  <2>2. UNCHANGED <<found, rop, scan, packRaced>>
    BY <1>2 DEF CreateRule
  <2>a. BookRow(OwnTitle, "MANUAL") \in BookRows
    BY DEF BookRow, BookRows
  <2>3. BookRow(OwnTitle, "MANUAL") \in BookRows /\ BookRow(OwnTitle, "MANUAL") # Unwritten
    BY <2>a, PlaybookAssumption
  <2>4. /\ n \in RuleIds /\ book[n] = Unwritten /\ book'[n] = BookRow(OwnTitle, "MANUAL")
        /\ \A i \in RuleIds \ {n} : book'[i] = book[i]
    BY <2>1 DEF FreshRows, BookShape
  <2>5. BookShape'
    BY <2>1, <2>2, <2>3 DEF BookShape
  <2>6. \A i \in BookRules' : i = n \/ (i \in BookRules /\ book'[i] = book[i])
    BY <2>4 DEF BookRules
  <2>7. book'[n].hits = 0 /\ book'[n].source = "MANUAL"
    BY <2>4 DEF BookRow
  <2>8. ScansAgree'
    BY <2>2, <2>3, <2>4, <2>5, <2>6, <2>7, RowsWritten
  <2> QED BY <2>2, <2>5, <2>6, <2>7, <2>8 DEF PackOnceUnlessRaced
<1>3. ASSUME NEW o \in RuleOps, FindRule(o) PROVE BookInv'
  <2>1. PICK i \in BookRules, kind \in {"title", "toggle", "delete"} :
          rop' = [rop EXCEPT ![o] = [pc |-> "write", kind |-> kind, id |-> i]]
    BY <1>3 DEF FindRule
  <2>2. [pc |-> "write", kind |-> kind, id |-> i] \in BookCalls
    BY <2>1 DEF BookCalls, BookRules
  <2>3. UNCHANGED <<book, found, scan, packRaced>>
    BY <1>3 DEF FindRule
  <2>4. BookShape'
    BY <2>1, <2>2, <2>3 DEF BookShape
  <2> QED BY <2>3, <2>4 DEF ScansAgree, FindingsOfScans, HitsOfRules, HitsBounded, BookRules, CountedIn, ScansDone, PackOnceUnlessRaced
<1>4. ASSUME NEW o \in RuleOps, WriteRule(o) PROVE BookInv'
  <2> DEFINE op == rop[o]
  <2>1. op.pc = "write" /\ op.kind \in {"title", "toggle", "delete"} /\ op.id \in RuleIds
    BY <1>4 DEF WriteRule, BookShape, BookCalls
  <2>2. rop' = [rop EXCEPT ![o] = [pc |-> "idle"]] /\ UNCHANGED <<found, scan>>
    BY <1>4 DEF WriteRule, RuleEnd
  <2>3. [pc |-> "idle"] \in BookCalls
    BY DEF BookCalls
  <2>4. CASE op.id \notin BookRules
    <3>1. UNCHANGED <<book, packRaced>>
      BY <1>4, <2>4 DEF WriteRule
    <3>2. BookShape'
      BY <2>2, <2>3, <3>1 DEF BookShape
    <3> QED BY <2>2, <3>1, <3>2 DEF ScansAgree, FindingsOfScans, HitsOfRules, HitsBounded, BookRules, CountedIn, ScansDone, PackOnceUnlessRaced
  <2>5. CASE op.id \in BookRules
    <3> DEFINE row == CASE op.kind = "title"  -> [book[op.id] EXCEPT !.title = OwnTitle]
                        [] op.kind = "toggle" -> [book[op.id] EXCEPT !.enabled = ~book[op.id].enabled]
                        [] op.kind = "delete" -> Deleted
    <3>a. packRaced' = (packRaced \/ op.kind = "title")
      BY <1>4, <2>5 DEF WriteRule
    <3>b. book' = [book EXCEPT ![op.id] = row]
      BY <1>4, <2>5 DEF WriteRule
    <3>1. book' = [book EXCEPT ![op.id] = row] /\ packRaced' = (packRaced \/ op.kind = "title")
      BY <3>a, <3>b
    <3>2. book[op.id] \in BookRows
      BY <2>5 DEF BookRules, BookShape
    <3>3. \/ op.kind = "delete" /\ row = Deleted
          \/ /\ op.kind # "delete"
             /\ row \in BookRows /\ row.hits = book[op.id].hits /\ row.source = book[op.id].source
             /\ op.kind = "toggle" => row.title = book[op.id].title
      <4>1. CASE op.kind = "title"
        <5>1. row = [book[op.id] EXCEPT !.title = OwnTitle]
          BY <4>1
        <5> QED BY <3>2, <4>1, <5>1 DEF BookRows
      <4>2. CASE op.kind = "toggle"
        <5>1. row = [book[op.id] EXCEPT !.enabled = ~book[op.id].enabled]
          BY <4>2
        <5> QED BY <3>2, <4>2, <5>1 DEF BookRows
      <4>3. CASE op.kind = "delete"
        BY <4>3
      <4> QED BY <2>1, <4>1, <4>2, <4>3
    <3> HIDE DEF row
    <3>4. BookShape'
      BY <2>1, <2>2, <2>3, <3>1, <3>3 DEF BookShape
    <3>5. row # Unwritten
      BY <3>3, PlaybookAssumption
    <3>c. /\ \A i \in RuleIds \ {op.id} : book'[i] = book[i]
          /\ book'[op.id] = row
      BY <2>1, <3>1 DEF BookShape
    <3>d. op.kind = "delete" => op.id \notin BookRules'
      BY <3>3, <3>c DEF BookRules
    <3>6. /\ \A i \in RuleIds : book[i] # Unwritten => book'[i] # Unwritten
          /\ \A i \in BookRules' : /\ i \in BookRules /\ book'[i].hits = book[i].hits
                                   /\ book'[i].source = book[i].source
                                   /\ op.kind # "title" => book'[i].title = book[i].title
      BY <2>1, <2>5, <3>3, <3>5, <3>c, <3>d DEF BookRules
    <3>7. ScansAgree'
      BY <2>2, <3>4, <3>6, RowsWritten
    <3>8. PackOnceUnlessRaced'
      <4>1. CASE packRaced \/ op.kind = "title"
        BY <3>1, <4>1 DEF PackOnceUnlessRaced
      <4>2. CASE ~packRaced /\ op.kind # "title"
        BY <3>6, <4>2 DEF PackOnceUnlessRaced
      <4> QED BY <4>1, <4>2
    <3> QED BY <3>4, <3>7, <3>8
  <2> QED BY <2>4, <2>5
<1>5. ASSUME NEW o \in RuleOps, ReadPack(o) PROVE BookInv'
  <2>1. rop' = [rop EXCEPT ![o] = [pc |-> "copy", fresh |-> PackTitles \ SeedTitles]]
    BY <1>5 DEF ReadPack
  <2>2. [pc |-> "copy", fresh |-> PackTitles \ SeedTitles] \in BookCalls
    BY DEF BookCalls
  <2>3. UNCHANGED <<book, found, scan, packRaced>>
    BY <1>5 DEF ReadPack
  <2>4. BookShape'
    BY <2>1, <2>2, <2>3 DEF BookShape
  <2> QED BY <2>3, <2>4 DEF ScansAgree, FindingsOfScans, HitsOfRules, HitsBounded, BookRules, CountedIn, ScansDone, PackOnceUnlessRaced
<1>6. ASSUME NEW o \in RuleOps, CopyPack(o) PROVE BookInv'
  <2> DEFINE fresh == rop[o].fresh
  <2>1. fresh \subseteq PackTitles
    BY <1>6 DEF CopyPack, BookShape, BookCalls
  <2>a. PICK ids \in SUBSET FreshRows :
          /\ Cardinality(ids) = Cardinality(fresh)
          /\ \E title \in [ids -> fresh] :
               /\ {title[i] : i \in ids} = fresh
               /\ book' = [i \in RuleIds |-> IF i \in ids THEN BookRow(title[i], "SEED_PACK") ELSE book[i]]
    BY <1>6 DEF CopyPack
  <2>b. PICK title \in [ids -> fresh] :
          /\ {title[i] : i \in ids} = fresh
          /\ book' = [i \in RuleIds |-> IF i \in ids THEN BookRow(title[i], "SEED_PACK") ELSE book[i]]
    BY <2>a
  <2>2. Cardinality(ids) = Cardinality(fresh)
    BY <2>a
  <2>3. /\ UNCHANGED <<found, scan>> /\ packRaced' = (packRaced \/ fresh \cap SeedTitles # {})
        /\ rop' = [rop EXCEPT ![o] = [pc |-> "idle"]]
    BY <1>6 DEF CopyPack, RuleEnd
  <2>4. ids \subseteq RuleIds /\ IsFiniteSet(ids)
    BY PlaybookAssumption, FS_Subset DEF FreshRows
  <2>5. title \in Surjection(ids, fresh)
    BY <2>b DEF Surjection
  <2>6. \A i, j \in ids : title[i] = title[j] => i = j
    BY <2>2, <2>4, <2>5, FS_SurjSameCardinalityImpliesInj DEF Injection, IsInjective
  <2>7. \A i \in ids : /\ book'[i] = BookRow(title[i], "SEED_PACK") /\ book'[i] \in BookRows
                       /\ book'[i].hits = 0 /\ book'[i].title = title[i] /\ title[i] \in fresh
                       /\ book[i] = Unwritten
    BY <2>1, <2>b, <2>4 DEF BookRow, BookRows, FreshRows
  <2>8. \A i \in RuleIds \ ids : book'[i] = book[i]
    BY <2>b
  <2>9. BookShape'
    <3>1. [pc |-> "idle"] \in BookCalls
      BY DEF BookCalls
    <3>2. book' \in [RuleIds -> BookRows \cup {Unwritten, Deleted}]
      BY <2>b, <2>7, <2>8 DEF BookShape
    <3> QED BY <2>3, <3>1, <3>2 DEF BookShape
  <2>10. \A i \in BookRules' : i \in ids \/ (i \in BookRules /\ book'[i] = book[i])
    BY <2>8 DEF BookRules
  <2>11. \A i \in RuleIds : book[i] # Unwritten => book'[i] # Unwritten
    BY <2>7, <2>8
  <2>12. ScansAgree'
    BY <2>3, <2>7, <2>9, <2>10, <2>11, RowsWritten
  <2>13. ASSUME ~packRaced', NEW i \in BookRules', NEW j \in BookRules',
                book'[i].source = "SEED_PACK", book'[j].source = "SEED_PACK", book'[i].title = book'[j].title
         PROVE  i = j
    <3>1. ~packRaced /\ fresh \cap SeedTitles = {}
      BY <2>3, <2>13
    <3>2. CASE i \in ids /\ j \in ids
      BY <2>6, <2>7, <2>13, <3>2
    <3>3. CASE i \notin ids /\ j \notin ids
      BY <2>10, <2>13, <3>1, <3>3 DEF PackOnceUnlessRaced
    <3>4. ASSUME NEW a \in ids, NEW b \in BookRules, book'[b] = book[b], book[b].source = "SEED_PACK"
          PROVE  book'[a].title # book'[b].title
      BY <2>7, <3>1, <3>4 DEF SeedTitles
    <3> QED BY <2>10, <2>13, <3>2, <3>3, <3>4
  <2>14. PackOnceUnlessRaced'
    BY <2>13 DEF PackOnceUnlessRaced
  <2> QED BY <2>9, <2>12, <2>14
<1>7. ASSUME NEW t \in Scans, ReadRules(t) PROVE BookInv'
  <2>1. PICK hit \in SUBSET BookRules : scan' = [scan EXCEPT ![t] = [pc |-> "insert", hit |-> hit]]
    BY <1>7 DEF ReadRules
  <2>2. UNCHANGED <<book, found, rop, packRaced>> /\ scan[t].pc = "idle"
    BY <1>7 DEF ReadRules
  <2>3. [pc |-> "insert", hit |-> hit] \in ScanPlaces /\ hit \subseteq BookRules /\ hit \subseteq RuleIds
    BY <2>1 DEF ScanPlaces, BookRules
  <2>4. BookShape'
    BY <2>1, <2>2, <2>3 DEF BookShape
  <2>5. /\ scan'[t] = [pc |-> "insert", hit |-> hit] /\ scan'[t].pc = "insert" /\ scan'[t].hit = hit
        /\ \A s \in Scans \ {t} : scan'[s] = scan[s]
    BY <2>1 DEF BookShape
  <2>6. BookRules' = BookRules /\ ScansDone' = ScansDone
    BY <2>2, <2>5 DEF BookRules, ScansDone
  <2>7. \A i : CountedIn(i)' = CountedIn(i)
    BY <2>2, <2>6 DEF CountedIn
  <2>8. \A i \in RuleIds : <<t, i>> \notin found
    BY <2>2 DEF ScansAgree, FindingsOfScans, HitsOfRules, HitsBounded
  <2>9. \A i \in hit : book[i] # Unwritten
    BY <2>3 DEF BookRules
  <2>10. ScansAgree'
    BY <2>2, <2>5, <2>6, <2>7, <2>8, <2>9 DEF ScansAgree, FindingsOfScans, HitsOfRules, HitsBounded
  <2> QED BY <2>2, <2>4, <2>6, <2>10 DEF PackOnceUnlessRaced
<1>8. ASSUME NEW t \in Scans, InsertRisks(t) PROVE BookInv'
  <2>1. scan[t] \in [pc : {"insert"}, hit : SUBSET RuleIds]
    BY <1>8 DEF InsertRisks, BookShape, ScanPlaces
  <2>2. /\ found' = {f \in found : f[1] # t} \cup ({t} \X scan[t].hit)
        /\ scan' = [scan EXCEPT ![t].pc = "count"]
        /\ UNCHANGED <<book, rop, packRaced>>
    BY <1>8 DEF InsertRisks
  <2>3. /\ scan'[t].pc = "count" /\ scan'[t].hit = scan[t].hit /\ scan'[t] \in ScanPlaces
        /\ \A s \in Scans \ {t} : scan'[s] = scan[s]
    BY <2>1, <2>2 DEF BookShape, ScanPlaces
  <2>4. /\ found' \subseteq Scans \X RuleIds
        /\ \A i \in RuleIds : <<t, i>> \in found' => i \in scan[t].hit
        /\ \A s \in Scans \ {t}, i \in RuleIds : <<s, i>> \in found' <=> <<s, i>> \in found
    BY <2>1, <2>2 DEF BookShape
  <2>5. BookShape'
    BY <2>2, <2>3, <2>4 DEF BookShape
  <2>6. BookRules' = BookRules /\ ScansDone' = ScansDone /\ t \notin ScansDone
    BY <2>1, <2>2, <2>3 DEF BookRules, ScansDone
  <2>7. \A i \in RuleIds : CountedIn(i)' = CountedIn(i)
    BY <2>4, <2>6 DEF CountedIn, ScansDone
  <2>8. ScansAgree'
    BY <2>1, <2>2, <2>3, <2>4, <2>6, <2>7 DEF ScansAgree, FindingsOfScans, HitsOfRules, HitsBounded, BookRules
  <2> QED BY <2>2, <2>5, <2>6, <2>8 DEF PackOnceUnlessRaced
<1>9. ASSUME NEW t \in Scans, CountHits(t) PROVE BookInv'
  <2>1. scan[t] \in [pc : {"count"}, hit : SUBSET RuleIds]
    BY <1>9 DEF CountHits, BookShape, ScanPlaces
  <2>2. /\ book' = [i \in RuleIds |->
             IF i \in scan[t].hit \cap BookRules THEN [book[i] EXCEPT !.hits = @ + 1] ELSE book[i]]
        /\ scan' = [scan EXCEPT ![t] = [pc |-> "done"]]
        /\ UNCHANGED <<found, rop, packRaced>>
    BY <1>9 DEF CountHits, CountAtOnce
  <2>3. /\ scan'[t].pc = "done" /\ scan'[t] \in ScanPlaces
        /\ \A s \in Scans \ {t} : scan'[s] = scan[s]
    BY <2>2 DEF BookShape, ScanPlaces
  <2>4. \A i \in BookRules : book[i] \in BookRows
    BY DEF BookRules, BookShape
  <2>5. /\ \A i \in scan[t].hit \cap BookRules :
             /\ book'[i] \in BookRows /\ book'[i].hits = book[i].hits + 1
             /\ book'[i].title = book[i].title /\ book'[i].source = book[i].source
        /\ \A i \in RuleIds : i \notin scan[t].hit \cap BookRules => book'[i] = book[i]
    BY <2>1, <2>2, <2>4 DEF BookRows, BookRules
  <2>6. \A i \in RuleIds : book'[i] \in BookRows \cup {Unwritten, Deleted}
    BY <2>5 DEF BookShape
  <2>7. book' \in [RuleIds -> BookRows \cup {Unwritten, Deleted}]
    BY <2>2, <2>6
  <2>8. BookShape'
    BY <2>2, <2>3, <2>7 DEF BookShape
  <2>9. \A i \in BookRules' : /\ i \in BookRules /\ i \in RuleIds
                              /\ book'[i].title = book[i].title /\ book'[i].source = book[i].source
    BY <2>5 DEF BookRules
  <2>10. \A i \in RuleIds : book[i] # Unwritten => book'[i] # Unwritten
    BY <2>5, PlaybookAssumption
  <2>11. ScansDone' = ScansDone \cup {t} /\ t \notin ScansDone
    BY <2>1, <2>3 DEF ScansDone
  <2>12. IsFiniteSet(ScansDone) /\ Cardinality(ScansDone) \in Nat /\ IsFiniteSet(ScansDone')
    BY PlaybookAssumption, FS_Subset, FS_CardinalityType DEF ScansDone
  <2>13. Cardinality(ScansDone') = Cardinality(ScansDone) + 1
    BY <2>11, <2>12, FS_AddElement
  <2>14. ASSUME NEW i \in BookRules'
         PROVE  book'[i].hits >= Cardinality(CountedIn(i)') /\ book'[i].hits <= Cardinality(ScansDone')
    <3>1. i \in BookRules /\ i \in RuleIds /\ book[i].hits \in Nat
      BY <2>4, <2>9 DEF BookRows
    <3>2. /\ book[i].hits >= Cardinality(CountedIn(i)) /\ book[i].hits <= Cardinality(ScansDone)
          /\ book'[i].hits \in {book[i].hits, book[i].hits + 1}
      BY <2>5, <3>1 DEF ScansAgree, FindingsOfScans, HitsOfRules, HitsBounded
    <3>3. IsFiniteSet(CountedIn(i)) /\ Cardinality(CountedIn(i)) \in Nat
      BY <2>12, NoMore DEF CountedIn
    <3>4. CASE <<t, i>> \in found
      <4>1. i \in scan[t].hit
        BY <2>1, <3>1, <3>4 DEF ScansAgree, FindingsOfScans, HitsOfRules, HitsBounded
      <4>2. book'[i].hits = book[i].hits + 1
        BY <2>5, <3>1, <4>1
      <4>3. CountedIn(i)' \subseteq CountedIn(i) \cup {t}
        BY <2>2, <2>11 DEF CountedIn
      <4>4. Cardinality(CountedIn(i)') \in Nat /\ Cardinality(CountedIn(i)') <= Cardinality(CountedIn(i)) + 1
        BY <3>3, <4>3, OneMore
      <4> QED BY <2>12, <2>13, <3>1, <3>2, <3>3, <4>2, <4>4
    <3>5. CASE <<t, i>> \notin found
      <4>1. CountedIn(i)' = CountedIn(i)
        BY <2>2, <2>11, <3>5 DEF CountedIn
      <4> QED BY <2>12, <2>13, <3>1, <3>2, <3>3, <4>1
    <3> QED BY <3>4, <3>5
  <2>15. HitsBounded'
    BY <2>14 DEF HitsBounded
  <2>16. FindingsOfScans'
    BY <2>1, <2>2, <2>3, <2>10 DEF ScansAgree, FindingsOfScans
  <2>17. HitsOfRules'
    BY <2>1, <2>2, <2>3, <2>10 DEF ScansAgree, HitsOfRules, BookShape, ScanPlaces
  <2> QED BY <2>2, <2>8, <2>9, <2>15, <2>16, <2>17 DEF ScansAgree, PackOnceUnlessRaced
<1> QED BY <1>1, <1>2, <1>3, <1>4, <1>5, <1>6, <1>7, <1>8, <1>9 DEF PlaybookNext

LEMMA BookAgrees ==
  ASSUME BookInv PROVE PlaybookTypeOK /\ PackOnceUnlessRaced /\ HitsAreCounted
<1> USE DEF BookInv
<1>1. IsFiniteSet(ScansDone) /\ Cardinality(ScansDone) \in Nat /\ Cardinality(ScansDone) <= Cardinality(Scans)
  BY PlaybookAssumption, NoMore DEF ScansDone
<1>2. \A i \in BookRules : book[i] \in BookRows
  BY DEF BookRules, BookShape
<1>3. PlaybookTypeOK
  <2>1. Cardinality(Scans) \in Nat
    BY PlaybookAssumption, FS_CardinalityType
  <2> QED BY <1>1, <1>2, <2>1 DEF PlaybookTypeOK, BookRows, ScansAgree, FindingsOfScans, HitsOfRules, HitsBounded, BookShape
<1>4. ASSUME NEW i \in BookRules, \A t \in Scans : scan[t].pc # "count" PROVE CountedIn(i) = {t \in Scans : <<t, i>> \in found}
  BY <1>4 DEF CountedIn, ScansDone, ScansAgree, FindingsOfScans, HitsOfRules, HitsBounded, BookRules
<1> QED BY <1>3, <1>4 DEF HitsAreCounted, ScansAgree, FindingsOfScans, HitsOfRules, HitsBounded, CountHits30d

-----------------------------------------------------------------------------

(* Signing in: requests that did not overlap count every wrong guess, and  *)
(* the one that is let in leaves no code behind.                           *)
GuessCalls == [pc : {"compare", "tally", "store", "consume", "create", "lookup", "mark", "issue"},
               kind : {"register", "byCode"}, guess : Nat, persona : Personas, saw : Nat]
SignCalls == [pc : {"idle", "in"}] \cup GuessCalls \cup [pc : {"issue"}, kind : {"password"}]
Users == [status : {"ACTIVE", "DISABLED"}, verified : BOOLEAN, role : {"ADMIN", "USER"}, space : Personas]

SignShape ==
  /\ code \in Nat /\ sends \in 0 .. MaxSends /\ code <= sends
  /\ attempts \in Nat /\ attempts < MaxAttempts
  /\ guesses \in 0 .. MaxGuesses /\ passes \in Nat /\ codeRaced \in BOOLEAN
  /\ account \in {NoAccount} \cup Users
  /\ sop \in [SignOps -> SignCalls]
  /\ \A o \in SignOps : sop[o].pc = "mark" => account # NoAccount

Counting(o) == sop[o].pc \in {"tally", "store"}

OnePass ==
  /\ passes <= 1
  /\ passes = 1 => code = NoCode
  /\ \A o \in SignOps : sop[o].pc = "consume" => passes = 0

GuessesAreCounted ==
  code # NoCode =>
    /\ guesses <= attempts + 1
    /\ (\A o \in SignOps : ~Counting(o)) => guesses <= attempts
    /\ \A o \in SignOps : sop[o].pc = "store" => sop[o].saw = attempts + 1

OneAtCode == \A p, q \in SignOps : AtCode(p) /\ AtCode(q) => p = q

CodeWorks == codeRaced \/ (OneAtCode /\ OnePass /\ GuessesAreCounted)

SignInv == SignShape /\ CodeWorks

LEMMA SignInitially ==
  ASSUME SignInit PROVE SignInv
<1>1. SignIdle \in SignCalls /\ SignIdle.pc = "idle"
  BY DEF SignIdle, SignCalls
<1>a. 0 \in 0 .. MaxSends /\ 0 \in 0 .. MaxGuesses /\ 0 < MaxAttempts
  BY SignAssumption
<1>b. sop \in [SignOps -> SignCalls] /\ \A o \in SignOps : sop[o].pc # "mark"
  BY <1>1 DEF SignInit
<1>2. SignShape
  <2>1. code = 0 /\ sends = 0 /\ attempts = 0 /\ guesses = 0 /\ passes = 0 /\ codeRaced = FALSE /\ account = NoAccount
    BY DEF SignInit, NoCode
  <2>2. code \in Nat /\ sends \in 0 .. MaxSends /\ code <= sends /\ attempts \in Nat /\ attempts < MaxAttempts
    BY <1>a, <2>1
  <2>3. guesses \in 0 .. MaxGuesses /\ passes \in Nat /\ codeRaced \in BOOLEAN /\ account \in {NoAccount} \cup Users
    BY <1>a, <2>1
  <2> QED BY <1>b, <2>2, <2>3 DEF SignShape
<1> QED BY <1>1, <1>2 DEF SignInit, SignInv, CodeWorks, OneAtCode, OnePass, GuessesAreCounted, AtCode, Counting, NoCode

(* A step that leaves the code and its counts alone and brings no request  *)
(* to the code.                                                            *)
LEMMA CodeUntouched ==
  ASSUME SignInv, SignShape', UNCHANGED <<code, attempts, guesses, passes, codeRaced>>,
         \A o \in SignOps : AtCode(o)' => sop'[o] = sop[o],
         \A o \in SignOps : AtCode(o) => sop'[o] = sop[o]
  PROVE  SignInv'
<1>1. \A o \in SignOps : (AtCode(o)' <=> AtCode(o)) /\ (AtCode(o) => sop'[o] = sop[o])
  BY DEF AtCode
<1>2. \A o \in SignOps : Counting(o)' <=> Counting(o)
  BY <1>1 DEF AtCode, Counting
<1>3. OneAtCode => OneAtCode'
  BY <1>1 DEF OneAtCode
<1>4. OnePass => OnePass'
  BY <1>1 DEF OnePass, AtCode
<1>5. GuessesAreCounted => GuessesAreCounted'
  BY <1>1, <1>2 DEF GuessesAreCounted, AtCode
<1> QED BY <1>3, <1>4, <1>5 DEF SignInv, CodeWorks

LEMMA SignPreserved ==
  ASSUME SignInv, [SignNext]_signVars PROVE SignInv' /\ AccountIsStable
<1> USE DEF SignInv
<1>a. AccountIsStable \/ account' # account
  BY DEF AccountIsStable
<1>b. ASSUME SignShape', account # NoAccount, account' \in Users, account'.role = account.role, account'.space = account.space
      PROVE  AccountIsStable
  BY <1>b DEF AccountIsStable, NoAccount, Users
<1>1. CASE UNCHANGED signVars
  <2>1. SignShape'
    BY <1>1 DEF signVars, SignShape
  <2> QED BY <1>1, <1>a, <2>1, CodeUntouched DEF signVars, AtCode
<1>2. CASE SendCode
  <2>1. /\ code' = sends + 1 /\ sends' = sends + 1 /\ sends < MaxSends /\ guesses' = 0 /\ passes' = 0
        /\ codeRaced' = (codeRaced \/ \E o \in SignOps : AtCode(o))
        /\ UNCHANGED <<attempts, account, sop>>
    BY <1>2 DEF SendCode
  <2>2. SignShape'
    BY <2>1, SignAssumption DEF SignShape
  <2>3. ~codeRaced' => \A o \in SignOps : ~AtCode(o)'
    BY <2>1 DEF AtCode
  <2>4. CodeWorks'
    BY <2>1, <2>3 DEF CodeWorks, OneAtCode, OnePass, GuessesAreCounted, AtCode, SignShape
  <2> QED BY <1>a, <2>1, <2>2, <2>4
<1>3. CASE ResetAttempts
  <2>1. /\ attempts' = 0 /\ codeRaced' = (codeRaced \/ guesses > 0 \/ \E o \in SignOps : AtCode(o))
        /\ UNCHANGED <<code, account, sends, sop, guesses, passes>>
    BY <1>3 DEF ResetAttempts
  <2>2. SignShape'
    BY <2>1, SignAssumption DEF SignShape
  <2>a. ASSUME ~codeRaced' PROVE ~codeRaced /\ ~(guesses > 0) /\ \A o \in SignOps : ~AtCode(o)
    BY <2>1, <2>a
  <2>b. ~(guesses > 0) => guesses = 0
    BY SignAssumption DEF SignShape
  <2>3. ~codeRaced' => (\A o \in SignOps : ~AtCode(o)') /\ guesses = 0 /\ ~codeRaced
    BY <2>1, <2>a, <2>b DEF AtCode
  <2>4. CodeWorks'
    BY <2>1, <2>3 DEF CodeWorks, OneAtCode, OnePass, GuessesAreCounted, AtCode, SignShape
  <2> QED BY <1>a, <2>1, <2>2, <2>4
<1>4. CASE CooldownEnds
  <2>1. SignShape'
    BY <1>4 DEF CooldownEnds, ghostVars, SignShape
  <2> QED BY <1>4, <1>a, <2>1, CodeUntouched DEF CooldownEnds, ghostVars, AtCode
<1>5. CASE CodeExpires \/ AttemptsExpire
  <2>1. /\ code' = NoCode /\ attempts' \in {0, attempts}
        /\ UNCHANGED <<sends, account, sop, guesses, passes, codeRaced>>
    BY <1>5 DEF CodeExpires, AttemptsExpire, ghostVars
  <2>2. SignShape'
    BY <2>1, SignAssumption DEF SignShape, NoCode
  <2>3. CodeWorks'
    BY <2>1 DEF CodeWorks, OneAtCode, OnePass, GuessesAreCounted, AtCode
  <2> QED BY <1>a, <2>1, <2>2, <2>3
<1>6. CASE Invited
  <2>1. /\ account = NoAccount
        /\ account' = [status |-> "ACTIVE", verified |-> FALSE, role |-> "USER", space |-> "TEAM"]
        /\ UNCHANGED <<code, attempts, sends, sop, guesses, passes, codeRaced>>
    BY <1>6 DEF Invited, redisVars, ghostVars
  <2>2. account' \in Users
    BY <2>1 DEF Users, Personas
  <2>a. account' # NoAccount
    BY <2>1 DEF NoAccount
  <2>3. SignShape'
    BY <2>1, <2>2, <2>a DEF SignShape
  <2> QED BY <2>1, <2>3, CodeUntouched DEF AtCode, AccountIsStable
<1>7. CASE ConsoleDisables
  <2>1. /\ account # NoAccount /\ account' = [account EXCEPT !.status = "DISABLED"]
        /\ UNCHANGED <<code, attempts, sends, sop, guesses, passes, codeRaced>>
    BY <1>7 DEF ConsoleDisables, redisVars, ghostVars
  <2>2. account' \in Users /\ account'.role = account.role /\ account'.space = account.space
    BY <2>1 DEF SignShape, Users
  <2>a. account' # NoAccount
    BY <2>2 DEF NoAccount, Users
  <2>3. SignShape'
    BY <2>1, <2>2, <2>a DEF SignShape
  <2> QED BY <1>b, <2>1, <2>2, <2>3, CodeUntouched DEF AtCode
<1>8. ASSUME NEW o \in SignOps, Register(o) \/ LoginByCode(o) PROVE SignInv' /\ AccountIsStable
  <2>1. PICK op \in GuessCalls : op.pc = "compare" /\ sop' \in {sop, [sop EXCEPT ![o] = op]}
    <3>1. ASSUME NEW kind \in {"register", "byCode"}, NEW guess \in 0 .. sends, NEW persona \in Personas
          PROVE  [pc |-> "compare", kind |-> kind, guess |-> guess, persona |-> persona, saw |-> 0] \in GuessCalls
      BY DEF GuessCalls, SignShape
    <3>2. 0 \in 0 .. sends /\ "PERSONAL" \in Personas
      BY DEF SignShape, Personas
    <3> QED BY <1>8, <3>1, <3>2 DEF Register, LoginByCode
  <2>2. sop[o] = SignIdle /\ UNCHANGED <<code, attempts, sends, account, guesses, passes, codeRaced>>
    BY <1>8 DEF Register, LoginByCode, redisVars, ghostVars
  <2>3. SignShape'
    BY <2>1, <2>2 DEF SignShape, SignCalls
  <2>4. \A p \in SignOps : (AtCode(p) \/ AtCode(p)') => sop'[p] = sop[p]
    BY <2>1, <2>2 DEF AtCode, SignShape, SignIdle
  <2> QED BY <1>a, <2>2, <2>3, <2>4, CodeUntouched
<1>9. ASSUME NEW o \in SignOps, CompareCode(o) PROVE SignInv' /\ AccountIsStable
  <2> DEFINE op == sop[o]
  <2>1. op.pc = "compare" /\ op \in GuessCalls
    BY <1>9 DEF CompareCode, SignShape, SignCalls
  <2>2. /\ codeRaced' = (codeRaced \/ \E p \in SignOps : AtCode(p))
        /\ UNCHANGED <<code, attempts, sends, account, passes>>
        /\ op.guess # code => guesses < MaxGuesses
    BY <1>9 DEF CompareCode, redisVars
  <2>3. ~codeRaced' => ~codeRaced /\ \A p \in SignOps : ~AtCode(p)
    BY <2>2 DEF SignShape
  <2>4. CASE code = NoCode
    <3>1. sop' = [sop EXCEPT ![o] = [pc |-> "idle"]] /\ guesses' = guesses
      BY <1>9, <2>4 DEF CompareCode, SignEnd
    <3>2. [pc |-> "idle"] \in SignCalls
      BY DEF SignCalls
    <3>3. SignShape'
      BY <2>2, <3>1, <3>2 DEF SignShape
    <3>4. ~codeRaced' => \A p \in SignOps : ~AtCode(p)'
      BY <2>3, <3>1 DEF AtCode, SignShape
    <3>5. CodeWorks'
      BY <2>2, <2>3, <2>4, <3>1, <3>4 DEF CodeWorks, OneAtCode, OnePass, GuessesAreCounted, AtCode
    <3> QED BY <1>a, <2>2, <3>3, <3>5
  <2>5. CASE code # NoCode /\ code = op.guess
    <3>1. sop' = [sop EXCEPT ![o].pc = "consume"] /\ guesses' = guesses
      BY <1>9, <2>5 DEF CompareCode, SignGo
    <3>2. [sop[o] EXCEPT !.pc = "consume"] \in GuessCalls /\ [sop[o] EXCEPT !.pc = "consume"].pc = "consume"
      BY <2>1 DEF GuessCalls
    <3>3. SignShape'
      BY <2>2, <3>1, <3>2 DEF SignShape, SignCalls
    <3>4. sop'[o].pc = "consume" /\ \A p \in SignOps \ {o} : sop'[p] = sop[p]
      BY <3>1, <3>2 DEF SignShape
    <3>5. ~codeRaced' => \A p \in SignOps \ {o} : ~AtCode(p)'
      BY <2>3, <3>4 DEF AtCode
    <3>6. (OneAtCode' /\ OnePass' /\ GuessesAreCounted') \/ codeRaced'
      BY <2>2, <2>3, <2>5, <3>1, <3>4, <3>5 DEF CodeWorks, OneAtCode, OnePass, GuessesAreCounted, AtCode, Counting, SignShape
    <3> QED BY <1>a, <2>2, <3>3, <3>6 DEF CodeWorks
  <2>6. CASE code # NoCode /\ code # op.guess
    <3>1. sop' = [sop EXCEPT ![o].pc = "tally"] /\ guesses' = guesses + 1
      BY <1>9, <2>6 DEF CompareCode, SignGo
    <3>2. [sop[o] EXCEPT !.pc = "tally"] \in GuessCalls /\ [sop[o] EXCEPT !.pc = "tally"].pc = "tally"
      BY <2>1 DEF GuessCalls
    <3>a. guesses' \in 0 .. MaxGuesses
      BY <2>2, <2>6, <3>1, SignAssumption DEF SignShape
    <3>3. SignShape'
      BY <2>2, <3>1, <3>2, <3>a DEF SignShape, SignCalls
    <3>4. sop'[o].pc = "tally" /\ \A p \in SignOps \ {o} : sop'[p] = sop[p]
      BY <3>1, <3>2 DEF SignShape
    <3>5. ~codeRaced' => \A p \in SignOps \ {o} : ~AtCode(p)'
      BY <2>3, <3>4 DEF AtCode
    <3>6. (OneAtCode' /\ OnePass' /\ GuessesAreCounted') \/ codeRaced'
      BY <2>2, <2>3, <2>6, <3>1, <3>4, <3>5 DEF CodeWorks, OneAtCode, OnePass, GuessesAreCounted, AtCode, Counting, SignShape
    <3> QED BY <1>a, <2>2, <3>3, <3>6 DEF CodeWorks
  <2> QED BY <2>4, <2>5, <2>6
<1>10. ASSUME NEW o \in SignOps, Tally(o) PROVE SignInv' /\ AccountIsStable
  <2> DEFINE up == [sop[o] EXCEPT !.pc = "store"]
             op == [up EXCEPT !.saw = attempts + 1]
  <2>1. sop[o].pc = "tally" /\ sop[o] \in GuessCalls
    BY <1>10 DEF Tally, SignShape, SignCalls
  <2>2. sop' = [sop EXCEPT ![o] = op] /\ UNCHANGED <<code, attempts, sends, account, guesses, passes, codeRaced>>
    BY <1>10 DEF Tally, redisVars, ghostVars
  <2>3. up \in GuessCalls /\ up.pc = "store"
    BY <2>1 DEF GuessCalls
  <2> HIDE DEF up
  <2>4. op \in GuessCalls /\ op.pc = "store" /\ op.saw = attempts + 1
    BY <2>3 DEF GuessCalls, SignShape
  <2> HIDE DEF op
  <2>5. SignShape'
    BY <2>2, <2>4 DEF SignShape, SignCalls
  <2>6. sop'[o].pc = "store" /\ sop'[o].saw = attempts + 1 /\ \A p \in SignOps \ {o} : sop'[p] = sop[p]
    BY <2>2, <2>4 DEF SignShape
  <2>7. /\ \A p \in SignOps : (AtCode(p)' <=> AtCode(p)) /\ (Counting(p)' <=> Counting(p))
        /\ \A p \in SignOps : sop'[p].pc = "consume" => sop[p].pc = "consume"
    BY <2>1, <2>6 DEF AtCode, Counting
  <2>8. CodeWorks'
    BY <2>1, <2>2, <2>6, <2>7 DEF CodeWorks, OneAtCode, OnePass, GuessesAreCounted
  <2> QED BY <1>a, <2>2, <2>5, <2>8
<1>11. ASSUME NEW o \in SignOps, StoreAttempts(o) PROVE SignInv' /\ AccountIsStable
  <2>1. sop[o].pc = "store" /\ sop[o] \in GuessCalls /\ sop[o].saw \in Nat
    BY <1>11 DEF StoreAttempts, SignShape, SignCalls, GuessCalls
  <2>2. /\ sop' = [sop EXCEPT ![o] = [pc |-> "idle"]]
        /\ UNCHANGED <<sends, account, guesses, passes, codeRaced>>
    BY <1>11 DEF StoreAttempts, SignEnd, ghostVars
  <2>3. \/ code' = NoCode /\ attempts' = 0
        \/ sop[o].saw < MaxAttempts /\ attempts' = sop[o].saw /\ code' = code
    BY <1>11, <2>1, SignAssumption DEF StoreAttempts, VoidCode
  <2>4. [pc |-> "idle"] \in SignCalls
    BY DEF SignCalls
  <2>5. SignShape'
    BY <2>1, <2>2, <2>3, <2>4, SignAssumption DEF SignShape, NoCode
  <2>6. sop'[o].pc = "idle" /\ \A p \in SignOps \ {o} : sop'[p] = sop[p]
    BY <2>2 DEF SignShape
  <2>7. OneAtCode => \A p \in SignOps : ~AtCode(p)'
    BY <2>1, <2>6 DEF OneAtCode, AtCode
  <2>8. CodeWorks'
    BY <2>1, <2>2, <2>3, <2>7 DEF CodeWorks, OneAtCode, OnePass, GuessesAreCounted, AtCode, SignShape
  <2> QED BY <1>a, <2>2, <2>5, <2>8
<1>12. ASSUME NEW o \in SignOps, ConsumeCode(o) PROVE SignInv' /\ AccountIsStable
  <2>1. sop[o].pc = "consume" /\ sop[o] \in GuessCalls
    BY <1>12 DEF ConsumeCode, SignShape, SignCalls
  <2>2. PICK place \in {"create", "lookup"} : sop' = [sop EXCEPT ![o].pc = place]
    BY <1>12 DEF ConsumeCode, SignGo
  <2>3. /\ code' = NoCode /\ attempts' = 0 /\ passes' = passes + 1
        /\ UNCHANGED <<sends, account, guesses, codeRaced>>
    BY <1>12 DEF ConsumeCode
  <2>4. [sop[o] EXCEPT !.pc = place] \in GuessCalls /\ [sop[o] EXCEPT !.pc = place].pc = place
    BY <2>1, <2>2 DEF GuessCalls
  <2>5. sop'[o].pc = place /\ \A p \in SignOps \ {o} : sop'[p] = sop[p]
    BY <2>2, <2>4 DEF SignShape
  <2>6. SignShape'
    <3>1. sop' \in [SignOps -> SignCalls]
      BY <2>2, <2>4 DEF SignShape, SignCalls
    <3>2. \A p \in SignOps : sop'[p].pc = "mark" => account # NoAccount
      BY <2>2, <2>5 DEF SignShape
    <3> QED BY <2>3, <3>1, <3>2, SignAssumption DEF SignShape, NoCode
  <2>7. OneAtCode => \A p \in SignOps : ~AtCode(p)'
    BY <2>1, <2>2, <2>5 DEF OneAtCode, AtCode
  <2>8. CodeWorks'
    BY <2>1, <2>3, <2>7 DEF CodeWorks, OneAtCode, OnePass, GuessesAreCounted, AtCode, SignShape
  <2> QED BY <1>a, <2>3, <2>6, <2>8
<1>13. ASSUME NEW o \in SignOps,
              CreateAccount(o) \/ LookUpUser(o) \/ MarkVerified(o) \/ ValidateUser(o) \/ IssueTokens(o)
       PROVE  SignInv' /\ AccountIsStable
  <2>1. /\ UNCHANGED <<code, attempts, sends, guesses, passes, codeRaced>>
        /\ sop[o].pc \in {"create", "lookup", "mark", "issue", "idle"}
    <3>1. SignIdle.pc = "idle"
      BY DEF SignIdle
    <3> QED BY <1>13, <3>1 DEF CreateAccount, LookUpUser, MarkVerified, ValidateUser, IssueTokens, redisVars, ghostVars
  <2>2. \/ account' = account
        \/ account = NoAccount /\ account' \in Users
        \/ account # NoAccount /\ account' \in Users /\ account'.role = account.role /\ account'.space = account.space
    <3>1. CASE CreateAccount(o)
      <4>1. sop[o] \in GuessCalls
        BY <3>1 DEF CreateAccount, SignShape, SignCalls
      <4>2. NewAccount(sop[o].kind, sop[o].persona) \in Users
        BY <4>1 DEF NewAccount, Users, GuessCalls, Personas
      <4> QED BY <3>1, <4>2 DEF CreateAccount
    <3>2. CASE MarkVerified(o)
      <4>1. account \in Users /\ account' = [account EXCEPT !.verified = TRUE]
        BY <3>2 DEF MarkVerified, SignShape
      <4>2. account # NoAccount
        BY <3>2 DEF MarkVerified, SignShape
      <4> QED BY <4>1, <4>2 DEF Users
    <3> QED BY <1>13, <3>1, <3>2 DEF LookUpUser, ValidateUser, IssueTokens
  <2>3. PICK op \in SignCalls :
          /\ sop' \in {sop, [sop EXCEPT ![o] = op]}
          /\ op.pc \in {"idle", "in", "create", "mark", "issue"}
          /\ op.pc = "mark" => account # NoAccount
    <3>1. /\ [pc |-> "idle"] \in SignCalls /\ [pc |-> "in"] \in SignCalls
          /\ [pc |-> "issue", kind |-> "password"] \in SignCalls
      BY DEF SignCalls
    <3>2. ASSUME NEW place \in {"create", "mark", "issue"}, sop[o].pc \in {"create", "lookup", "mark"}
          PROVE  [sop[o] EXCEPT !.pc = place] \in SignCalls /\ [sop[o] EXCEPT !.pc = place].pc = place
      <4>1. sop[o] \in GuessCalls
        BY <3>2 DEF SignShape, SignCalls
      <4> QED BY <4>1 DEF SignCalls, GuessCalls
    <3>3. CASE CreateAccount(o)
      BY <3>1, <3>2, <3>3 DEF CreateAccount, SignGo, SignEnd
    <3>4. CASE LookUpUser(o)
      <4>1. CASE account = NoAccount
        BY <3>2, <3>4, <4>1 DEF LookUpUser, SignGo, NoAccount
      <4>2. CASE account # NoAccount /\ account.status # "ACTIVE"
        BY <3>1, <3>4, <4>2 DEF LookUpUser, SignEnd, NoAccount
      <4>3. CASE account # NoAccount /\ ~(account.status # "ACTIVE")
        BY <3>2, <3>4, <4>3 DEF LookUpUser, SignGo
      <4> QED BY <4>1, <4>2, <4>3
    <3>5. CASE MarkVerified(o)
      BY <3>2, <3>5 DEF MarkVerified, SignGo
    <3>6. CASE ValidateUser(o)
      BY <3>1, <3>6 DEF ValidateUser
    <3>7. CASE IssueTokens(o)
      BY <3>1, <3>7 DEF IssueTokens, SignEnd
    <3> QED BY <1>13, <3>3, <3>4, <3>5, <3>6, <3>7
  <2>4. \A p \in SignOps \ {o} : sop'[p] = sop[p]
    BY <2>3 DEF SignShape
  <2>5. sop' = sop \/ sop'[o] = op
    BY <2>3 DEF SignShape
  <2>6. \A p \in SignOps : AtCode(p) \/ AtCode(p)' => sop'[p] = sop[p]
    BY <2>1, <2>3, <2>4, <2>5 DEF AtCode
  <2>7. account # NoAccount => account' # NoAccount
    BY <2>2 DEF NoAccount, Users
  <2>8. SignShape'
    <3>1. sop' \in [SignOps -> SignCalls]
      BY <2>3 DEF SignShape
    <3>2. account' \in {NoAccount} \cup Users
      BY <2>2 DEF SignShape
    <3>3. \A p \in SignOps : sop'[p].pc = "mark" => account' # NoAccount
      BY <2>3, <2>4, <2>5, <2>7 DEF SignShape
    <3> QED BY <2>1, <3>1, <3>2, <3>3 DEF SignShape
  <2>9. AccountIsStable
    BY <2>2, <2>7 DEF AccountIsStable
  <2> QED BY <2>1, <2>6, <2>8, <2>9, CodeUntouched
<1> QED BY <1>1, <1>2, <1>3, <1>4, <1>5, <1>6, <1>7, <1>8, <1>9, <1>10, <1>11, <1>12, <1>13 DEF SignNext

LEMMA CodesInType ==
  ASSUME SignInv PROVE SignTypeOK /\ CodesUnlessRaced
<1>1. SignTypeOK
  BY SignAssumption DEF SignInv, SignShape, SignTypeOK, NoAccount, Users
<1>2. CodesUnlessRaced
  BY SignAssumption DEF SignInv, SignShape, CodeWorks, OnePass, GuessesAreCounted, CodesUnlessRaced
<1> QED BY <1>1, <1>2

-----------------------------------------------------------------------------

(* The gateway: what a bucket has let through and what it still holds is   *)
(* within its capacity and what refilled until its last refill.            *)
LocalBuckets == [tokens : 0 .. Capacity, lastRefill : Nat]
Buckets == [tokens : 0 .. Capacity, lastRefill : Nat, expires : Nat]

GateShape ==
  /\ gateNow \in Nat /\ forgotten \in BOOLEAN
  /\ granted \in [redis : Nat, local : Nat]
  /\ bucket \in {NoBucket} \cup Buckets /\ local \in {NoBucket} \cup LocalBuckets
  /\ bucket # NoBucket => bucket.lastRefill <= gateNow /\ bucket.expires = bucket.lastRefill + KeyLife
  /\ local # NoBucket => local.lastRefill <= gateNow
  /\ upload.ext \in Extensions \cup {"none"}

LocalKeeps ==
  IF local = NoBucket THEN granted.local = 0
  ELSE granted.local + local.tokens <= Capacity + RefillRate * local.lastRefill

RedisKeeps ==
  IF bucket = NoBucket THEN granted.redis <= RefillRate * gateNow
  ELSE granted.redis + bucket.tokens <= Capacity + RefillRate * bucket.lastRefill

GateInv == GateShape /\ LocalKeeps /\ (~forgotten => RedisKeeps)

LEMMA GateInitially ==
  ASSUME GateInit PROVE GateInv
<1>1. GateShape
  BY DEF GateInit, GateShape, NoUpload
<1>2. granted.local = 0 /\ granted.redis <= RefillRate * gateNow
  BY BucketAssumption DEF GateInit
<1> QED BY <1>1, <1>2 DEF GateInit, GateInv, LocalKeeps, RedisKeeps

LEMMA MoreTime ==
  ASSUME NEW r \in Nat, NEW a \in Nat, NEW b \in Nat, a <= b
  PROVE  r * a \in Nat /\ r * b \in Nat /\ r * a <= r * b /\ (b - a) * r = r * b - r * a
<1>1. (b - a) \in Nat /\ r * (b - a) = r * b - r * a /\ (b - a) * r = r * (b - a)
  OBVIOUS
<1>2. r * (b - a) >= 0
  BY <1>1
<1> QED BY <1>1, <1>2

(* A bucket refilled now, and what it let through before.                  *)
LEMMA Refilled ==
  ASSUME NEW b, gateNow \in Nat,
         b # NoBucket => b.tokens \in 0 .. Capacity /\ b.lastRefill \in Nat /\ b.lastRefill <= gateNow
  PROVE  /\ Refill(b) \in 0 .. Capacity
         /\ \A before \in Nat :
              /\ b = NoBucket /\ before <= RefillRate * gateNow => before + Refill(b) <= Capacity + RefillRate * gateNow
              /\ b # NoBucket /\ before + b.tokens <= Capacity + RefillRate * b.lastRefill =>
                   before + Refill(b) <= Capacity + RefillRate * gateNow
<1>0. Capacity \in Nat /\ RefillRate \in Nat /\ RefillRate * gateNow \in Nat
  BY BucketAssumption
<1>1. CASE b = NoBucket
  BY <1>0, <1>1 DEF Refill
<1>2. CASE b # NoBucket
  <2> DEFINE fill == (gateNow - b.lastRefill) * RefillRate
  <2>1. /\ RefillRate * b.lastRefill \in Nat
        /\ fill = RefillRate * gateNow - RefillRate * b.lastRefill
        /\ RefillRate * b.lastRefill <= RefillRate * gateNow
    BY <1>0, <1>2, MoreTime
  <2>2. Refill(b) = IF Capacity < b.tokens + fill THEN Capacity ELSE b.tokens + fill
    BY <1>2 DEF Refill, Least
  <2> HIDE DEF fill
  <2>3. b.tokens \in Nat /\ b.tokens <= Capacity
    BY <1>0, <1>2
  <2>4. Refill(b) \in Nat /\ Refill(b) <= Capacity /\ Refill(b) <= b.tokens + fill
    BY <1>0, <2>1, <2>2, <2>3
  <2> QED BY <1>0, <1>2, <2>1, <2>3, <2>4
<1> QED BY <1>1, <1>2

LEMMA GatePreserved ==
  ASSUME GateInv, [GateNext]_gateVars PROVE GateInv'
<1> USE DEF GateInv
<1>0. /\ granted.local \in Nat /\ granted.redis \in Nat /\ RefillRate * gateNow \in Nat
      /\ Capacity \in Nat /\ RefillRate \in Nat /\ KeyLife \in Nat /\ gateNow \in Nat
  BY BucketAssumption DEF GateShape
<1>1. CASE UNCHANGED gateVars
  BY <1>1 DEF gateVars, GateShape, LocalKeeps, RedisKeeps
<1>2. CASE ConsumeToken
  <2> DEFINE fill == Refill(bucket)
  <2>1. UNCHANGED <<local, gateNow, forgotten, upload>>
    BY <1>2 DEF ConsumeToken
  <2>2. CASE ~(fill >= 1)
    BY <1>2, <2>1, <2>2 DEF ConsumeToken, GateShape, LocalKeeps, RedisKeeps
  <2>3. CASE fill >= 1
    <3>1. /\ bucket' = [tokens |-> fill - 1, lastRefill |-> gateNow, expires |-> gateNow + KeyLife]
          /\ granted' = [granted EXCEPT !.redis = @ + 1]
      BY <1>2, <2>3 DEF ConsumeToken
    <3>2. granted' \in [redis : Nat, local : Nat] /\ granted'.redis = granted.redis + 1 /\ granted'.local = granted.local
      BY <3>1 DEF GateShape
    <3>3. bucket # NoBucket => bucket.tokens \in 0 .. Capacity /\ bucket.lastRefill \in Nat /\ bucket.lastRefill <= gateNow
      BY DEF GateShape, Buckets
    <3>4. fill \in 0 .. Capacity /\ (RedisKeeps => granted.redis + fill <= Capacity + RefillRate * gateNow)
      BY <1>0, <3>3, Refilled DEF RedisKeeps
    <3> HIDE DEF fill
    <3>5. fill - 1 \in 0 .. Capacity
      BY <1>0, <2>3, <3>4
    <3>6. bucket' \in Buckets
      BY <1>0, <3>1, <3>5 DEF Buckets
    <3>7. bucket' # NoBucket
      BY <3>5, <3>6, BucketAssumption DEF Buckets
    <3>8. bucket'.tokens = fill - 1 /\ bucket'.lastRefill = gateNow /\ bucket'.expires = gateNow + KeyLife
      BY <3>1
    <3>9. GateShape'
      BY <1>0, <2>1, <3>2, <3>6, <3>8 DEF GateShape
    <3>10. LocalKeeps'
      BY <2>1, <3>2 DEF LocalKeeps
    <3>11. RedisKeeps => RedisKeeps'
      BY <1>0, <2>1, <3>2, <3>4, <3>7, <3>8 DEF RedisKeeps
    <3> QED BY <2>1, <3>9, <3>10, <3>11
  <2> QED BY <2>2, <2>3
<1>3. CASE LocalConsume
  <2> DEFINE fill == Refill(local)
             rest == IF fill >= 1 THEN fill - 1 ELSE fill
  <2>1. /\ local' = [tokens |-> rest, lastRefill |-> gateNow]
        /\ granted' = IF fill >= 1 THEN [granted EXCEPT !.local = @ + 1] ELSE granted
        /\ UNCHANGED <<bucket, gateNow, forgotten, upload>>
    BY <1>3 DEF LocalConsume
  <2>2. local # NoBucket => local.tokens \in 0 .. Capacity /\ local.lastRefill \in Nat /\ local.lastRefill <= gateNow
    BY DEF GateShape, LocalBuckets
  <2>3. local = NoBucket => granted.local <= RefillRate * gateNow
    BY <1>0 DEF LocalKeeps
  <2>4. fill \in 0 .. Capacity /\ granted.local + fill <= Capacity + RefillRate * gateNow
    BY <1>0, <2>2, <2>3, Refilled DEF LocalKeeps
  <2> HIDE DEF fill
  <2>5. /\ granted' \in [redis : Nat, local : Nat] /\ granted'.redis = granted.redis
        /\ granted'.local = IF fill >= 1 THEN granted.local + 1 ELSE granted.local
    BY <2>1 DEF GateShape
  <2>6. rest \in 0 .. Capacity /\ granted'.local + rest = granted.local + fill
    BY <1>0, <2>4, <2>5
  <2> HIDE DEF rest
  <2>7. local' \in LocalBuckets /\ local'.tokens = rest /\ local'.lastRefill = gateNow
    BY <1>0, <2>1, <2>6 DEF LocalBuckets
  <2>8. GateShape'
    BY <1>0, <2>1, <2>5, <2>7 DEF GateShape
  <2>9. local' # NoBucket
    BY <2>7, BucketAssumption DEF LocalBuckets
  <2>10. LocalKeeps'
    BY <2>4, <2>6, <2>7, <2>9 DEF LocalKeeps
  <2>11. RedisKeeps => RedisKeeps'
    BY <2>1, <2>5 DEF RedisKeeps
  <2> QED BY <2>1, <2>8, <2>10, <2>11
<1>4. CASE GateTick
  <2>1. /\ gateNow' = gateNow + 1 /\ UNCHANGED <<local, granted, forgotten, upload>>
        /\ \/ bucket' = bucket
           \/ bucket # NoBucket /\ bucket.expires <= gateNow' /\ bucket' = NoBucket
    BY <1>4 DEF GateTick
  <2>2. RefillRate * gateNow <= RefillRate * gateNow'
    BY <1>0, <2>1, MoreTime
  <2>3. GateShape'
    BY <2>1 DEF GateShape, Buckets, LocalBuckets
  <2>4. LocalKeeps'
    BY <2>1 DEF LocalKeeps
  <2>5. RedisKeeps => RedisKeeps'
    <3>1. CASE bucket' = bucket
      BY <1>0, <2>1, <2>2, <3>1 DEF RedisKeeps
    <3>2. CASE bucket # NoBucket /\ bucket.expires <= gateNow' /\ bucket' = NoBucket
      <4>1. /\ bucket.lastRefill \in Nat /\ bucket.tokens \in Nat
            /\ bucket.lastRefill + KeyLife <= gateNow'
        BY <1>0, <3>2 DEF GateShape, Buckets
      <4>2. /\ RefillRate * (bucket.lastRefill + KeyLife) <= RefillRate * gateNow'
            /\ RefillRate * gateNow' \in Nat /\ RefillRate * bucket.lastRefill \in Nat
        BY <1>0, <2>1, <4>1, MoreTime
      <4>3. RefillRate * (bucket.lastRefill + KeyLife) = RefillRate * bucket.lastRefill + KeyLife * RefillRate
        BY <1>0, <4>1
      <4>4. Capacity <= KeyLife * RefillRate /\ KeyLife * RefillRate \in Nat
        BY <1>0, BucketAssumption
      <4> DEFINE now == RefillRate * gateNow'
                 last == RefillRate * bucket.lastRefill
                 life == KeyLife * RefillRate
      <4>5. last + life <= now /\ Capacity <= life /\ last \in Nat /\ now \in Nat /\ life \in Nat
        BY <4>2, <4>3, <4>4
      <4>6. RedisKeeps => granted.redis + bucket.tokens <= Capacity + last
        BY <3>2 DEF RedisKeeps
      <4> HIDE DEF now, last, life
      <4>7. RedisKeeps => granted.redis <= now
        BY <1>0, <4>1, <4>5, <4>6
      <4> QED BY <2>1, <3>2, <4>7 DEF RedisKeeps, now
    <3> QED BY <2>1, <3>1, <3>2
  <2> QED BY <2>1, <2>3, <2>4, <2>5
<1>5. CASE RedisForgets
  BY <1>5 DEF RedisForgets, GateShape, LocalKeeps
<1>6. CASE TakesFile
  <2>1. UNCHANGED <<bucket, local, gateNow, granted, forgotten>> /\ upload'.ext \in Extensions \cup {"none"}
    BY <1>6 DEF TakesFile, GateShape
  <2> QED BY <2>1 DEF GateShape, LocalKeeps, RedisKeeps
<1> QED BY <1>1, <1>2, <1>3, <1>4, <1>5, <1>6 DEF GateNext

LEMMA RatesHold ==
  ASSUME GateInv PROVE GateTypeOK /\ RateIsKept
<1> USE DEF GateInv
<1>0. /\ granted.local \in Nat /\ granted.redis \in Nat /\ RefillRate * gateNow \in Nat
      /\ Capacity \in Nat /\ RefillRate \in Nat
  BY BucketAssumption DEF GateShape
<1>1. GateTypeOK
  BY DEF GateShape, Buckets, LocalBuckets, GateTypeOK
<1>2. granted.local <= Capacity + RefillRate * gateNow
  <2>1. CASE local = NoBucket
    BY <1>0, <2>1 DEF LocalKeeps
  <2>2. CASE local # NoBucket
    <3>1. local.tokens \in Nat /\ local.lastRefill \in Nat /\ local.lastRefill <= gateNow /\ gateNow \in Nat
      BY <1>0, <2>2 DEF GateShape, LocalBuckets
    <3>2. RefillRate * local.lastRefill \in Nat /\ RefillRate * local.lastRefill <= RefillRate * gateNow
      BY <1>0, <3>1, MoreTime
    <3> QED BY <1>0, <2>2, <3>1, <3>2 DEF LocalKeeps
  <2> QED BY <2>1, <2>2
<1>3. ASSUME ~forgotten PROVE granted.redis <= Capacity + RefillRate * gateNow
  <2>1. CASE bucket = NoBucket
    BY <1>0, <1>3, <2>1 DEF RedisKeeps
  <2>2. CASE bucket # NoBucket
    <3>1. bucket.tokens \in Nat /\ bucket.lastRefill \in Nat /\ bucket.lastRefill <= gateNow /\ gateNow \in Nat
      BY <1>0, <2>2 DEF GateShape, Buckets
    <3>2. RefillRate * bucket.lastRefill \in Nat /\ RefillRate * bucket.lastRefill <= RefillRate * gateNow
      BY <1>0, <3>1, MoreTime
    <3> QED BY <1>0, <1>3, <2>2, <3>1, <3>2 DEF RedisKeeps
  <2> QED BY <2>1, <2>2
<1> QED BY <1>1, <1>2, <1>3 DEF RateIsKept

-----------------------------------------------------------------------------

(* The team: whoever writes on a count that is not stale leaves an active  *)
(* owner and a seat for everybody.                                         *)
Rows == [role : Roles, status : {"ACTIVE", "DISABLED"}]
TeamCalls ==
  [pc : {"idle", "done"}]
  \cup [pc : {"email", "seat", "insert"}, who : People, seen : SUBSET People]
  \cup [pc : {"find", "others", "write"}, kind : {"role", "remove"}, who : People, role : Roles, seen : SUBSET People]

TeamShape ==
  /\ member \in [People -> {NoMember} \cup Rows]
  /\ badge \in [People -> Roles]
  /\ top \in [TeamOps -> TeamCalls]
  /\ console \in 0 .. ConsoleCalls
  /\ ownersRaced \in BOOLEAN /\ seatsRaced \in BOOLEAN

FreeSeatSeen == \A o \in TeamOps : top[o].pc = "insert" => Cardinality(top[o].seen) < Seats

TeamInv ==
  /\ TeamShape /\ FreeSeatSeen
  /\ ownersRaced \/ ActiveOwners # {}
  /\ seatsRaced \/ Cardinality(Seated) <= Seats

LEMMA SeatedFinite ==
  ASSUME TRUE
  PROVE  IsFiniteSet(Seated) /\ Cardinality(Seated) \in Nat
BY TeamAssumption, FS_Subset, FS_CardinalityType DEF Seated, Members

LEMMA RowFacts ==
  /\ NoMember.role = "USER" /\ NoMember.status = "none"
  /\ \A row \in Rows : row # NoMember /\ row.role \in Roles /\ row.status \in {"ACTIVE", "DISABLED"}
BY DEF NoMember, Rows

LEMMA TeamInitially ==
  ASSUME TeamInit PROVE TeamInv
<1>1. /\ \A u \in Founders : member[u] \in Rows /\ member[u].status = "ACTIVE"
      /\ \A u \in Owners : member[u].role = "ADMIN"
      /\ \A u \in People \ Founders : member[u] = NoMember
  BY TeamAssumption DEF TeamInit, Rows, Roles
<1>2. member \in [People -> {NoMember} \cup Rows]
  BY <1>1 DEF TeamInit
<1>3. badge \in [People -> Roles]
  BY <1>2, RowFacts DEF TeamInit, Roles
<1>4. TeamShape
  <2>1. TeamIdle \in TeamCalls
    BY DEF TeamIdle, TeamCalls
  <2>2. console \in 0 .. ConsoleCalls
    BY TeamAssumption DEF TeamInit
  <2> QED BY <1>2, <1>3, <2>1, <2>2 DEF TeamInit, TeamShape
<1>5. Seated = Founders /\ ActiveOwners # {}
  BY <1>1, RowFacts, TeamAssumption DEF Seated, Members, ActiveOwners
<1>6. FreeSeatSeen
  BY DEF TeamInit, TeamIdle, FreeSeatSeen
<1> QED BY <1>4, <1>5, <1>6, TeamAssumption DEF TeamInv

(* A step that writes no row.                                              *)
LEMMA RowsKept ==
  ASSUME TeamInv, TeamShape', UNCHANGED <<member, ownersRaced, seatsRaced>>, FreeSeatSeen'
  PROVE  TeamInv'
BY DEF TeamInv, Members, Seated, ActiveOwners

LEMMA TeamPreserved ==
  ASSUME TeamInv, [TeamNext]_teamVars PROVE TeamInv'
<1> USE DEF TeamInv
<1>d. [pc |-> "done"] \in TeamCalls
  BY DEF TeamCalls
<1>1. CASE UNCHANGED teamVars
  BY <1>1, RowsKept DEF teamVars, TeamShape, FreeSeatSeen
<1>2. CASE UpdateUser
  <2>1. PICK who \in Members, role \in Roles, status \in {"ACTIVE", "DISABLED"} :
          LET row == [role |-> role, status |-> status] IN
          /\ console < ConsoleCalls
          /\ console' = console + 1
          /\ member' = [member EXCEPT ![who] = row]
          /\ ownersRaced' = (ownersRaced \/ ConsoleStrips(row, who))
          /\ seatsRaced' = (seatsRaced \/ (member[who].status = "DISABLED" /\ status = "ACTIVE"))
          /\ UNCHANGED <<badge, top>>
    BY <1>2 DEF UpdateUser
  <2> DEFINE row == [role |-> role, status |-> status]
  <2>2. row \in Rows /\ row.role = role /\ row.status = status /\ who \in People
    BY DEF Rows, Members
  <2>3. /\ member' = [member EXCEPT ![who] = row] /\ console < ConsoleCalls /\ console' = console + 1
        /\ UNCHANGED <<badge, top>>
    BY <2>1
  <2>4. ownersRaced' = (ownersRaced \/ ConsoleStrips(row, who))
    BY <2>1
  <2>5. seatsRaced' = (seatsRaced \/ (member[who].status = "DISABLED" /\ status = "ACTIVE"))
    BY <2>1
  <2> HIDE DEF row
  <2>6. member'[who] = row /\ \A u \in People \ {who} : member'[u] = member[u]
    BY <2>2, <2>3 DEF TeamShape
  <2>7. console' \in 0 .. ConsoleCalls
    BY <2>3, TeamAssumption DEF TeamShape
  <2>8. TeamShape'
    BY <2>2, <2>3, <2>4, <2>5, <2>7 DEF TeamShape
  <2>9. ASSUME ~ownersRaced' PROVE ActiveOwners' # {}
    <3>1. ~ownersRaced /\ ~ConsoleStrips(row, who)
      BY <2>4, <2>9
    <3>2. CASE who \notin ActiveOwners
      <4>1. PICK u \in ActiveOwners : u # who
        BY <3>1, <3>2
      <4> QED BY <2>6, <4>1 DEF ActiveOwners, Seated, Members
    <3>3. CASE ActiveOwners \ {who} # {}
      <4>1. PICK u \in ActiveOwners : u # who
        BY <3>3
      <4> QED BY <2>6, <4>1 DEF ActiveOwners, Seated, Members
    <3>4. CASE row.role = "ADMIN" /\ row.status # "DISABLED"
      BY <2>2, <2>6, <3>4, RowFacts DEF ActiveOwners, Seated, Members
    <3> QED BY <3>1, <3>2, <3>3, <3>4, FS_EmptySet DEF ConsoleStrips
  <2>10. ASSUME ~seatsRaced' PROVE Cardinality(Seated') <= Seats
    <3>1. ~seatsRaced /\ ~(member[who].status = "DISABLED" /\ status = "ACTIVE")
      BY <2>5, <2>10
    <3>2. Seated' \subseteq Seated
      BY <2>2, <2>6, <3>1 DEF Seated, Members
    <3> QED BY <3>1, <3>2, SeatedFinite, NoMore, TeamAssumption
  <2> QED BY <2>3, <2>8, <2>9, <2>10 DEF FreeSeatSeen
<1>3. CASE DeleteUser
  <2>1. PICK who \in Members :
          LET row == [member[who] EXCEPT !.status = "DISABLED"] IN
          /\ console < ConsoleCalls
          /\ console' = console + 1
          /\ member' = [member EXCEPT ![who] = row]
          /\ ownersRaced' = (ownersRaced \/ ConsoleStrips(row, who))
          /\ UNCHANGED <<badge, top, seatsRaced>>
    BY <1>3 DEF DeleteUser
  <2> DEFINE row == [member[who] EXCEPT !.status = "DISABLED"]
  <2>2. row \in Rows /\ row.status = "DISABLED" /\ who \in People
    BY DEF Rows, Members, TeamShape
  <2>3. /\ member' = [member EXCEPT ![who] = row] /\ console < ConsoleCalls /\ console' = console + 1
        /\ UNCHANGED <<badge, top, seatsRaced>>
    BY <2>1
  <2>4. ownersRaced' = (ownersRaced \/ ConsoleStrips(row, who))
    BY <2>1
  <2> HIDE DEF row
  <2>6. member'[who] = row /\ \A u \in People \ {who} : member'[u] = member[u]
    BY <2>2, <2>3 DEF TeamShape
  <2>7. console' \in 0 .. ConsoleCalls
    BY <2>3, TeamAssumption DEF TeamShape
  <2>8. TeamShape'
    BY <2>2, <2>3, <2>4, <2>7 DEF TeamShape
  <2>9. ASSUME ~ownersRaced' PROVE ActiveOwners' # {}
    <3>1. ~ownersRaced /\ ~ConsoleStrips(row, who)
      BY <2>4, <2>9
    <3>2. who \notin ActiveOwners \/ ActiveOwners \ {who} # {}
      BY <2>2, <3>1, FS_EmptySet DEF ConsoleStrips
    <3>3. PICK u \in ActiveOwners : u # who
      BY <3>1, <3>2
    <3> QED BY <2>6, <3>3 DEF ActiveOwners, Seated, Members
  <2>10. ASSUME ~seatsRaced' PROVE Cardinality(Seated') <= Seats
    <3>1. ~seatsRaced
      BY <2>3, <2>10
    <3>2. Seated' \subseteq Seated
      BY <2>2, <2>6 DEF Seated, Members
    <3> QED BY <3>1, <3>2, SeatedFinite, NoMore, TeamAssumption
  <2> QED BY <2>3, <2>8, <2>9, <2>10 DEF FreeSeatSeen
<1>4. ASSUME NEW u \in People, Reissue(u) PROVE TeamInv'
  <2>1. badge' = [badge EXCEPT ![u] = member[u].role] /\ UNCHANGED <<member, top, console, ownersRaced, seatsRaced>>
    BY <1>4 DEF Reissue
  <2>2. member[u].role \in Roles
    BY RowFacts DEF TeamShape, Roles
  <2>3. TeamShape' /\ FreeSeatSeen'
    BY <2>1, <2>2 DEF TeamShape, FreeSeatSeen
  <2> QED BY <2>1, <2>3, RowsKept
<1>5. ASSUME NEW o \in TeamOps, TeamReceive(o) PROVE TeamInv'
  <2>1. PICK op \in TeamCalls : op.pc \in {"email", "find"} /\ top' = [top EXCEPT ![o] = op]
    <3>1. PICK by \in People, who \in People, role \in Roles :
           \/ top' = [top EXCEPT ![o] = [pc |-> "email", who |-> who, seen |-> {}]]
           \/ top' = [top EXCEPT ![o] = [pc |-> "find", kind |-> "role", who |-> who, role |-> role, seen |-> {}]]
           \/ top' = [top EXCEPT ![o] = [pc |-> "find", kind |-> "remove", who |-> who, role |-> role, seen |-> {}]]
      BY <1>5 DEF TeamReceive
    <3>2. /\ [pc |-> "email", who |-> who, seen |-> {}] \in TeamCalls
          /\ [pc |-> "find", kind |-> "role", who |-> who, role |-> role, seen |-> {}] \in TeamCalls
          /\ [pc |-> "find", kind |-> "remove", who |-> who, role |-> role, seen |-> {}] \in TeamCalls
      BY DEF TeamCalls
    <3> QED BY <3>1, <3>2
  <2>2. UNCHANGED <<member, badge, console, ownersRaced, seatsRaced>>
    BY <1>5 DEF TeamReceive
  <2>3. TeamShape' /\ FreeSeatSeen'
    BY <2>1, <2>2 DEF TeamShape, FreeSeatSeen
  <2> QED BY <2>2, <2>3, RowsKept
<1>6. ASSUME NEW o \in TeamOps, FindEmail(o) PROVE TeamInv'
  <2>1. top[o] \in [pc : {"email"}, who : People, seen : SUBSET People]
    BY <1>6 DEF FindEmail, TeamShape, TeamCalls
  <2>2. [top[o] EXCEPT !.pc = "seat"] \in TeamCalls /\ [top[o] EXCEPT !.pc = "seat"].pc = "seat"
    BY <2>1 DEF TeamCalls
  <2>3. PICK op \in TeamCalls : op.pc \in {"seat", "done"} /\ top' = [top EXCEPT ![o] = op]
    BY <1>6, <1>d, <2>2 DEF FindEmail, TeamGo, TeamEnd
  <2>4. UNCHANGED <<member, badge, console, ownersRaced, seatsRaced>>
    BY <1>6 DEF FindEmail
  <2>5. TeamShape' /\ FreeSeatSeen'
    BY <2>3, <2>4 DEF TeamShape, FreeSeatSeen
  <2> QED BY <2>4, <2>5, RowsKept
<1>7. ASSUME NEW o \in TeamOps, AssertSeatAvailable(o) PROVE TeamInv'
  <2>1. top[o] \in [pc : {"seat"}, who : People, seen : SUBSET People]
    BY <1>7 DEF AssertSeatAvailable, TeamShape, TeamCalls
  <2> DEFINE up == [top[o] EXCEPT !.pc = "insert"]
             in == [up EXCEPT !.seen = Seated]
  <2>2. up \in [pc : {"insert"}, who : People, seen : SUBSET People]
    BY <2>1
  <2>3. \/ top' = [top EXCEPT ![o] = [pc |-> "done"]]
        \/ Cardinality(Seated) < Seats /\ top' = [top EXCEPT ![o] = in]
    BY <1>7 DEF AssertSeatAvailable, TeamEnd
  <2> HIDE DEF up
  <2>4. in \in TeamCalls /\ in.seen = Seated
    BY <2>2 DEF TeamCalls, Seated, Members
  <2> HIDE DEF in
  <2>5. PICK op \in TeamCalls : (op.pc = "insert" => Cardinality(op.seen) < Seats) /\ top' = [top EXCEPT ![o] = op]
    BY <1>d, <2>3, <2>4
  <2>6. UNCHANGED <<member, badge, console, ownersRaced, seatsRaced>>
    BY <1>7 DEF AssertSeatAvailable
  <2>7. TeamShape' /\ FreeSeatSeen'
    BY <2>5, <2>6 DEF TeamShape, FreeSeatSeen
  <2> QED BY <2>6, <2>7, RowsKept
<1>8. ASSUME NEW o \in TeamOps, CreateMember(o) PROVE TeamInv'
  <2> DEFINE who == top[o].who
             row == [role |-> "USER", status |-> "ACTIVE"]
  <2>1. top[o] \in [pc : {"insert"}, who : People, seen : SUBSET People] /\ who \in People
    BY <1>8 DEF CreateMember, TeamShape, TeamCalls
  <2>2. top' = [top EXCEPT ![o] = [pc |-> "done"]] /\ UNCHANGED <<console, ownersRaced>>
    BY <1>8 DEF CreateMember, TeamEnd
  <2>3. FreeSeatSeen'
    BY <1>d, <2>2 DEF FreeSeatSeen, TeamShape
  <2>4. CASE who \in Members
    <3>1. UNCHANGED <<member, badge, seatsRaced>>
      BY <1>8, <2>4 DEF CreateMember
    <3>2. TeamShape'
      BY <1>d, <2>2, <3>1 DEF TeamShape
    <3> QED BY <2>2, <2>3, <3>1, <3>2, RowsKept
  <2>5. CASE who \notin Members
    <3>1. /\ member' = [member EXCEPT ![who] = row]
          /\ badge' = [badge EXCEPT ![who] = "USER"]
          /\ seatsRaced' = (seatsRaced \/ top[o].seen # Seated)
      BY <1>8, <2>5 DEF CreateMember
    <3>2. row \in Rows /\ row.role = "USER"
      BY DEF Rows, Roles
    <3>3. member'[who] = row /\ \A u \in People \ {who} : member'[u] = member[u]
      BY <2>1, <3>1 DEF TeamShape
    <3>4. TeamShape'
      BY <1>d, <2>1, <2>2, <3>1, <3>2 DEF TeamShape, Roles
    <3>5. ActiveOwners \subseteq ActiveOwners'
      BY <2>5, <3>3 DEF ActiveOwners, Seated, Members
    <3>6. ASSUME ~seatsRaced' PROVE Cardinality(Seated') <= Seats
      <4>1. top[o].seen = Seated
        BY <3>1, <3>6
      <4>2. Cardinality(Seated) < Seats
        BY <2>1, <4>1 DEF FreeSeatSeen
      <4>3. Seated' \subseteq Seated \cup {who}
        BY <3>3 DEF Seated, Members
      <4>4. Cardinality(Seated') \in Nat /\ Cardinality(Seated') <= Cardinality(Seated) + 1
        BY <4>3, SeatedFinite, OneMore
      <4> QED BY <4>2, <4>4, SeatedFinite, TeamAssumption
    <3> QED BY <2>2, <2>3, <3>4, <3>5, <3>6
  <2> QED BY <2>4, <2>5
<1>9. ASSUME NEW o \in TeamOps, FindMember(o) PROVE TeamInv'
  <2>1. top[o] \in [pc : {"find"}, kind : {"role", "remove"}, who : People, role : Roles, seen : SUBSET People]
    BY <1>9 DEF FindMember, TeamShape, TeamCalls
  <2>2. \A place \in {"others", "write"} :
          [top[o] EXCEPT !.pc = place] \in TeamCalls /\ [top[o] EXCEPT !.pc = place].pc = place
    BY <2>1 DEF TeamCalls
  <2>3. PICK op \in TeamCalls : op.pc \in {"others", "write", "done"} /\ top' = [top EXCEPT ![o] = op]
    BY <1>9, <1>d, <2>2 DEF FindMember, TeamGo, TeamEnd
  <2>4. UNCHANGED <<member, badge, console, ownersRaced, seatsRaced>>
    BY <1>9 DEF FindMember
  <2>5. TeamShape' /\ FreeSeatSeen'
    BY <2>3, <2>4 DEF TeamShape, FreeSeatSeen
  <2> QED BY <2>4, <2>5, RowsKept
<1>10. ASSUME NEW o \in TeamOps, CountOthers(o) PROVE TeamInv'
  <2>1. top[o] \in [pc : {"others"}, kind : {"role", "remove"}, who : People, role : Roles, seen : SUBSET People]
    BY <1>10 DEF CountOthers, TeamShape, TeamCalls
  <2> DEFINE up == [top[o] EXCEPT !.pc = "write"]
             seen == [up EXCEPT !.seen = OtherAdmins(top[o].who)]
  <2>2. up \in [pc : {"write"}, kind : {"role", "remove"}, who : People, role : Roles, seen : SUBSET People]
    BY <2>1
  <2>3. \/ top' = [top EXCEPT ![o] = [pc |-> "done"]]
        \/ top' = [top EXCEPT ![o] = seen]
    BY <1>10 DEF CountOthers, TeamEnd
  <2> HIDE DEF up
  <2>4. OtherAdmins(top[o].who) \subseteq People
    BY DEF OtherAdmins, ActiveOwners, Seated, Members
  <2>5. seen \in TeamCalls /\ seen.pc = "write"
    BY <2>2, <2>4 DEF TeamCalls
  <2> HIDE DEF seen
  <2>6. PICK op \in TeamCalls : op.pc \in {"write", "done"} /\ top' = [top EXCEPT ![o] = op]
    BY <1>d, <2>3, <2>5
  <2>7. UNCHANGED <<member, badge, console, ownersRaced, seatsRaced>>
    BY <1>10 DEF CountOthers
  <2>8. TeamShape' /\ FreeSeatSeen'
    BY <2>6, <2>7 DEF TeamShape, FreeSeatSeen
  <2> QED BY <2>7, <2>8, RowsKept
<1>11. ASSUME NEW o \in TeamOps, WriteMember(o) PROVE TeamInv'
  <2> DEFINE op == top[o]
             who == op.who
  <2>1. op \in [pc : {"write"}, kind : {"role", "remove"}, who : People, role : Roles, seen : SUBSET People] /\ who \in People
    BY <1>11 DEF WriteMember, TeamShape, TeamCalls
  <2>2. top' = [top EXCEPT ![o] = [pc |-> "done"]] /\ UNCHANGED <<badge, console, seatsRaced>>
    BY <1>11 DEF WriteMember, TeamEnd
  <2>3. FreeSeatSeen'
    BY <1>d, <2>2 DEF FreeSeatSeen, TeamShape
  <2>4. CASE who \notin Members
    <3>1. UNCHANGED <<member, ownersRaced>>
      BY <1>11, <2>4 DEF WriteMember
    <3>2. TeamShape'
      BY <1>d, <2>2, <3>1 DEF TeamShape
    <3> QED BY <2>2, <2>3, <3>1, <3>2, RowsKept
  <2>5. CASE who \in Members
    <3> DEFINE row == IF op.kind = "remove" THEN NoMember ELSE [member[who] EXCEPT !.role = op.role]
    <3>1. member' = [member EXCEPT ![who] = row] /\ ownersRaced' = (ownersRaced \/ Outdated(op))
      BY <1>11, <2>5 DEF WriteMember
    <3>2. /\ row \in {NoMember} \cup Rows
          /\ op.kind = "remove" => row = NoMember
          /\ op.kind # "remove" => row.role = op.role /\ row.status = member[who].status /\ row # NoMember
      <4>1. member[who] \in Rows
        BY <2>5 DEF Members, TeamShape
      <4>2. [member[who] EXCEPT !.role = op.role] \in Rows
        BY <2>1, <4>1 DEF Rows
      <4> QED BY <4>1, <4>2, RowFacts DEF Rows
    <3> HIDE DEF row
    <3>3. member'[who] = row /\ \A u \in People \ {who} : member'[u] = member[u]
      BY <2>1, <3>1 DEF TeamShape
    <3>4. TeamShape'
      BY <1>d, <2>1, <2>2, <3>1, <3>2 DEF TeamShape
    <3>5. ASSUME ~ownersRaced' PROVE ActiveOwners' # {}
      <4>1. ~ownersRaced /\ ~Outdated(op)
        BY <3>1, <3>5
      <4>2. OtherAdmins(who) \subseteq ActiveOwners'
        BY <3>3 DEF OtherAdmins, ActiveOwners, Seated, Members
      <4>3. CASE LosesOwner(op, member[who].role)
        BY <4>1, <4>2, <4>3 DEF Outdated
      <4>4. CASE ~LosesOwner(op, member[who].role)
        <5>1. who \in ActiveOwners => who \in ActiveOwners'
          BY <3>2, <3>3, <4>4 DEF LosesOwner, ActiveOwners, Seated, Members
        <5>2. ActiveOwners \subseteq ActiveOwners'
          BY <4>2, <5>1 DEF OtherAdmins
        <5> QED BY <4>1, <5>2
      <4> QED BY <4>3, <4>4
    <3>6. Seated' \subseteq Seated
      BY <2>5, <3>2, <3>3 DEF Seated, Members
    <3>7. seatsRaced' \/ Cardinality(Seated') <= Seats
      BY <2>2, <3>6, SeatedFinite, NoMore, TeamAssumption
    <3> QED BY <2>3, <3>4, <3>5, <3>7
  <2> QED BY <2>4, <2>5
<1> QED BY <1>1, <1>2, <1>3, <1>4, <1>5, <1>6, <1>7, <1>8, <1>9, <1>10, <1>11 DEF TeamNext

LEMMA TeamInType ==
  ASSUME TeamInv PROVE TeamTypeOK /\ SeatsUnlessRaced /\ OwnerUnlessRaced
<1> USE DEF TeamInv
<1>1. TeamTypeOK
  BY RowFacts DEF TeamShape, TeamTypeOK, TeamCalls, Roles
<1>2. SeatsUnlessRaced /\ OwnerUnlessRaced
  BY SeatedFinite, TeamAssumption DEF SeatsUnlessRaced, OwnerUnlessRaced, TeamShape
<1> QED BY <1>1, <1>2

-----------------------------------------------------------------------------

-----------------------------------------------------------------------------
(* The ledger: what a handler took from its form and from the row it read  *)
(* does not change until it writes, whatever becomes of the row.           *)
LedgerBusy ==
  [pc : {"own", "limit", "clean", "write"}, kind : LedgerKinds, id : LedgerIds, form : LedgerForms,
   seen : {NoEntry} \cup EntryRows, count : Nat]
LedgerCalls == [pc : {"idle", "done"}] \cup LedgerBusy

CallAgrees(op) ==
  /\ op.pc = "own" => op.kind # "create"
  /\ op.pc = "limit" => op.kind \in {"create", "renew"}
  /\ op.pc = "clean" => op.kind \in {"create", "renew", "update"}
  /\ op.pc \in {"limit", "clean", "write"} /\ op.kind \in {"update", "renew"} => op.seen # NoEntry
  /\ op.pc \in {"clean", "write"} /\ op.kind \in {"create", "renew"} => op.count < LedgerMax
  /\ op.pc = "write" /\ op.kind \in {"create", "renew", "update"} =>
       EntryDefaults(op).end >= EntryDefaults(op).start

EntriesHold ==
  /\ ledger \in [LedgerIds -> {NoEntry} \cup EntryRows]
  /\ DatesOrdered /\ PredecessorIsClosed
  /\ ledgerRaced \/ Cardinality(Entries) <= LedgerMax

CallsHold == lop \in [LedgerOps -> LedgerCalls] /\ \A o \in LedgerOps : CallAgrees(lop[o])

LedgerInv == filed \in BOOLEAN /\ ledgerRaced \in BOOLEAN /\ EntriesHold /\ CallsHold

LEMMA EntriesFinite ==
  ASSUME TRUE
  PROVE  IsFiniteSet(Entries) /\ Cardinality(Entries) \in Nat
BY LedgerAssumption, FS_Subset, FS_CardinalityType DEF Entries

LEMMA LedgerInitially ==
  ASSUME LedgerInit PROVE LedgerInv
<1> DEFINE seed == [status |-> "ACTIVE", start |-> Today - 1, end |-> Today + 30, link |-> TRUE, from |-> NoEntry]
<1>1. seed \in EntryRows /\ seed.end >= seed.start /\ seed.from = NoEntry
  BY DEF Today, EntryRows, EntryStatus
<1>2. ledger = [i \in LedgerIds |-> IF i = LedgerSeed THEN seed ELSE NoEntry]
  BY DEF LedgerInit
<1>3. lop = [o \in LedgerOps |-> [pc |-> "idle"]] /\ filed = TRUE /\ ledgerRaced = FALSE
  BY DEF LedgerInit, IdleOp
<1> HIDE DEF seed
<1>4. Entries = {LedgerSeed} /\ ledger[LedgerSeed] = seed /\ ledger \in [LedgerIds -> {NoEntry} \cup EntryRows]
  BY <1>1, <1>2, LedgerSeedAssumption, LedgerAssumption DEF Entries
<1>5. Cardinality(Entries) <= LedgerMax
  <2>1. Cardinality({LedgerSeed}) = 1
    BY FS_Singleton
  <2> QED BY <1>4, <2>1, LedgerAssumption
<1>6. EntriesHold
  BY <1>1, <1>4, <1>5 DEF EntriesHold, DatesOrdered, PredecessorIsClosed
<1>7. CallsHold
  BY <1>3 DEF CallsHold, CallAgrees, LedgerCalls
<1> QED BY <1>3, <1>6, <1>7 DEF LedgerInv

(* A request whose form was filled from the row it read has whole dates.   *)
LEMMA DefaultsInType ==
  ASSUME NEW op \in LedgerBusy, CallAgrees(op), op.pc \in {"clean", "write"}
  PROVE  /\ EntryDefaults(op).start \in Int /\ EntryDefaults(op).end \in Int
         /\ EntryDefaults(op).link \in BOOLEAN
<1>1. op.form \in LedgerForm
  BY FormsAssumption DEF LedgerBusy
<1>2. op.form.start \in Int /\ op.form.end \in Int /\ op.form.link \in BOOLEAN
  BY <1>1 DEF LedgerForm
<1>3. op.kind \in {"update", "renew"} =>
        op.seen.start \in Int /\ op.seen.end \in Int /\ op.seen.link \in BOOLEAN
  BY DEF LedgerBusy, CallAgrees, EntryRows
<1>4. Unchanged \in Int /\ OpenEnd \in Int
  BY DEF Unchanged, OpenEnd
<1>5. \A start, end \in Int, link \in BOOLEAN :
        LET d == MergeForm(op.form, start, end, link)
        IN  d.start \in Int /\ d.end \in Int /\ d.link \in BOOLEAN
  BY <1>2 DEF MergeForm
<1> QED BY <1>3, <1>4, <1>5 DEF EntryDefaults

(* A handler moves.                                                        *)
LEMMA CallMoves ==
  ASSUME CallsHold, NEW o \in LedgerOps, NEW op \in LedgerCalls, CallAgrees(op),
         lop' = [lop EXCEPT ![o] = op]
  PROVE  CallsHold'
<1>1. lop' \in [LedgerOps -> LedgerCalls]
  BY DEF CallsHold
<1>2. \A p \in LedgerOps : lop'[p] = IF p = o THEN op ELSE lop[p]
  BY DEF CallsHold
<1>3. \A p \in LedgerOps : CallAgrees(lop'[p])
  BY <1>2 DEF CallsHold
<1> QED BY <1>1, <1>3 DEF CallsHold

LEMMA CallEnds ==
  ASSUME CallsHold, NEW o \in LedgerOps, LedgerEnd(o) PROVE CallsHold'
<1>1. [pc |-> "done"] \in LedgerCalls /\ CallAgrees([pc |-> "done"])
  BY DEF LedgerCalls, CallAgrees
<1> QED BY <1>1, CallMoves DEF LedgerEnd

(* The rows where a handler writes none.                                   *)
LEMMA EntriesKept ==
  ASSUME EntriesHold, UNCHANGED <<ledger, ledgerRaced>> PROVE EntriesHold'
BY DEF EntriesHold, DatesOrdered, PredecessorIsClosed, Entries

(* A row is written where the row has no successor yet, or it is closed.   *)
LEMMA EntryRewritten ==
  ASSUME EntriesHold, NEW id \in Entries, NEW row \in EntryRows,
         row.end >= row.start, row.from = ledger[id].from, row.status # "ACTIVE" \/ row.status = ledger[id].status,
         ledger' = [ledger EXCEPT ![id] = row], UNCHANGED ledgerRaced
  PROVE  EntriesHold'
<1>1. /\ ledger'[id] = row /\ id \in LedgerIds
      /\ \A i \in LedgerIds \ {id} : ledger'[i] = ledger[i]
      /\ ledger' \in [LedgerIds -> {NoEntry} \cup EntryRows]
  BY DEF EntriesHold, Entries
<1>2. Entries' = Entries
  BY <1>1, LedgerAssumption DEF Entries
<1>3. DatesOrdered'
  BY <1>1, <1>2 DEF EntriesHold, DatesOrdered, Entries
<1>4. PredecessorIsClosed'
  BY <1>1, <1>2 DEF EntriesHold, PredecessorIsClosed, Entries
<1> QED BY <1>1, <1>2, <1>3, <1>4 DEF EntriesHold

(* A row is added on a count below the limit.                              *)
LEMMA EntryAdded ==
  ASSUME EntriesHold, ledgerRaced \in BOOLEAN, NEW o, CountIsStale(o), lop[o].count < LedgerMax,
         NEW new \in LedgerIds \ Entries, NEW row \in EntryRows, row.end >= row.start,
         ledger' \in [LedgerIds -> {NoEntry} \cup EntryRows],
         ledger'[new] = row, Entries' = Entries \cup {new},
         \A i \in Entries : /\ ledger'[i].start = ledger[i].start /\ ledger'[i].end = ledger[i].end
                            /\ ledger'[i].from = ledger[i].from
                            /\ ledger'[i].status # "ACTIVE" \/ ledger'[i].status = ledger[i].status,
         row.from # NoEntry => row.from \in Entries /\ ledger'[row.from].status # "ACTIVE"
  PROVE  EntriesHold'
<1>1. DatesOrdered'
  BY DEF EntriesHold, DatesOrdered, Entries
<1>2. PredecessorIsClosed'
  BY DEF EntriesHold, PredecessorIsClosed, Entries
<1>3. ASSUME ~ledgerRaced' PROVE Cardinality(Entries') <= LedgerMax
  <2>1. lop[o].count = Cardinality(Entries)
    BY <1>3 DEF CountIsStale
  <2>2. Cardinality(Entries) + 1 <= LedgerMax
    BY <2>1, EntriesFinite, LedgerAssumption
  <2>3. Cardinality(Entries') \in Nat /\ Cardinality(Entries') <= Cardinality(Entries) + 1
    BY OneMore, EntriesFinite
  <2> QED BY <2>2, <2>3, EntriesFinite, LedgerAssumption
<1> QED BY <1>1, <1>2, <1>3 DEF EntriesHold

LEMMA LedgerPreserved ==
  ASSUME LedgerInv, [LedgerNext]_ledgerVars PROVE LedgerInv'
<1> USE DEF LedgerInv
<1>1. CASE UNCHANGED ledgerVars
  BY <1>1, EntriesKept DEF ledgerVars, CallsHold
<1>2. CASE UnlinkContract
  <2>1. /\ filed' = FALSE /\ UNCHANGED <<lop, ledgerRaced>>
        /\ ledger' = [i \in LedgerIds |->
             IF i \in Entries THEN [ledger[i] EXCEPT !.link = FALSE] ELSE NoEntry]
    BY <1>2 DEF UnlinkContract
  <2>2. \A row \in EntryRows :
          LET new == [row EXCEPT !.link = FALSE] IN
          /\ new \in EntryRows /\ new.start = row.start /\ new.end = row.end
          /\ new.from = row.from /\ new.status = row.status
    BY DEF EntryRows
  <2>3. \A i \in Entries : ledger[i] \in EntryRows /\ i \in LedgerIds
    BY DEF EntriesHold, Entries
  <2>4. \A i \in Entries : /\ ledger'[i] \in EntryRows
                           /\ ledger'[i].start = ledger[i].start /\ ledger'[i].end = ledger[i].end
                           /\ ledger'[i].from = ledger[i].from /\ ledger'[i].status = ledger[i].status
    BY <2>1, <2>2, <2>3
  <2>5. \A i \in LedgerIds \ Entries : ledger'[i] = NoEntry
    BY <2>1
  <2>6. Entries' = Entries
    BY <2>3, <2>4, <2>5, LedgerAssumption DEF Entries
  <2>7. ledger' \in [LedgerIds -> {NoEntry} \cup EntryRows]
    BY <2>1, <2>4, <2>5
  <2>8. DatesOrdered'
    BY <2>4, <2>6 DEF EntriesHold, DatesOrdered
  <2>9. PredecessorIsClosed'
    BY <2>4, <2>6 DEF EntriesHold, PredecessorIsClosed
  <2>10. EntriesHold'
    BY <2>1, <2>6, <2>7, <2>8, <2>9 DEF EntriesHold
  <2> QED BY <2>1, <2>10 DEF CallsHold
<1>3. ASSUME NEW o \in LedgerOps, LedgerReceive(o) PROVE LedgerInv'
  <2>1. PICK kind \in LedgerKinds, id \in LedgerIds, form \in LedgerForms :
          lop' = [lop EXCEPT ![o] =
            [pc |-> IF kind = "create" THEN "limit" ELSE "own",
             kind |-> kind, id |-> id, form |-> form, seen |-> NoEntry, count |-> 0]]
    BY <1>3 DEF LedgerReceive
  <2> DEFINE op == [pc |-> IF kind = "create" THEN "limit" ELSE "own",
                    kind |-> kind, id |-> id, form |-> form, seen |-> NoEntry, count |-> 0]
  <2>2. op \in LedgerCalls /\ CallAgrees(op)
    BY DEF LedgerCalls, LedgerBusy, CallAgrees, LedgerKinds
  <2>3. lop' = [lop EXCEPT ![o] = op]
    BY <2>1
  <2> HIDE DEF op
  <2> QED BY <1>3, <2>2, <2>3, CallMoves, EntriesKept DEF LedgerReceive
<1>b. ASSUME NEW o \in LedgerOps, lop[o].pc \in {"own", "limit", "clean", "write"}
      PROVE  lop[o] \in LedgerBusy /\ CallAgrees(lop[o])
  BY <1>b DEF CallsHold, LedgerCalls
<1>4. ASSUME NEW o \in LedgerOps, GetOwned(o) PROVE LedgerInv'
  <2> DEFINE op == lop[o]
             at == [op EXCEPT !.seen = ledger[op.id]]
             to == [at EXCEPT !.pc = AfterRead(op.kind)]
  <2>1. op \in LedgerBusy /\ CallAgrees(op) /\ op.pc = "own"
    BY <1>4, <1>b DEF GetOwned
  <2>2. UNCHANGED <<ledger, filed, ledgerRaced>>
    BY <1>4 DEF GetOwned
  <2>3. CASE ~OwnedEntry(op)
    BY <1>4, <2>2, <2>3, CallEnds, EntriesKept DEF GetOwned
  <2>4. CASE OwnedEntry(op)
    <3>1. ledger[op.id] \in EntryRows /\ op.id \in LedgerIds /\ op.kind \in LedgerKinds \ {"create"}
      BY <2>1, <2>4 DEF OwnedEntry, EntriesHold, LedgerBusy, CallAgrees
    <3>2. /\ at \in LedgerBusy /\ at.seen = ledger[op.id] /\ at.kind = op.kind
      BY <2>1, <3>1 DEF LedgerBusy
    <3>3. lop' = [lop EXCEPT ![o] = to]
      BY <1>4, <2>4 DEF GetOwned
    <3> HIDE DEF at
    <3>4. AfterRead(op.kind) = CASE op.kind = "renew" -> "limit" [] op.kind = "update" -> "clean" [] OTHER -> "write"
      BY DEF AfterRead
    <3>5. /\ to \in LedgerBusy /\ to.seen # NoEntry /\ to.kind = op.kind /\ op.kind # "create"
          /\ to.pc = AfterRead(op.kind)
      BY <3>1, <3>2, <3>4, LedgerAssumption DEF LedgerBusy
    <3> HIDE DEF to
    <3>6. CallAgrees(to)
      BY <3>4, <3>5, <3>1 DEF CallAgrees, LedgerKinds
    <3> QED BY <2>2, <3>3, <3>5, <3>6, CallMoves, EntriesKept DEF LedgerCalls
  <2> QED BY <2>3, <2>4
<1>5. ASSUME NEW o \in LedgerOps, AssertLedgerCreate(o) PROVE LedgerInv'
  <2> DEFINE op == lop[o]
             at == [op EXCEPT !.pc = "clean"]
             to == [at EXCEPT !.count = Cardinality(Entries)]
  <2>1. op \in LedgerBusy /\ CallAgrees(op) /\ op.pc = "limit"
    BY <1>5, <1>b DEF AssertLedgerCreate
  <2>2. UNCHANGED <<ledger, filed, ledgerRaced>>
    BY <1>5 DEF AssertLedgerCreate
  <2>3. CASE ~UnderLimit(Cardinality(Entries))
    BY <1>5, <2>2, <2>3, CallEnds, EntriesKept DEF AssertLedgerCreate
  <2>4. CASE UnderLimit(Cardinality(Entries))
    <3>1. at \in LedgerBusy /\ at.pc = "clean" /\ at.kind = op.kind /\ at.seen = op.seen
      BY <2>1 DEF LedgerBusy
    <3>2. lop' = [lop EXCEPT ![o] = to]
      BY <1>5, <2>4 DEF AssertLedgerCreate
    <3> HIDE DEF at
    <3>3. /\ to \in LedgerBusy /\ to.pc = "clean" /\ to.kind = op.kind /\ to.seen = op.seen
          /\ to.count = Cardinality(Entries)
      BY <3>1, EntriesFinite DEF LedgerBusy
    <3> HIDE DEF to
    <3>4. CallAgrees(to)
      BY <2>1, <2>4, <3>3 DEF CallAgrees, UnderLimit
    <3> QED BY <2>2, <3>2, <3>3, <3>4, CallMoves, EntriesKept DEF LedgerCalls
  <2> QED BY <2>3, <2>4
<1>6. ASSUME NEW o \in LedgerOps, CleanEntry(o) PROVE LedgerInv'
  <2> DEFINE op == lop[o]
             to == [op EXCEPT !.pc = "write"]
  <2>1. op \in LedgerBusy /\ CallAgrees(op) /\ op.pc = "clean"
    BY <1>6, <1>b DEF CleanEntry
  <2>2. UNCHANGED <<ledger, filed, ledgerRaced>>
    BY <1>6 DEF CleanEntry
  <2>3. CASE ~CleanDto(EntryDefaults(op))
    BY <1>6, <2>2, <2>3, CallEnds, EntriesKept DEF CleanEntry
  <2>4. CASE CleanDto(EntryDefaults(op))
    <3>1. lop' = [lop EXCEPT ![o] = to]
      BY <1>6, <2>4 DEF CleanEntry, LedgerGo
    <3>2. /\ to \in LedgerBusy /\ to.pc = "write" /\ to.kind = op.kind /\ to.seen = op.seen
          /\ to.count = op.count /\ to.form = op.form
      BY <2>1 DEF LedgerBusy
    <3> HIDE DEF to
    <3>3. EntryDefaults(to) = EntryDefaults(op)
      BY <3>2 DEF EntryDefaults
    <3>4. CallAgrees(to)
      BY <2>1, <2>4, <3>2, <3>3 DEF CallAgrees, CleanDto
    <3> QED BY <2>2, <3>1, <3>2, <3>4, CallMoves, EntriesKept DEF LedgerCalls
  <2> QED BY <2>3, <2>4
<1>r. ASSUME NEW d, d.start \in Int, d.end \in Int, d.link \in BOOLEAN, NEW from \in LedgerIds \cup {NoEntry}
      PROVE  /\ LedgerRow(d, from) \in EntryRows /\ LedgerRow(d, from).start = d.start
             /\ LedgerRow(d, from).end = d.end /\ LedgerRow(d, from).from = from
  BY <1>r DEF LedgerRow, EntryRows, EntryStatus
<1>7. ASSUME NEW o \in LedgerOps, CreateEntry(o) PROVE LedgerInv'
  <2> DEFINE d == EntryDefaults(lop[o])
  <2>1. lop[o] \in LedgerBusy /\ CallAgrees(lop[o]) /\ lop[o].pc = "write" /\ lop[o].kind = "create"
    BY <1>7, <1>b DEF CreateEntry
  <2>2. CallsHold' /\ UNCHANGED filed
    BY <1>7, CallEnds DEF CreateEntry
  <2>3. CASE UNCHANGED <<ledger, ledgerRaced>>
    BY <2>2, <2>3, EntriesKept
  <2>4. CASE /\ CountIsStale(o)
             /\ \E new \in LedgerIds \ Entries : ledger' = [ledger EXCEPT ![new] = LedgerRow(d, NoEntry)]
    <3>1. PICK new \in LedgerIds \ Entries : ledger' = [ledger EXCEPT ![new] = LedgerRow(d, NoEntry)]
      BY <2>4
    <3> DEFINE row == LedgerRow(d, NoEntry)
    <3>2. row \in EntryRows /\ row.start = d.start /\ row.end = d.end /\ row.from = NoEntry
      BY <1>r, <2>1, DefaultsInType
    <3>3. d.end >= d.start /\ lop[o].count < LedgerMax
      BY <2>1 DEF CallAgrees
    <3>4. ledger' = [ledger EXCEPT ![new] = row]
      BY <3>1
    <3> HIDE DEF row, d
    <3>5. /\ ledger' \in [LedgerIds -> {NoEntry} \cup EntryRows] /\ ledger'[new] = row
          /\ \A i \in LedgerIds \ {new} : ledger'[i] = ledger[i]
      BY <3>2, <3>4 DEF EntriesHold
    <3>6. Entries' = Entries \cup {new} /\ \A i \in Entries : ledger'[i] = ledger[i]
      BY <3>2, <3>5, LedgerAssumption DEF Entries
    <3>7. EntriesHold'
      BY <2>4, <3>2, <3>3, <3>5, <3>6, EntryAdded
    <3>8. ledgerRaced' \in BOOLEAN
      BY <2>4 DEF CountIsStale
    <3> QED BY <2>2, <3>7, <3>8
  <2> QED BY <1>7, <2>3, <2>4 DEF CreateEntry
<1>8. ASSUME NEW o \in LedgerOps, UpdateEntry(o) PROVE LedgerInv'
  <2> DEFINE op == lop[o]
             d == EntryDefaults(op)
             row == UpdatedEntry(ledger[op.id], op)
  <2>1. op \in LedgerBusy /\ CallAgrees(op) /\ op.pc = "write" /\ op.kind = "update"
    BY <1>8, <1>b DEF UpdateEntry
  <2>2. CallsHold' /\ UNCHANGED <<filed, ledgerRaced>>
    BY <1>8, CallEnds DEF UpdateEntry
  <2>3. CASE UNCHANGED ledger
    BY <2>2, <2>3, EntriesKept
  <2>4. CASE ledger[op.id] # NoEntry /\ ledger' = [ledger EXCEPT ![op.id] = row]
    <3>1. ledger[op.id] \in EntryRows /\ op.id \in Entries
      BY <2>1, <2>4 DEF LedgerBusy, EntriesHold, Entries
    <3>2. d.start \in Int /\ d.end \in Int /\ d.link \in BOOLEAN /\ d.end >= d.start
      BY <2>1, DefaultsInType DEF CallAgrees
    <3> DEFINE r1 == [ledger[op.id] EXCEPT !.start = d.start]
               r2 == [r1 EXCEPT !.end = d.end]
               r3 == [r2 EXCEPT !.link = d.link]
    <3>3. row = r3
      BY DEF UpdatedEntry
    <3> HIDE DEF d, row
    <3>4. r1 \in EntryRows /\ r1.start = d.start /\ r1.status = ledger[op.id].status /\ r1.from = ledger[op.id].from
      BY <3>1, <3>2 DEF EntryRows
    <3> HIDE DEF r1
    <3>5. r2 \in EntryRows /\ r2.start = d.start /\ r2.end = d.end /\ r2.status = r1.status /\ r2.from = r1.from
      BY <3>2, <3>4 DEF EntryRows
    <3> HIDE DEF r2
    <3>6. r3 \in EntryRows /\ r3.start = d.start /\ r3.end = d.end /\ r3.status = r2.status /\ r3.from = r2.from
      BY <3>2, <3>5 DEF EntryRows
    <3> HIDE DEF r3
    <3>7. EntriesHold'
      BY <2>2, <2>4, <3>1, <3>2, <3>3, <3>4, <3>5, <3>6, EntryRewritten
    <3> QED BY <2>2, <3>7
  <2> QED BY <1>8, <2>3, <2>4 DEF UpdateEntry
<1>9. ASSUME NEW o \in LedgerOps, RenewEntry(o) PROVE LedgerInv'
  <2> DEFINE op == lop[o]
             d == EntryDefaults(op)
  <2>1. op \in LedgerBusy /\ CallAgrees(op) /\ op.pc = "write" /\ op.kind = "renew"
    BY <1>9, <1>b DEF RenewEntry
  <2>2. CallsHold' /\ UNCHANGED filed
    BY <1>9, CallEnds DEF RenewEntry
  <2>3. CASE UNCHANGED <<ledger, ledgerRaced>>
    BY <2>2, <2>3, EntriesKept
  <2>4. CASE /\ ledger[op.id] # NoEntry /\ CountIsStale(o)
             /\ \E new \in LedgerIds \ Entries :
                  ledger' = [ledger EXCEPT ![op.id] = ClosedEntry(ledger[op.id]), ![new] = LedgerRow(d, op.id)]
    <3>1. PICK new \in LedgerIds \ Entries :
            ledger' = [ledger EXCEPT ![op.id] = ClosedEntry(ledger[op.id]), ![new] = LedgerRow(d, op.id)]
      BY <2>4
    <3> DEFINE row == LedgerRow(d, op.id)
               old == ClosedEntry(ledger[op.id])
    <3>2. op.id \in LedgerIds /\ op.id \in Entries /\ ledger[op.id] \in EntryRows
      BY <2>1, <2>4 DEF LedgerBusy, EntriesHold, Entries
    <3>3. row \in EntryRows /\ row.start = d.start /\ row.end = d.end /\ row.from = op.id
      BY <1>r, <2>1, <3>2, DefaultsInType
    <3>4. /\ old \in EntryRows /\ old.start = ledger[op.id].start /\ old.end = ledger[op.id].end
          /\ old.from = ledger[op.id].from /\ old.status # "ACTIVE"
      BY <3>2 DEF ClosedEntry, EntryRows, EntryStatus
    <3>5. d.end >= d.start /\ op.count < LedgerMax
      BY <2>1 DEF CallAgrees
    <3>6. ledger' = [ledger EXCEPT ![op.id] = old, ![new] = row]
      BY <3>1
    <3> HIDE DEF row, d, old
    <3>7. /\ ledger' \in [LedgerIds -> {NoEntry} \cup EntryRows] /\ ledger'[new] = row /\ ledger'[op.id] = old
          /\ \A i \in LedgerIds \ {new, op.id} : ledger'[i] = ledger[i]
      BY <3>2, <3>3, <3>4, <3>6 DEF EntriesHold
    <3>8. Entries' = Entries \cup {new}
      BY <3>2, <3>3, <3>4, <3>7, LedgerAssumption DEF Entries
    <3>9. \A i \in Entries : /\ ledger'[i].start = ledger[i].start /\ ledger'[i].end = ledger[i].end
                             /\ ledger'[i].from = ledger[i].from
                             /\ ledger'[i].status # "ACTIVE" \/ ledger'[i].status = ledger[i].status
      BY <3>4, <3>7 DEF Entries
    <3>f. row.from \in Entries /\ ledger'[row.from].status # "ACTIVE" /\ row.end >= row.start
      BY <3>2, <3>3, <3>4, <3>5, <3>7
    <3>10. EntriesHold'
      BY <2>4, <3>3, <3>5, <3>7, <3>8, <3>9, <3>f, EntryAdded
    <3>11. ledgerRaced' \in BOOLEAN
      BY <2>4 DEF CountIsStale
    <3> QED BY <2>2, <3>10, <3>11
  <2> QED BY <1>9, <2>3, <2>4 DEF RenewEntry
<1>10. ASSUME NEW o \in LedgerOps, TerminateEntry(o) PROVE LedgerInv'
  <2> DEFINE op == lop[o]
             row == [ledger[op.id] EXCEPT !.status = "TERMINATED"]
  <2>1. op \in LedgerBusy
    BY <1>10, <1>b DEF TerminateEntry
  <2>2. CallsHold' /\ UNCHANGED <<filed, ledgerRaced>>
    BY <1>10, CallEnds DEF TerminateEntry
  <2>3. CASE UNCHANGED ledger
    BY <2>2, <2>3, EntriesKept
  <2>4. CASE ledger[op.id] # NoEntry /\ ledger' = [ledger EXCEPT ![op.id].status = "TERMINATED"]
    <3>1. ledger[op.id] \in EntryRows /\ op.id \in Entries
      BY <2>1, <2>4 DEF LedgerBusy, EntriesHold, Entries
    <3>2. /\ row \in EntryRows /\ row.start = ledger[op.id].start /\ row.end = ledger[op.id].end
          /\ row.from = ledger[op.id].from /\ row.status # "ACTIVE"
      BY <3>1 DEF EntryRows, EntryStatus
    <3>3. ledger' = [ledger EXCEPT ![op.id] = row]
      BY <2>4
    <3>4. ledger[op.id].end >= ledger[op.id].start
      BY <3>1 DEF EntriesHold, DatesOrdered
    <3> HIDE DEF row
    <3> QED BY <2>2, <3>1, <3>2, <3>3, <3>4, EntryRewritten
  <2> QED BY <1>10, <2>3, <2>4 DEF TerminateEntry
<1>11. ASSUME NEW o \in LedgerOps, DeleteEntry(o) PROVE LedgerInv'
  <2> DEFINE id == lop[o].id
  <2>1. CallsHold' /\ UNCHANGED <<filed, ledgerRaced>>
    BY <1>11, CallEnds DEF DeleteEntry
  <2>2. ledger' = [i \in LedgerIds |->
          CASE i = id -> NoEntry
            [] i \in Entries \ {id} /\ ledger[i].from = id -> [ledger[i] EXCEPT !.from = NoEntry]
            [] OTHER -> ledger[i]]
    BY <1>11 DEF DeleteEntry
  <2> HIDE DEF id
  <2>3. \A row \in EntryRows :
          LET new == [row EXCEPT !.from = NoEntry] IN
          /\ new \in EntryRows /\ new.start = row.start /\ new.end = row.end
          /\ new.from = NoEntry /\ new.status = row.status
    BY DEF EntryRows
  <2>4. \A i \in Entries : ledger[i] \in EntryRows /\ i \in LedgerIds
    BY DEF EntriesHold, Entries
  <2>5. \A i \in Entries \ {id} :
          /\ ledger'[i] \in EntryRows
          /\ ledger'[i].start = ledger[i].start /\ ledger'[i].end = ledger[i].end
          /\ ledger'[i].status = ledger[i].status
          /\ ledger'[i].from = IF ledger[i].from = id THEN NoEntry ELSE ledger[i].from
    <3>1. ASSUME NEW i \in Entries \ {id}, ledger[i].from = id
          PROVE  ledger'[i] = [ledger[i] EXCEPT !.from = NoEntry]
      BY <2>2, <2>4, <3>1
    <3>2. ASSUME NEW i \in Entries \ {id}, ledger[i].from # id PROVE ledger'[i] = ledger[i]
      BY <2>2, <2>4, <3>2
    <3> QED
      <4> TAKE i \in Entries \ {id}
      <4>1. ledger[i] \in EntryRows
        BY <2>4
      <4>2. CASE ledger[i].from = id
        BY <2>3, <3>1, <4>1, <4>2
      <4>3. CASE ledger[i].from # id
        BY <3>2, <4>1, <4>3
      <4> QED BY <4>2, <4>3
  <2>6. \A i \in LedgerIds \ (Entries \ {id}) : ledger'[i] = NoEntry
    BY <2>2 DEF Entries
  <2>7. Entries' = Entries \ {id}
    BY <2>4, <2>5, <2>6, LedgerAssumption DEF Entries
  <2>8. ledger' \in [LedgerIds -> {NoEntry} \cup EntryRows]
    BY <2>2, <2>5, <2>6
  <2>9. DatesOrdered'
    BY <2>5, <2>7 DEF EntriesHold, DatesOrdered
  <2>10. PredecessorIsClosed'
    BY <2>5, <2>7 DEF EntriesHold, PredecessorIsClosed
  <2>11. ledgerRaced \/ Cardinality(Entries') <= LedgerMax
    BY <2>7, EntriesFinite, NoMore, LedgerAssumption DEF EntriesHold
  <2>12. EntriesHold'
    BY <2>1, <2>8, <2>9, <2>10, <2>11 DEF EntriesHold
  <2> QED BY <2>1, <2>12
<1> QED BY <1>1, <1>2, <1>3, <1>4, <1>5, <1>6, <1>7, <1>8, <1>9, <1>10, <1>11 DEF LedgerNext

(* The figures in memory and the filters in SQL.                           *)
LEMMA LedgerAgrees ==
  ASSUME LedgerInv
  PROVE  LedgerTypeOK /\ DatesOrdered /\ PredecessorIsClosed /\ FiguresMatchLists /\ EntriesUnlessRaced
<1>1. \A i \in Entries : i \in LedgerIds /\ ledger[i] \in EntryRows
  BY DEF LedgerInv, EntriesHold, Entries
<1>2. LedgerTypeOK
  <2>1. \A o \in LedgerOps : lop[o].pc \in {"idle", "own", "limit", "clean", "write", "done"}
    BY DEF LedgerInv, CallsHold, LedgerCalls, LedgerBusy
  <2>2. \A i \in Entries :
          /\ ledger[i].status \in EntryStatus
          /\ ledger[i].start \in Int /\ ledger[i].end \in Int
          /\ ledger[i].link \in BOOLEAN
          /\ ledger[i].from \in LedgerIds \cup {NoEntry}
    BY <1>1 DEF EntryRows
  <2> QED BY <2>1, <2>2 DEF LedgerTypeOK, LedgerInv
<1>3. FiguresMatchLists
  <2> DEFINE active == {i \in Entries : ledger[i].status = "ACTIVE"}
  <2>1. LedgerList("ACTIVE") = active
    BY DEF LedgerList
  <2>2. \A i \in active : BucketOf(ledger[i]) = "DUE_30" <=> ledger[i].end # OpenEnd /\ ledger[i].end \in Today .. Today + 30
    BY <1>1 DEF BucketOf, EntryRows, Today, OpenEnd
  <2>3. \A i \in active : BucketOf(ledger[i]) = "EXPIRED" <=> ledger[i].end < Today
    BY <1>1 DEF BucketOf, EntryRows, Today, OpenEnd
  <2>4. LedgerList("DUE_30") = {i \in active : BucketOf(ledger[i]) = "DUE_30"}
    BY <2>2 DEF LedgerList
  <2>5. LedgerList("EXPIRED") = {i \in active : BucketOf(ledger[i]) = "EXPIRED"}
    BY <2>3 DEF LedgerList
  <2> QED BY <2>1, <2>4, <2>5 DEF FiguresMatchLists, LedgerStats
<1>4. EntriesUnlessRaced
  BY EntriesFinite, LedgerAssumption DEF LedgerInv, EntriesHold, EntriesUnlessRaced
<1> QED BY <1>2, <1>3, <1>4 DEF LedgerInv, EntriesHold

===============================================================================
