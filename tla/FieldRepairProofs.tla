-------------------------- MODULE FieldRepairProofs --------------------------
(***************************************************************************)
(* What FieldRepair promises of every value of a record, for any number of *)
(* fields, items and pages, any configuration and any store.  Every action *)
(* ends in one of a few steps (a value is kept, an episode is begun, the   *)
(* pipeline goes on); each is proved once.                                 *)
(***************************************************************************)
EXTENDS FieldRepair, TLAPS

Pipeline == {"configured", "observe", "fallback", "cached_repair", "scrapling_adaptive",
             "model", "llm_text"}
BeforeModel == Pipeline \ {"model", "llm_text"}
Always == {"create", "features", "observation", "manifest"}
OfModel == {"proposal", "verdict"}

CallsOf(s) == {s[i] : i \in 1..Len(s)}

(* Of the attempts: the stages that accepted, and whether a selector of the *)
(* model was tried.                                                         *)
AcceptedBy(a) == {x.stage : x \in {b \in a : b.accepted}}
Asked(a) == \E x \in a : x.stage = "llm_text"

Recorded(stage, more) == \E e \in listed : e.stage = stage /\ Always \cup more \subseteq e.written

(* What the record is promised of a value. *)
Best(value) ==
    /\ value.value \in {"none", "good"} \/ (value.stage = "source" /\ value.field \in LegacySource)
    /\ value.stage \in Methods =>
        /\ value.stage = "exhausted" <=> AcceptedBy(attempts) = {}
        /\ \A stage \in AcceptedBy(attempts) : Confidence[stage] <= Confidence[value.stage]

Weak(value) == value.stage \in Methods /\ Confidence[value.stage] < crawl.threshold

Documented(value) ==
    /\ Weak(value) => Recorded(value.stage, IF Asked(attempts) THEN OfModel ELSE {})
    /\ value.stage = "source" /\ value.value # "good" => Recorded("source", {})
    /\ value.field \in DeclaredSource /\ value.stage # "source" => Recorded("source", {})

(* The parsed HTML is of the present page, and so is what a layer found.    *)
Fresh == \A c \in 0..MaxItems : cache[c] \in {0, page}

(* Until the model is asked, a layer that accepted has returned, or is      *)
(* about to; afterwards only the adaptive result is held back.              *)
InPipeline ==
    pc \in Pipeline =>
        /\ held \in {0, page}
        /\ pc \in BeforeModel => held = 0
        /\ pc = "configured" => tries = 0
        /\ pc = "fallback" => tries < NumFallbacks
        /\ AcceptedBy(attempts) = IF pc = "observe" THEN {"configured"}
                                  ELSE IF held # 0 THEN {"scrapling_adaptive"} ELSE {}
        /\ crawl.store /\ field \in DeclaredSource => Recorded("source", {})

(* The value that waits until its episode is recorded is as good as kept,   *)
(* and the calls made and to come are all an episode must have.             *)
Recording ==
    pc = "record" =>
        /\ episode.stage \in Stages
        /\ Always \subseteq episode.written \cup CallsOf(episode.left)
        /\ after = [do |-> "repair"] => episode.stage = "source"
        /\ after \in Kept =>
            /\ Best(after) /\ after.from = page
            /\ after.stage \in Methods \cup {"source"} /\ episode.stage = after.stage
            /\ after.stage \in Methods /\ Asked(attempts) =>
                OfModel \subseteq episode.written \cup CallsOf(episode.left)
            /\ after.field \in DeclaredSource /\ after.stage # "source" => Recorded("source", {})

InRecord ==
    JustKept => Best(kept) /\ kept.from = page /\ (crawl.store => Documented(kept))

(* The type invariant in two halves: what the crawl knows, and where it is. *)
DataTyped ==
    /\ crawl \in Settings
    /\ page \in 1..MaxPages /\ items \in 0..MaxItems /\ tries \in 0..NumFallbacks
    /\ attempts \subseteq [stage : Methods \ {"exhausted"}, accepted : BOOLEAN]
    /\ held \in 0..MaxPages /\ cache \in [0..MaxItems -> 0..MaxPages]
    /\ listed \subseteq [stage : Stages, written : SUBSET Calls]

FlowTyped ==
    /\ pc \in Pipeline \cup {"open", "items", "field", "record", "next", "done", "failed"}
    /\ item \in 0..MaxItems /\ field \in Fields
    /\ episode.stage \in Stages \cup {"none"}
    /\ episode.written \subseteq Calls /\ episode.left \in Seq(Calls)
    /\ after \in Kept \cup {[do |-> x] : x \in {"repair", "leave", "raise"}}
    /\ kept \in Kept

FieldInv == DataTyped /\ FlowTyped /\ Fresh /\ InPipeline /\ Recording /\ InRecord

-----------------------------------------------------------------------------
(* Names and numbers *)

LEMMA Numbers ==
    /\ NumFields \in Nat \ {0} /\ NumFallbacks \in Nat \ {0} /\ MaxItems \in Nat
    /\ MaxPages \in Nat \ {0} /\ Fields = 1..NumFields /\ Thresholds \subseteq 1..100
  BY FieldAssumption DEF Fields

LEMMA MethodNames ==
    /\ Methods = {"configured", "fallback", "cached_repair", "llm_text", "scrapling_adaptive",
                  "exhausted"}
    /\ \A m \in Methods : Confidence[m] \in Nat
    /\ Confidence["exhausted"] = 0
  BY DEF Methods, Confidence

LEMMA TypedHalves == TypeOK <=> DataTyped /\ FlowTyped
  BY MethodNames DEF TypeOK, DataTyped, FlowTyped, Pipeline

LEMMA NoValueKept == NoValue \in Kept /\ NoValue.stage = "none" /\ \A x : [do |-> x] \notin Kept
<1>1. NoValue \in Kept
  BY Numbers DEF NoValue, Kept, Values
<1>2. ASSUME NEW x, [do |-> x] \in Kept PROVE FALSE
  <2>1. DOMAIN [do |-> x] = {"field", "stage", "value", "from"}
    BY <1>2 DEF Kept
  <2> QED BY <2>1
<1> QED BY <1>1, <1>2 DEF NoValue

LEMMA Elements ==
    /\ \A T : \A s, t \in Seq(T) : /\ s \o t \in Seq(T)
                                   /\ CallsOf(s \o t) = CallsOf(s) \cup CallsOf(t)
    /\ \A T : \A s \in Seq(T) : Len(s) > 0 =>
        /\ Head(s) \in T /\ Tail(s) \in Seq(T) /\ CallsOf(s) = {Head(s)} \cup CallsOf(Tail(s))
        /\ Len(s) = 1 => CallsOf(s) = {Head(s)}
    /\ \A x, y : CallsOf(<<x, y>>) = {x, y}
<1>1. ASSUME NEW T, NEW s \in Seq(T), NEW t \in Seq(T)
      PROVE  s \o t \in Seq(T) /\ CallsOf(s \o t) = CallsOf(s) \cup CallsOf(t)
  <2>1. /\ s \o t \in Seq(T) /\ Len(s \o t) = Len(s) + Len(t)
        /\ Len(s) \in Nat /\ Len(t) \in Nat
        /\ \A i \in 1..Len(s) : (s \o t)[i] = s[i]
        /\ \A i \in 1..Len(t) : (s \o t)[Len(s) + i] = t[i]
    OBVIOUS
  <2>2. ASSUME NEW i \in 1..(Len(s) + Len(t))
        PROVE  i \in 1..Len(s) \/ \E k \in 1..Len(t) : i = Len(s) + k
    <3>1. i \in 1..Len(s) \/ i - Len(s) \in 1..Len(t)
      BY <2>1
    <3>2. i = Len(s) + (i - Len(s))
      BY <2>1
    <3> QED BY <3>1, <3>2
  <2>3. \A i \in 1..Len(s) : i \in 1..(Len(s) + Len(t))
    BY <2>1
  <2>4. \A i \in 1..Len(t) : Len(s) + i \in 1..(Len(s) + Len(t))
    BY <2>1
  <2> QED BY <2>1, <2>2, <2>3, <2>4, SMTT(30) DEF CallsOf
<1>2. ASSUME NEW T, NEW s \in Seq(T), Len(s) > 0
      PROVE  /\ Head(s) \in T /\ Tail(s) \in Seq(T)
             /\ CallsOf(s) = {Head(s)} \cup CallsOf(Tail(s))
             /\ Len(s) = 1 => CallsOf(s) = {Head(s)}
  <2>1. /\ Head(s) = s[1] /\ Head(s) \in T /\ Tail(s) \in Seq(T) /\ Len(Tail(s)) = Len(s) - 1
        /\ Len(s) \in Nat /\ \A i \in 1..(Len(s) - 1) : Tail(s)[i] = s[i + 1]
    BY <1>2
  <2>2. ASSUME NEW i \in 1..Len(s) PROVE i = 1 \/ \E k \in 1..(Len(s) - 1) : i = k + 1
    <3>1. i = 1 \/ i - 1 \in 1..(Len(s) - 1)
      BY <2>1
    <3>2. i = (i - 1) + 1
      BY <2>1
    <3> QED BY <3>1, <3>2
  <2>3. 1 \in 1..Len(s) /\ \A k \in 1..(Len(s) - 1) : k + 1 \in 1..Len(s)
    BY <1>2, <2>1
  <2> QED BY <2>1, <2>2, <2>3 DEF CallsOf
<1>3. ASSUME NEW x, NEW y PROVE CallsOf(<<x, y>>) = {x, y}
  BY DEF CallsOf
<1> QED BY <1>1, <1>2, <1>3

-----------------------------------------------------------------------------
(* How a step ends: a value is kept, an episode begun or given up, or the  *)
(* crawl goes on elsewhere.  What the layers did to the data is a premise. *)

LEMMA Advances ==
    ASSUME DataTyped, FlowTyped, Advance
    PROVE  pc' \in {"field", "next"} /\ field' \in Fields /\ item' \in 0..MaxItems
<1> USE Numbers
<1>1. field \in 1..NumFields /\ item \in 0..MaxItems /\ items \in 0..MaxItems
  BY DEF DataTyped, FlowTyped
<1>2. CASE field < NumFields
  BY <1>1, <1>2 DEF Advance
<1>3. CASE ~(field < NumFields)
  <2>1. 1 \in Fields
    OBVIOUS
  <2> QED BY <1>1, <1>3, <2>1 DEF Advance
<1> QED BY <1>2, <1>3

LEMMA KeepStep ==
    ASSUME DataTyped, FlowTyped, DataTyped', Fresh', NEW value \in Kept, Keep(value),
           value # NoValue => /\ Best(value)' /\ value.from = page'
                              /\ (crawl.store => Documented(value))'
    PROVE  FieldInv'
<1>1. pc' \in {"field", "next"} /\ field' \in Fields /\ item' \in 0..MaxItems
  BY Advances DEF Keep
<1>2. kept' = value /\ episode' = NoEpisode /\ after' = NoValue
  BY DEF Keep
<1>3. FlowTyped'
  BY <1>1, <1>2, NoValueKept DEF FlowTyped, NoEpisode
<1>4. InPipeline' /\ Recording'
  BY <1>1 DEF InPipeline, Recording, Pipeline
<1>5. InRecord'
  BY <1>2 DEF InRecord, JustKept, Best, Documented, Weak, Recorded
<1> QED BY <1>3, <1>4, <1>5 DEF FieldInv

LEMMA AbandonStep ==
    ASSUME DataTyped, FlowTyped, DataTyped', Fresh', NEW to \in {"next", "failed"}, Abandon(to)
    PROVE  FieldInv'
<1>1. FlowTyped'
  BY NoValueKept DEF FlowTyped, Abandon, NoEpisode
<1>2. InPipeline' /\ Recording' /\ InRecord'
  BY DEF InPipeline, Recording, InRecord, JustKept, Pipeline, Abandon
<1> QED BY <1>1, <1>2 DEF FieldInv

LEMMA ElsewhereStep ==
    ASSUME DataTyped, FlowTyped, DataTyped', Fresh', NEW to \in {"open", "items", "done"}, Goto(to)
    PROVE  FieldInv'
<1>1. FlowTyped'
  BY DEF FlowTyped, Goto
<1>2. InPipeline' /\ Recording' /\ InRecord'
  BY DEF InPipeline, Recording, InRecord, JustKept, Pipeline, Goto
<1> QED BY <1>1, <1>2 DEF FieldInv

(* The episode laid out for a value that waits, for a repair to come or for *)
(* nothing.                                                                 *)
LEMMA EpisodeBegun ==
    ASSUME NEW stage, NEW asked, NEW then, BeginEpisode(stage, asked, then)
    PROVE  /\ pc' = "record" /\ after' = then /\ UNCHANGED <<item, field, kept>>
           /\ episode'.stage = stage /\ episode'.written = {} /\ episode'.left \in Seq(Calls)
           /\ Always \subseteq CallsOf(episode'.left)
           /\ asked => OfModel \subseteq CallsOf(episode'.left)
<1>1. PICK captured \in {<<>>, <<"capture">>} :
        episode' = [stage |-> stage, written |-> {},
                    left |-> <<"create", "features">> \o captured
                             \o (IF asked THEN <<"proposal", "verdict">> ELSE <<>>)
                             \o <<"observation", "manifest">>]
  BY DEF BeginEpisode
<1>2. PICK model : model = IF asked THEN <<"proposal", "verdict">> ELSE <<>>
  OBVIOUS
<1>3. PICK first, last : first = <<"create", "features">> /\ last = <<"observation", "manifest">>
  OBVIOUS
<1>4. /\ first \in Seq(Calls) /\ captured \in Seq(Calls) /\ model \in Seq(Calls)
      /\ last \in Seq(Calls)
  <2>1. \A x, y \in Calls : <<x, y>> \in Seq(Calls) /\ <<x>> \in Seq(Calls)
    OBVIOUS
  <2>2. {"create", "features", "capture", "proposal", "verdict", "observation", "manifest"}
           \subseteq Calls /\ <<>> \in Seq(Calls)
    BY DEF Calls
  <2> QED BY <1>2, <1>3, <2>1, <2>2
<1>5. /\ first \o captured \o model \o last \in Seq(Calls)
      /\ CallsOf(first \o captured \o model \o last) =
            CallsOf(first) \cup CallsOf(captured) \cup CallsOf(model) \cup CallsOf(last)
  <2>1. PICK s : s = first \o captured
    OBVIOUS
  <2>2. s \in Seq(Calls) /\ CallsOf(s) = CallsOf(first) \cup CallsOf(captured)
    BY <1>4, <2>1, Elements
  <2>3. PICK t : t = s \o model
    OBVIOUS
  <2>4. t \in Seq(Calls) /\ CallsOf(t) = CallsOf(s) \cup CallsOf(model)
    BY <1>4, <2>2, <2>3, Elements
  <2>5. t \o last \in Seq(Calls) /\ CallsOf(t \o last) = CallsOf(t) \cup CallsOf(last)
    BY <1>4, <2>4, Elements
  <2> QED BY <2>1, <2>2, <2>3, <2>4, <2>5
<1>6. /\ CallsOf(first) = {"create", "features"} /\ CallsOf(last) = {"observation", "manifest"}
      /\ asked => CallsOf(model) = {"proposal", "verdict"}
  BY <1>2, <1>3, Elements
<1>7. episode' = [stage |-> stage, written |-> {}, left |-> first \o captured \o model \o last]
  BY <1>1, <1>2, <1>3
<1>8. Always \subseteq CallsOf(episode'.left) /\ (asked => OfModel \subseteq CallsOf(episode'.left))
  BY <1>5, <1>6, <1>7 DEF Always, OfModel
<1> QED BY <1>5, <1>7, <1>8 DEF BeginEpisode

LEMMA EpisodeStep ==
    ASSUME DataTyped, FlowTyped, DataTyped', Fresh', NEW stage \in Stages, NEW asked, NEW then,
           BeginEpisode(stage, asked, then),
           then \in Kept \cup {[do |-> x] : x \in {"repair", "leave", "raise"}},
           then = [do |-> "repair"] => stage = "source",
           then \in Kept =>
             /\ Best(then)' /\ then.from = page'
             /\ then.stage \in Methods \cup {"source"} /\ stage = then.stage
             /\ then.stage \in Methods /\ Asked(attempts') => asked
             /\ then.field \in DeclaredSource /\ then.stage # "source" => Recorded("source", {})'
    PROVE  FieldInv'
<1>1. /\ pc' = "record" /\ after' = then /\ UNCHANGED <<item, field, kept>>
      /\ episode'.stage = stage /\ episode'.written = {} /\ episode'.left \in Seq(Calls)
      /\ Always \subseteq CallsOf(episode'.left)
      /\ asked => OfModel \subseteq CallsOf(episode'.left)
  BY EpisodeBegun
<1>2. FlowTyped'
  BY <1>1 DEF FlowTyped
<1>3. InPipeline' /\ InRecord'
  BY <1>1 DEF InPipeline, InRecord, JustKept, Pipeline
<1>4. Recording'
  <2>1. (after \in Kept)' => Best(after)'
    BY <1>1 DEF Best
  <2> QED BY <1>1, <2>1 DEF Recording
<1> QED BY <1>2, <1>3, <1>4 DEF FieldInv

(* A result of the pipeline that is the best of the attempts. *)
LEMMA ReturnStep ==
    ASSUME DataTyped, FlowTyped, DataTyped', Fresh', UNCHANGED <<crawl, page>>,
           NEW stage \in Methods, NEW value \in {"none", "good"}, Return(stage, value, page),
           stage = "exhausted" <=> AcceptedBy(attempts') = {},
           \A m \in AcceptedBy(attempts') : Confidence[m] <= Confidence[stage],
           crawl.store /\ field \in DeclaredSource => Recorded("source", {})'
    PROVE  FieldInv'
<1>1. PICK result : result = [field |-> field, stage |-> stage, value |-> value, from |-> page]
  OBVIOUS
<1>2. /\ result \in Kept /\ result.field = field /\ result.stage = stage
      /\ result.value = value /\ result.from = page
  BY <1>1, Numbers DEF Kept, DataTyped, FlowTyped, Values
<1>3. Best(result)'
  BY <1>2 DEF Best
<1>4. stage \in Stages /\ stage # "source" /\ stage # "none"
  BY MethodNames DEF Stages
<1>5. CASE crawl.store /\ Confidence[stage] < crawl.threshold
  <2>1. BeginEpisode(stage, Asked(attempts'), result)
    BY <1>1, <1>5 DEF Return, Asked
  <2>2. \A x : result # [do |-> x]
    BY <1>2, NoValueKept
  <2> QED BY <1>2, <1>3, <1>4, <1>5, <2>1, <2>2, EpisodeStep
<1>6. CASE ~(crawl.store /\ Confidence[stage] < crawl.threshold)
  <2>1. Keep(result)
    BY <1>1, <1>6 DEF Return
  <2>2. (crawl.store => Documented(result))'
    BY <1>2, <1>4, <1>6 DEF Documented, Weak
  <2> QED BY <1>2, <1>3, <2>1, <2>2, KeepStep
<1> QED BY <1>5, <1>6

-----------------------------------------------------------------------------
(* The pipeline goes on, or begins *)

LEMMA LayerStep ==
    ASSUME DataTyped, FlowTyped, DataTyped', Fresh', UNCHANGED <<crawl, page>>,
           NEW to \in Pipeline, Goto(to),
           held' \in {0, page}, to \in BeforeModel => held' = 0,
           to = "configured" => tries' = 0, to = "fallback" => tries' < NumFallbacks,
           AcceptedBy(attempts') = IF to = "observe" THEN {"configured"}
                                   ELSE IF held' # 0 THEN {"scrapling_adaptive"} ELSE {},
           crawl.store /\ field \in DeclaredSource => Recorded("source", {})'
    PROVE  FieldInv'
<1>1. pc' = to /\ UNCHANGED <<item, field, episode, after, kept>>
  BY DEF Goto
<1>2. FlowTyped'
  BY <1>1 DEF FlowTyped
<1>3. InPipeline'
  BY <1>1 DEF InPipeline
<1>4. Recording' /\ InRecord'
  BY <1>1 DEF Recording, InRecord, JustKept, Pipeline
<1> QED BY <1>2, <1>3, <1>4 DEF FieldInv

LEMMA LastResortStep ==
    ASSUME DataTyped, FlowTyped, DataTyped', Fresh', UNCHANGED <<crawl, page>>,
           NEW adaptive \in {0, page}, LastResort(adaptive),
           AcceptedBy(attempts') = IF adaptive # 0 THEN {"scrapling_adaptive"} ELSE {},
           crawl.store /\ field \in DeclaredSource => Recorded("source", {})'
    PROVE  FieldInv'
<1>1. CASE adaptive # 0
  <2>1. Return("scrapling_adaptive", "good", page)
    BY <1>1 DEF LastResort
  <2>2. Confidence["scrapling_adaptive"] <= Confidence["scrapling_adaptive"]
    BY MethodNames
  <2> QED BY <1>1, <2>1, <2>2, MethodNames, ReturnStep
<1>2. CASE adaptive = 0
  <2>1. Return("exhausted", "none", page)
    BY <1>2 DEF LastResort
  <2> QED BY <1>2, <2>1, MethodNames, ReturnStep
<1> QED BY <1>1, <1>2

LEMMA Ordered ==
    /\ Len(Order) = 5
    /\ Order[1] = "configured" /\ Order[2] = "fallback" /\ Order[3] = "cached_repair"
    /\ Order[4] = "scrapling_adaptive" /\ Order[5] = "model"
  BY DEF Order

LEMMA NextLayer ==
    ASSUME NEW i \in 2..5, NEW adaptive, GoOn(i, adaptive)
    PROVE  LastResort(adaptive) \/ \E k \in i..5 : Goto(Order[k])
<1>1. PICK ready : ready = {j \in i..5 : Available(Order[j])}
  OBVIOUS
<1>2. IF ready = {} THEN LastResort(adaptive)
      ELSE Goto(Order[CHOOSE j \in ready : \A k \in ready : j <= k])
  BY <1>1, Ordered DEF GoOn
<1>3. CASE ready # {}
  <2>1. ready \subseteq 2..5
    BY <1>1
  <2>2. \E j \in ready : \A k \in ready : j <= k
    <3>1. CASE 2 \in ready
      BY <2>1, <3>1
    <3>2. CASE 2 \notin ready /\ 3 \in ready
      BY <2>1, <3>2
    <3>3. CASE 2 \notin ready /\ 3 \notin ready /\ 4 \in ready
      BY <2>1, <3>3
    <3>4. CASE 2 \notin ready /\ 3 \notin ready /\ 4 \notin ready
      <4>1. \A j \in ready : j = 5
        BY <2>1, <3>4
      <4> QED BY <1>3, <4>1
    <3> QED BY <3>1, <3>2, <3>3, <3>4
  <2>3. PICK k : k = CHOOSE j \in ready : \A l \in ready : j <= l
    OBVIOUS
  <2>4. k \in ready
    BY <2>2, <2>3
  <2> QED BY <1>1, <1>2, <1>3, <2>3, <2>4
<1> QED BY <1>2, <1>3

LEMMA GoOnStep ==
    ASSUME DataTyped, FlowTyped, DataTyped', Fresh', UNCHANGED <<crawl, page>>,
           NEW i \in 2..5, GoOn(i, held'), held' \in {0, page}, held' # 0 => i = 5,
           i = 2 => tries' < NumFallbacks,
           AcceptedBy(attempts') = IF held' # 0 THEN {"scrapling_adaptive"} ELSE {},
           crawl.store /\ field \in DeclaredSource => Recorded("source", {})'
    PROVE  FieldInv'
<1>1. PICK adaptive : adaptive = held'
  OBVIOUS
<1>2. CASE LastResort(adaptive)
  BY <1>1, <1>2, LastResortStep
<1>3. ASSUME NEW k \in i..5, Goto(Order[k]) PROVE FieldInv'
  <2>1. PICK to : to = Order[k]
    OBVIOUS
  <2>2. k \in 2..5 /\ (held' # 0 => k = 5) /\ (k = 2 => i = 2)
    OBVIOUS
  <2>3. /\ to \in Pipeline /\ to # "observe" /\ to # "configured"
        /\ to = "fallback" => k = 2
        /\ to \in BeforeModel => k # 5
    BY <2>1, <2>2, Ordered DEF Pipeline, BeforeModel
  <2> QED BY <1>3, <2>1, <2>2, <2>3, LayerStep
<1>4. LastResort(adaptive) \/ \E k \in i..5 : Goto(Order[k])
  BY <1>1, NextLayer
<1> QED BY <1>2, <1>3, <1>4

LEMMA RepairStep ==
    ASSUME DataTyped, FlowTyped, DataTyped', Fresh', UNCHANGED <<crawl, page>>, Repair,
           crawl.store /\ field \in DeclaredSource => Recorded("source", {})'
    PROVE  FieldInv'
<1>1. tries' = 0 /\ attempts' = {} /\ held' = 0
  BY DEF Repair
<1>2. CASE HasRepairPath
  <2>1. PICK k : k = CHOOSE j \in 1..5 : Available(Order[j])
                              /\ \A l \in 1..(j - 1) : ~Available(Order[l])
    OBVIOUS
  <2>2. \E j \in 1..5 : Available(Order[j]) /\ \A l \in 1..(j - 1) : ~Available(Order[l])
    <3>1. Available(Order[1]) \/ Available(Order[2]) \/ Available(Order[3]) \/ Available(Order[5])
      BY <1>2, Ordered DEF HasRepairPath, Available
    <3>2. 1..0 = {} /\ 1..1 = {1} /\ 1..2 = {1, 2} /\ 1..3 = {1, 2, 3} /\ 1..4 = {1, 2, 3, 4}
      OBVIOUS
    <3>3. CASE Available(Order[1])
      BY <3>2, <3>3
    <3>4. CASE ~Available(Order[1]) /\ Available(Order[2])
      BY <3>2, <3>4
    <3>5. CASE ~Available(Order[1]) /\ ~Available(Order[2]) /\ Available(Order[3])
      BY <3>2, <3>5
    <3>6. CASE /\ ~Available(Order[1]) /\ ~Available(Order[2]) /\ ~Available(Order[3])
               /\ Available(Order[4])
      BY <3>2, <3>6
    <3>7. CASE /\ ~Available(Order[1]) /\ ~Available(Order[2]) /\ ~Available(Order[3])
               /\ ~Available(Order[4])
      BY <3>1, <3>2, <3>7
    <3> QED BY <3>3, <3>4, <3>5, <3>6, <3>7
  <2>3. k \in 1..5
    BY <2>1, <2>2
  <2>4. /\ pc' = Order[k] /\ episode' = NoEpisode /\ after' = NoValue
        /\ UNCHANGED <<item, field, kept>>
    BY <1>2, <2>1 DEF Repair
  <2>5. Order[k] \in Pipeline \ {"observe"}
    BY <2>3, Ordered DEF Pipeline
  <2>6. FlowTyped'
    BY <2>4, <2>5, NoValueKept DEF FlowTyped, NoEpisode
  <2>7. InPipeline'
    <3>1. AcceptedBy(attempts') = {}
      BY <1>1 DEF AcceptedBy
    <3> QED BY <1>1, <2>4, <2>5, <3>1, Numbers DEF InPipeline
  <2>8. Recording' /\ InRecord'
    BY <2>4, <2>5 DEF Recording, InRecord, JustKept, Pipeline
  <2> QED BY <2>6, <2>7, <2>8 DEF FieldInv
<1>3. CASE ~HasRepairPath
  <2>1. PICK value : value = [field |-> field, stage |-> "no_path", value |-> "none", from |-> page]
    OBVIOUS
  <2>2. /\ value \in Kept /\ value.field = field /\ value.stage = "no_path"
        /\ value.value = "none" /\ value.from = page
    BY <2>1, Numbers DEF Kept, DataTyped, FlowTyped, Values
  <2>3. Keep(value) \/ Keep(NoValue)
    BY <1>3, <2>1 DEF Repair, NoPath
  <2>4. Best(value)' /\ (crawl.store => Documented(value))'
    BY <2>2, MethodNames DEF Best, Documented, Weak
  <2> QED BY <2>2, <2>3, <2>4, NoValueKept, KeepStep
<1> QED BY <1>2, <1>3

-----------------------------------------------------------------------------
(* What a layer does to the data *)

LEMMA AttemptAdded ==
    ASSUME DataTyped, NEW stage \in Methods \ {"exhausted"}, NEW v \in Values, Attempted(stage, v)
    PROVE  /\ attempts' \subseteq [stage : Methods \ {"exhausted"}, accepted : BOOLEAN]
           /\ AcceptedBy(attempts') =
                AcceptedBy(attempts) \cup (IF Accepted(v) THEN {stage} ELSE {})
           /\ Accepted(v) => v = "good"
<1>1. PICK yes \in BOOLEAN : yes = Accepted(v)
  BY DEF Accepted
<1>2. attempts' = attempts \cup {[stage |-> stage, accepted |-> yes]}
  BY <1>1 DEF Attempted
<1>3. attempts \subseteq [stage : Methods \ {"exhausted"}, accepted : BOOLEAN]
  BY DEF DataTyped
<1>4. AcceptedBy(attempts') = AcceptedBy(attempts) \cup (IF yes THEN {stage} ELSE {})
  <2>1. PICK x : x = [stage |-> stage, accepted |-> yes]
    OBVIOUS
  <2>2. x.stage = stage /\ (x.accepted <=> yes) /\ attempts' = attempts \cup {x}
    BY <1>2, <2>1
  <2> QED BY <2>2 DEF AcceptedBy
<1>5. Accepted(v) => v = "good"
  BY DEF Accepted, Passed
<1> QED BY <1>1, <1>2, <1>3, <1>4, <1>5

LEMMA PageParsed ==
    ASSUME DataTyped, FlowTyped, Fresh, NEW html, Parsed(html), page' = page
    PROVE  cache' \in [0..MaxItems -> 0..MaxPages] /\ Fresh' /\ html \in {0, page}
<1>1. Context \in 0..MaxItems /\ page \in 0..MaxPages
  BY Numbers DEF Context, DataTyped, FlowTyped
<1>2. html \in {0, page} /\ html \in 0..MaxPages
  BY <1>1, Numbers DEF Parsed, Fresh
<1>3. cache' = [cache EXCEPT ![Context] = html] /\ cache \in [0..MaxItems -> 0..MaxPages]
  BY DEF Parsed, DataTyped
<1>4. \A c \in 0..MaxItems : cache'[c] = IF c = Context THEN html ELSE cache[c]
  BY <1>1, <1>3
<1> QED BY <1>1, <1>2, <1>3, <1>4 DEF Fresh

-----------------------------------------------------------------------------
(* The layers *)

LEMMA SameRecorded == ASSUME NEW stage, NEW more, UNCHANGED listed
                      PROVE  Recorded(stage, more)' <=> Recorded(stage, more)
  BY DEF Recorded

LEMMA ConfiguredStep == FieldInv /\ Configured => FieldInv'
<1> SUFFICES ASSUME FieldInv, Configured PROVE FieldInv'
  OBVIOUS
<1>1. /\ DataTyped /\ FlowTyped /\ Fresh
      /\ held = 0 /\ tries = 0 /\ AcceptedBy(attempts) = {}
      /\ crawl.store /\ field \in DeclaredSource => Recorded("source", {})
  BY DEF FieldInv, InPipeline, Configured, Pipeline, BeforeModel
<1>2. UNCHANGED <<crawl, page, items, tries, held, cache, listed>>
  BY DEF Configured, places
<1>3. PICK v \in Values :
        /\ Attempted("configured", v)
        /\ IF ~Accepted(v) THEN GoOn(2, held)
           ELSE IF crawl.adaptive THEN Goto("observe")
           ELSE Return("configured", v, page)
  BY DEF Configured
<1>4. /\ attempts' \subseteq [stage : Methods \ {"exhausted"}, accepted : BOOLEAN]
      /\ AcceptedBy(attempts') = IF Accepted(v) THEN {"configured"} ELSE {}
      /\ Accepted(v) => v = "good"
  BY <1>1, <1>3, AttemptAdded, MethodNames
<1>5. DataTyped' /\ Fresh' /\ (crawl.store /\ field \in DeclaredSource => Recorded("source", {})')
  BY <1>1, <1>2, <1>4, SameRecorded DEF DataTyped, Fresh
<1>6. CASE ~Accepted(v)
  <2>1. GoOn(2, held') /\ held' = 0 /\ tries' < NumFallbacks /\ AcceptedBy(attempts') = {}
    BY <1>1, <1>2, <1>3, <1>4, <1>6, Numbers
  <2> QED BY <1>1, <1>2, <1>5, <2>1, GoOnStep
<1>7. CASE Accepted(v) /\ crawl.adaptive
  BY <1>1, <1>2, <1>3, <1>4, <1>5, <1>7, LayerStep DEF Pipeline
<1>8. CASE Accepted(v) /\ ~crawl.adaptive
  <2>1. Return("configured", "good", page) /\ AcceptedBy(attempts') = {"configured"}
        /\ "configured" \in Methods \ {"exhausted"}
        /\ \A m \in {"configured"} : Confidence[m] <= Confidence["configured"]
    BY <1>3, <1>4, <1>8, MethodNames
  <2> QED BY <1>1, <1>2, <1>5, <2>1, ReturnStep
<1> QED BY <1>6, <1>7, <1>8

LEMMA ObserveStep == FieldInv /\ Observe => FieldInv'
<1> SUFFICES ASSUME FieldInv, Observe PROVE FieldInv'
  OBVIOUS
<1>1. /\ DataTyped /\ FlowTyped /\ Fresh /\ AcceptedBy(attempts) = {"configured"}
      /\ crawl.store /\ field \in DeclaredSource => Recorded("source", {})
  BY DEF FieldInv, InPipeline, Observe, Pipeline
<1>2. UNCHANGED <<crawl, page, items, tries, held, attempts, listed>>
  BY DEF Observe, places
<1>3. cache' \in [0..MaxItems -> 0..MaxPages] /\ Fresh'
  BY <1>1, <1>2, PageParsed DEF Observe
<1>4. DataTyped' /\ (crawl.store /\ field \in DeclaredSource => Recorded("source", {})')
  BY <1>1, <1>2, <1>3, SameRecorded DEF DataTyped
<1>5. /\ Return("configured", "good", page) /\ AcceptedBy(attempts') = {"configured"}
      /\ "configured" \in Methods \ {"exhausted"}
      /\ \A m \in {"configured"} : Confidence[m] <= Confidence["configured"]
  BY <1>1, <1>2, MethodNames DEF Observe
<1> QED BY <1>1, <1>2, <1>3, <1>4, <1>5, ReturnStep

LEMMA FallbackStep == FieldInv /\ Fallback => FieldInv'
<1> SUFFICES ASSUME FieldInv, Fallback PROVE FieldInv'
  OBVIOUS
<1>1. /\ DataTyped /\ FlowTyped /\ Fresh
      /\ held = 0 /\ tries < NumFallbacks /\ AcceptedBy(attempts) = {}
      /\ crawl.store /\ field \in DeclaredSource => Recorded("source", {})
  BY DEF FieldInv, InPipeline, Fallback, Pipeline, BeforeModel
<1>2. UNCHANGED <<crawl, page, items, held, cache, listed>> /\ tries' = tries + 1
  BY DEF Fallback, places
<1>3. PICK v \in Values :
        /\ Attempted("fallback", v)
        /\ IF Accepted(v) THEN Return("fallback", v, page)
           ELSE IF tries + 1 < NumFallbacks THEN Goto("fallback")
           ELSE GoOn(3, held)
  BY DEF Fallback
<1>4. /\ attempts' \subseteq [stage : Methods \ {"exhausted"}, accepted : BOOLEAN]
      /\ AcceptedBy(attempts') = IF Accepted(v) THEN {"fallback"} ELSE {}
      /\ Accepted(v) => v = "good"
  BY <1>1, <1>3, AttemptAdded, MethodNames
<1>5. tries' \in 0..NumFallbacks
  BY <1>1, <1>2, Numbers DEF DataTyped
<1>6. DataTyped' /\ Fresh' /\ (crawl.store /\ field \in DeclaredSource => Recorded("source", {})')
  BY <1>1, <1>2, <1>4, <1>5, SameRecorded DEF DataTyped, Fresh
<1>7. CASE Accepted(v)
  <2>1. Return("fallback", "good", page) /\ AcceptedBy(attempts') = {"fallback"}
        /\ "fallback" \in Methods \ {"exhausted"}
        /\ \A m \in {"fallback"} : Confidence[m] <= Confidence["fallback"]
    BY <1>3, <1>4, <1>7, MethodNames
  <2> QED BY <1>1, <1>2, <1>6, <2>1, ReturnStep
<1>8. CASE ~Accepted(v) /\ tries + 1 < NumFallbacks
  BY <1>1, <1>2, <1>3, <1>4, <1>6, <1>8, LayerStep DEF Pipeline
<1>9. CASE ~Accepted(v) /\ ~(tries + 1 < NumFallbacks)
  <2>1. GoOn(3, held') /\ held' = 0 /\ AcceptedBy(attempts') = {}
    BY <1>1, <1>2, <1>3, <1>4, <1>9
  <2> QED BY <1>1, <1>2, <1>6, <2>1, GoOnStep
<1> QED BY <1>7, <1>8, <1>9

LEMMA CachedRepairStep == FieldInv /\ CachedRepair => FieldInv'
<1> SUFFICES ASSUME FieldInv, CachedRepair PROVE FieldInv'
  OBVIOUS
<1>1. /\ DataTyped /\ FlowTyped /\ Fresh /\ held = 0 /\ AcceptedBy(attempts) = {}
      /\ crawl.store /\ field \in DeclaredSource => Recorded("source", {})
  BY DEF FieldInv, InPipeline, CachedRepair, Pipeline, BeforeModel
<1>2. UNCHANGED <<crawl, page, items, tries, held, cache, listed>>
  BY DEF CachedRepair, places
<1>3. PICK v \in Values :
        \/ /\ Attempted("cached_repair", v)
           /\ IF Accepted(v) THEN Return("cached_repair", v, page) ELSE GoOn(4, held)
        \/ attempts' = attempts /\ GoOn(4, held)
  BY DEF CachedRepair
<1>4. Fresh' /\ (crawl.store /\ field \in DeclaredSource => Recorded("source", {})')
  BY <1>1, <1>2, SameRecorded DEF Fresh
<1>5. CASE attempts' = attempts /\ GoOn(4, held)
  <2>1. DataTyped'
    BY <1>1, <1>2, <1>5 DEF DataTyped
  <2>2. GoOn(4, held') /\ held' = 0 /\ AcceptedBy(attempts') = {}
    BY <1>1, <1>2, <1>5
  <2> QED BY <1>1, <1>2, <1>4, <2>1, <2>2, GoOnStep
<1>6. CASE /\ Attempted("cached_repair", v)
           /\ IF Accepted(v) THEN Return("cached_repair", v, page) ELSE GoOn(4, held)
  <2>1. /\ attempts' \subseteq [stage : Methods \ {"exhausted"}, accepted : BOOLEAN]
        /\ AcceptedBy(attempts') = IF Accepted(v) THEN {"cached_repair"} ELSE {}
        /\ Accepted(v) => v = "good"
    BY <1>1, <1>6, AttemptAdded, MethodNames
  <2>2. DataTyped'
    BY <1>1, <1>2, <2>1 DEF DataTyped
  <2>3. CASE Accepted(v)
    <3>1. Return("cached_repair", "good", page) /\ AcceptedBy(attempts') = {"cached_repair"}
          /\ "cached_repair" \in Methods \ {"exhausted"}
          /\ \A m \in {"cached_repair"} : Confidence[m] <= Confidence["cached_repair"]
      BY <1>6, <2>1, <2>3, MethodNames
    <3> QED BY <1>1, <1>2, <1>4, <2>2, <3>1, ReturnStep
  <2>4. CASE ~Accepted(v)
    <3>1. GoOn(4, held') /\ held' = 0 /\ AcceptedBy(attempts') = {}
      BY <1>1, <1>2, <1>6, <2>1, <2>4
    <3> QED BY <1>1, <1>2, <1>4, <2>2, <3>1, GoOnStep
  <2> QED BY <2>3, <2>4
<1> QED BY <1>3, <1>5, <1>6

LEMMA AdaptiveStep == FieldInv /\ Adaptive => FieldInv'
<1> SUFFICES ASSUME FieldInv, Adaptive PROVE FieldInv'
  OBVIOUS
<1>1. /\ DataTyped /\ FlowTyped /\ Fresh /\ AcceptedBy(attempts) = {}
      /\ crawl.store /\ field \in DeclaredSource => Recorded("source", {})
  BY DEF FieldInv, InPipeline, Adaptive, Pipeline, BeforeModel
<1>2. UNCHANGED <<crawl, page, items, tries, listed>>
  BY DEF Adaptive, places
<1>3. PICK html \in 0..MaxPages : \E v \in ScraplingValues(html) :
        /\ Parsed(html)
        /\ Attempted("scrapling_adaptive", v)
        /\ held' = IF Accepted(v) THEN html ELSE 0
        /\ IF Accepted(v) /\ GoodEnough THEN Return("scrapling_adaptive", v, html)
           ELSE GoOn(5, held')
  BY DEF Adaptive
<1>4. PICK v \in ScraplingValues(html) :
        /\ Parsed(html)
        /\ Attempted("scrapling_adaptive", v)
        /\ held' = IF Accepted(v) THEN html ELSE 0
        /\ IF Accepted(v) /\ GoodEnough THEN Return("scrapling_adaptive", v, html)
           ELSE GoOn(5, held')
  BY <1>3
<1>5. cache' \in [0..MaxItems -> 0..MaxPages] /\ Fresh' /\ html \in {0, page}
  BY <1>1, <1>2, <1>4, PageParsed
<1>6. v \in Values /\ (html = 0 => v = "none")
  BY <1>4 DEF ScraplingValues, Values
<1>7. /\ attempts' \subseteq [stage : Methods \ {"exhausted"}, accepted : BOOLEAN]
      /\ AcceptedBy(attempts') = IF Accepted(v) THEN {"scrapling_adaptive"} ELSE {}
      /\ Accepted(v) => v = "good"
  BY <1>1, <1>4, <1>6, AttemptAdded, MethodNames
<1>8. (Accepted(v) => html = page /\ html # 0) /\ held' \in 0..MaxPages
  BY <1>4, <1>5, <1>6, <1>7, Numbers
<1>9. DataTyped' /\ (crawl.store /\ field \in DeclaredSource => Recorded("source", {})')
  BY <1>1, <1>2, <1>5, <1>7, <1>8, SameRecorded DEF DataTyped
<1>10. CASE Accepted(v) /\ GoodEnough
  <2>1. Return("scrapling_adaptive", "good", page)
        /\ AcceptedBy(attempts') = {"scrapling_adaptive"}
        /\ "scrapling_adaptive" \in Methods \ {"exhausted"}
        /\ \A m \in {"scrapling_adaptive"} : Confidence[m] <= Confidence["scrapling_adaptive"]
    BY <1>4, <1>7, <1>8, <1>10, MethodNames
  <2> QED BY <1>1, <1>2, <1>5, <1>9, <2>1, ReturnStep
<1>11. CASE ~(Accepted(v) /\ GoodEnough)
  <2>1. /\ GoOn(5, held') /\ held' \in {0, page}
        /\ AcceptedBy(attempts') = IF held' # 0 THEN {"scrapling_adaptive"} ELSE {}
    BY <1>4, <1>7, <1>8, <1>11
  <2> QED BY <1>1, <1>2, <1>5, <1>9, <2>1, GoOnStep
<1> QED BY <1>10, <1>11

LEMMA AskModelStep == FieldInv /\ AskModel => FieldInv'
<1> SUFFICES ASSUME FieldInv, AskModel PROVE FieldInv'
  OBVIOUS
<1>1. /\ DataTyped /\ FlowTyped /\ Fresh /\ held \in {0, page}
      /\ AcceptedBy(attempts) = IF held # 0 THEN {"scrapling_adaptive"} ELSE {}
      /\ crawl.store /\ field \in DeclaredSource => Recorded("source", {})
  BY DEF FieldInv, InPipeline, AskModel, Pipeline
<1>2. UNCHANGED <<crawl, page, items, tries, held, cache, listed>>
  BY DEF AskModel, places
<1>3. attempts' = attempts \/ Attempted("llm_text", "none")
  BY DEF AskModel
<1>4. /\ attempts' \subseteq [stage : Methods \ {"exhausted"}, accepted : BOOLEAN]
      /\ AcceptedBy(attempts') = AcceptedBy(attempts)
  <2>1. CASE attempts' = attempts
    BY <1>1, <2>1 DEF DataTyped
  <2>2. CASE Attempted("llm_text", "none")
    <3>1. "none" \in Values /\ ~Accepted("none") /\ "llm_text" \in Methods \ {"exhausted"}
      BY MethodNames DEF Values, Accepted
    <3> QED BY <1>1, <2>2, <3>1, AttemptAdded
  <2> QED BY <1>3, <2>1, <2>2
<1>5. DataTyped' /\ Fresh' /\ (crawl.store /\ field \in DeclaredSource => Recorded("source", {})')
  BY <1>1, <1>2, <1>4, SameRecorded DEF DataTyped, Fresh
<1>6. CASE Goto("llm_text")
  BY <1>1, <1>2, <1>4, <1>5, <1>6, LayerStep DEF Pipeline, BeforeModel
<1>7. CASE LastResort(held)
  BY <1>1, <1>2, <1>4, <1>5, <1>7, LastResortStep
<1> QED BY <1>6, <1>7 DEF AskModel

LEMMA LlmTextStep == FieldInv /\ LlmText => FieldInv'
<1> SUFFICES ASSUME FieldInv, LlmText PROVE FieldInv'
  OBVIOUS
<1>1. /\ DataTyped /\ FlowTyped /\ Fresh /\ held \in {0, page}
      /\ AcceptedBy(attempts) = IF held # 0 THEN {"scrapling_adaptive"} ELSE {}
      /\ crawl.store /\ field \in DeclaredSource => Recorded("source", {})
  BY DEF FieldInv, InPipeline, LlmText, Pipeline
<1>2. UNCHANGED <<crawl, page, items, tries, held, cache, listed>>
  BY DEF LlmText, places
<1>3. PICK v \in Values :
        /\ Attempted("llm_text", v)
        /\ IF Accepted(v) THEN Return("llm_text", v, page) ELSE LastResort(held)
  BY DEF LlmText
<1>4. /\ attempts' \subseteq [stage : Methods \ {"exhausted"}, accepted : BOOLEAN]
      /\ AcceptedBy(attempts') =
            AcceptedBy(attempts) \cup (IF Accepted(v) THEN {"llm_text"} ELSE {})
      /\ Accepted(v) => v = "good"
  BY <1>1, <1>3, AttemptAdded, MethodNames
<1>5. DataTyped' /\ Fresh' /\ (crawl.store /\ field \in DeclaredSource => Recorded("source", {})')
  BY <1>1, <1>2, <1>4, SameRecorded DEF DataTyped, Fresh
<1>6. CASE Accepted(v)
  <2>1. /\ Return("llm_text", "good", page) /\ "llm_text" \in Methods \ {"exhausted"}
        /\ AcceptedBy(attempts') \subseteq {"scrapling_adaptive", "llm_text"}
        /\ AcceptedBy(attempts') # {}
    BY <1>1, <1>3, <1>4, <1>6, MethodNames
  <2>2. \A m \in {"scrapling_adaptive", "llm_text"} : Confidence[m] <= Confidence["llm_text"]
    BY DEF Confidence
  <2> QED BY <1>1, <1>2, <1>5, <2>1, <2>2, ReturnStep
<1>7. CASE ~Accepted(v)
  BY <1>1, <1>2, <1>3, <1>4, <1>5, <1>7, LastResortStep
<1> QED BY <1>6, <1>7

-----------------------------------------------------------------------------
(* The fields, the recording and the pages *)

LEMMA BeginFieldStep == FieldInv /\ BeginField => FieldInv'
<1> SUFFICES ASSUME FieldInv, BeginField PROVE FieldInv'
  OBVIOUS
<1>1. DataTyped /\ FlowTyped /\ Fresh
  BY DEF FieldInv
<1>2. UNCHANGED <<crawl, page, items, cache>> /\ listed' = {}
  BY DEF BeginField, places
<1>3. (Unrepaired \/ Repair) => DataTyped' /\ Fresh'
  <2>1. Repair => tries' = 0 /\ attempts' = {} /\ held' = 0
    BY DEF Repair
  <2> QED BY <1>1, <1>2, <2>1, Numbers DEF DataTyped, Fresh, Unrepaired
<1>4. CASE ~HasSource /\ Repair
  BY <1>1, <1>2, <1>3, <1>4, RepairStep DEF HasSource
<1>5. CASE HasSource /\ ~(~HasSource /\ Repair)
  <2>1. PICK v \in Values :
          IF v # "none" /\ Passed(v) THEN Keep(FromSource(v)) /\ Unrepaired
          ELSE IF crawl.store
          THEN /\ BeginEpisode("source", FALSE,
                      IF MayFallThrough THEN [do |-> "repair"] ELSE FromSource(v))
               /\ Unrepaired
          ELSE IF MayFallThrough THEN Repair
          ELSE Keep(FromSource(v)) /\ Unrepaired
    BY <1>5 DEF BeginField
  <2>2. PICK value : value = FromSource(v)
    OBVIOUS
  <2>3. /\ value \in Kept /\ value.field = field /\ value.stage = "source"
        /\ value.value = v /\ value.from = page
    BY <1>1, <2>2, Numbers DEF FromSource, Kept, DataTyped, FlowTyped
  <2>4. "source" \notin Methods /\ "source" \in Stages
    BY MethodNames DEF Stages
  <2>5. field \in LegacySource \/ MayFallThrough
    BY <1>5 DEF HasSource, MayFallThrough
  <2>6. v # "none" /\ Passed(v) => v = "good"
    BY DEF Passed
  <2>7. v = "good" \/ ~MayFallThrough => Best(value)'
    BY <2>3, <2>4, <2>5 DEF Best
  <2>8. CASE v # "none" /\ Passed(v)
    <3>1. Keep(value) /\ Unrepaired
      BY <2>1, <2>2, <2>8
    <3>2. (crawl.store => Documented(value))'
      BY <2>3, <2>4, <2>6, <2>8 DEF Documented, Weak
    <3> QED BY <1>1, <1>2, <1>3, <2>3, <2>6, <2>7, <2>8, <3>1, <3>2, KeepStep
  <2>9. CASE ~(v # "none" /\ Passed(v)) /\ crawl.store
    <3>1. PICK then : then = IF MayFallThrough THEN [do |-> "repair"] ELSE value
      OBVIOUS
    <3>2. BeginEpisode("source", FALSE, then) /\ Unrepaired
      BY <2>1, <2>2, <2>9, <3>1
    <3>3. then \in Kept => then = value /\ ~MayFallThrough
      BY <3>1, NoValueKept
    <3>4. then \in Kept \cup {[do |-> x] : x \in {"repair", "leave", "raise"}}
      BY <2>3, <3>1
    <3>5. then \in Kept =>
             /\ Best(then)' /\ then.from = page'
             /\ then.stage \in Methods \cup {"source"} /\ "source" = then.stage
             /\ ~(then.stage \in Methods)
      BY <1>2, <2>3, <2>4, <2>7, <3>3
    <3> QED BY <1>1, <1>2, <1>3, <2>4, <3>2, <3>4, <3>5, EpisodeStep
  <2>10. CASE ~(v # "none" /\ Passed(v)) /\ ~crawl.store /\ MayFallThrough
    BY <1>1, <1>2, <1>3, <2>1, <2>10, RepairStep
  <2>11. CASE ~(v # "none" /\ Passed(v)) /\ ~crawl.store /\ ~MayFallThrough
    <3>1. Keep(value) /\ Unrepaired
      BY <2>1, <2>2, <2>11
    <3> QED BY <1>1, <1>2, <1>3, <2>3, <2>7, <2>11, <3>1, KeepStep
  <2> QED BY <2>8, <2>9, <2>10, <2>11
<1> QED BY <1>4, <1>5 DEF BeginField

LEMMA RecordCallStep == FieldInv /\ RecordCall => FieldInv'
<1> SUFFICES ASSUME FieldInv, RecordCall PROVE FieldInv'
  OBVIOUS
<1>1. DataTyped /\ FlowTyped /\ Fresh /\ Recording /\ pc = "record"
  BY DEF FieldInv, RecordCall
<1>2. UNCHANGED <<crawl, page, items, pc, item, field, after, kept, tries, attempts, held, cache,
                  listed>>
  BY DEF RecordCall, places
<1>3. PICK left, written : left = episode.left /\ written = episode.written
  OBVIOUS
<1>4. left \in Seq(Calls) /\ Len(left) > 0
  BY <1>1, <1>3 DEF FlowTyped, RecordCall
<1>5. /\ Head(left) \in Calls /\ Tail(left) \in Seq(Calls)
      /\ CallsOf(left) = {Head(left)} \cup CallsOf(Tail(left))
  BY <1>4, Elements
<1>6. /\ episode'.stage = episode.stage /\ episode'.left = Tail(left)
      /\ episode'.written = written \cup {Head(left)}
  BY <1>3 DEF RecordCall
<1>7. DataTyped' /\ Fresh' /\ FlowTyped'
  BY <1>1, <1>2, <1>3, <1>5, <1>6 DEF DataTyped, Fresh, FlowTyped
<1>8. InPipeline' /\ InRecord'
  BY <1>1, <1>2 DEF InPipeline, InRecord, JustKept, Pipeline
<1>9. Recording'
  <2>1. episode'.written \cup CallsOf(episode'.left) = written \cup CallsOf(left)
    BY <1>5, <1>6
  <2>2. Best(after)' <=> Best(after)
    BY <1>2 DEF Best
  <2>3. Recorded("source", {})' <=> Recorded("source", {})
    BY <1>2, SameRecorded
  <2> QED BY <1>1, <1>2, <1>3, <1>6, <2>1, <2>2, <2>3 DEF Recording
<1> QED BY <1>7, <1>8, <1>9 DEF FieldInv

LEMMA RecordLastStep == FieldInv /\ RecordLast => FieldInv'
<1> SUFFICES ASSUME FieldInv, RecordLast PROVE FieldInv'
  OBVIOUS
<1>1. DataTyped /\ FlowTyped /\ Fresh /\ Recording /\ pc = "record"
  BY DEF FieldInv, RecordLast
<1>2. UNCHANGED <<crawl, page, items, cache>> /\ Continue
  BY DEF RecordLast, places
<1>3. PICK left, whole : left = episode.left /\ whole = episode.written \cup {Head(left)}
  OBVIOUS
<1>4. left \in Seq(Calls) /\ Len(left) = 1
  BY <1>1, <1>3 DEF FlowTyped, RecordLast
<1>5. Head(left) \in Calls /\ CallsOf(left) = {Head(left)}
  BY <1>4, Elements
<1>6. listed' = listed \cup {[stage |-> episode.stage, written |-> whole]}
  BY <1>3 DEF RecordLast
<1>7. episode.stage \in Stages /\ whole \subseteq Calls /\ Always \subseteq whole
  BY <1>1, <1>3, <1>5 DEF Recording, FlowTyped
<1>8. PICK entry : entry = [stage |-> episode.stage, written |-> whole]
  OBVIOUS
<1>9. /\ entry \in listed' /\ entry.stage = episode.stage /\ entry.written = whole
      /\ listed' \subseteq [stage : Stages, written : SUBSET Calls] /\ listed \subseteq listed'
  BY <1>1, <1>6, <1>7, <1>8 DEF DataTyped
<1>10. \A stage, more : stage = episode.stage /\ more \subseteq whole => Recorded(stage, more)'
  BY <1>7, <1>9 DEF Recorded
<1>11. \A stage, more : Recorded(stage, more) => Recorded(stage, more)'
  BY <1>9 DEF Recorded
<1>12. Fresh' /\ (Unrepaired \/ Repair => DataTyped')
  <2>1. Repair => tries' = 0 /\ attempts' = {} /\ held' = 0
    BY DEF Repair
  <2> QED BY <1>1, <1>2, <1>9, <2>1, Numbers DEF DataTyped, Fresh, Unrepaired
<1>13. CASE after \in Kept
  <2>1. PICK value : value = after
    OBVIOUS
  <2>2. Keep(value) /\ Unrepaired
    BY <1>2, <1>13, <2>1 DEF Continue
  <2>3. /\ Best(value) /\ value.from = page
        /\ value.stage \in Methods \cup {"source"} /\ episode.stage = value.stage
        /\ value.stage \in Methods /\ Asked(attempts) => OfModel \subseteq whole
        /\ value.field \in DeclaredSource /\ value.stage # "source" => Recorded("source", {})
    BY <1>1, <1>3, <1>5, <1>13, <2>1 DEF Recording
  <2>4. Best(value)'
    BY <2>2, <2>3 DEF Best, Unrepaired
  <2>5. Documented(value)'
    <3>1. Recorded(value.stage, {})'
      BY <1>10, <2>3
    <3>2. value.stage \in Methods /\ Asked(attempts) => Recorded(value.stage, OfModel)'
      BY <1>10, <2>3
    <3>3. attempts' = attempts
      BY <2>2 DEF Unrepaired
    <3>4. (Weak(value) => Recorded(value.stage, IF Asked(attempts) THEN OfModel ELSE {}))'
      BY <3>1, <3>2, <3>3 DEF Weak
    <3>5. value.stage = "source" => Recorded("source", {})'
      BY <1>10, <2>3
    <3>6. value.field \in DeclaredSource /\ value.stage # "source" => Recorded("source", {})'
      BY <1>11, <2>3
    <3> QED BY <3>4, <3>5, <3>6 DEF Documented
  <2> QED BY <1>1, <1>2, <1>12, <1>13, <2>1, <2>2, <2>3, <2>4, <2>5, KeepStep
<1>14. CASE after \notin Kept
  <2>1. PICK x \in {"repair", "leave", "raise"} : after = [do |-> x]
    BY <1>1, <1>14 DEF FlowTyped
  <2>2. CASE x = "repair"
    <3>1. Repair /\ after = [do |-> "repair"]
      BY <1>2, <1>14, <2>1, <2>2 DEF Continue
    <3>2. Recorded("source", {})'
      BY <1>1, <1>10, <3>1 DEF Recording
    <3> QED BY <1>1, <1>2, <1>12, <3>1, <3>2, RepairStep
  <2>3. CASE x \in {"leave", "raise"}
    <3>1. Unrepaired /\ \E to \in {"next", "failed"} : Abandon(to)
      BY <1>2, <1>14, <2>1, <2>3 DEF Continue, Leave, Raise
    <3> QED BY <1>1, <1>12, <3>1, AbandonStep
  <2> QED BY <2>1, <2>2, <2>3
<1> QED BY <1>13, <1>14

(* Nothing is kept where the crawl gives up, and nothing changes.           *)
LEMMA AbandonedStep ==
    ASSUME FieldInv, UNCHANGED <<crawl, page, items, tries, attempts, held, cache>>,
           listed' \in {listed, {}}, NEW to \in {"next", "failed"}, Abandon(to)
    PROVE  FieldInv'
<1>1. DataTyped /\ FlowTyped /\ Fresh
  BY DEF FieldInv
<1>2. DataTyped' /\ Fresh'
  BY <1>1 DEF DataTyped, Fresh
<1> QED BY <1>1, <1>2, AbandonStep

LEMMA PageSteps ==
    FieldInv /\ (Open \/ PageFails \/ FindItems \/ NextPage \/ Finish \/ RecordRaises \/ Cancelled)
    => FieldInv'
<1> SUFFICES ASSUME FieldInv,
                    Open \/ PageFails \/ FindItems \/ NextPage \/ Finish \/ RecordRaises \/ Cancelled
             PROVE  FieldInv'
  OBVIOUS
<1>1. DataTyped /\ FlowTyped /\ Fresh
  BY DEF FieldInv
<1>2. CASE Open \/ Finish
  <2>1. UNCHANGED <<crawl, page, items, tries, attempts, held, cache, listed>>
    BY <1>2 DEF Open, Finish, places
  <2>2. DataTyped' /\ Fresh'
    BY <1>1, <2>1 DEF DataTyped, Fresh
  <2>3. Goto("items") \/ Goto("done") \/ Abandon("next")
    BY <1>2 DEF Open, Finish, Leave
  <2> QED BY <1>1, <2>1, <2>2, <2>3, ElsewhereStep, AbandonedStep
<1>3. CASE RecordRaises \/ Cancelled
  <2>1. UNCHANGED <<crawl, page, items, tries, attempts, held, cache, listed>> /\ Abandon("failed")
    BY <1>3 DEF RecordRaises, Cancelled, places, Raise, Unrepaired
  <2> QED BY <2>1, AbandonedStep
<1>4. CASE PageFails
  <2>1. UNCHANGED <<crawl, page, items, tries, attempts, held, cache>> /\ listed' = {}
    BY <1>4 DEF PageFails, places
  <2>2. DataTyped' /\ Fresh'
    BY <1>1, <2>1 DEF DataTyped, Fresh
  <2>3. PICK stage \in {"wait", "capture"} :
          IF crawl.store THEN BeginEpisode(stage, FALSE, [do |-> "raise"]) ELSE Raise
    BY <1>4 DEF PageFails
  <2>4. CASE crawl.store
    <3>1. stage \in Stages /\ BeginEpisode(stage, FALSE, [do |-> "raise"])
      BY <2>3, <2>4 DEF Stages
    <3>2. [do |-> "raise"] # [do |-> "repair"] /\ [do |-> "raise"] \notin Kept
      <4>1. [do |-> "raise"].do # [do |-> "repair"].do
        OBVIOUS
      <4> QED BY <4>1, NoValueKept
    <3> QED BY <1>1, <2>2, <3>1, <3>2, EpisodeStep
  <2>5. CASE ~crawl.store
    BY <2>1, <2>3, <2>5, AbandonedStep DEF Raise
  <2> QED BY <2>4, <2>5
<1>5. CASE FindItems
  <2>1. UNCHANGED <<crawl, page, tries, attempts, held, cache>> /\ listed' = {}
        /\ items' \in 0..MaxItems
    BY <1>5 DEF FindItems
  <2>2. DataTyped' /\ Fresh'
    BY <1>1, <2>1 DEF DataTyped, Fresh
  <2>3. CASE items' > 0
    <3>1. pc' = "field" /\ item' = 1 /\ field' = 1 /\ kept' = NoValue /\ UNCHANGED <<episode, after>>
      BY <1>5, <2>3 DEF FindItems
    <3>2. 1 \in 0..MaxItems /\ 1 \in Fields
      BY <2>1, <2>3, Numbers
    <3>3. FlowTyped'
      BY <1>1, <3>1, <3>2, NoValueKept DEF FlowTyped
    <3>4. InPipeline' /\ Recording' /\ InRecord'
      BY <3>1 DEF InPipeline, Recording, InRecord, JustKept, Pipeline
    <3> QED BY <2>2, <3>3, <3>4 DEF FieldInv
  <2>4. CASE ~(items' > 0) /\ crawl.store
    <3>1. "item_selector" \in Stages /\ BeginEpisode("item_selector", FALSE, [do |-> "leave"])
      BY <1>5, <2>4 DEF Stages, FindItems
    <3>2. [do |-> "leave"] # [do |-> "repair"] /\ [do |-> "leave"] \notin Kept
      <4>1. [do |-> "leave"].do # [do |-> "repair"].do
        OBVIOUS
      <4> QED BY <4>1, NoValueKept
    <3> QED BY <1>1, <2>2, <3>1, <3>2, EpisodeStep
  <2>5. CASE ~(items' > 0) /\ ~crawl.store
    <3>1. Abandon("next")
      BY <1>5, <2>5 DEF FindItems, Leave
    <3> QED BY <1>1, <2>2, <3>1, AbandonStep
  <2> QED BY <2>3, <2>4, <2>5
<1>6. CASE NextPage
  <2>1. /\ UNCHANGED <<crawl, items, tries, attempts, held, listed>> /\ page' = page + 1
        /\ page < MaxPages /\ cache' = [c \in 0..MaxItems |-> 0] /\ Goto("open")
    BY <1>6 DEF NextPage, NothingParsed
  <2>2. DataTyped' /\ Fresh'
    BY <1>1, <2>1, Numbers DEF DataTyped, Fresh
  <2> QED BY <1>1, <2>1, <2>2, ElsewhereStep
<1> QED BY <1>2, <1>3, <1>4, <1>5, <1>6

LEMMA FieldInitial == Init => FieldInv
<1> SUFFICES ASSUME Init PROVE FieldInv
  OBVIOUS
<1>1. DataTyped /\ Fresh
  BY Numbers DEF Init, DataTyped, Fresh
<1>2. FlowTyped
  BY Numbers, NoValueKept DEF Init, FlowTyped, NoEpisode
<1>3. InPipeline /\ Recording /\ InRecord
  BY DEF Init, InPipeline, Recording, InRecord, JustKept, Pipeline
<1> QED BY <1>1, <1>2, <1>3 DEF FieldInv

LEMMA FieldStep == FieldInv /\ [Next]_vars => FieldInv'
<1> SUFFICES ASSUME FieldInv, [Next]_vars PROVE FieldInv'
  OBVIOUS
<1>1. CASE UNCHANGED vars
  <2>1. /\ UNCHANGED <<crawl, page, items, tries, attempts, held, cache, listed>>
        /\ UNCHANGED <<pc, item, field, episode, after, kept>>
    BY <1>1 DEF vars, places, flow
  <2>2. (DataTyped /\ FlowTyped /\ Fresh)'
    BY <2>1 DEF FieldInv, DataTyped, FlowTyped, Fresh
  <2>3. \A stage, more : Recorded(stage, more)' <=> Recorded(stage, more)
    BY <2>1 DEF Recorded
  <2>4. Best(after)' <=> Best(after)
    BY <2>1 DEF Best
  <2>5. (JustKept /\ Best(kept))' <=> JustKept /\ Best(kept)
    BY <2>1 DEF Best, JustKept
  <2>6. Documented(kept)' <=> Documented(kept)
    BY <2>1 DEF Documented, Weak, Recorded
  <2>7. InPipeline'
    BY <2>1, <2>3 DEF FieldInv, InPipeline
  <2>8. Recording'
    BY <2>1, <2>3, <2>4 DEF FieldInv, Recording
  <2>9. InRecord'
    BY <2>1, <2>5, <2>6 DEF FieldInv, InRecord, JustKept
  <2> QED BY <2>2, <2>7, <2>8, <2>9 DEF FieldInv
<1> QED
  BY <1>1, PageSteps, BeginFieldStep, ConfiguredStep, ObserveStep, FallbackStep, CachedRepairStep,
     AdaptiveStep, AskModelStep, LlmTextStep, RecordCallStep, RecordLastStep
  DEF Next

(* The inductive invariant, which the four theorems below read. *)
THEOREM FieldCorrect == Spec => []FieldInv
  BY FieldInitial, FieldStep, PTL DEF Spec

(* Every variable of the crawl keeps its type. *)
THEOREM FieldTyped == Spec => []TypeOK
  BY FieldCorrect, TypedHalves, PTL DEF FieldInv

(* Whatever layer, cached selector or model a value of a record comes from, *)
(* it passed the field's validation, and it is the most confident candidate *)
(* the pipeline accepted; the field is empty only if nothing was accepted.  *)
THEOREM BestIsKept == Spec => []BestAcceptedIsKept
<1>1. FieldInv => BestAcceptedIsKept
  <2> SUFFICES ASSUME FieldInv PROVE BestAcceptedIsKept
    OBVIOUS
  <2>1. JustKept => Best(kept)
    BY DEF FieldInv, InRecord
  <2> QED BY <2>1 DEF Best, AcceptedBy, BestAcceptedIsKept
<1> QED BY <1>1, FieldCorrect, PTL

(* The parsed HTML the adaptive layer and the baseline read is of the page  *)
(* the crawl is at, and so is every value of a record.                      *)
THEOREM EvidenceIsCurrent == Spec => []EvidenceIsOfThisPage
<1>1. FieldInv => EvidenceIsOfThisPage
  <2> SUFFICES ASSUME FieldInv PROVE EvidenceIsOfThisPage
    OBVIOUS
  <2>1. Context \in 0..MaxItems
    BY Numbers DEF Context, FieldInv, FlowTyped
  <2> QED BY <2>1 DEF FieldInv, Fresh, InRecord, EvidenceIsOfThisPage
<1> QED BY <1>1, FieldCorrect, PTL

(* Whatever store call fails, a weak, missing or rejected value is in a     *)
(* record only with a complete episode of its own in the list.              *)
THEOREM WeakRecorded == Spec => []WeakValuesAreRecorded
<1>1. FieldInv => WeakValuesAreRecorded
  <2> SUFFICES ASSUME FieldInv, JustKept, crawl.store PROVE WeakValuesAreRecorded
    BY DEF WeakValuesAreRecorded
  <2>1. Documented(kept)
    BY DEF FieldInv, InRecord
  <2> QED
    BY <2>1 DEF Documented, Weak, Recorded, Asked, Always, OfModel, WeakValuesAreRecorded
<1> QED BY <1>1, FieldCorrect, PTL
=============================================================================
