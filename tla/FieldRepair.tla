----------------------------- MODULE FieldRepair -----------------------------
(***************************************************************************)
(* How the crawler fills the fields of a record and records what it had to *)
(* repair: GenericSpider._extract_fields, _extract_field_adaptive and      *)
(* _record_repair_episode (core/spider_engine.py) around                   *)
(* FieldExtractionPipeline.extract (core/extraction_pipeline.py).  pc      *)
(* names the await, or the store call, the crawl is at.  A page is live:   *)
(* what a selector finds is chosen when it is tried.                       *)
(***************************************************************************)
EXTENDS Naturals, Sequences

CONSTANTS
    NumFields,       \* fields of the configuration, extracted in order
    Selectors,       \* fields with a configured selector
    LegacySource,    \* fields whose source is an action result or a payload
    DeclaredSource,  \* fields whose source is a declared capture
    PageScoped,      \* fields extracted from the page rather than the item
    Lenient,         \* fields whose validation an empty text passes
    WithFallbacks,   \* fields with fallback selectors
    NumFallbacks,    \* how many
    Thresholds,      \* values of repair_episode_confidence, in hundredths
    MaxItems,        \* bound on items of a page
    MaxPages         \* bound on pages of the crawl, over all start URLs

Fields == 1..NumFields

ASSUME FieldAssumption ==
    /\ NumFields \in Nat \ {0} /\ NumFallbacks \in Nat \ {0}
    /\ MaxItems \in Nat /\ MaxPages \in Nat \ {0}
    /\ UNION {Selectors, WithFallbacks, LegacySource, DeclaredSource, PageScoped, Lenient} \subseteq Fields
    /\ LegacySource \cap DeclaredSource = {}
    /\ Thresholds \subseteq 1..100

(* The confidence of a result, by the method that produced it. *)
Confidence == [configured |-> 100, fallback |-> 90, cached_repair |-> 85, llm_text |-> 75,
               scrapling_adaptive |-> 70, exhausted |-> 0]

Methods == DOMAIN Confidence
Values == {"none", "bad", "good"}
Calls == {"create", "features", "capture", "proposal", "verdict", "observation", "manifest"}

VARIABLES
    crawl,     \* the settings of the run
    pc,        \* the await or store call the crawl is at
    page,      \* number of the page, over all start URLs
    items,     \* items found on it
    item,      \* the present item
    field,     \* the present field
    tries,     \* fallback selectors tried
    attempts,  \* the attempts of the pipeline: method and whether accepted
    held,      \* adaptive_result: the page its value was read from, or 0
    cache,     \* scrapling_cache: of which page the parsed HTML of a context is
    episode,   \* the episode being recorded
    after,     \* what the crawl does once it is recorded
    listed,    \* episodes listed since the present field was begun
    kept       \* the value put into the record last

places == <<crawl, page, items>>
flow == <<pc, item, field, episode, after, kept>>
vars == <<places, flow, tries, attempts, held, cache, listed>>

NoValue == [field |-> 0, stage |-> "none", value |-> "none", from |-> 0]
NoEpisode == [stage |-> "none", written |-> {}, left |-> <<>>]

(* What the configuration enables, and whether a store is attached. *)
Settings == [adaptive : BOOLEAN, model : BOOLEAN, memory : BOOLEAN, store : BOOLEAN,
             threshold : Thresholds]

Kept == [field : 0..NumFields, stage : Methods \cup {"none", "source", "no_path"},
         value : Values, from : 0..MaxPages]
Stages == Methods \cup {"source", "wait", "capture", "item_selector"}

TypeOK ==
    /\ crawl \in Settings
    /\ pc \in (Methods \ {"exhausted"}) \cup
              {"open", "items", "field", "observe", "model", "record", "next", "done", "failed"}
    /\ page \in 1..MaxPages /\ items \in 0..MaxItems
    /\ item \in 0..MaxItems /\ field \in Fields
    /\ tries \in 0..NumFallbacks
    /\ attempts \subseteq [stage : Methods \ {"exhausted"}, accepted : BOOLEAN]
    /\ held \in 0..MaxPages
    /\ cache \in [0..MaxItems -> 0..MaxPages]
    /\ episode.stage \in Stages \cup {"none"}
    /\ episode.written \subseteq Calls /\ episode.left \in Seq(Calls)
    /\ after \in Kept \cup {[do |-> x] : x \in {"repair", "leave", "raise"}}
    /\ listed \subseteq [stage : Stages, written : SUBSET Calls]
    /\ kept \in Kept

Init ==
    /\ crawl \in Settings
    /\ pc = "open" /\ page = 1 /\ items = 0 /\ item = 0 /\ field = 1
    /\ tries = 0 /\ attempts = {} /\ held = 0
    /\ cache = [c \in 0..MaxItems |-> 0]
    /\ episode = NoEpisode /\ after = NoValue /\ listed = {} /\ kept = NoValue

-----------------------------------------------------------------------------
(* The quality gate *)

Passed(v) == v = "good" \/ (v = "none" /\ field \in Lenient)

(* An empty value is not accepted, whatever the field's validation says. *)
Accepted(v) == v # "none" /\ Passed(v)

-----------------------------------------------------------------------------
(* What the crawl does next *)

Goto(to) == pc' = to /\ UNCHANGED <<item, field, episode, after, kept>>

(* Mutant: the field after the last one is extracted as well. *)
AdvanceOneMore ==
    IF field <= NumFields THEN pc' = "field" /\ field' = field + 1 /\ UNCHANGED item
    ELSE pc' = "next" /\ field' = 1 /\ UNCHANGED item

(* The loops over fields and items. *)
Advance ==
    IF field < NumFields THEN pc' = "field" /\ field' = field + 1 /\ UNCHANGED item
    ELSE /\ field' = 1
         /\ IF item < items THEN pc' = "field" /\ item' = item + 1
            ELSE pc' = "next" /\ UNCHANGED item

Keep(value) ==
    /\ kept' = value
    /\ episode' = NoEpisode /\ after' = NoValue
    /\ Advance

(* _record_repair_episode: the store calls it is going to make.  asked: the *)
(* model's selector is among the attempts.  A context with declared         *)
(* captures may hold one of them.                                           *)
BeginEpisode(stage, asked, then) ==
    /\ pc' = "record"
    /\ \E captured \in {<<>>} \cup (IF DeclaredSource = {} THEN {} ELSE {<<"capture">>}) :
        episode' = [stage |-> stage, written |-> {},
                    left |-> <<"create", "features">> \o captured
                             \o (IF asked THEN <<"proposal", "verdict">> ELSE <<>>)
                             \o <<"observation", "manifest">>]
    /\ after' = then
    /\ UNCHANGED <<item, field, kept>>

(* The result of the pipeline: an unvalidated or weak one is recorded first, *)
(* if a store is attached.                                                   *)
Return(stage, value, from) ==
    LET result == [field |-> field, stage |-> stage, value |-> value, from |-> from]
        asked == \E a \in attempts' : a.stage = "llm_text"
    IN  IF crawl.store /\ Confidence[stage] < crawl.threshold
        THEN BeginEpisode(stage, asked, result)
        ELSE Keep(result)

Order == <<"configured", "fallback", "cached_repair", "scrapling_adaptive", "model">>

Available(stage) ==
    CASE stage = "configured" -> field \in Selectors
      [] stage = "fallback" -> field \in WithFallbacks
      [] stage = "cached_repair" -> crawl.memory
      [] stage = "scrapling_adaptive" -> crawl.adaptive /\ field \in Selectors
      [] stage = "model" -> crawl.model

(* Mutant: the adaptive result is forgotten when the model had its turn. *)
LastResortEmpty(adaptive) == Return("exhausted", "none", page)

(* The end of the pipeline: the weak adaptive result, if there is one. *)
LastResort(adaptive) ==
    IF adaptive # 0 THEN Return("scrapling_adaptive", "good", adaptive)
    ELSE Return("exhausted", "none", page)

(* The first stage from the i-th on that is available. *)
GoOn(i, adaptive) ==
    LET ready == {j \in i..Len(Order) : Available(Order[j])}
    IN  IF ready = {} THEN LastResort(adaptive)
        ELSE Goto(Order[CHOOSE j \in ready : \A k \in ready : j <= k])

-----------------------------------------------------------------------------
(* The pipeline of one field *)

Attempted(stage, v) == attempts' = attempts \cup {[stage |-> stage, accepted |-> Accepted(v)]}

Configured ==
    /\ pc = "configured"
    /\ \E v \in Values :
        /\ Attempted("configured", v)
        /\ IF ~Accepted(v) THEN GoOn(2, held)
           ELSE IF crawl.adaptive THEN Goto("observe")
           ELSE Return("configured", v, page)
    /\ UNCHANGED <<places, tries, held, cache, listed>>

Context == IF field \in PageScoped THEN 0 ELSE item

(* _ensure_scrapling_selector: the page the parsed HTML is of, 0 if it could *)
(* not be read; it is parsed once per page and context.                      *)
Parsed(html) ==
    /\ html \in IF cache[Context] # 0 THEN {cache[Context]} ELSE {0, page}
    /\ cache' = [cache EXCEPT ![Context] = html]

(* The successful selector becomes Scrapling's baseline. *)
Observe ==
    /\ pc = "observe"
    /\ \E html \in 0..MaxPages : Parsed(html)
    /\ attempts' = attempts
    /\ Return("configured", "good", page)
    /\ UNCHANGED <<places, tries, held, listed>>

Fallback ==
    /\ pc = "fallback"
    /\ tries' = tries + 1
    /\ \E v \in Values :
        /\ Attempted("fallback", v)
        /\ IF Accepted(v) THEN Return("fallback", v, page)
           ELSE IF tries + 1 < NumFallbacks THEN Goto("fallback")
           ELSE GoOn(3, held)
    /\ UNCHANGED <<places, held, cache, listed>>

(* RepairPersistence.suggest: of the lines of the field that are ok and     *)
(* approved the best, if there is one.                                      *)
Suggested == BOOLEAN

CachedRepair ==
    /\ pc = "cached_repair"
    /\ \E suggested \in Suggested, v \in Values :
        IF suggested
        THEN /\ Attempted("cached_repair", v)
             /\ IF Accepted(v) THEN Return("cached_repair", v, page) ELSE GoOn(4, held)
        ELSE attempts' = attempts /\ GoOn(4, held)
    /\ UNCHANGED <<places, tries, held, cache, listed>>

GoodEnough == ~crawl.model \/ Confidence.scrapling_adaptive >= crawl.threshold

(* _extract_from_scrapling: nothing without HTML, and nothing on an error. *)
ScraplingValues(html) == IF html = 0 THEN {"none"} ELSE Values

Adaptive ==
    /\ pc = "scrapling_adaptive"
    /\ \E html \in 0..MaxPages : Parsed(html) /\ \E v \in ScraplingValues(html) :
        /\ Attempted("scrapling_adaptive", v)
        /\ held' = IF Accepted(v) THEN html ELSE 0
        /\ IF Accepted(v) /\ GoodEnough THEN Return("scrapling_adaptive", v, html)
           ELSE GoOn(5, held')
    /\ UNCHANGED <<places, tries, listed>>

(* LLMRepair.repair_selector: a new selector, from the model or its cache,  *)
(* the configured one again, or nothing (out of time, failed, no selector). *)
Candidates == {"new", "nothing"} \cup (IF field \in Selectors THEN {"configured"} ELSE {})

AskModel ==
    /\ pc = "model"
    /\ \E candidate \in Candidates :
        /\ IF candidate = "configured" THEN Attempted("llm_text", "none") ELSE attempts' = attempts
        /\ IF candidate = "new" THEN Goto("llm_text") ELSE LastResort(held)
    /\ UNCHANGED <<places, tries, held, cache, listed>>

LlmText ==
    /\ pc = "llm_text"
    /\ \E v \in Values :
        /\ Attempted("llm_text", v)
        /\ IF Accepted(v) THEN Return("llm_text", v, page) ELSE LastResort(held)
    /\ UNCHANGED <<places, tries, held, cache, listed>>

-----------------------------------------------------------------------------
(* The fields of a record *)

HasSource == field \in LegacySource \cup DeclaredSource

HasRepairPath == field \in Selectors \cup WithFallbacks \/ crawl.memory \/ crawl.model

(* A field without a way to a value is left empty, or out. *)
NoPath ==
    IF HasSource
    THEN Keep([field |-> field, stage |-> "no_path", value |-> "none", from |-> page])
    ELSE Keep(NoValue)

(* extract() begins with no attempts and no adaptive result. *)
Repair ==
    /\ tries' = 0 /\ attempts' = {} /\ held' = 0
    /\ IF HasRepairPath
       THEN /\ pc' = Order[CHOOSE j \in 1..5 : Available(Order[j])
                              /\ \A k \in 1..(j - 1) : ~Available(Order[k])]
            /\ episode' = NoEpisode /\ after' = NoValue
            /\ UNCHANGED <<item, field, kept>>
       ELSE NoPath

FromSource(v) == [field |-> field, stage |-> "source", value |-> v, from |-> page]

Unrepaired == UNCHANGED <<tries, attempts, held>>

MayFallThrough == field \in DeclaredSource

BeginField ==
    /\ pc = "field"
    /\ listed' = {}
    /\ \/ ~HasSource /\ Repair
       \/ HasSource /\ \E v \in Values :
            IF v # "none" /\ Passed(v) THEN Keep(FromSource(v)) /\ Unrepaired
            ELSE IF crawl.store
            THEN /\ BeginEpisode("source", FALSE,
                        IF MayFallThrough THEN [do |-> "repair"] ELSE FromSource(v))
                 /\ Unrepaired
            ELSE IF MayFallThrough THEN Repair
            ELSE Keep(FromSource(v)) /\ Unrepaired
    /\ UNCHANGED <<places, cache>>

-----------------------------------------------------------------------------
(* Recording *)

(* No more fields, or none at all: nothing is kept. *)
Abandon(to) ==
    /\ pc' = to
    /\ episode' = NoEpisode /\ after' = NoValue /\ kept' = NoValue
    /\ UNCHANGED <<item, field>>

Leave == Abandon("next")

Raise == Abandon("failed")

Continue ==
    IF after \in Kept THEN Keep(after) /\ Unrepaired
    ELSE CASE after.do = "repair" -> Repair
           [] after.do = "leave" -> Leave /\ Unrepaired
           [] after.do = "raise" -> Raise /\ Unrepaired

RecordCall ==
    /\ pc = "record" /\ Len(episode.left) > 1
    /\ episode' = [episode EXCEPT !.left = Tail(@), !.written = @ \cup {Head(episode.left)}]
    /\ UNCHANGED <<places, pc, item, field, after, kept, tries, attempts, held, cache, listed>>

(* The last call, after which the episode is listed and the crawl goes on. *)
RecordLast ==
    /\ pc = "record" /\ Len(episode.left) = 1
    /\ listed' = listed \cup {[stage |-> episode.stage,
                               written |-> episode.written \cup {Head(episode.left)}]}
    /\ Continue
    /\ UNCHANGED <<places, cache>>

(* Mutant: a failing store does not stop the crawl. *)
RecordRaisesIgnored ==
    /\ pc = "record"
    /\ Continue
    /\ UNCHANGED <<places, cache, listed>>

(* A store call raises, which nothing catches. *)
RecordRaises ==
    /\ pc = "record"
    /\ Raise /\ Unrepaired
    /\ UNCHANGED <<places, cache, listed>>

-----------------------------------------------------------------------------
(* Pages *)

(* Waiting for the page, or a required capture, fails. *)
PageFails ==
    /\ pc = "open" \/ (pc = "next" /\ page < MaxPages)
    /\ listed' = {}
    /\ \E stage \in {"wait", "capture"} :
        /\ stage = "capture" => pc = "open" /\ DeclaredSource # {}
        /\ IF crawl.store THEN BeginEpisode(stage, FALSE, [do |-> "raise"]) ELSE Raise
    /\ UNCHANGED <<places, tries, attempts, held, cache>>

(* The page is there; records made by an evaluate action leave no fields to *)
(* extract.                                                                 *)
Open ==
    /\ pc = "open" /\ (Goto("items") \/ Leave)
    /\ UNCHANGED <<places, tries, attempts, held, cache, listed>>

FindItems ==
    /\ pc = "items"
    /\ items' \in 0..MaxItems
    /\ listed' = {}
    /\ IF items' > 0
       THEN pc' = "field" /\ item' = 1 /\ field' = 1
            /\ kept' = NoValue /\ UNCHANGED <<episode, after>>
       ELSE IF crawl.store THEN BeginEpisode("item_selector", FALSE, [do |-> "leave"]) ELSE Leave
    /\ UNCHANGED <<crawl, page, tries, attempts, held, cache>>

(* Mutant: a page reached by a click keeps the parsed HTML. *)
ParsedHtmlKept == cache

NothingParsed == [c \in 0..MaxItems |-> 0]

(* The next page, reached by a click in the same page object or by the next *)
(* start URL in a new one, whose id() may be the old one's.                 *)
NextPage ==
    /\ pc = "next" /\ page < MaxPages
    /\ page' = page + 1 /\ cache' = NothingParsed
    /\ Goto("open")
    /\ UNCHANGED <<crawl, items, tries, attempts, held, listed>>

Finish ==
    /\ pc = "next" /\ Goto("done")
    /\ UNCHANGED <<places, tries, attempts, held, cache, listed>>

(* The deadline cancels the crawl, or the browser fails, at any await. *)
Cancelled ==
    /\ pc \notin {"field", "done", "failed"}
    /\ pc = "record" => episode.written = {}
    /\ Raise /\ UNCHANGED <<places, tries, attempts, held, cache, listed>>

Next ==
    \/ Open \/ PageFails \/ FindItems \/ NextPage \/ Finish
    \/ BeginField
    \/ Configured \/ Observe \/ Fallback \/ CachedRepair \/ Adaptive \/ AskModel \/ LlmText
    \/ RecordCall \/ RecordLast \/ RecordRaises
    \/ Cancelled

Spec == Init /\ [][Next]_vars
-----------------------------------------------------------------------------
(* Properties *)

(* A value has just been put into the record. *)
JustKept == pc \in {"field", "next"} /\ kept # NoValue

(* "every candidate uses one QualityGate": whatever layer a value comes     *)
(* from, it passed the field's validation (only a legacy source keeps its   *)
(* precedence with a value that did not), and no layer's accepted candidate *)
(* is lost to a later layer that found nothing or less: the value kept is   *)
(* the most confident one accepted, and the field is empty only if none was.*)
BestAcceptedIsKept ==
    JustKept =>
        /\ kept.value \in {"none", "good"} \/ (kept.stage = "source" /\ kept.field \in LegacySource)
        /\ kept.stage \in Methods =>
             LET accepted == {a.stage : a \in {b \in attempts : b.accepted}} IN
             /\ kept.stage = "exhausted" <=> accepted = {}
             /\ \A stage \in accepted : Confidence[stage] <= Confidence[kept.stage]

(* "cached HTML from page N can never be evidence for page N+1", through    *)
(* the adaptive layer, the baseline it saves and the model's turn between   *)
(* its result and its return.                                               *)
EvidenceIsOfThisPage ==
    /\ pc \in {"observe", "scrapling_adaptive"} => cache[Context] \in {0, page}
    /\ JustKept => kept.from = page

(* With a store attached, a weak, missing or rejected value gets into a     *)
(* record only with a listed episode that is complete, the model's          *)
(* candidate and its verdict included, whatever store call fails.           *)
WeakValuesAreRecorded ==
    LET Complete(stage, more) == \E e \in listed :
            e.stage = stage /\ {"create", "features", "observation", "manifest"} \cup more \subseteq e.written
        asked == \E a \in attempts : a.stage = "llm_text"
    IN  JustKept /\ crawl.store =>
            /\ kept.stage \in Methods /\ Confidence[kept.stage] < crawl.threshold =>
                Complete(kept.stage, IF asked THEN {"proposal", "verdict"} ELSE {})
            /\ kept.stage = "source" /\ kept.value # "good" => Complete("source", {})
            /\ kept.field \in DeclaredSource /\ kept.stage # "source" => Complete("source", {})
=============================================================================
