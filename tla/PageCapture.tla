---------------------------- MODULE PageCapture ----------------------------
(***************************************************************************)
(* Passive captures while a paginated site is crawled: PageCaptureSession  *)
(* (core/captures.py) inside the page loop of GenericSpider                *)
(* (core/spider_engine.py).  One coroutine walks the pages; each page has  *)
(* a session that listens to the browser's responses, claims the first     *)
(* one that matches a declared spec and reads its body in a task of its    *)
(* own.  pc names the await the coroutine is suspended at: everything      *)
(* between two awaits is one action, and a response may be delivered, a    *)
(* body may arrive and a cancelled task may end at every await.            *)
(*                                                                         *)
(* A captured value is represented by the page whose document asked for    *)
(* it, which is what the properties tell apart.                            *)
(***************************************************************************)
EXTENDS Naturals, FiniteSets

CONSTANTS
    NetworkSpecs,   \* declared network_json captures
    EmbeddedSpecs,  \* declared embedded_json captures
    Required,       \* the specs with required: true
    MaxPages,       \* pagination's max_pages
    MaxResponses    \* bound on matching responses of the whole crawl

Specs == NetworkSpecs \cup EmbeddedSpecs

ASSUME CaptureAssumption ==
    /\ NetworkSpecs \cap EmbeddedSpecs = {}
    /\ Required \subseteq Specs
    /\ MaxPages \in Nat \ {0} /\ MaxResponses \in Nat

Pages == 1..MaxPages
None == 0

VARIABLES
    pc,         \* the await the crawl is at
    page,       \* page_index, counted from the moment its session is installed
    document,   \* the page the browser shows
    raising,    \* the page ends with an exception
    listening,  \* pages whose session is attached to the response event
    claimed,    \* _claimed_network of each session
    ready,      \* the set events in _network_ready of each session
    value,      \* values of each session: the page a value comes from
    errors,     \* the specs in errors of each session
    awaited,    \* the specs whose event finish() waits for
    tasks,      \* _consume_response tasks that have not ended
    inflight,   \* responses on their way to the browser
    sent,       \* responses asked for so far
    context     \* what extraction got to see of each page

sessionVars == <<listening, claimed, ready, value, errors, tasks>>
vars == <<pc, page, document, raising, awaited, inflight, sent, context, sessionVars>>

NothingYet == [s \in Specs |-> None]
Responses == [id : 1..MaxResponses, page : Pages, matches : SUBSET NetworkSpecs,
              kind : {"good", "bad", "oversize"}]

TypeOK ==
    /\ pc \in {"open", "load", "embedded", "waiting", "draining", "timed_out", "extract",
               "report", "closing", "next", "click", "done", "stopped"}
    /\ page \in Pages /\ document \in 0..MaxPages /\ raising \in BOOLEAN
    /\ listening \subseteq Pages
    /\ claimed \in [Pages -> SUBSET NetworkSpecs]
    /\ ready \in [Pages -> SUBSET NetworkSpecs]
    /\ value \in [Pages -> [Specs -> 0..MaxPages]]
    /\ errors \in [Pages -> SUBSET Specs]
    /\ awaited \subseteq NetworkSpecs
    /\ tasks \subseteq [page : Pages, spec : NetworkSpecs, origin : Pages,
                        good : BOOLEAN, cancelled : BOOLEAN]
    /\ inflight \subseteq Responses
    /\ sent \in 0..MaxResponses
    /\ context \in [Pages -> [Specs -> 0..MaxPages]]

Init ==
    /\ pc = "open" /\ page = 1 /\ document = None /\ raising = FALSE
    /\ listening = {} /\ tasks = {} /\ awaited = {} /\ inflight = {} /\ sent = 0
    /\ claimed = [p \in Pages |-> {}] /\ ready = [p \in Pages |-> {}]
    /\ errors = [p \in Pages |-> {}]
    /\ value = [p \in Pages |-> NothingYet] /\ context = [p \in Pages |-> NothingYet]

-----------------------------------------------------------------------------
(* The browser and the response callback *)

(* The page that is shown asks for something that matches the specs. *)
Send ==
    /\ document # None /\ pc \notin {"done", "stopped"}
    /\ sent < MaxResponses
    /\ sent' = sent + 1
    /\ \E matches \in SUBSET NetworkSpecs \ {{}}, kind \in {"good", "bad", "oversize"} :
        inflight' = inflight \cup {[id |-> sent + 1, page |-> document,
                                    matches |-> matches, kind |-> kind]}
    /\ UNCHANGED <<pc, page, document, raising, awaited, context, sessionVars>>

NewlyClaimed(r, p) == IF p \in listening THEN r.matches \ claimed[p] ELSE {}

(* Mutant: an oversized response is an error but wakes nobody. *)
ReadyAfterNobody(r, p) == ready[p]

(* A declared content-length beyond max_bytes settles the spec at once. *)
ReadyAfter(r, p) == IF r.kind = "oversize" THEN ready[p] \cup NewlyClaimed(r, p) ELSE ready[p]

Deliver(r) ==
    /\ inflight' = inflight \ {r}
    /\ claimed' = [p \in Pages |-> claimed[p] \cup NewlyClaimed(r, p)]
    /\ ready' = [p \in Pages |-> ReadyAfter(r, p)]
    /\ errors' = [p \in Pages |->
            IF r.kind = "oversize" THEN errors[p] \cup NewlyClaimed(r, p) ELSE errors[p]]
    /\ tasks' = IF r.kind = "oversize" THEN tasks ELSE tasks \cup
            {[page |-> c[1], spec |-> c[2], origin |-> r.page, good |-> r.kind = "good",
              cancelled |-> FALSE] :
                c \in {c \in Pages \X NetworkSpecs : c[2] \in NewlyClaimed(r, c[1])}}
    /\ UNCHANGED <<pc, page, document, raising, awaited, sent, context, listening, value>>

(* _consume_response, once the body is there. *)
ReadBody(t) ==
    /\ ~t.cancelled
    /\ tasks' = tasks \ {t}
    /\ IF t.good
       THEN value' = [value EXCEPT ![t.page][t.spec] = t.origin] /\ UNCHANGED errors
       ELSE errors' = [errors EXCEPT ![t.page] = @ \cup {t.spec}] /\ UNCHANGED value
    /\ ready' = [ready EXCEPT ![t.page] = @ \cup {t.spec}]
    /\ UNCHANGED <<pc, page, document, raising, awaited, inflight, sent, context,
                   listening, claimed>>

(* CancelledError is no Exception: only the finally clause runs, and not   *)
(* even that in a task that had not taken its first step.                  *)
EndCancelled(t) ==
    /\ t.cancelled
    /\ tasks' = tasks \ {t}
    /\ ready' \in {ready, [ready EXCEPT ![t.page] = @ \cup {t.spec}]}
    /\ UNCHANGED <<pc, page, document, raising, awaited, inflight, sent, context,
                   listening, claimed, value, errors>>

-----------------------------------------------------------------------------
(* The session's own operations *)

TasksOf(p) == {t \in tasks : t.page = p}
Cancelled(p) == {[t EXCEPT !.cancelled = TRUE] : t \in TasksOf(p)} \cup (tasks \ TasksOf(p))

Install(p) == listening' = listening \cup {p}

(* Mutant: the listener goes, the running tasks do not. *)
CloseListener(p) ==
    /\ listening' = listening \ {p}
    /\ UNCHANGED tasks

(* Mutant: the tasks go, the listener stays. *)
CloseTasks(p) ==
    /\ UNCHANGED listening
    /\ tasks' = Cancelled(p)

(* close(): detach the listener, cancel what still reads. *)
Close(p) ==
    /\ listening' = listening \ {p}
    /\ tasks' = Cancelled(p)

(* Mutant: a claimed response is as good as its content. *)
MissingUnclaimed(p) == {s \in Required : value[p][s] = None /\ s \notin claimed[p]}

Missing(p) == {s \in Required : value[p][s] = None}

(* The end of finish(): the captures, or RequiredCaptureError. *)
Judge(p) ==
    IF Missing(p) = {}
    THEN pc' = "extract" /\ context' = [context EXCEPT ![p] = value[p]]
    ELSE pc' = "report" /\ UNCHANGED context

-----------------------------------------------------------------------------
(* The crawl *)

(* The first page: its session listens before the navigation starts. *)
Open ==
    /\ pc = "open"
    /\ Install(1)
    /\ document' = 1
    /\ pc' = "load"
    /\ UNCHANGED <<page, raising, awaited, inflight, sent, context,
                   claimed, ready, value, errors, tasks>>

(* Navigation, waiting for the page, and the configured actions. *)
Load ==
    /\ pc = "load"
    /\ pc' = "embedded"
    /\ UNCHANGED <<page, document, raising, awaited, inflight, sent, context, sessionVars>>

(* A wait or the click times out: an episode is recorded, then it raises. *)
LoadFails ==
    /\ pc \in {"load", "click"}
    /\ pc' = "report"
    /\ UNCHANGED <<page, document, raising, awaited, inflight, sent, context, sessionVars>>

(* What _collect_embedded makes of the specs it gets to. *)
Collected(found, failed) ==
    /\ value' = [value EXCEPT ![page] =
            [s \in Specs |-> IF s \in found THEN document ELSE value[page][s]]]
    /\ errors' = [errors EXCEPT ![page] = @ \cup failed]

CollectEmbedded ==
    /\ pc = "embedded"
    /\ \E found \in SUBSET EmbeddedSpecs : Collected(found, EmbeddedSpecs \ found)
    /\ awaited' = {s \in Required \cap NetworkSpecs :
                     value[page][s] = None /\ s \notin errors[page]}
    /\ pc' = "waiting"
    /\ UNCHANGED <<page, document, raising, inflight, sent, context,
                   listening, claimed, ready, tasks>>

RequiredArrived ==
    /\ pc = "waiting"
    /\ awaited \subseteq ready[page]
    /\ pc' = "draining"
    /\ UNCHANGED <<page, document, raising, awaited, inflight, sent, context, sessionVars>>

Drained ==
    /\ pc = "draining"
    /\ TasksOf(page) = {}
    /\ Judge(page)
    /\ UNCHANGED <<page, document, raising, awaited, inflight, sent, sessionVars>>

(* asyncio.wait_for gives up on _finish, wherever it is. *)
Timeout ==
    /\ \/ /\ pc = "embedded"
          /\ \E found, failed \in SUBSET EmbeddedSpecs :
                found \cap failed = {} /\ Collected(found, failed)
       \/ pc \in {"waiting", "draining"} /\ UNCHANGED <<value, errors>>
    /\ tasks' = Cancelled(page)
    /\ pc' = "timed_out"
    /\ UNCHANGED <<page, document, raising, awaited, inflight, sent, context,
                   listening, claimed, ready>>

(* The cancelled tasks have ended; a response claimed meanwhile is not     *)
(* waited for.                                                             *)
TimedOut ==
    /\ pc = "timed_out"
    /\ \A t \in TasksOf(page) : ~t.cancelled
    /\ errors' = [errors EXCEPT ![page] = @ \cup {s \in Specs : value[page][s] = None}]
    /\ Judge(page)
    /\ UNCHANGED <<page, document, raising, awaited, inflight, sent,
                   listening, claimed, ready, value, tasks>>

(* Extraction (and the episodes it records) awaits the browser and ends;   *)
(* the finally clause closes the session.                                  *)
Extract ==
    /\ pc = "extract"
    /\ raising' \in BOOLEAN
    /\ Close(page)
    /\ pc' = "closing"
    /\ UNCHANGED <<page, document, awaited, inflight, sent, context,
                   claimed, ready, value, errors>>

Report ==
    /\ pc = "report"
    /\ raising' = TRUE
    /\ Close(page)
    /\ pc' = "closing"
    /\ UNCHANGED <<page, document, awaited, inflight, sent, context,
                   claimed, ready, value, errors>>

(* aclose() has drained the tasks. *)
Closed ==
    /\ pc = "closing"
    /\ TasksOf(page) = {}
    /\ pc' = IF raising THEN "stopped" ELSE "next"
    /\ UNCHANGED <<page, document, raising, awaited, inflight, sent, context, sessionVars>>

(* No next button, or max_pages reached. *)
LastPage ==
    /\ pc = "next"
    /\ pc' = "done"
    /\ UNCHANGED <<page, document, raising, awaited, inflight, sent, context, sessionVars>>

(* Mutant: one page too many. *)
NextPageOneMore ==
    /\ pc = "next"
    /\ page <= MaxPages
    /\ page' = page + 1
    /\ Install(page + 1)
    /\ pc' = "click"
    /\ UNCHANGED <<document, raising, awaited, inflight, sent, context,
                   claimed, ready, value, errors, tasks>>

(* The next page's session listens before its link is clicked. *)
NextPage ==
    /\ pc = "next"
    /\ page < MaxPages
    /\ page' = page + 1
    /\ Install(page + 1)
    /\ pc' = "click"
    /\ UNCHANGED <<document, raising, awaited, inflight, sent, context,
                   claimed, ready, value, errors, tasks>>

Click ==
    /\ pc = "click"
    /\ document' = page
    /\ pc' = "load"
    /\ UNCHANGED <<page, raising, awaited, inflight, sent, context, sessionVars>>

(* What the coroutine does next. *)
Crawl ==
    \/ Open \/ Load \/ LoadFails \/ CollectEmbedded \/ RequiredArrived \/ Drained
    \/ Timeout \/ TimedOut \/ Extract \/ Report \/ Closed \/ LastPage \/ NextPage \/ Click

Next ==
    \/ Crawl
    \/ Send
    \/ \E r \in inflight : Deliver(r)
    \/ \E t \in tasks : ReadBody(t) \/ EndCancelled(t)

Spec == Init /\ [][Next]_vars

(* The timer of finish() goes off, a cancelled task ends, and a session     *)
(* goes on when what it waits for has happened.  No response and no body is *)
(* assumed to ever arrive, and no await outside the session to end.         *)
Fairness ==
    /\ WF_vars(Timeout) /\ WF_vars(TimedOut) /\ WF_vars(Closed)
    /\ WF_vars(\E t \in tasks : EndCancelled(t))

FairSpec == Spec /\ Fairness
-----------------------------------------------------------------------------
(* Properties *)

(* Captures belong to one page: at most the present page's session listens, *)
(* and once a page is over neither a listener nor a reading task is left.   *)
NothingSurvivesThePage ==
    /\ listening \subseteq {page}
    /\ \A t \in tasks : t.page = page
    /\ pc \in {"open", "next", "done", "stopped"} => listening = {} /\ tasks = {}

(* No wake-up is lost: until finish() gives up, a claimed spec is ready or  *)
(* its task is reading, so it falls back on its timeout only for what did   *)
(* not come.                                                                *)
ClaimedIsReadyOrRead ==
    pc \in {"load", "embedded", "waiting", "draining"} => \A s \in claimed[page] :
        s \in ready[page] \/ \E t \in TasksOf(page) : t.spec = s /\ ~t.cancelled

(* "Required capture failure returns no partial records": a page is         *)
(* extracted, and a later page opened, only with a value for every required *)
(* spec of it, whatever was claimed, cancelled or late; and extraction sees *)
(* nothing that arrives after finish() returned.  What an extraction goes   *)
(* without has a reason: a claimed spec that has no value has an error, or  *)
(* was claimed too late and is still being read.                            *)
FailsClosed ==
    /\ \A p \in Pages : \A s \in Required :
        (p < page \/ (p = page /\ pc \in {"extract", "next", "done"})) => context[p][s] # None
    /\ pc = "extract" => \A s \in claimed[page] :
        \/ value[page][s] # None
        \/ s \in errors[page]
        \/ \E t \in tasks : t.page = page /\ t.spec = s /\ ~t.cancelled

(* The awaits inside finish() and aclose(). *)
InSession == pc \in {"embedded", "waiting", "draining", "timed_out", "closing"}

(* A capture never holds the crawl up: finish() and aclose() come to an end *)
(* although responses and bodies may never arrive.                          *)
CaptureWaitsEnd == InSession ~> ~InSession
=============================================================================
