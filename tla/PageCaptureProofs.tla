------------------------- MODULE PageCaptureProofs -------------------------
(***************************************************************************)
(* What the passive captures of a crawl promise, for every number of pages, *)
(* specs and responses: a session ends with its page, no wake-up is lost,  *)
(* and no page is extracted without its required captures.                 *)
(***************************************************************************)
EXTENDS PageCapture, TLAPS

(* The awaits of a page until finish() returns or gives up. *)
Collecting == {"click", "load", "embedded", "waiting", "draining"}

(* A page that was not opened yet has nothing, and a document is shown from *)
(* the first navigation on.                                                 *)
Unopened ==
    /\ IF pc = "open" THEN page = 1 ELSE document # None
    /\ \A p \in Pages : p > page \/ pc = "open" => claimed[p] = {} /\ ready[p] = {}

(* Only the session of the present page is alive; the listener is off from *)
(* its close on, its tasks have ended when the page is over.               *)
OnePage ==
    /\ listening \subseteq {page}
    /\ \A t \in tasks : t.page = page
    /\ pc \in {"open", "closing", "next", "done", "stopped"} => listening = {}
    /\ pc \in {"open", "next", "done", "stopped"} => tasks = {}

(* Nothing is cancelled before finish() gives up, nor while the page is    *)
(* extracted; what was claimed is ready or still read, and what is ready   *)
(* has a value or an error.                                                *)
NothingLost ==
    /\ pc \in Collecting \cup {"extract"} => \A t \in tasks : ~t.cancelled
    /\ pc \in Collecting =>
        /\ \A s \in claimed[page] : s \in ready[page] \/ \E t \in tasks : t.spec = s
        /\ \A s \in ready[page] : value[page][s] # None \/ s \in errors[page]
    /\ pc = "extract" => \A s \in claimed[page] :
         value[page][s] # None \/ s \in errors[page] \/ \E t \in tasks : t.spec = s

(* Extraction has seen every required capture of each page it got to. *)
Complete(p) == \A s \in Required : context[p][s] # None

Judged ==
    /\ \A p \in Pages : p < page => Complete(p)
    /\ pc \in {"extract", "next", "done"} => Complete(page)
    /\ pc = "closing" /\ ~raising => Complete(page)

CaptureInv == TypeOK /\ Unopened /\ OnePage /\ NothingLost /\ Judged

-----------------------------------------------------------------------------
(* Lemmas about the model's helpers *)

Readers == [page : Pages, spec : NetworkSpecs, origin : Pages, good : BOOLEAN,
            cancelled : BOOLEAN]

LEMMA PagesAreNumbers ==
    /\ 1 \in Pages
    /\ \A p \in Pages : p \in Nat /\ p # None /\ p \in 0..MaxPages
    /\ \A p \in Pages : p < MaxPages => p + 1 \in Pages
  BY CaptureAssumption DEF Pages, None

LEMMA AddedAt ==
    ASSUME NEW P, NEW S, NEW f \in [P -> SUBSET S], NEW p \in P, NEW s \in S
    PROVE  /\ [f EXCEPT ![p] = @ \cup {s}] \in [P -> SUBSET S]
           /\ \A q \in P : q # p => [f EXCEPT ![p] = @ \cup {s}][q] = f[q]
  OBVIOUS

LEMMA PutAt ==
    ASSUME NEW P, NEW S, NEW V, NEW f \in [P -> [S -> V]], NEW p \in P, NEW s \in S, NEW v \in V
    PROVE  [f EXCEPT ![p][s] = v] \in [P -> [S -> V]]
  OBVIOUS

(* A cancelled task is the task it was. *)
LEMMA CancelledTask ==
    ASSUME TypeOK, NEW p, NEW t \in Cancelled(p)
    PROVE  t \in Readers /\ \E u \in tasks : u.page = t.page
<1>1. CASE t \in tasks
  BY <1>1 DEF TypeOK, Readers
<1>2. CASE \E u \in TasksOf(p) : t = [u EXCEPT !.cancelled = TRUE]
  BY <1>2 DEF TypeOK, TasksOf, Readers
<1> QED BY <1>1, <1>2 DEF Cancelled

(* What a response starts is a reader of a spec it claims for a listening page. *)
StartedBy(r) ==
    {[page |-> c[1], spec |-> c[2], origin |-> r.page, good |-> r.kind = "good",
      cancelled |-> FALSE] :
        c \in {c \in Pages \X NetworkSpecs : c[2] \in NewlyClaimed(r, c[1])}}

LEMMA StartedTask ==
    ASSUME NEW r \in Responses, NEW t \in StartedBy(r)
    PROVE  t \in Readers /\ ~t.cancelled /\ t.page \in listening
<1>1. PICK c \in Pages \X NetworkSpecs :
        /\ c[2] \in NewlyClaimed(r, c[1])
        /\ t = [page |-> c[1], spec |-> c[2], origin |-> r.page, good |-> r.kind = "good",
                cancelled |-> FALSE]
  BY DEF StartedBy
<1> QED BY <1>1 DEF Readers, Responses, NewlyClaimed

LEMMA EachClaimIsRead ==
    ASSUME NEW r, NEW p \in Pages, NEW s \in NewlyClaimed(r, p), s \in NetworkSpecs
    PROVE  \E t \in StartedBy(r) : t.spec = s
<1> DEFINE t == [page |-> p, spec |-> s, origin |-> r.page, good |-> r.kind = "good",
                 cancelled |-> FALSE]
      Claims == {c \in Pages \X NetworkSpecs : c[2] \in NewlyClaimed(r, c[1])}
      Reader(c) == [page |-> c[1], spec |-> c[2], origin |-> r.page, good |-> r.kind = "good",
                    cancelled |-> FALSE]
<1>1. <<p, s>> \in Claims
  OBVIOUS
<1>2. t = Reader(<<p, s>>)
  OBVIOUS
<1>3. StartedBy(r) = {Reader(c) : c \in Claims}
  BY DEF StartedBy
<1>4. t.spec = s
  OBVIOUS
<1> HIDE DEF Claims, Reader, t
<1>5. t \in StartedBy(r)
  BY <1>1, <1>2, <1>3
<1> QED BY <1>4, <1>5

-----------------------------------------------------------------------------
(* The steps *)

LEMMA CaptureInitial == Init => CaptureInv
<1> SUFFICES ASSUME Init PROVE CaptureInv
  OBVIOUS
<1> USE PagesAreNumbers DEF Init
<1>1. 0 \in 0..MaxPages /\ 0 \in 0..MaxResponses
  BY CaptureAssumption
<1>2. TypeOK
  BY <1>1 DEF TypeOK, NothingYet, None
<1>3. Unopened /\ OnePage /\ NothingLost
  BY DEF Unopened, OnePage, NothingLost, Collecting
<1>4. Judged
  BY CaptureAssumption DEF Judged, Pages
<1> QED BY <1>2, <1>3, <1>4 DEF CaptureInv

LEMMA SendStep == CaptureInv /\ Send => CaptureInv'
<1> SUFFICES ASSUME CaptureInv, Send PROVE CaptureInv'
  OBVIOUS
<1> USE DEF CaptureInv
<1>1. PICK matches \in SUBSET NetworkSpecs \ {{}}, kind \in {"good", "bad", "oversize"} :
        inflight' = inflight \cup {[id |-> sent + 1, page |-> document,
                                    matches |-> matches, kind |-> kind]}
  BY DEF Send
<1>2. sent + 1 \in 1..MaxResponses /\ document \in Pages
  BY CaptureAssumption DEF Send, TypeOK, Pages, None
<1>3. [id |-> sent + 1, page |-> document, matches |-> matches, kind |-> kind] \in Responses
  BY <1>2 DEF Responses
<1>4. sent' \in 0..MaxResponses
  BY <1>2 DEF Send
<1>5. UNCHANGED <<pc, page, document, raising, awaited, context, sessionVars>>
  BY DEF Send
<1>6. TypeOK'
  BY <1>1, <1>3, <1>4, <1>5 DEF TypeOK, sessionVars
<1> QED
  BY <1>5, <1>6 DEF Unopened, OnePage, NothingLost, Judged, Complete, sessionVars

LEMMA DeliverStep == ASSUME CaptureInv, NEW r \in inflight, Deliver(r) PROVE CaptureInv'
<1> USE DEF CaptureInv
<1>0. r \in Responses /\ r.matches \subseteq NetworkSpecs
  BY DEF TypeOK, Responses
<1>1. /\ inflight' = inflight \ {r}
      /\ claimed' = [p \in Pages |-> claimed[p] \cup NewlyClaimed(r, p)]
      /\ ready' = [p \in Pages |-> ReadyAfter(r, p)]
      /\ errors' = [p \in Pages |-> IF r.kind = "oversize" THEN errors[p] \cup NewlyClaimed(r, p)
                                    ELSE errors[p]]
      /\ tasks' = IF r.kind = "oversize" THEN tasks ELSE tasks \cup StartedBy(r)
      /\ UNCHANGED <<pc, page, document, raising, awaited, sent, context, listening, value>>
  BY DEF Deliver, StartedBy
<1>2. \A p \in Pages : NewlyClaimed(r, p) \subseteq NetworkSpecs
  BY <1>0 DEF NewlyClaimed
<1>3. \A p \in Pages \ listening : NewlyClaimed(r, p) = {}
  BY DEF NewlyClaimed
<1>4. TypeOK'
  <2>1. tasks' \subseteq Readers
    BY <1>0, <1>1, StartedTask DEF TypeOK, Readers
  <2>2. /\ claimed' \in [Pages -> SUBSET NetworkSpecs]
        /\ ready' \in [Pages -> SUBSET NetworkSpecs]
        /\ errors' \in [Pages -> SUBSET Specs]
    BY <1>1, <1>2 DEF TypeOK, ReadyAfter, Specs
  <2> QED BY <1>1, <2>1, <2>2 DEF TypeOK, Readers
<1>5. Unopened' /\ OnePage'
  <2>1. pc = "open" => listening = {}
    BY DEF OnePage
  <2>2. \A p \in Pages : p > page \/ pc = "open" => NewlyClaimed(r, p) = {}
    BY <1>3, <2>1, PagesAreNumbers DEF OnePage, TypeOK
  <2>3. Unopened'
    BY <1>1, <2>2 DEF Unopened, ReadyAfter
  <2>4. \A t \in tasks' : t \in tasks \/ t.page \in listening
    BY <1>0, <1>1, StartedTask
  <2>5. OnePage'
    BY <1>1, <2>4 DEF OnePage
  <2> QED BY <2>3, <2>5
<1>6. NothingLost'
  <2>0. page \in Pages
    BY DEF TypeOK
  <2>1. \A t \in tasks' : t \in tasks \/ ~t.cancelled
    BY <1>0, <1>1, StartedTask
  <2>2. tasks \subseteq tasks' /\ ready[page] \subseteq ready'[page]
        /\ errors[page] \subseteq errors'[page]
    BY <1>1, <2>0 DEF ReadyAfter
  <2>3. ASSUME NEW s \in claimed'[page], s \notin claimed[page]
        PROVE  (s \in ready'[page] /\ s \in errors'[page]) \/ \E t \in tasks' : t.spec = s
    <3>1. s \in NewlyClaimed(r, page) /\ s \in NetworkSpecs
      BY <1>1, <1>2, <2>0, <2>3
    <3>2. CASE r.kind = "oversize"
      BY <1>1, <2>0, <3>1, <3>2 DEF ReadyAfter
    <3>3. CASE r.kind # "oversize"
      <4>1. \E t \in StartedBy(r) : t.spec = s
        BY <2>0, <3>1, EachClaimIsRead
      <4> QED BY <1>1, <3>3, <4>1
    <3> QED BY <3>2, <3>3
  <2>4. \A s \in ready'[page] : s \in ready[page] \/ s \in errors'[page]
    BY <1>1, <2>0 DEF ReadyAfter
  <2> QED BY <1>1, <2>1, <2>2, <2>3, <2>4 DEF NothingLost
<1>7. Judged'
  BY <1>1 DEF Judged, Complete
<1> QED BY <1>4, <1>5, <1>6, <1>7

LEMMA ReadBodyStep == ASSUME CaptureInv, NEW t \in tasks, ReadBody(t) PROVE CaptureInv'
<1> USE DEF CaptureInv
<1>1. /\ t \in Readers /\ t.page = page /\ t.page \in Pages /\ t.spec \in NetworkSpecs
      /\ t.spec \in Specs /\ t.origin \in Pages
  BY DEF TypeOK, OnePage, Readers, Specs
<1>2. /\ tasks' = tasks \ {t}
      /\ ready' = [ready EXCEPT ![t.page] = @ \cup {t.spec}]
      /\ UNCHANGED <<pc, page, document, raising, awaited, inflight, sent, context,
                     listening, claimed>>
      /\ \/ t.good /\ value' = [value EXCEPT ![t.page][t.spec] = t.origin] /\ UNCHANGED errors
         \/ errors' = [errors EXCEPT ![t.page] = @ \cup {t.spec}] /\ UNCHANGED value
  BY DEF ReadBody
<1>3. TypeOK'
  <2>1. ready' \in [Pages -> SUBSET NetworkSpecs]
    BY <1>1, <1>2, AddedAt DEF TypeOK
  <2>2. errors' \in [Pages -> SUBSET Specs]
    <3>1. errors \in [Pages -> SUBSET Specs]
      BY DEF TypeOK
    <3>2. [errors EXCEPT ![t.page] = @ \cup {t.spec}] \in [Pages -> SUBSET Specs]
      BY <1>1, <3>1, AddedAt
    <3> QED BY <1>2, <3>1, <3>2
  <2>3. t.origin \in 0..MaxPages
    BY <1>1, PagesAreNumbers
  <2>4. [value EXCEPT ![t.page][t.spec] = t.origin] \in [Pages -> [Specs -> 0..MaxPages]]
    BY <1>1, <2>3, PutAt DEF TypeOK
  <2>5. value' \in [Pages -> [Specs -> 0..MaxPages]]
    BY <1>2, <2>4 DEF TypeOK
  <2> QED BY <1>2, <2>1, <2>2, <2>5 DEF TypeOK
<1>4. Unopened' /\ OnePage' /\ Judged'
  BY <1>1, <1>2, PagesAreNumbers DEF Unopened, OnePage, Judged, Complete, TypeOK
<1>5. NothingLost'
  <2>1. /\ ready'[page] = ready[page] \cup {t.spec}
        /\ errors[page] \subseteq errors'[page]
        /\ \A s \in Specs : value[page][s] # None => value'[page][s] # None
        /\ value'[page][t.spec] # None \/ t.spec \in errors'[page]
    BY <1>1, <1>2, PagesAreNumbers DEF TypeOK
  <2>2. claimed[page] \subseteq Specs /\ ready[page] \subseteq Specs
    BY <1>1 DEF TypeOK, Specs
  <2> QED BY <1>1, <1>2, <2>1, <2>2 DEF NothingLost
<1> QED BY <1>3, <1>4, <1>5

LEMMA EndCancelledStep == ASSUME CaptureInv, NEW t \in tasks, EndCancelled(t) PROVE CaptureInv'
<1> USE DEF CaptureInv, EndCancelled
<1>1. t \in Readers /\ t.page = page /\ t.page \in Pages /\ t.spec \in NetworkSpecs
  BY DEF TypeOK, OnePage, Readers
<1>2. pc \notin Collecting \cup {"extract"}
  BY DEF NothingLost
<1>3. ready' \in [Pages -> SUBSET NetworkSpecs]
      /\ \A p \in Pages : p # page => ready'[p] = ready[p]
  <2>1. ready \in [Pages -> SUBSET NetworkSpecs]
    BY DEF TypeOK
  <2>2. CASE ready' = ready
    BY <2>1, <2>2
  <2>3. CASE ready' = [ready EXCEPT ![t.page] = @ \cup {t.spec}]
    BY <1>1, <2>1, <2>3, AddedAt
  <2> QED BY <2>2, <2>3
<1>4. TypeOK'
  BY <1>3 DEF TypeOK
<1>5. Unopened'
  <2>1. \A p \in Pages : p > page => p # page
    BY <1>1, PagesAreNumbers
  <2> QED BY <1>3, <2>1 DEF Unopened, OnePage
<1>6. OnePage' /\ Judged' /\ NothingLost'
  BY <1>2 DEF OnePage, Judged, Complete, NothingLost
<1> QED BY <1>4, <1>5, <1>6

(* The steps that open, load or leave a page. *)
LEMMA PagingStep ==
    CaptureInv /\ (Open \/ Load \/ LoadFails \/ RequiredArrived \/ Closed \/ LastPage
                   \/ NextPage \/ Click)
    => CaptureInv'
<1> SUFFICES ASSUME CaptureInv, Open \/ Load \/ LoadFails \/ RequiredArrived \/ Closed \/ LastPage
                                \/ NextPage \/ Click
             PROVE  CaptureInv'
  OBVIOUS
<1> USE PagesAreNumbers DEF CaptureInv, Install, sessionVars
<1>1. CASE Open
  <2>1. TypeOK'
    BY <1>1 DEF Open, TypeOK
  <2>2. page \in Pages /\ tasks = {} /\ claimed[page] = {} /\ ready[page] = {}
    BY <1>1 DEF Open, Unopened, OnePage, TypeOK
  <2>3. Unopened' /\ NothingLost'
    BY <1>1, <2>2 DEF Open, Unopened, NothingLost, Collecting
  <2>4. page = 1
    BY <1>1 DEF Open, Unopened
  <2>5. OnePage' /\ Judged'
    BY <1>1, <2>2, <2>4 DEF Open, OnePage, Judged, Complete
  <2> QED BY <2>1, <2>3, <2>5
<1>2. CASE Load \/ RequiredArrived \/ Click
  <2>1. TypeOK'
    BY <1>2 DEF Load, RequiredArrived, Click, TypeOK
  <2>2. /\ UNCHANGED <<page, raising, context, listening, claimed, ready, value, errors, tasks>>
        /\ pc \in Collecting /\ pc' \in Collecting
        /\ document' # None
    BY <1>2 DEF Load, RequiredArrived, Click, Collecting, Unopened, TypeOK
  <2> QED BY <2>1, <2>2 DEF Unopened, OnePage, NothingLost, Judged, Complete, Collecting
<1>3. CASE LoadFails \/ Closed \/ LastPage
  <2>1. TypeOK'
    BY <1>3 DEF LoadFails, Closed, LastPage, TypeOK
  <2>2. /\ UNCHANGED <<page, document, raising, context, listening, claimed, ready, value, errors,
                       tasks>>
        /\ pc' \in {"report", "stopped", "next", "done"} /\ pc # "open"
        /\ pc' \in {"stopped", "next", "done"} => listening = {} /\ tasks = {}
        /\ pc' \in {"next", "done"} => Complete(page)
    BY <1>3 DEF LoadFails, Closed, LastPage, OnePage, Judged, TasksOf
  <2> QED BY <2>1, <2>2 DEF Unopened, OnePage, NothingLost, Judged, Complete, Collecting
<1>4. CASE NextPage
  <2>1. page \in Nat /\ page' = page + 1 /\ page + 1 \in Pages
    BY <1>4 DEF NextPage, TypeOK
  <2>2. TypeOK'
    BY <1>4, <2>1 DEF NextPage, TypeOK
  <2>3. tasks' = {} /\ listening' = {page'}
    BY <1>4, <2>1 DEF NextPage, OnePage
  <2>4. \A p \in Pages : p > page' \/ p = page' => p > page
    BY <2>1
  <2>5. claimed'[page'] = {} /\ ready'[page'] = {}
    BY <1>4, <2>1, <2>4 DEF NextPage, Unopened
  <2>6. Unopened' /\ OnePage' /\ NothingLost'
    BY <1>4, <2>1, <2>3, <2>4, <2>5 DEF NextPage, Unopened, OnePage, NothingLost, Collecting
  <2>7. \A q \in Pages : q < page' => q < page \/ q = page
    BY <2>1
  <2>8. Judged'
    BY <1>4, <2>1, <2>7 DEF NextPage, Judged, Complete
  <2> QED BY <2>2, <2>6, <2>8
<1> QED BY <1>1, <1>2, <1>3, <1>4

(* What is collected from the document never takes a value or an error away. *)
LEMMA CollectedKeeps ==
    ASSUME TypeOK, document # None, NEW found \in SUBSET EmbeddedSpecs,
           NEW failed \in SUBSET EmbeddedSpecs, Collected(found, failed)
    PROVE  /\ value' \in [Pages -> [Specs -> 0..MaxPages]]
           /\ errors' \in [Pages -> SUBSET Specs]
           /\ errors[page] \subseteq errors'[page]
           /\ \A s \in Specs : value[page][s] # None => value'[page][s] # None
  BY DEF Collected, TypeOK, Specs

LEMMA CollectStep == CaptureInv /\ CollectEmbedded => CaptureInv'
<1> SUFFICES ASSUME CaptureInv, CollectEmbedded PROVE CaptureInv'
  OBVIOUS
<1> USE DEF CaptureInv
<1>1. PICK found \in SUBSET EmbeddedSpecs : Collected(found, EmbeddedSpecs \ found)
  BY DEF CollectEmbedded
<1>2. document # None /\ page \in Pages /\ claimed[page] \subseteq Specs /\ ready[page] \subseteq Specs
  BY DEF CollectEmbedded, Unopened, TypeOK, Specs
<1>3. /\ value' \in [Pages -> [Specs -> 0..MaxPages]]
      /\ errors' \in [Pages -> SUBSET Specs]
      /\ errors[page] \subseteq errors'[page]
      /\ \A s \in Specs : value[page][s] # None => value'[page][s] # None
  BY <1>1, <1>2, CollectedKeeps
<1>4. TypeOK'
  BY <1>3 DEF CollectEmbedded, TypeOK
<1>5. Unopened' /\ OnePage' /\ Judged'
  BY DEF CollectEmbedded, Unopened, OnePage, Judged, Complete
<1>6. NothingLost'
  BY <1>2, <1>3 DEF CollectEmbedded, NothingLost, Collecting
<1> QED BY <1>4, <1>5, <1>6

LEMMA TimeoutStep == CaptureInv /\ Timeout => CaptureInv'
<1> SUFFICES ASSUME CaptureInv, Timeout PROVE CaptureInv'
  OBVIOUS
<1> USE DEF CaptureInv
<1>1. pc # "open" /\ document # None
  BY DEF Timeout, Unopened
<1>2. value' \in [Pages -> [Specs -> 0..MaxPages]] /\ errors' \in [Pages -> SUBSET Specs]
  BY <1>1, CollectedKeeps DEF Timeout, TypeOK
<1>3. TypeOK'
  BY <1>2, CancelledTask DEF Timeout, TypeOK, Readers
<1>4. OnePage'
  BY <1>1, CancelledTask DEF Timeout, OnePage
<1>5. Unopened' /\ NothingLost' /\ Judged'
  BY <1>1 DEF Timeout, Unopened, NothingLost, Collecting, Judged, Complete
<1> QED BY <1>3, <1>4, <1>5

(* finish() returns the captures or reports what is missing. *)
LEMMA JudgeStep ==
    ASSUME CaptureInv, pc # "open", Judge(page), \A t \in tasks : ~t.cancelled,
           UNCHANGED <<page, document, raising, awaited, inflight, sent, listening, claimed, ready,
                       value, tasks>>,
           errors' \in [Pages -> SUBSET Specs],
           \A s \in claimed[page] :
               value[page][s] # None \/ s \in errors'[page] \/ \E t \in tasks : t.spec = s
    PROVE  CaptureInv'
<1> USE DEF CaptureInv
<1>1. /\ pc' \in {"extract", "report"}
      /\ \A p \in Pages : p # page => context'[p] = context[p]
      /\ pc' = "extract" => \A s \in Required : context'[page][s] # None
      /\ context' \in [Pages -> [Specs -> 0..MaxPages]]
  BY DEF Judge, Missing, TypeOK
<1>2. TypeOK'
  BY <1>1 DEF TypeOK
<1>3. Unopened' /\ OnePage' /\ NothingLost'
  BY <1>1 DEF Unopened, OnePage, NothingLost, Collecting
<1>4. Judged'
  <2>1. \A p \in Pages : p < page => p # page
    BY PagesAreNumbers DEF TypeOK
  <2> QED BY <1>1, <2>1 DEF Judged, Complete
<1> QED BY <1>2, <1>3, <1>4

LEMMA FinishStep == CaptureInv /\ (Drained \/ TimedOut) => CaptureInv'
<1> SUFFICES ASSUME CaptureInv, Drained \/ TimedOut PROVE CaptureInv'
  OBVIOUS
<1>1. CASE Drained
  <2>1. tasks = {}
    BY <1>1 DEF Drained, TasksOf, CaptureInv, OnePage
  <2>2. \A s \in claimed[page] : value[page][s] # None \/ s \in errors[page]
    BY <1>1, <2>1 DEF Drained, CaptureInv, NothingLost, Collecting
  <2> QED BY <1>1, <2>1, <2>2, JudgeStep DEF Drained, CaptureInv, TypeOK, sessionVars
<1>2. CASE TimedOut
  <2>1. \A t \in tasks : ~t.cancelled
    BY <1>2 DEF TimedOut, TasksOf, CaptureInv, OnePage
  <2>2. errors' \in [Pages -> SUBSET Specs]
        /\ \A s \in Specs : value[page][s] # None \/ s \in errors'[page]
    BY <1>2 DEF TimedOut, CaptureInv, TypeOK
  <2>3. claimed[page] \subseteq Specs
    BY DEF CaptureInv, TypeOK, Specs
  <2> QED BY <1>2, <2>1, <2>2, <2>3, JudgeStep DEF TimedOut
<1> QED BY <1>1, <1>2

LEMMA CloseStep == CaptureInv /\ (Extract \/ Report) => CaptureInv'
<1> SUFFICES ASSUME CaptureInv, Extract \/ Report PROVE CaptureInv'
  OBVIOUS
<1> USE DEF CaptureInv
<1>1. /\ pc' = "closing" /\ raising' \in BOOLEAN /\ Close(page) /\ pc # "open"
      /\ UNCHANGED <<page, document, awaited, inflight, sent, context, claimed, ready, value, errors>>
      /\ ~raising' => pc = "extract"
  BY DEF Extract, Report
<1>2. listening' = {} /\ tasks' = Cancelled(page)
  BY <1>1 DEF Close, OnePage
<1>3. TypeOK'
  BY <1>1, <1>2, CancelledTask DEF TypeOK, Readers
<1>4. OnePage'
  BY <1>1, <1>2, CancelledTask DEF OnePage
<1>5. Unopened' /\ NothingLost' /\ Judged'
  BY <1>1 DEF Unopened, NothingLost, Collecting, Judged, Complete
<1> QED BY <1>3, <1>4, <1>5

LEMMA CaptureStep == CaptureInv /\ [Next]_vars => CaptureInv'
<1> SUFFICES ASSUME CaptureInv, [Next]_vars PROVE CaptureInv'
  OBVIOUS
<1>1. CASE UNCHANGED vars
  BY <1>1
  DEF CaptureInv, TypeOK, Unopened, OnePage, NothingLost, Judged, Complete, vars, sessionVars
<1>2. CASE Crawl
  BY <1>2, PagingStep, CollectStep, TimeoutStep, FinishStep, CloseStep DEF Crawl
<1> QED
  BY <1>1, <1>2, SendStep, DeliverStep, ReadBodyStep, EndCancelledStep DEF Next

-----------------------------------------------------------------------------
(* The theorems *)

(* At every await of a page its session, listener and tasks are where the   *)
(* page loop, finish() and aclose() expect them.                            *)
THEOREM CaptureCorrect == Spec => []CaptureInv
  BY CaptureInitial, CaptureStep, PTL DEF Spec

(* Every variable of a crawl keeps its type. *)
THEOREM CaptureTyped == Spec => []TypeOK
  BY CaptureCorrect, PTL DEF CaptureInv

(* At most the present page's session listens or reads, and none does once *)
(* its page is over.                                                       *)
THEOREM SessionEndsWithPage == Spec => []NothingSurvivesThePage
<1>1. CaptureInv => NothingSurvivesThePage
  BY DEF CaptureInv, OnePage, NothingSurvivesThePage
<1> QED BY <1>1, CaptureCorrect, PTL

(* Until finish() gives up, a claimed spec is ready or being read. *)
THEOREM NoWakeUpIsLost == Spec => []ClaimedIsReadyOrRead
<1>1. CaptureInv => ClaimedIsReadyOrRead
  BY DEF CaptureInv, OnePage, NothingLost, Collecting, ClaimedIsReadyOrRead, TasksOf
<1> QED BY <1>1, CaptureCorrect, PTL

(* No page is extracted, and none opened after it, without a value for     *)
(* each required capture; and what extraction goes without has a reason.   *)
THEOREM CapturesFailClosed == Spec => []FailsClosed
<1>1. CaptureInv => FailsClosed
  BY DEF CaptureInv, OnePage, NothingLost, Judged, Complete, Collecting, FailsClosed
<1> QED BY <1>1, CaptureCorrect, PTL
=============================================================================
