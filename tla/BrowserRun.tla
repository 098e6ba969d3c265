----------------------------- MODULE BrowserRun -----------------------------
(***************************************************************************)
(* One browser.extract tool call: BrowserExtractTool.run and the request   *)
(* policy (research_assistant/tools.py) around GenericSpider.run           *)
(* (core/spider_engine.py).  One task acquires the Playwright driver, a    *)
(* browser, a context and a page for each start URL, crawls it, and closes *)
(* everything again; a deadline (asyncio.wait_for) cancels it at whatever  *)
(* await it has reached, while the policy's route handlers run beside it.  *)
(* pc names that await; everything between two awaits is one action.       *)
(***************************************************************************)
EXTENDS Naturals

CONSTANTS
    NumUrls,      \* approved start URLs
    MaxRequests,  \* network.max_requests of the approved spec
    MaxSeen       \* bound on requests the browser makes

ASSUME RunAssumption ==
    /\ NumUrls \in Nat \ {0} /\ MaxRequests \in Nat \ {0} /\ MaxSeen \in Nat

Resources == {"manager", "browser", "context", "page"}
Violations == {"limit", "method", "host", "websocket"}
Waits == {"validate", "enter", "launch", "context", "install", "new_page", "crawl"}

VARIABLES
    pc,            \* the await the run is at
    pages,         \* start URLs whose page was opened
    held,          \* resources acquired whose close has not been started
    closing,       \* the resource _run_browser_cleanup works on
    closer,        \* its close task
    cut,           \* the cleanup was cancelled and will raise again
    raising,       \* the exception on its way
    deadline,      \* wait_for's timeout: where it found the run
    outcome,       \* how the tool call ended
    requestCount,  \* request_count of the policy
    validating,    \* route handlers that wait for the URL check
    passed,        \* requests that were let through
    violation,     \* violation of the policy
    refused        \* history: reasons for which requests were refused

policyVars == <<requestCount, validating, passed, violation, refused>>
cleanupVars == <<held, closing, closer, cut>>
vars == <<pc, pages, cleanupVars, raising, deadline, outcome, policyVars>>

TypeOK ==
    /\ pc \in Waits \cup {"closing", "draining", "ended"}
    /\ pages \in 0..NumUrls
    /\ held \subseteq Resources
    /\ closing \in Resources \cup {"none"}
    /\ closer \in {"none", "running", "cancelled"}
    /\ cut \in BOOLEAN
    /\ raising \in {"none", "error", "cancelled"}
    /\ deadline \in {"ahead", "delivered", "lost"}
    /\ outcome \in {"none", "records", "refused", "timeout", "failed"}
    /\ requestCount \in 0..MaxSeen
    /\ validating \in 0..MaxSeen
    /\ passed \in 0..MaxSeen
    /\ violation \in Violations \cup {"none"}
    /\ refused \subseteq Violations

Init ==
    /\ pc = "validate" /\ pages = 0
    /\ held = {} /\ closing = "none" /\ closer = "none" /\ cut = FALSE
    /\ raising = "none" /\ deadline = "ahead" /\ outcome = "none"
    /\ requestCount = 0 /\ validating = 0 /\ passed = 0
    /\ violation = "none" /\ refused = {}

-----------------------------------------------------------------------------
(* The request policy, beside the run *)

(* A page is there, or was; its requests stop when the run has ended. *)
Browsing == pages > 0 /\ outcome = "none"

(* _record_violation keeps the first. *)
RecordViolation(reason) ==
    /\ violation' = IF violation = "none" THEN reason ELSE violation
    /\ refused' = refused \cup {reason}

OverLimit == requestCount + 1 > MaxRequests

(* _handle_route up to the URL check, which leaves the event loop. *)
Route ==
    /\ Browsing /\ requestCount < MaxSeen
    /\ requestCount' = requestCount + 1
    /\ IF OverLimit
       THEN RecordViolation("limit") /\ UNCHANGED validating
       ELSE \/ RecordViolation("method") /\ UNCHANGED validating
            \/ RecordViolation("websocket") /\ UNCHANGED validating
            \/ validating' = validating + 1 /\ UNCHANGED <<violation, refused>>
    /\ UNCHANGED <<pc, pages, cleanupVars, raising, deadline, outcome, passed>>

(* validate_public_url: whether scheme, host and every resolved address of  *)
(* the URL are allowed; a lookup that takes too long counts as refused.     *)
UrlCheck == {"allowed", "refused"}

(* The rest of it, also when the run has meanwhile ended. *)
Validated ==
    /\ validating > 0
    /\ validating' = validating - 1
    /\ \E verdict \in UrlCheck :
        IF verdict = "allowed"
        THEN passed' = passed + 1 /\ UNCHANGED <<violation, refused>>
        ELSE RecordViolation("host") /\ UNCHANGED passed
    /\ UNCHANGED <<pc, pages, cleanupVars, raising, deadline, outcome, requestCount>>

(* _handle_websocket closes the socket and does not count it. *)
WebSocket ==
    /\ Browsing /\ "websocket" \notin refused
    /\ RecordViolation("websocket")
    /\ UNCHANGED <<pc, pages, cleanupVars, raising, deadline, outcome, requestCount,
                   validating, passed>>

-----------------------------------------------------------------------------
(* The run: acquiring and crawling *)

(* Mutant: the context is left to the browser. *)
InnermostButContext == IF "page" \in held THEN "page"
                       ELSE IF "browser" \in held THEN "browser" ELSE "manager"

(* What the finally blocks close first. *)
Innermost == IF "page" \in held THEN "page"
             ELSE IF "context" \in held THEN "context"
             ELSE IF "browser" \in held THEN "browser" ELSE "manager"

(* _run_browser_cleanup up to its wait: the close task is created. *)
BeginClose(r) ==
    /\ pc' = "closing" /\ closing' = r /\ closer' = "running" /\ cut' = FALSE
    /\ held' = held \ {r}

NotCleaning == UNCHANGED <<closing, closer, cut>>

(* Mutant: the timeout branch of the tool does not ask the policy. *)
OutcomeOfPartial(exception) ==
    IF exception = "cancelled" THEN "timeout"
    ELSE IF violation # "none" THEN "refused"
    ELSE IF exception = "error" THEN "failed" ELSE "records"

(* What BrowserExtractTool.run makes of the end of the run: the policy is  *)
(* asked on every path, and a violation overrides the rest.                *)
OutcomeOf(exception) ==
    IF violation # "none" THEN "refused"
    ELSE CASE exception = "none" -> "records"
           [] exception = "cancelled" -> "timeout"
           [] exception = "error" -> "failed"

End(exception) ==
    /\ pc' = "ended" /\ raising' = exception
    /\ outcome' = OutcomeOf(exception)

(* The await the run is at raises: before the driver is entered the call    *)
(* ends, afterwards the finally blocks begin.                               *)
Raise(exception) ==
    /\ pc \in Waits
    /\ IF pc = "validate"
       THEN End(exception) /\ UNCHANGED cleanupVars
       ELSE /\ BeginClose(Innermost)
            /\ raising' = exception
            /\ UNCHANGED outcome

Fail == Raise("error") /\ UNCHANGED <<pages, deadline, policyVars>>

(* A resource is there, and the run goes on to its next await. *)
Acquired(from, resource, to) ==
    /\ pc = from
    /\ held' = held \cup {resource}
    /\ pc' = to
    /\ NotCleaning /\ UNCHANGED <<raising, deadline, outcome, policyVars>>

(* All start URLs passed their check; the driver is stopped from here on,  *)
(* whatever happens to its start.                                          *)
UrlsValid == Acquired("validate", "manager", "enter") /\ UNCHANGED pages

Launch == Acquired("launch", "browser", "context") /\ UNCHANGED pages

NewContext == Acquired("context", "context", "install") /\ UNCHANGED pages

OpenPage == Acquired("new_page", "page", "crawl") /\ pages' = pages + 1

Go(from, to) ==
    /\ pc = from /\ pc' = to
    /\ NotCleaning /\ UNCHANGED <<pages, held, raising, deadline, outcome, policyVars>>

Enter == Go("enter", "launch")

PolicyInstalled == Go("install", "new_page")

(* _crawl_pages returned; the page is closed in a finally block. *)
Crawled ==
    /\ pc = "crawl"
    /\ BeginClose("page")
    /\ UNCHANGED <<pages, raising, deadline, outcome, policyVars>>

-----------------------------------------------------------------------------
(* The run: closing *)

(* Mutant: the URL after the last one is crawled as well. *)
AfterCloseOneMore(exception) ==
    /\ pc' = "new_page" /\ raising' = exception
    /\ closing' = "none" /\ closer' = "none" /\ cut' = FALSE
    /\ UNCHANGED <<held, outcome>>

(* What follows a cleanup, which raises or returns.  A cancelled close of   *)
(* the context leaves the inner finally block before the browser's turn.    *)
AfterClose(exception) ==
    IF closing = "manager" THEN
        /\ End(exception)
        /\ closing' = "none" /\ closer' = "none" /\ cut' = FALSE /\ UNCHANGED held
    ELSE IF closing = "page" /\ exception = "none" /\ pages < NumUrls THEN
        /\ pc' = "new_page" /\ raising' = exception
        /\ closing' = "none" /\ closer' = "none" /\ cut' = FALSE
        /\ UNCHANGED <<held, outcome>>
    ELSE
        /\ BeginClose(IF closing = "context" /\ cut THEN "manager" ELSE Innermost)
        /\ raising' = exception
        /\ UNCHANGED outcome

(* The close task ends in time; its own failure is only logged. *)
Closed ==
    /\ pc = "closing"
    /\ AfterClose(raising)
    /\ UNCHANGED <<pages, deadline, policyVars>>

(* Mutant: only the page's close is given up on. *)
CleanupTimeoutOfPage ==
    /\ pc = "closing" /\ closing = "page"
    /\ pc' = "draining" /\ closer' = "cancelled"
    /\ UNCHANGED <<pages, held, closing, cut, raising, deadline, outcome, policyVars>>

(* _cancel_and_drain after the cleanup timeout. *)
CleanupTimeout ==
    /\ pc = "closing"
    /\ pc' = "draining" /\ closer' = "cancelled"
    /\ UNCHANGED <<pages, held, closing, cut, raising, deadline, outcome, policyVars>>

(* Mutant: a cancelled cleanup drains and returns. *)
DrainedQuietly ==
    /\ pc = "draining"
    /\ AfterClose(raising)
    /\ UNCHANGED <<pages, deadline, policyVars>>

(* The cancelled close task has ended: the cleanup returns, or raises the  *)
(* cancellation that cut it short.                                         *)
Drained ==
    /\ pc = "draining"
    /\ AfterClose(IF cut THEN "cancelled" ELSE raising)
    /\ UNCHANGED <<pages, deadline, policyVars>>

-----------------------------------------------------------------------------
(* The deadline *)

(* wait_for cancels the task once.  The await it is at raises; in a cleanup *)
(* that still waits, the close task is cancelled and drained first; a drain *)
(* under way swallows the cancellation ("except BaseException: pass").      *)
Deadline ==
    /\ deadline = "ahead" /\ outcome = "none"
    /\ \/ /\ Raise("cancelled")
          /\ deadline' = "delivered"
       \/ /\ pc = "closing"
          /\ pc' = "draining" /\ closer' = "cancelled" /\ cut' = TRUE
          /\ deadline' = "delivered"
          /\ UNCHANGED <<held, closing, raising, outcome>>
       \/ /\ pc = "draining"
          /\ deadline' = "lost"
          /\ UNCHANGED <<pc, cleanupVars, raising, outcome>>
    /\ UNCHANGED <<pages, policyVars>>

(* What the run does by itself. *)
Work ==
    \/ UrlsValid \/ Enter \/ Launch \/ NewContext \/ PolicyInstalled \/ OpenPage \/ Crawled \/ Fail

Next ==
    \/ Work \/ Closed \/ CleanupTimeout \/ Drained
    \/ Deadline
    \/ Route \/ Validated \/ WebSocket

Spec == Init /\ [][Next]_vars

(* The timers of the event loop go off: wait_for's, unless the call has     *)
(* ended before, and the one of a cleanup; and a close task that was        *)
(* cancelled ends ("browser close coroutines are cancellation-aware").  No  *)
(* await of the crawl and no close is assumed to end by itself: hardly any  *)
(* of them has a timeout of its own.                                        *)
Fairness == WF_vars(Deadline) /\ WF_vars(CleanupTimeout) /\ WF_vars(Drained)

FairSpec == Spec /\ Fairness
-----------------------------------------------------------------------------
(* Properties *)

(* Whichever await an error or the deadline hits, the call ends with no     *)
(* close task alive and a close attempted of everything acquired; only the  *)
(* browser's own is left to the stop of the driver, when the deadline cut   *)
(* the close of its context short.                                          *)
NothingKeepsRunning ==
    /\ closer # "none" <=> pc \in {"closing", "draining"}
    /\ outcome # "none" =>
        /\ held \subseteq {"browser"}
        /\ held # {} => deadline = "delivered"

(* "limits the number of requests": however many are being checked at the   *)
(* same time, no more than max_requests are let through.  "without partial  *)
(* artifacts": a request that was refused while the call was running        *)
(* decides its outcome, whether the crawl went on to succeed, fail or time  *)
(* out; and nothing else is reported as a refusal.                          *)
PolicyIsEnforced ==
    [][/\ passed' + validating' <= MaxRequests
       /\ outcome = "none" /\ outcome' # "none" => (outcome' = "refused" <=> refused # {})]_vars

(* The deadline stops the crawl: no page is opened and no result is kept    *)
(* after it, unless it fell into the drain of a close that had overrun its  *)
(* own timeout, where the code loses it.                                    *)
DeadlineStopsTheCrawl ==
    [][deadline = "delivered" => pages' = pages /\ outcome' # "records"]_vars

(* The call comes to an end although any await of the crawl and any close   *)
(* may hang for ever.  The one exception is a deadline that fell into the   *)
(* drain of an overrun close, which the code swallows: then nothing bounds  *)
(* the call any more, and it ends if the awaits that are left do.           *)
RunEnds ==
    /\ <>(outcome # "none" \/ deadline = "lost")
    /\ WF_vars(Work) => <>(outcome # "none")
=============================================================================
