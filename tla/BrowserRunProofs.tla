-------------------------- MODULE BrowserRunProofs --------------------------
(***************************************************************************)
(* What one browser.extract call promises, for every number of start URLs  *)
(* and requests: it lets go of what it acquired, the request policy has    *)
(* the last word on its outcome, and its deadline stops the crawl.         *)
(***************************************************************************)
EXTENDS BrowserRun, TLAPS

(* What the run holds at each await, before its finally blocks begin. *)
HeldAt == [validate |-> {}, enter |-> {"manager"}, launch |-> {"manager"},
           context |-> {"manager", "browser"},
           install |-> {"manager", "browser", "context"},
           new_page |-> {"manager", "browser", "context"},
           crawl |-> {"manager", "browser", "context", "page"}]

(* Resources are acquired outermost first and closed innermost first: what *)
(* is still held tells where the run is.  Only the browser's close can be  *)
(* left out, by the deadline that cuts the close of its context short.     *)
Nesting ==
    /\ pc \in Waits => held = HeldAt[pc]
    /\ closing = "page" => held = {"manager", "browser", "context"}
    /\ closing = "context" => held = {"manager", "browser"}
    /\ closing = "browser" => held = {"manager"}
    /\ pc = "ended" \/ closing = "manager" =>
        held = {} \/ (held = {"browser"} /\ deadline = "delivered")

(* A cleanup is under way exactly while its close task lives; only the     *)
(* deadline cuts one short.                                                *)
Cleaning ==
    /\ pc \in {"closing", "draining"} <=> closing # "none"
    /\ pc \in {"closing", "draining"} <=> closer # "none"
    /\ cut => deadline = "delivered" /\ pc = "draining"
    /\ outcome # "none" <=> pc = "ended"

(* A URL is left when a page is about to be opened, and nothing is raised  *)
(* while the crawl goes on.                                                *)
UrlsLeft ==
    /\ pc \in {"validate", "enter", "launch", "context", "install"} => pages = 0
    /\ pc = "new_page" => pages < NumUrls
    /\ pc \in Waits => raising = "none"

(* Every request that is being checked or was let through has been counted, *)
(* and none of them came after the limit; a refusal leaves its mark.        *)
PolicyCounts ==
    /\ passed + validating <= requestCount
    /\ passed + validating <= MaxRequests
    /\ violation = "none" <=> refused = {}

(* Once the deadline has hit, the cancellation is on its way or will be     *)
(* raised by the cleanup it cut short, or the call has ended without        *)
(* records.                                                                 *)
DeadlineHolds ==
    deadline = "delivered" =>
        \/ pc = "closing" /\ raising = "cancelled"
        \/ pc = "draining" /\ (raising = "cancelled" \/ cut)
        \/ pc = "ended" /\ outcome # "records"

RunInv == TypeOK /\ Nesting /\ Cleaning /\ UrlsLeft /\ PolicyCounts /\ DeadlineHolds

LEMMA RunInitial == Init => RunInv
<1> SUFFICES ASSUME Init PROVE RunInv
  OBVIOUS
<1>1. 0 \in 0..NumUrls /\ 0 \in 0..MaxSeen /\ 0 + 0 <= 0 /\ 0 + 0 <= MaxRequests
  BY RunAssumption
<1>2. TypeOK /\ PolicyCounts
  BY <1>1 DEF Init, TypeOK, PolicyCounts, Waits
<1>3. Nesting /\ Cleaning /\ UrlsLeft /\ DeadlineHolds
  BY DEF Init, Nesting, Cleaning, UrlsLeft, DeadlineHolds, Waits, HeldAt
<1> QED BY <1>2, <1>3 DEF RunInv

(* What is closed first is the innermost resource at hand. *)
LEMMA InnermostAt ==
    ASSUME RunInv, pc \in Waits \ {"validate"}
    PROVE  /\ Innermost \in Resources
           /\ Innermost = "page" => held \ {Innermost} = {"manager", "browser", "context"}
           /\ Innermost = "context" => held \ {Innermost} = {"manager", "browser"}
           /\ Innermost = "browser" => held \ {Innermost} = {"manager"}
           /\ Innermost = "manager" => held \ {Innermost} = {}
<1>1. held = HeldAt[pc]
  BY DEF RunInv, Nesting
<1> QED BY <1>1 DEF Waits, HeldAt, Innermost, Resources

(* An exception at an await of the run is followed by the first close, or  *)
(* ends a call that has not acquired anything.                             *)
LEMMA RaiseStep ==
    ASSUME RunInv, NEW exception \in {"error", "cancelled"}, Raise(exception), outcome = "none",
           \/ deadline' = deadline
           \/ deadline = "ahead" /\ deadline' = "delivered" /\ exception = "cancelled",
           UNCHANGED <<pages, policyVars>>
    PROVE  RunInv'
<1> USE DEF RunInv
<1>0. pc \in Waits
  BY DEF Raise
<1>1. deadline # "delivered" /\ raising = "none"
  BY <1>0 DEF DeadlineHolds, UrlsLeft, Waits
<1>2. CASE pc = "validate"
  <2>1. /\ pc' = "ended" /\ raising' = exception /\ outcome' = OutcomeOf(exception)
        /\ UNCHANGED cleanupVars
    BY <1>2 DEF Raise, End
  <2>2. outcome' \in {"refused", "timeout", "failed"}
    BY <2>1 DEF OutcomeOf
  <2> QED
    BY <1>0, <1>1, <1>2, <2>1, <2>2
    DEF TypeOK, Nesting, Cleaning, UrlsLeft, PolicyCounts, DeadlineHolds, Waits, HeldAt,
        cleanupVars, policyVars
<1>3. CASE pc # "validate"
  <2>1. BeginClose(Innermost) /\ raising' = exception /\ outcome' = outcome
    BY <1>3 DEF Raise
  <2>2. TypeOK'
    BY <1>0, <1>3, <2>1, InnermostAt DEF TypeOK, BeginClose, policyVars
  <2>3. Nesting'
    BY <1>0, <1>3, <2>1, InnermostAt DEF Nesting, BeginClose, Waits, Resources
  <2>4. Cleaning' /\ UrlsLeft' /\ DeadlineHolds'
    BY <1>0, <1>1, <1>3, <2>1, InnermostAt
    DEF Cleaning, UrlsLeft, DeadlineHolds, BeginClose, Waits, Resources
  <2> QED BY <2>2, <2>3, <2>4 DEF PolicyCounts, policyVars
<1> QED BY <1>2, <1>3

(* What the run does by itself as long as nothing is raised. *)
LEMMA WorkStep == RunInv /\ Work => RunInv'
<1> SUFFICES ASSUME RunInv, Work PROVE RunInv'
  OBVIOUS
<1> USE DEF RunInv
<1>0. pc \in Waits /\ outcome = "none" /\ raising = "none" /\ deadline # "delivered"
      /\ held = HeldAt[pc] /\ closing = "none" /\ closer = "none"
  <2>1. pc \in Waits
    BY DEF Work, UrlsValid, Enter, Launch, NewContext, PolicyInstalled, OpenPage, Crawled, Fail,
           Acquired, Go, Raise, Waits
  <2> QED BY <2>1 DEF Cleaning, UrlsLeft, DeadlineHolds, Nesting, Waits
<1>1. ASSUME NEW from \in Waits, NEW resource \in Resources, NEW to \in Waits,
             Acquired(from, resource, to), HeldAt[to] = HeldAt[from] \cup {resource},
             pages' \in 0..NumUrls,
             to \in {"enter", "launch", "context", "install"} => pages' = 0,
             to \notin {"validate", "new_page"}
      PROVE  RunInv'
  <2> USE <1>0, <1>1 DEF Acquired, NotCleaning, policyVars
  <2>1. TypeOK'
    BY DEF TypeOK
  <2>2. Nesting' /\ Cleaning'
    BY DEF Nesting, Cleaning, Waits
  <2>3. UrlsLeft'
    BY DEF UrlsLeft
  <2>4. PolicyCounts' /\ DeadlineHolds'
    BY DEF PolicyCounts, DeadlineHolds
  <2> QED BY <2>1, <2>2, <2>3, <2>4
<1>2. ASSUME NEW from \in Waits, NEW to \in Waits, Go(from, to), HeldAt[to] = HeldAt[from],
             to = "new_page" => pages < NumUrls, to \in {"launch", "new_page"},
             to = "launch" => pages = 0
      PROVE  RunInv'
  <2> USE <1>0, <1>2 DEF Go, NotCleaning, policyVars
  <2>1. TypeOK'
    BY DEF TypeOK
  <2>2. Nesting' /\ Cleaning'
    BY DEF Nesting, Cleaning, Waits
  <2>3. UrlsLeft' /\ PolicyCounts' /\ DeadlineHolds'
    BY DEF UrlsLeft, PolicyCounts, DeadlineHolds, Waits
  <2> QED BY <2>1, <2>2, <2>3
<1>3. CASE UrlsValid
  BY <1>1, <1>3, RunAssumption
  DEF UrlsValid, Acquired, UrlsLeft, TypeOK, HeldAt, Waits, Resources
<1>4. CASE Launch
  BY <1>1, <1>4, RunAssumption
  DEF Launch, Acquired, UrlsLeft, TypeOK, HeldAt, Waits, Resources
<1>5. CASE NewContext
  BY <1>1, <1>5, RunAssumption
  DEF NewContext, Acquired, UrlsLeft, TypeOK, HeldAt, Waits, Resources
<1>6. CASE OpenPage
  <2>1. pages' \in 0..NumUrls
    BY <1>6, RunAssumption DEF OpenPage, Acquired, UrlsLeft, TypeOK
  <2> QED BY <1>1, <1>6, <2>1 DEF OpenPage, HeldAt, Waits, Resources
<1>7. CASE Enter
  BY <1>2, <1>7 DEF Enter, Go, UrlsLeft, HeldAt, Waits
<1>8. CASE PolicyInstalled
  BY <1>2, <1>8, RunAssumption DEF PolicyInstalled, Go, UrlsLeft, HeldAt, Waits
<1>9. CASE Crawled
  <2> USE <1>0, <1>9 DEF Crawled, BeginClose, policyVars
  <2>1. held = {"manager", "browser", "context", "page"}
    BY DEF HeldAt
  <2>2. TypeOK'
    BY DEF TypeOK, Resources
  <2>3. Nesting' /\ Cleaning'
    BY <2>1 DEF Nesting, Cleaning, Waits
  <2>4. UrlsLeft' /\ PolicyCounts' /\ DeadlineHolds'
    BY DEF UrlsLeft, PolicyCounts, DeadlineHolds, Waits
  <2> QED BY <2>2, <2>3, <2>4
<1>10. CASE Fail
  BY <1>0, <1>10, RaiseStep DEF Fail
<1> QED BY <1>3, <1>4, <1>5, <1>6, <1>7, <1>8, <1>9, <1>10 DEF Work

(* What follows a close: the next one, the next URL, or the end. *)
LEMMA AfterCloseStep ==
    ASSUME RunInv, pc \in {"closing", "draining"},
           NEW exception \in {"none", "error", "cancelled"}, AfterClose(exception),
           deadline = "delivered" => exception = "cancelled",
           UNCHANGED <<pages, deadline, policyVars>>
    PROVE  RunInv'
<1> USE DEF RunInv
<1>0. outcome = "none" /\ closing \in Resources
  BY DEF Cleaning, TypeOK
<1>1. CASE closing = "manager"
  <2>1. /\ pc' = "ended" /\ raising' = exception /\ outcome' = OutcomeOf(exception)
        /\ closing' = "none" /\ closer' = "none" /\ cut' = FALSE /\ held' = held
    BY <1>1 DEF AfterClose, End
  <2>2. /\ outcome' \in {"refused", "timeout", "failed", "records"}
        /\ exception = "cancelled" => outcome' # "records"
    BY <2>1 DEF OutcomeOf
  <2>3. TypeOK'
    BY <2>1, <2>2 DEF TypeOK, policyVars
  <2>4. Nesting' /\ Cleaning'
    BY <1>1, <2>1, <2>2 DEF Nesting, Cleaning, Waits
  <2>5. UrlsLeft' /\ PolicyCounts' /\ DeadlineHolds'
    BY <2>1, <2>2 DEF UrlsLeft, PolicyCounts, DeadlineHolds, Waits, policyVars
  <2> QED BY <2>3, <2>4, <2>5
<1>2. CASE closing = "page" /\ exception = "none" /\ pages < NumUrls
  <2>1. /\ pc' = "new_page" /\ raising' = exception
        /\ closing' = "none" /\ closer' = "none" /\ cut' = FALSE
        /\ UNCHANGED <<held, outcome>>
    BY <1>2 DEF AfterClose
  <2>3. TypeOK'
    BY <1>2, <2>1 DEF TypeOK, policyVars, Waits
  <2>4. Nesting' /\ Cleaning'
    BY <1>0, <1>2, <2>1 DEF Nesting, Cleaning, Waits, HeldAt
  <2>5. UrlsLeft' /\ PolicyCounts' /\ DeadlineHolds'
    BY <1>2, <2>1 DEF UrlsLeft, PolicyCounts, DeadlineHolds, Waits, policyVars
  <2> QED BY <2>3, <2>4, <2>5
<1>3. CASE closing # "manager" /\ ~(closing = "page" /\ exception = "none" /\ pages < NumUrls)
  <2> DEFINE r == IF closing = "context" /\ cut THEN "manager" ELSE Innermost
  <2>1. BeginClose(r) /\ raising' = exception /\ outcome' = outcome
    BY <1>3 DEF AfterClose
  <2>2. /\ r \in {"context", "browser", "manager"}
        /\ r = "context" => held \ {r} = {"manager", "browser"}
        /\ r = "browser" => held \ {r} = {"manager"}
        /\ r = "manager" => \/ held \ {r} = {}
                            \/ held \ {r} = {"browser"} /\ deadline = "delivered"
    BY <1>0, <1>3 DEF Nesting, Cleaning, Innermost, Resources
  <2> HIDE DEF r
  <2>3. TypeOK'
    BY <2>1, <2>2 DEF TypeOK, BeginClose, policyVars, Resources
  <2>4. Nesting'
    BY <2>1, <2>2 DEF Nesting, BeginClose, Waits
  <2>5. Cleaning' /\ UrlsLeft' /\ PolicyCounts' /\ DeadlineHolds'
    BY <1>0, <2>1, <2>2
    DEF Cleaning, UrlsLeft, PolicyCounts, DeadlineHolds, BeginClose, Waits, policyVars
  <2> QED BY <2>3, <2>4, <2>5
<1> QED BY <1>1, <1>2, <1>3

LEMMA ClosingStep == RunInv /\ (Closed \/ CleanupTimeout \/ Drained) => RunInv'
<1> SUFFICES ASSUME RunInv, Closed \/ CleanupTimeout \/ Drained PROVE RunInv'
  OBVIOUS
<1>1. CASE Closed
  BY <1>1, AfterCloseStep DEF Closed, RunInv, TypeOK, DeadlineHolds
<1>2. CASE Drained
  <2>1. ASSUME NEW exception, exception = IF cut THEN "cancelled" ELSE raising,
               AfterClose(exception)
        PROVE  RunInv'
    BY <1>2, <2>1, AfterCloseStep DEF Drained, RunInv, TypeOK, DeadlineHolds
  <2> QED BY <1>2, <2>1 DEF Drained
<1>3. CASE CleanupTimeout
  <2> USE <1>3 DEF CleanupTimeout, RunInv, policyVars
  <2>1. TypeOK' /\ Nesting'
    BY DEF TypeOK, Nesting, Waits
  <2>2. Cleaning' /\ UrlsLeft' /\ PolicyCounts' /\ DeadlineHolds'
    BY DEF Cleaning, UrlsLeft, PolicyCounts, DeadlineHolds, Waits
  <2> QED BY <2>1, <2>2
<1> QED BY <1>1, <1>2, <1>3

LEMMA DeadlineStep == RunInv /\ Deadline => RunInv'
<1> SUFFICES ASSUME RunInv, Deadline PROVE RunInv'
  OBVIOUS
<1>1. deadline = "ahead" /\ outcome = "none" /\ UNCHANGED <<pages, policyVars>>
  BY DEF Deadline
<1>2. CASE Raise("cancelled") /\ deadline' = "delivered"
  BY <1>1, <1>2, RaiseStep
<1>3. CASE /\ pc = "closing" /\ pc' = "draining" /\ closer' = "cancelled" /\ cut' = TRUE
           /\ deadline' = "delivered" /\ UNCHANGED <<held, closing, raising, outcome>>
  <2> USE <1>1, <1>3 DEF RunInv, policyVars
  <2>1. TypeOK' /\ Nesting'
    BY DEF TypeOK, Nesting, Waits
  <2>2. Cleaning' /\ UrlsLeft' /\ PolicyCounts' /\ DeadlineHolds'
    BY DEF Cleaning, UrlsLeft, PolicyCounts, DeadlineHolds, Waits
  <2> QED BY <2>1, <2>2
<1>4. CASE pc = "draining" /\ deadline' = "lost" /\ UNCHANGED <<pc, cleanupVars, raising, outcome>>
  <2> USE <1>1, <1>4 DEF RunInv, policyVars, cleanupVars
  <2>1. TypeOK' /\ Nesting'
    BY DEF TypeOK, Nesting, Waits
  <2>2. Cleaning' /\ UrlsLeft' /\ PolicyCounts' /\ DeadlineHolds'
    BY DEF Cleaning, UrlsLeft, PolicyCounts, DeadlineHolds, Waits
  <2> QED BY <2>1, <2>2
<1> QED BY <1>2, <1>3, <1>4 DEF Deadline

(* The route handlers touch the policy only. *)
LEMMA PolicyStep == RunInv /\ (Route \/ Validated \/ WebSocket) => RunInv'
<1> SUFFICES ASSUME RunInv, Route \/ Validated \/ WebSocket PROVE RunInv'
  OBVIOUS
<1> USE DEF RunInv
<1>1. UNCHANGED <<pc, pages, cleanupVars, raising, deadline, outcome>>
  BY DEF Route, Validated, WebSocket
<1>2. Nesting' /\ Cleaning' /\ UrlsLeft' /\ DeadlineHolds'
  BY <1>1 DEF Nesting, Cleaning, UrlsLeft, DeadlineHolds, cleanupVars
<1>3. CASE Route
  <2>1. /\ requestCount' = requestCount + 1 /\ requestCount' \in 0..MaxSeen /\ passed' = passed
        /\ \/ validating' = validating
           \/ validating' = validating + 1 /\ requestCount' <= MaxRequests
    BY <1>3, RunAssumption DEF Route, TypeOK, OverLimit
  <2>2. /\ validating' \in 0..MaxSeen /\ passed' \in 0..MaxSeen
        /\ passed' + validating' <= requestCount'
        /\ passed' + validating' <= MaxRequests
    BY <2>1, RunAssumption DEF TypeOK, PolicyCounts
  <2>3. /\ violation' \in Violations \cup {"none"} /\ refused' \subseteq Violations
        /\ violation' = "none" <=> refused' = {}
    BY <1>3 DEF Route, RecordViolation, Violations, TypeOK, PolicyCounts
  <2> QED BY <1>1, <1>2, <2>1, <2>2, <2>3, ZenonT(40) DEF TypeOK, PolicyCounts, cleanupVars
<1>4. CASE Validated
  <2>1. /\ requestCount' = requestCount /\ validating' = validating - 1 /\ validating > 0
        /\ passed' = passed \/ passed' = passed + 1
    BY <1>4 DEF Validated, UrlCheck
  <2>2. /\ validating' \in 0..MaxSeen /\ passed' \in 0..MaxSeen
        /\ passed' + validating' <= requestCount'
        /\ passed' + validating' <= MaxRequests
    BY <2>1, RunAssumption DEF TypeOK, PolicyCounts
  <2>3. /\ violation' \in Violations \cup {"none"} /\ refused' \subseteq Violations
        /\ violation' = "none" <=> refused' = {}
    BY <1>4 DEF Validated, UrlCheck, RecordViolation, Violations, TypeOK, PolicyCounts
  <2> QED BY <1>1, <1>2, <2>1, <2>2, <2>3, ZenonT(40) DEF TypeOK, PolicyCounts, cleanupVars
<1>5. CASE WebSocket
  BY <1>1, <1>2, <1>5, RunAssumption
  DEF WebSocket, TypeOK, PolicyCounts, RecordViolation, Violations, cleanupVars
<1> QED BY <1>3, <1>4, <1>5

LEMMA RunStep == RunInv /\ [Next]_vars => RunInv'
<1> SUFFICES ASSUME RunInv, [Next]_vars PROVE RunInv'
  OBVIOUS
<1>1. CASE UNCHANGED vars
  BY <1>1
  DEF RunInv, TypeOK, Nesting, Cleaning, UrlsLeft, PolicyCounts, DeadlineHolds, vars,
      cleanupVars, policyVars
<1> QED BY <1>1, WorkStep, ClosingStep, DeadlineStep, PolicyStep DEF Next

(* At every await of a call, the errors and the deadline included, the run  *)
(* holds what its place in the nested finally blocks says.                  *)
THEOREM RunCorrect == Spec => []RunInv
  BY RunInitial, RunStep, PTL DEF Spec

(* Every variable of a tool call keeps its type. *)
THEOREM RunTyped == Spec => []TypeOK
  BY RunCorrect, PTL DEF RunInv

(* Whichever await an error or the deadline hits, a call that has ended     *)
(* left no close task alive and attempted the close of all it acquired.     *)
THEOREM NothingIsLeftRunning == Spec => []NothingKeepsRunning
<1>1. RunInv => NothingKeepsRunning
  BY DEF RunInv, Cleaning, Nesting, NothingKeepsRunning
<1> QED BY <1>1, RunCorrect, PTL

(* No more than max_requests are let through, and a refusal made while the *)
(* call was running decides how it ends.                                   *)
THEOREM PolicyHolds == Spec => PolicyIsEnforced
<1> DEFINE Step ==
      /\ passed' + validating' <= MaxRequests
      /\ outcome = "none" /\ outcome' # "none" => (outcome' = "refused" <=> refused # {})
<1>1. ASSUME RunInv, RunInv', [Next]_vars PROVE Step
  <2>1. passed' + validating' <= MaxRequests
    BY <1>1 DEF RunInv, PolicyCounts
  <2>2. ASSUME outcome = "none", outcome' # "none" PROVE outcome' = "refused" <=> violation # "none"
    <3>1. \E exception \in {"none", "error", "cancelled"} : End(exception)
      BY <1>1, <2>2
      DEF Next, Work, UrlsValid, Enter, Launch, NewContext, PolicyInstalled, OpenPage, Crawled,
          Fail, Closed, CleanupTimeout, Drained, Deadline, Route, Validated, WebSocket, Acquired,
          Go, Raise, AfterClose, RunInv, TypeOK, vars, BeginClose
    <3> QED BY <3>1 DEF End, OutcomeOf
  <2> QED BY <1>1, <2>1, <2>2 DEF RunInv, PolicyCounts
<1> QED BY <1>1, RunCorrect, PTL DEF Spec, PolicyIsEnforced

(* After the deadline no page is opened and no records are returned. *)
THEOREM DeadlineHolding == Spec => DeadlineStopsTheCrawl
<1>1. ASSUME RunInv, RunInv', [Next]_vars, deadline = "delivered"
      PROVE  pages' = pages /\ outcome' # "records"
  <2>1. pages' = pages
    BY <1>1
    DEF Next, Work, UrlsValid, Enter, Launch, NewContext, PolicyInstalled, OpenPage, Crawled,
        Fail, Closed, CleanupTimeout, Drained, Deadline, Route, Validated, WebSocket, Acquired,
        Go, RunInv, DeadlineHolds, vars
  <2>2. deadline' = "delivered"
    BY <1>1
    DEF Next, Work, UrlsValid, Enter, Launch, NewContext, PolicyInstalled, OpenPage, Crawled,
        Fail, Closed, CleanupTimeout, Drained, Deadline, Route, Validated, WebSocket, Acquired,
        Go, vars
  <2> QED BY <1>1, <2>1, <2>2 DEF RunInv, DeadlineHolds, Cleaning
<1> QED BY <1>1, RunCorrect, PTL DEF Spec, DeadlineStopsTheCrawl
=============================================================================
