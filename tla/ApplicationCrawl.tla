-------------------------- MODULE ApplicationCrawl --------------------------
(***************************************************************************)
(* The crawl jobs of Test-Case-Generation's automation service.  A job     *)
(* overrides the process-wide crawl limits, explores one application       *)
(* breadth first, publishes a report under the address it was given and    *)
(* generates scripts from it.  Jobs are tasks of one event loop: a step is *)
(* the code between two suspensions.                                       *)
(***************************************************************************)
EXTENDS Naturals, FiniteSets, Sequences, Functions

CONSTANTS Jobs,        \* the crawl jobs
          Pages,       \* canonical addresses of the application
          Elsewhere,   \* those that lead to another origin
          Lands,       \* [Pages -> Pages]: the address a request ends at
          Links,       \* [Pages -> SUBSET Pages]: the links that may be followed
          Controls,    \* [Pages -> SUBSET Pages]: pages its buttons open
          Suggested,   \* addresses Seacrawl may propose
          Requests,    \* what each job may be asked: [root, scope, page, depth]
          Configured   \* the configured limits: [page, depth]

ASSUME PagesAssumption ==
    /\ IsFiniteSet(Pages)
    /\ Elsewhere \subseteq Pages
    /\ Suggested \subseteq Pages
    /\ Lands \in [Pages -> Pages]
    /\ Links \in [Pages -> SUBSET Pages]
    /\ Controls \in [Pages -> SUBSET Pages]

Limits == [page : Nat, depth : Nat]

ASSUME RequestsAssumption ==
    /\ Configured \in Limits
    /\ Requests \in [Jobs -> SUBSET [root : Pages, scope : {"full", "specific"},
                                     page : Nat, depth : Nat]]

NoJob == "none"
ASSUME NoJobAssumption == NoJob \notin Jobs

VARIABLES
    settings,   \* the crawl limits in force, shared by the whole process
    shown,      \* _crawl_reports: the job whose report each address shows
    found,      \* the discovery cache: [key, inventory, visited]
    pc, status, \* where the task of a job stands; the status it displays
    stop,       \* its cancel event
    ask,        \* its request
    saved,      \* original_limits: the limits it will put back
    report,     \* its report
    gap,        \* failure_reason, unprocessed states or blocking skips: the
                \* crawl gave something up
    pending, visited, queued, \* the frontier of its crawl
    here,       \* the entry it works on
    allowed,    \* pages its inventory may reach once it was told to stop
    out         \* what it published: whose report, and as what

crawl == <<report, gap, pending, visited, queued, here>>
vars == <<settings, shown, found, pc, status, stop, ask, saved, crawl, allowed, out>>

Entry == [url : Pages, depth : Nat]
Entries(urls, depth) == {[url |-> p, depth |-> depth] : p \in urls}
Listings(S) == {s \in [1..Cardinality(S) -> S] : Range(s) = S}   \* S in any order
NoRequest == [root |-> NoJob]
FreshReport == [status |-> "crawl_started", inventory |-> <<>>]
NothingOut == [who |-> NoJob, status |-> "none", pages |-> {}]

Init ==
    /\ settings = Configured
    /\ shown = [p \in Pages |-> NoJob]
    /\ found = {}
    /\ pc = [j \in Jobs |-> "idle"]
    /\ status = [j \in Jobs |-> "none"]
    /\ stop = [j \in Jobs |-> FALSE]
    /\ ask = [j \in Jobs |-> NoRequest]
    /\ saved = [j \in Jobs |-> Configured]
    /\ report = [j \in Jobs |-> FreshReport]
    /\ gap = [j \in Jobs |-> FALSE]
    /\ pending = [j \in Jobs |-> <<>>]
    /\ visited = [j \in Jobs |-> {}]
    /\ queued = [j \in Jobs |-> {}]
    /\ here = [j \in Jobs |-> <<>>]
    /\ allowed = [j \in Jobs |-> 0]
    /\ out = [j \in Jobs |-> NothingOut]

At(j, place) == pc[j] = place
Goto(j, place) == pc' = [pc EXCEPT ![j] = place]
Report(j, r) == report' = [report EXCEPT ![j] = r]
GiveUp(j) == gap' = [gap EXCEPT ![j] = TRUE]
Scanned(r) == Range(r.inventory)
LimitsOf(r) == [page |-> r.page, depth |-> r.depth]
-----------------------------------------------------------------------------
(* start_crawl_job, start_workflow_crawl_job: the job is stored and its    *)
(* task created.                                                           *)
StartJob(j, r) ==
    /\ At(j, "idle")
    /\ Goto(j, "created")
    /\ status' = [status EXCEPT ![j] = "queued"]
    /\ ask' = [ask EXCEPT ![j] = r]
    /\ UNCHANGED <<settings, shown, found, stop, saved, crawl, allowed, out>>

(* The task starts.  It shows "running" even if a stop came first.         *)
RunJob(j) ==
    /\ At(j, "created")
    /\ Goto(j, "validate")
    /\ status' = [status EXCEPT ![j] = "running"]
    /\ UNCHANGED <<settings, shown, found, stop, ask, saved, crawl, allowed, out>>

(* stop_crawl_job, stop_workflow_crawl_job.                                *)
StopJob(j) ==
    /\ status[j] \in {"queued", "running"}
    /\ stop' = [stop EXCEPT ![j] = TRUE]
    /\ status' = [status EXCEPT ![j] = "stopping"]
    /\ allowed' = [allowed EXCEPT ![j] = IF stop[j] THEN @
                   ELSE Len(report[j].inventory) + (IF At(j, "scan") THEN 1 ELSE 0)]
    /\ UNCHANGED <<settings, shown, found, pc, ask, saved, crawl, out>>

(* _validate_url refuses the address, or the workflow is not completed.    *)
RefuseUrl(j) ==
    /\ At(j, "validate")
    /\ Goto(j, "ended")
    /\ status' = [status EXCEPT ![j] = "failed"]
    /\ UNCHANGED <<settings, shown, found, stop, ask, saved, crawl, allowed, out>>

(* The limits of the request replace the limits in force, which the job    *)
(* remembers as the original ones.                                         *)
OverrideLimits(j) ==
    /\ At(j, "validate")
    /\ Goto(j, "lookup")
    /\ saved' = [saved EXCEPT ![j] = settings]
    /\ settings' = LimitsOf(ask[j])
    /\ UNCHANGED <<shown, found, status, stop, ask, crawl, allowed, out>>

(* The finally block: the remembered limits are put back.                  *)
RestoreLimits(j) == settings' = saved[j]
-----------------------------------------------------------------------------
(* What the job makes of the report its address shows: a complete one, or  *)
(* the pages a partial one has captured so far.  The frontier is a local   *)
(* variable of the crawl and ends with it.                                 *)
Publish(j, r, who) ==
    /\ out' = [out EXCEPT ![j] = [who |-> who, status |-> r.status,
                                  pages |-> Scanned(r)]]
    /\ gap' = [gap EXCEPT ![j] = FALSE]
    /\ pending' = [pending EXCEPT ![j] = <<>>]
    /\ queued' = [queued EXCEPT ![j] = {}]
    /\ here' = [here EXCEPT ![j] = <<>>]

(* The discovery cache holds a completed crawl of this request.            *)
CacheHit(j) ==
    /\ At(j, "lookup")
    /\ \E entry \in {e \in found : e.key = ask[j]} :
        LET r == [status |-> "crawl_completed", inventory |-> entry.inventory]
        IN  /\ Report(j, r)
            /\ Publish(j, r, j)
            /\ visited' = [visited EXCEPT ![j] = entry.visited]
            /\ allowed' = [allowed EXCEPT ![j] = Len(entry.inventory)]
    /\ shown' = [shown EXCEPT ![ask[j].root] = j]
    /\ RestoreLimits(j)
    /\ Goto(j, "generate")
    /\ UNCHANGED <<found, status, stop, ask, saved>>

(* No entry, or the cache does not answer: a live report is stored before  *)
(* the browser is launched.                                                *)
CacheMiss(j) ==
    /\ At(j, "lookup")
    /\ Goto(j, "launch")
    /\ Report(j, FreshReport)
    /\ shown' = [shown EXCEPT ![ask[j].root] = j]
    /\ UNCHANGED <<settings, found, status, stop, ask, saved, gap, pending, visited,
                   queued, here, allowed, out>>

(* The browser is up, the session is authenticated, the queue holds the    *)
(* start address and the candidates of Seacrawl.                           *)
Launch(j) ==
    /\ At(j, "launch")
    /\ Goto(j, "loop")
    /\ Report(j, [report[j] EXCEPT !.status = "crawl_in_progress"])
    /\ \E seeds \in SUBSET (IF ask[j].scope = "full" THEN Suggested ELSE {}) :
        \E rest \in Listings(Entries(seeds, 1)) :
            /\ pending' = [pending EXCEPT ![j] = <<[url |-> ask[j].root, depth |-> 0]>> \o rest]
            /\ queued' = [queued EXCEPT ![j] = seeds \cup {ask[j].root}]
    /\ UNCHANGED <<settings, shown, found, status, stop, ask, saved, gap, visited,
                   here, allowed, out>>

(* Authentication is refused: the crawl returns before its queue is built, *)
(* and the job looks up the report its address shows.                      *)
RefuseSession(j) ==
    /\ At(j, "launch")
    /\ Report(j, [report[j] EXCEPT !.status = "crawl_blocked"])
    /\ Goto(j, "collect")
    /\ UNCHANGED <<settings, shown, found, status, stop, ask, saved, gap, pending,
                   visited, queued, here, allowed, out>>

(* A challenge page is detected and not solved in time.                    *)
Blocked(j) ==
    /\ At(j, "page")
    /\ Report(j, [report[j] EXCEPT !.status = "crawl_blocked"])
    /\ GiveUp(j)
    /\ pending' = [pending EXCEPT ![j] = <<>>]
    /\ Goto(j, "finish")
    /\ UNCHANGED <<settings, shown, found, status, stop, ask, saved, visited, queued,
                   here, allowed, out>>
-----------------------------------------------------------------------------
Inventoried(j) == Len(report[j].inventory)

(* The loop condition reads the limit in force, whoever set it.            *)
MayContinue(j) == pending[j] # <<>> /\ Inventoried(j) < settings.page

(* The loop breaks for a stop, and whenever the time limit is reached.     *)
Break(j) ==
    /\ At(j, "loop")
    /\ MayContinue(j)
    /\ GiveUp(j)
    /\ Goto(j, "finish")
    /\ UNCHANGED <<settings, shown, found, status, stop, ask, saved, report, pending,
                   visited, queued, here, allowed, out>>

(* The next entry is taken; one already visited is dropped.                *)
TakeEntry(j) ==
    LET e == Head(pending[j])
    IN  /\ At(j, "loop")
        /\ MayContinue(j)
        /\ ~stop[j]
        /\ pending' = [pending EXCEPT ![j] = Tail(@)]
        /\ here' = [here EXCEPT ![j] = <<e>>]
        /\ Goto(j, IF e.url \in visited[j] THEN "loop" ELSE "page")
        /\ UNCHANGED <<settings, shown, found, status, stop, ask, saved, report, gap,
                       visited, queued, allowed, out>>

(* For a mutant: a page that cannot be loaded goes back to the queue.      *)
RequeuePage(j) ==
    /\ At(j, "page")
    /\ pending' = [pending EXCEPT ![j] = here[j] \o @]
    /\ Goto(j, "loop")
    /\ UNCHANGED <<settings, shown, found, status, stop, ask, saved, report, gap,
                   visited, queued, here, allowed, out>>

(* The page cannot be loaded after the retries, or leads elsewhere.        *)
SkipPage(j) ==
    LET url == here[j][1].url
    IN  /\ At(j, "page")
        /\ \/ GiveUp(j)
           \/ /\ Lands[url] \in Elsewhere
              /\ UNCHANGED gap
        /\ Goto(j, "loop")
        /\ UNCHANGED <<settings, shown, found, status, stop, ask, saved, report, pending,
                       visited, queued, here, allowed, out>>

(* For a mutant: a stop that arrived while the page loaded is ignored.     *)
PageLoadedUnasked(j) ==
    LET url == here[j][1].url
    IN  /\ At(j, "page")
        /\ Lands[url] \notin Elsewhere
        /\ visited' = [visited EXCEPT ![j] = @ \cup {url, Lands[url]}]
        /\ Goto(j, "scan")
        /\ UNCHANGED <<settings, shown, found, status, stop, ask, saved, report, gap,
                       pending, queued, here, allowed, out>>

(* The page is loaded.  A stop that arrived meanwhile ends the crawl.      *)
PageLoaded(j) ==
    LET url == here[j][1].url
    IN  /\ At(j, "page")
        /\ Lands[url] \notin Elsewhere
        /\ \/ /\ stop[j]
              /\ GiveUp(j)
              /\ Goto(j, "finish")
              /\ UNCHANGED visited
           \/ /\ ~stop[j]
              /\ visited' = [visited EXCEPT ![j] = @ \cup {url, Lands[url]}]
              /\ Goto(j, "scan")
              /\ UNCHANGED gap
        /\ UNCHANGED <<settings, shown, found, status, stop, ask, saved, report, pending,
                       queued, here, allowed, out>>

(* The state of the page was seen too often: its links are not followed.   *)
RepeatedState(j) ==
    /\ At(j, "scan")
    /\ Inventoried(j) > 0
    /\ Goto(j, "loop")
    /\ UNCHANGED <<settings, shown, found, status, stop, ask, saved, crawl, allowed, out>>

(* The links and controls of the page at hand that enter the queue.  A     *)
(* link at the depth limit is recorded as skipped, even to a page already  *)
(* visited; the links of a page a control opened have no such check.       *)
Following(j) == ask[j].scope = "full" /\ here[j][1].depth < settings.depth
Opened(j, tried) ==
    UNION {Links[p] \cup (IF Lands[p] \in Elsewhere THEN {} ELSE {p}) : p \in tried}
NewUrls(j, tried) ==
    IF Following(j)
    THEN (Links[Lands[here[j][1].url]] \cup Opened(j, tried))
            \ (visited[j] \cup queued[j])
    ELSE {}
DepthForgiven(j) == FALSE   \* for a mutant: they do not count as given up
DepthSkipped(j) ==
    /\ ask[j].scope = "full"
    /\ here[j][1].depth >= settings.depth
    /\ Links[Lands[here[j][1].url]] # {}

(* The page enters the inventory and its links and controls the queue;     *)
(* "tried" are the controls that could be explored.                        *)
ScanPage(j) ==
    LET page == Lands[here[j][1].url]
        open == IF Following(j) THEN Controls[page] ELSE {}
    IN  /\ At(j, "scan")
        /\ \E tried \in SUBSET open :
            LET new == NewUrls(j, tried)
            IN  /\ Report(j, [report[j] EXCEPT !.inventory = Append(@, page)])
                /\ gap' = [gap EXCEPT ![j] = @ \/ DepthSkipped(j) \/ tried # open]
                /\ \E rest \in Listings(Entries(new, here[j][1].depth + 1)) :
                      pending' = [pending EXCEPT ![j] = @ \o rest]
                /\ queued' = [queued EXCEPT ![j] = @ \cup new]
        /\ Goto(j, "loop")
        /\ UNCHANGED <<settings, shown, found, status, stop, ask, saved, visited,
                       here, allowed, out>>

(* An exception outside navigation ends the crawl with what it has.        *)
Crash(j) ==
    LET r == [report[j] EXCEPT !.status = "crawl_incomplete"]
    IN  /\ pc[j] \in {"launch", "page", "scan"}
        /\ Report(j, r)
        /\ shown' = [shown EXCEPT ![ask[j].root] = j]
        /\ RestoreLimits(j)
        /\ Publish(j, r, j)
        /\ Goto(j, "generate")
        /\ UNCHANGED <<found, status, stop, ask, saved, visited, allowed>>

LeaveLoop(j) ==
    /\ At(j, "loop")
    /\ ~MayContinue(j)
    /\ Goto(j, "finish")
    /\ UNCHANGED <<settings, shown, found, status, stop, ask, saved, crawl, allowed, out>>
-----------------------------------------------------------------------------
(* A crawl is complete when nothing is left and nothing was given up.      *)
Complete(j) ==
    /\ report[j].status # "crawl_blocked"
    /\ report[j].inventory # <<>>
    /\ pending[j] = <<>>
    /\ ~gap[j]

(* The browser is closed: a crawl that is not complete raises, and the     *)
(* handler publishes its partial report without suspending.                *)
FinishPartial(j) ==
    LET r == IF report[j].status = "crawl_blocked" THEN report[j]
             ELSE [report[j] EXCEPT !.status = "crawl_incomplete"]
    IN  /\ At(j, "finish")
        /\ ~Complete(j)
        /\ Report(j, r)
        /\ shown' = [shown EXCEPT ![ask[j].root] = j]
        /\ RestoreLimits(j)
        /\ Publish(j, r, j)
        /\ Goto(j, "generate")
        /\ UNCHANGED <<found, status, stop, ask, saved, visited, allowed>>

(* A crawl of one page keeps the page at the address asked, if it ended    *)
(* there, and no other.                                                    *)
Listed(j) ==
    IF ask[j].scope = "full" THEN report[j].inventory
    ELSE IF ask[j].root \in Scanned(report[j]) THEN <<ask[j].root>> ELSE <<>>

(* A complete crawl is shown under its address and written to the          *)
(* discovery cache, unless Redis fails.  That write suspends the job.      *)
FinishComplete(j) ==
    /\ At(j, "finish")
    /\ Complete(j)
    /\ Report(j, [status |-> "crawl_completed", inventory |-> Listed(j)])
    /\ shown' = [shown EXCEPT ![ask[j].root] = j]
    /\ \/ found' = {e \in found : e.key # ask[j]}
                     \cup {[key |-> ask[j], inventory |-> Listed(j),
                            visited |-> visited[j]]}
       \/ UNCHANGED found
    /\ Goto(j, "collect")
    /\ UNCHANGED <<settings, status, stop, ask, saved, gap, pending, visited, queued,
                   here, allowed, out>>

(* For a mutant: the report is taken for complete without a look at it.    *)
CollectUnchecked(j) ==
    LET who == shown[ask[j].root]
    IN  /\ At(j, "collect")
        /\ Publish(j, [report[who] EXCEPT !.status = "crawl_completed"], who)
        /\ RestoreLimits(j)
        /\ Goto(j, "generate")
        /\ UNCHANGED <<shown, found, status, stop, ask, saved, report, visited, allowed>>

(* After the crawl the job looks its report up again, by address: another  *)
(* job may have replaced it.                                               *)
Collect(j) ==
    LET who == shown[ask[j].root]
    IN  /\ At(j, "collect")
        /\ Publish(j, report[who], who)
        /\ RestoreLimits(j)
        /\ Goto(j, "generate")
        /\ UNCHANGED <<shown, found, status, stop, ask, saved, report, visited, allowed>>

(* Scripts are generated and stored; writing them may fail.                *)
EndJob(j) ==
    /\ At(j, "generate")
    /\ Goto(j, "ended")
    /\ \E s \in {"completed", "failed"} : status' = [status EXCEPT ![j] = s]
    /\ UNCHANGED <<settings, shown, found, stop, ask, saved, crawl, allowed, out>>
-----------------------------------------------------------------------------
JobStep(j) ==
    \/ RunJob(j) \/ RefuseUrl(j) \/ OverrideLimits(j)
    \/ CacheHit(j) \/ CacheMiss(j) \/ Launch(j) \/ RefuseSession(j) \/ Blocked(j)
    \/ Break(j) \/ TakeEntry(j) \/ SkipPage(j) \/ PageLoaded(j)
    \/ RepeatedState(j) \/ ScanPage(j) \/ Crash(j) \/ LeaveLoop(j)
    \/ FinishPartial(j) \/ FinishComplete(j) \/ Collect(j) \/ EndJob(j)

Next ==
    \E j \in Jobs :
        \/ \E r \in Requests[j] : StartJob(j, r)
        \/ StopJob(j)
        \/ JobStep(j)

(* The event loop runs every task that is ready, and every browser call    *)
(* has a timeout.                                                          *)
Spec == Init /\ [][Next]_vars /\ \A j \in Jobs : WF_vars(JobStep(j))
-----------------------------------------------------------------------------
TypeOK ==
    /\ settings \in Limits
    /\ shown \in [Pages -> Jobs \cup {NoJob}]
    /\ pc \in [Jobs -> {"idle", "created", "validate", "lookup", "launch", "loop",
                        "page", "scan", "finish", "collect", "generate", "ended"}]
    /\ status \in [Jobs -> {"none", "queued", "running", "stopping", "completed",
                            "failed"}]
    /\ stop \in [Jobs -> BOOLEAN]
    /\ \A j \in Jobs : ask[j] \in Requests[j] \cup {NoRequest}
    /\ saved \in [Jobs -> Limits]
    /\ \A j \in Jobs :
        /\ report[j].status \in {"crawl_started", "crawl_in_progress",
              "crawl_incomplete", "crawl_blocked", "crawl_completed"}
        /\ report[j].inventory \in Seq(Pages)
        /\ pending[j] \in Seq(Entry)
    /\ visited \in [Jobs -> SUBSET Pages]
    /\ queued \in [Jobs -> SUBSET Pages]
    /\ allowed \in [Jobs -> Nat]

(* What a job publishes as a completed crawl is the report of a crawl of   *)
(* its address that was completed as it was asked for, be it its own or    *)
(* that of an overlapping job: one of the whole application leaves out no  *)
(* link of a page it lists (each was visited by that crawl, or leads to    *)
(* another origin), and one of a single page lists no other page.          *)
(* (_discover's final conditions, _completed_crawl_report)                 *)
PublishedCovers ==
    \A j \in Jobs : LET o == out[j] IN
        o.status = "crawl_completed" =>
            /\ ask[o.who].root = ask[j].root
            /\ IF ask[o.who].scope = "full"
               THEN /\ o.pages # {}
                    /\ \A p \in o.pages : \A q \in Links[p] :
                          q \in visited[o.who] \/ Lands[q] \in Elsewhere
               ELSE o.pages \subseteq {ask[j].root}

(* A job publishes a completed crawl of the scope it was asked for.  The   *)
(* page that starts it offers "Full Application (Discover & Crawl          *)
(* Sub-links)"; a job that finds the single page of an overlapping job at  *)
(* its address publishes that.  (README, known disagreements)              *)
PublishedAsAsked ==
    \A j \in Jobs :
        out[j].status = "crawl_completed" => ask[out[j].who].scope = ask[j].scope

(* A stop is obeyed: a page that was loaded when it arrives is still added *)
(* to the inventory, and no other; a crawl found in the cache adds none of *)
(* its own.  (stop_crawl_job, the checks of cancel_event in _discover)     *)
StopBounds ==
    \A j \in Jobs : stop[j] => Len(report[j].inventory) <= allowed[j]

(* A cached discovery is a completed crawl: it leaves out no link either.  *)
CacheCovers ==
    \A e \in found : e.key.scope = "full"
        => \A p \in Range(e.inventory) : \A q \in Links[p] :
              q \in e.visited \/ Lands[q] \in Elsewhere

(* When no job is under way the configured limits are in force.  The       *)
(* comment at the override calls it temporary, for this request; two jobs   *)
(* that overlap do not keep it.  (README, known disagreements)             *)
LimitsRestored ==
    (\A j \in Jobs : pc[j] \in {"idle", "created", "validate", "generate", "ended"})
        => settings = Configured

(* A job that is created ends, whatever the application answers.           *)
JobEnds == \A j \in Jobs : pc[j] = "created" ~> pc[j] = "ended"
=============================================================================
