------------------------ MODULE ApplicationCrawlProofs ------------------------
(***************************************************************************)
(* Proofs about ApplicationCrawl, for any jobs, pages, links, limits and   *)
(* requests: a stop is obeyed, and what is published or cached as a        *)
(* complete crawl is one of what its owner was asked for.                  *)
(***************************************************************************)
EXTENDS ApplicationCrawl, FiniteSetTheorems, TLAPS

Places == {"idle", "created", "validate", "lookup", "launch", "loop",
           "page", "scan", "finish", "collect", "generate", "ended"}
Statuses == {"crawl_started", "crawl_in_progress", "crawl_incomplete",
             "crawl_blocked", "crawl_completed"}
Reports == [status : Statuses, inventory : Seq(Pages)]
Request == [root : Pages, scope : {"full", "specific"}, page : Nat, depth : Nat]
Founds == [key : Request, inventory : Seq(Pages), visited : SUBSET Pages]

(* The types of the variables, with what each place of a task adds.        *)
Typed ==
    /\ settings \in Limits
    /\ shown \in [Pages -> Jobs \cup {NoJob}]
    /\ found \subseteq Founds
    /\ pc \in [Jobs -> Places]
    /\ status \in [Jobs -> {"none", "queued", "running", "stopping", "completed",
                            "failed"}]
    /\ stop \in [Jobs -> BOOLEAN]
    /\ ask \in [Jobs -> Request \cup {NoRequest}]
    /\ \A j \in Jobs : ask[j] \in Requests[j] \cup {NoRequest}
    /\ saved \in [Jobs -> Limits]
    /\ report \in [Jobs -> Reports]
    /\ gap \in [Jobs -> BOOLEAN]
    /\ pending \in [Jobs -> Seq(Entry)]
    /\ visited \in [Jobs -> SUBSET Pages]
    /\ queued \in [Jobs -> SUBSET Pages]
    /\ here \in [Jobs -> Seq(Entry)]
    /\ allowed \in [Jobs -> Nat]
    /\ out \in [Jobs -> [who : Jobs \cup {NoJob}, status : Statuses \cup {"none"}, pages : SUBSET Pages]]
    /\ \A j \in Jobs : pc[j] # "idle" => ask[j] \in Request
    /\ \A j \in Jobs : pc[j] \in {"page", "scan"} => here[j] # <<>>
-----------------------------------------------------------------------------
(* A listing of a set of entries is a sequence of them, and lists them all.*)
LEMMA ListingType ==
    ASSUME NEW urls \in SUBSET Pages, NEW depth \in Nat,
           NEW rest \in Listings(Entries(urls, depth))
    PROVE  /\ rest \in Seq(Entry)
           /\ \A p \in urls : \E i \in 1..Len(rest) : rest[i].url = p
<1> DEFINE S == Entries(urls, depth)
<1>1. IsFiniteSet(urls)
  BY FS_Subset, PagesAssumption
<1>2. IsFiniteSet(S)
  <2> DEFINE f == [p \in urls |-> [url |-> p, depth |-> depth]]
  <2>1. f \in Surjection(urls, S)
    BY DEF Surjection, Entries
  <2> QED
    BY <1>1, <2>1, FS_Surjection
<1>3. Cardinality(S) \in Nat
  BY <1>2, FS_CardinalityType
<1>4. S \subseteq Entry
  BY DEF Entries, Entry
<1>5. rest \in [1..Cardinality(S) -> S] /\ Range(rest) = S
  BY DEF Listings
<1>6. rest \in Seq(Entry) /\ Len(rest) = Cardinality(S)
  BY <1>3, <1>4, <1>5
<1>7. ASSUME NEW p \in urls PROVE \E i \in 1..Len(rest) : rest[i].url = p
  <2>1. [url |-> p, depth |-> depth] \in Range(rest)
    BY <1>5 DEF Entries
  <2> QED
    BY <2>1, <1>5, <1>6 DEF Range
<1> QED
  BY <1>6, <1>7

LEMMA RequestType ==
    ASSUME NEW j \in Jobs, NEW r \in Requests[j]
    PROVE  /\ r \in Request
           /\ LimitsOf(r) \in Limits
BY RequestsAssumption DEF Request, LimitsOf, Limits

LEMMA StatusUpdate ==
    ASSUME NEW r \in Reports, NEW s \in Statuses
    PROVE  /\ [r EXCEPT !.status = s] \in Reports
           /\ [r EXCEPT !.status = s].status = s
           /\ [r EXCEPT !.status = s].inventory = r.inventory
BY DEF Reports

LEMMA InventoryUpdate ==
    ASSUME NEW r \in Reports, NEW page \in Pages
    PROVE  /\ [r EXCEPT !.inventory = Append(@, page)] \in Reports
           /\ [r EXCEPT !.inventory = Append(@, page)].status = r.status
           /\ [r EXCEPT !.inventory = Append(@, page)].inventory = Append(r.inventory, page)
BY DEF Reports

LEMMA EntryType ==
    ASSUME Typed, NEW j \in Jobs, pc[j] \in {"page", "scan"}
    PROVE  /\ here[j][1] \in Entry
           /\ here[j][1].url \in Pages
           /\ here[j][1].depth \in Nat
           /\ Lands[here[j][1].url] \in Pages
<1>1. here[j] \in Seq(Entry) /\ here[j] # <<>>
  BY DEF Typed
<1>2. here[j][1] \in Entry
  BY <1>1
<1> QED
  BY <1>2, PagesAssumption DEF Entry

LEMMA ScannedType == ASSUME NEW r \in Reports PROVE Scanned(r) \subseteq Pages
BY DEF Reports, Scanned, Range

LEMMA PublishType ==
    ASSUME Typed, NEW j \in Jobs, NEW who \in Jobs, NEW r \in Reports, Publish(j, r, who)
    PROVE  /\ out' \in [Jobs -> [who : Jobs \cup {NoJob}, status : Statuses \cup {"none"},
                                  pages : SUBSET Pages]]
           /\ gap' \in [Jobs -> BOOLEAN]
           /\ pending' \in [Jobs -> Seq(Entry)]
           /\ queued' \in [Jobs -> SUBSET Pages]
           /\ here' \in [Jobs -> Seq(Entry)]
<1>1. [who |-> who, status |-> r.status, pages |-> Scanned(r)]
        \in [who : Jobs \cup {NoJob}, status : Statuses \cup {"none"}, pages : SUBSET Pages]
  BY ScannedType DEF Reports
<1> QED
  BY <1>1 DEF Publish, Typed

LEMMA TypedInit == Init => Typed
<1> SUFFICES ASSUME Init PROVE Typed
  OBVIOUS
<1>1. settings \in Limits /\ saved \in [Jobs -> Limits]
  BY RequestsAssumption DEF Init
<1>2. report \in [Jobs -> Reports] /\ FreshReport \in Reports
  BY DEF Init, Reports, FreshReport, Statuses
<1>3. out \in [Jobs -> [who : Jobs \cup {NoJob}, status : Statuses \cup {"none"}, pages : SUBSET Pages]]
  <2>1. NothingOut \in [who : Jobs \cup {NoJob}, status : Statuses \cup {"none"},
                         pages : SUBSET Pages]
    BY DEF NothingOut
  <2> QED
    BY <2>1 DEF Init
<1>4. \A j \in Jobs : pc[j] = "idle" /\ ask[j] = NoRequest
  BY DEF Init
<1> QED
  BY <1>1, <1>2, <1>3, <1>4 DEF Init, Typed, Places

LEMMA TypedStart ==
    ASSUME Typed, NEW j \in Jobs, NEW r \in Requests[j], StartJob(j, r)
    PROVE  Typed'
BY RequestType DEF StartJob, Typed, At, Goto, Places, crawl

LEMMA TypedStop ==
    ASSUME Typed, NEW j \in Jobs, StopJob(j)
    PROVE  Typed'
<1>1. allowed' \in [Jobs -> Nat]
  <2>1. Len(report[j].inventory) \in Nat
    BY DEF Typed, Reports
  <2> DEFINE bound == IF stop[j] THEN allowed[j]
                      ELSE Len(report[j].inventory) + (IF At(j, "scan") THEN 1 ELSE 0)
  <2>2. bound \in Nat
    <3>1. allowed[j] \in Nat
      BY DEF Typed
    <3>2. Len(report[j].inventory) + (IF At(j, "scan") THEN 1 ELSE 0) \in Nat
      <4>1. CASE At(j, "scan")
        BY <2>1, <4>1
      <4>2. CASE ~At(j, "scan")
        BY <2>1, <4>2
      <4> QED
        BY <4>1, <4>2
    <3> QED
      BY <3>1, <3>2
  <2>3. allowed' = [allowed EXCEPT ![j] = bound]
    BY DEF StopJob
  <2> HIDE DEF bound
  <2> QED
    BY <2>2, <2>3 DEF Typed
<1>2. stop' \in [Jobs -> BOOLEAN] /\ status' \in [Jobs -> {"none", "queued", "running",
          "stopping", "completed", "failed"}]
  BY DEF StopJob, Typed
<1> QED
  BY <1>1, <1>2 DEF StopJob, Typed, crawl

LEMMA TypedRunJob ==
    ASSUME Typed, NEW j \in Jobs, RunJob(j)
    PROVE  Typed'
BY DEF RunJob, Typed, Places, Reports, crawl, At, Goto, Report

LEMMA TypedRefuseUrl ==
    ASSUME Typed, NEW j \in Jobs, RefuseUrl(j)
    PROVE  Typed'
BY DEF RefuseUrl, Typed, Places, Reports, crawl, At, Goto, Report

LEMMA TypedOverrideLimits ==
    ASSUME Typed, NEW j \in Jobs, OverrideLimits(j)
    PROVE  Typed'
BY DEF OverrideLimits, Typed, Places, Reports, crawl, At, Goto, Limits, LimitsOf, Report, Request

LEMMA TypedCacheMiss ==
    ASSUME Typed, NEW j \in Jobs, CacheMiss(j)
    PROVE  Typed'
<1>1. report' \in [Jobs -> Reports]
  <2>1. FreshReport \in Reports
    BY DEF FreshReport, Reports, Statuses
  <2> QED
    BY <2>1 DEF CacheMiss, Report, Typed
<1>2. shown' \in [Pages -> Jobs \cup {NoJob}]
  BY DEF CacheMiss, Typed
<1>3. pc' = [pc EXCEPT ![j] = "launch"]
  BY DEF CacheMiss, Goto
<1>4. pc[j] = "lookup"
  BY DEF CacheMiss, At
<1> QED
  BY <1>1, <1>2, <1>3, <1>4 DEF CacheMiss, Typed, Places

LEMMA TypedRefuseSession ==
    ASSUME Typed, NEW j \in Jobs, RefuseSession(j)
    PROVE  Typed'
<1>1. report' \in [Jobs -> Reports]
  <2>1. [report[j] EXCEPT !.status = "crawl_blocked"] \in Reports
    BY StatusUpdate DEF Typed, Statuses
  <2> QED
    BY <2>1 DEF RefuseSession, Report, Typed
<1> QED
  BY <1>1 DEF RefuseSession, At, Goto, Typed, Places

LEMMA TypedBlocked ==
    ASSUME Typed, NEW j \in Jobs, Blocked(j)
    PROVE  Typed'
<1>1. report' \in [Jobs -> Reports]
  <2>1. [report[j] EXCEPT !.status = "crawl_blocked"] \in Reports
    BY StatusUpdate DEF Typed, Statuses, Blocked
  <2> QED
    BY <2>1 DEF Blocked, Report, Typed
<1>2. pending' \in [Jobs -> Seq(Entry)] /\ gap' \in [Jobs -> BOOLEAN]
  BY DEF Blocked, GiveUp, Typed
<1> QED
  BY <1>1, <1>2 DEF Blocked, At, Goto, Typed, Places

LEMMA TypedBreak ==
    ASSUME Typed, NEW j \in Jobs, Break(j)
    PROVE  Typed'
BY DEF Break, Typed, Places, Reports, crawl, At, GiveUp, Goto, Report

LEMMA TypedTakeEntry ==
    ASSUME Typed, NEW j \in Jobs, TakeEntry(j)
    PROVE  Typed'
<1>1. Head(pending[j]) \in Entry /\ Tail(pending[j]) \in Seq(Entry)
  BY DEF TakeEntry, MayContinue, Typed
<1>2. pending' \in [Jobs -> Seq(Entry)]
  BY <1>1 DEF TakeEntry, Typed
<1>3. here' = [here EXCEPT ![j] = <<Head(pending[j])>>]
  BY DEF TakeEntry
<1>4. here' \in [Jobs -> Seq(Entry)]
  BY <1>1, <1>3 DEF Typed
<1>5. here'[j] # <<>>
  BY <1>3 DEF Typed
<1>6. pc' \in [Jobs -> Places] /\ pc[j] = "loop"
  BY DEF TakeEntry, Goto, At, Typed, Places
<1>7. \A k \in Jobs \ {j} : pc'[k] = pc[k] /\ here'[k] = here[k]
  BY <1>3 DEF TakeEntry, Goto, Typed
<1> QED
  BY <1>2, <1>4, <1>5, <1>6, <1>7 DEF TakeEntry, Typed

LEMMA TypedSkipPage ==
    ASSUME Typed, NEW j \in Jobs, SkipPage(j)
    PROVE  Typed'
BY DEF SkipPage, Typed, Places, Reports, crawl, At, GiveUp, Goto, Report

LEMMA TypedPageLoaded ==
    ASSUME Typed, NEW j \in Jobs, PageLoaded(j)
    PROVE  Typed'
<1>1. /\ here[j][1] \in Entry
      /\ here[j][1].url \in Pages
      /\ Lands[here[j][1].url] \in Pages
  BY EntryType DEF PageLoaded, At
<1>2. visited' \in [Jobs -> SUBSET Pages]
  <2> DEFINE more == {here[j][1].url, Lands[here[j][1].url]}
  <2>1. more \in SUBSET Pages
    BY <1>1
  <2>2. visited' = visited \/ visited' = [visited EXCEPT ![j] = @ \cup more]
    BY DEF PageLoaded
  <2>3. visited[j] \cup more \in SUBSET Pages
    BY <2>1 DEF Typed
  <2> HIDE DEF more
  <2> QED
    BY <2>2, <2>3 DEF Typed
<1>3. gap' \in [Jobs -> BOOLEAN]
  BY DEF PageLoaded, GiveUp, Typed
<1>4. pc' \in [Jobs -> Places] /\ pc[j] = "page"
  BY DEF PageLoaded, Goto, At, Typed, Places
<1>5. \A k \in Jobs \ {j} : pc'[k] = pc[k]
  BY DEF PageLoaded, Goto, Typed
<1> QED
  BY <1>2, <1>3, <1>4, <1>5 DEF PageLoaded, Typed

LEMMA TypedRepeatedState ==
    ASSUME Typed, NEW j \in Jobs, RepeatedState(j)
    PROVE  Typed'
BY DEF RepeatedState, Typed, Places, Reports, crawl, At, Goto, Report

LEMMA TypedLeaveLoop ==
    ASSUME Typed, NEW j \in Jobs, LeaveLoop(j)
    PROVE  Typed'
BY DEF LeaveLoop, Typed, Places, Reports, crawl, At, Goto, Report

LEMMA TypedEndJob ==
    ASSUME Typed, NEW j \in Jobs, EndJob(j)
    PROVE  Typed'
BY DEF EndJob, Typed, Places, Reports, crawl, At, Goto, Report

LEMMA TypedCacheHit ==
    ASSUME Typed, NEW j \in Jobs, CacheHit(j)
    PROVE  Typed'
<1>1. PICK e \in found : e.key = ask[j] /\
         LET r == [status |-> "crawl_completed", inventory |-> e.inventory]
         IN  /\ Report(j, r)
             /\ Publish(j, r, j)
             /\ visited' = [visited EXCEPT ![j] = e.visited]
             /\ allowed' = [allowed EXCEPT ![j] = Len(e.inventory)]
  BY DEF CacheHit
<1> DEFINE r == [status |-> "crawl_completed", inventory |-> e.inventory]
<1>2. e \in Founds /\ e.inventory \in Seq(Pages) /\ Len(e.inventory) \in Nat
  BY DEF Typed, Founds
<1>3. r \in Reports /\ Scanned(r) \subseteq Pages
  <2>1. r \in Reports
    BY <1>2 DEF Reports, Statuses
  <2> QED
    BY <2>1, ScannedType
<1>4. report' \in [Jobs -> Reports]
  BY <1>1, <1>3 DEF Report, Typed
<1>5. out' \in [Jobs -> [who : Jobs \cup {NoJob}, status : Statuses \cup {"none"}, pages : SUBSET Pages]]
  BY <1>1, <1>3, PublishType
<1>6. /\ gap' \in [Jobs -> BOOLEAN]
      /\ pending' \in [Jobs -> Seq(Entry)]
      /\ queued' \in [Jobs -> SUBSET Pages]
      /\ here' \in [Jobs -> Seq(Entry)]
  BY <1>1 DEF Publish, Typed
<1>7. /\ visited' \in [Jobs -> SUBSET Pages]
      /\ allowed' \in [Jobs -> Nat]
  BY <1>1, <1>2 DEF Typed, Founds
<1>8. settings' \in Limits /\ shown' \in [Pages -> Jobs \cup {NoJob}]
  BY DEF CacheHit, RestoreLimits, Typed
<1>9. pc' = [pc EXCEPT ![j] = "generate"] /\ pc[j] = "lookup"
  BY DEF CacheHit, Goto, At
<1>10. \A k \in Jobs : pc'[k] \in {"page", "scan"} => here'[k] = here[k] /\ pc'[k] = pc[k]
  BY <1>1, <1>9 DEF Publish, Typed
<1> QED
  BY <1>4, <1>5, <1>6, <1>7, <1>8, <1>9, <1>10 DEF CacheHit, Typed, Places

LEMMA TypedLaunch ==
    ASSUME Typed, NEW j \in Jobs, Launch(j)
    PROVE  Typed'
<1>1. PICK seeds \in SUBSET Suggested :
        \E rest \in Listings(Entries(seeds, 1)) :
          /\ pending' = [pending EXCEPT ![j] = <<[url |-> ask[j].root, depth |-> 0]>> \o rest]
          /\ queued' = [queued EXCEPT ![j] = seeds \cup {ask[j].root}]
  BY DEF Launch
<1>2. PICK rest \in Listings(Entries(seeds, 1)) :
        pending' = [pending EXCEPT ![j] = <<[url |-> ask[j].root, depth |-> 0]>> \o rest]
  BY <1>1
<1>3. seeds \in SUBSET Pages /\ rest \in Seq(Entry)
  BY PagesAssumption, ListingType
<1>4. ask[j].root \in Pages /\ pc[j] = "launch"
  BY DEF Launch, At, Typed, Request
<1>5. <<[url |-> ask[j].root, depth |-> 0]>> \in Seq(Entry)
  BY <1>4 DEF Entry
<1>6. pending' \in [Jobs -> Seq(Entry)]
  BY <1>2, <1>3, <1>5 DEF Typed
<1>7. queued' \in [Jobs -> SUBSET Pages]
  BY <1>1, <1>3, <1>4 DEF Typed
<1>8. report' \in [Jobs -> Reports]
  <2>1. [report[j] EXCEPT !.status = "crawl_in_progress"] \in Reports
    BY <1>4, StatusUpdate DEF Typed, Statuses
  <2> QED
    BY <2>1 DEF Launch, Report, Typed
<1>9. pc' = [pc EXCEPT ![j] = "loop"]
  BY DEF Launch, Goto
<1> QED
  BY <1>4, <1>6, <1>7, <1>8, <1>9 DEF Launch, Typed, Places

LEMMA TypedScanPage ==
    ASSUME Typed, NEW j \in Jobs, ScanPage(j)
    PROVE  Typed'
<1> DEFINE page == Lands[here[j][1].url]
           open == IF Following(j) THEN Controls[page] ELSE {}
<1>1. PICK tried \in SUBSET open :
        /\ Report(j, [report[j] EXCEPT !.inventory = Append(@, page)])
        /\ gap' = [gap EXCEPT ![j] = @ \/ DepthSkipped(j) \/ tried # open]
        /\ \E rest \in Listings(Entries(NewUrls(j, tried), here[j][1].depth + 1)) :
              pending' = [pending EXCEPT ![j] = @ \o rest]
        /\ queued' = [queued EXCEPT ![j] = @ \cup NewUrls(j, tried)]
  BY DEF ScanPage
<1>2. pc[j] = "scan"
  BY DEF ScanPage, At
<1>3. page \in Pages /\ here[j][1].depth + 1 \in Nat
  BY <1>2, EntryType
<1>4. Links[page] \subseteq Pages /\ Opened(j, tried) \subseteq Pages
  BY <1>3, PagesAssumption DEF Opened
<1>5. NewUrls(j, tried) \in SUBSET Pages
  BY <1>4 DEF NewUrls
<1>6. PICK rest \in Listings(Entries(NewUrls(j, tried), here[j][1].depth + 1)) :
              pending' = [pending EXCEPT ![j] = @ \o rest]
  BY <1>1
<1>7. rest \in Seq(Entry)
  BY <1>3, <1>5, ListingType
<1>8. pending' \in [Jobs -> Seq(Entry)]
  BY <1>6, <1>7 DEF Typed
<1>9. queued' \in [Jobs -> SUBSET Pages]
  BY <1>1, <1>5 DEF Typed
<1>10. report' \in [Jobs -> Reports]
  <2>1. [report[j] EXCEPT !.inventory = Append(@, page)] \in Reports
    BY <1>3, InventoryUpdate DEF Typed, Statuses
  <2> QED
    BY <1>1, <2>1 DEF Report, Typed
<1>11. gap' \in [Jobs -> BOOLEAN]
  BY <1>1 DEF Typed, DepthSkipped
<1>12. pc' = [pc EXCEPT ![j] = "loop"]
  BY DEF ScanPage, Goto
<1> QED
  BY <1>2, <1>8, <1>9, <1>10, <1>11, <1>12 DEF ScanPage, Typed, Places

LEMMA TypedCrash ==
    ASSUME Typed, NEW j \in Jobs, Crash(j)
    PROVE  Typed'
<1> DEFINE r == [report[j] EXCEPT !.status = "crawl_incomplete"]
<1>1. pc[j] \in {"launch", "page", "scan"} /\ pc' = [pc EXCEPT ![j] = "generate"]
  BY DEF Crash, Goto
<1>2. r \in Reports /\ Publish(j, r, j)
  BY <1>1, StatusUpdate DEF Typed, Crash, Statuses
<1>3. report' \in [Jobs -> Reports]
  BY <1>2 DEF Crash, Report, Typed
<1>4. settings' \in Limits /\ shown' \in [Pages -> Jobs \cup {NoJob}]
  BY DEF Crash, RestoreLimits, Typed
<1>5. \A k \in Jobs : pc'[k] \in {"page", "scan"} => here'[k] = here[k] /\ pc'[k] = pc[k]
  BY <1>1, <1>2 DEF Publish, Typed
<1> QED
  BY <1>1, <1>2, <1>3, <1>4, <1>5, PublishType DEF Crash, Typed, Places

LEMMA TypedFinishPartial ==
    ASSUME Typed, NEW j \in Jobs, FinishPartial(j)
    PROVE  Typed'
<1> DEFINE r == IF report[j].status = "crawl_blocked" THEN report[j]
             ELSE [report[j] EXCEPT !.status = "crawl_incomplete"]
<1>1. pc[j] = "finish" /\ pc' = [pc EXCEPT ![j] = "generate"]
  BY DEF FinishPartial, Goto, At
<1>2. r \in Reports /\ Publish(j, r, j)
  BY <1>1, StatusUpdate DEF Typed, FinishPartial, Statuses
<1>3. report' \in [Jobs -> Reports]
  BY <1>2 DEF FinishPartial, Report, Typed
<1>4. settings' \in Limits /\ shown' \in [Pages -> Jobs \cup {NoJob}]
  BY DEF FinishPartial, RestoreLimits, Typed
<1>5. \A k \in Jobs : pc'[k] \in {"page", "scan"} => here'[k] = here[k] /\ pc'[k] = pc[k]
  BY <1>1, <1>2 DEF Publish, Typed
<1> QED
  BY <1>1, <1>2, <1>3, <1>4, <1>5, PublishType DEF FinishPartial, Typed, Places

(* What a completed crawl lists is of its inventory.                       *)
LEMMA ListedType ==
    ASSUME Typed, NEW j \in Jobs, pc[j] # "idle"
    PROVE  /\ [status |-> "crawl_completed", inventory |-> Listed(j)] \in Reports
           /\ Listed(j) \in Seq(Pages)
           /\ Len(Listed(j)) <= Len(report[j].inventory)
           /\ ask[j].scope = "full" => Listed(j) = report[j].inventory
           /\ ask[j].scope # "full" => Range(Listed(j)) \subseteq {ask[j].root}
<1> DEFINE inv == report[j].inventory
           root == ask[j].root
<1>1. root \in Pages /\ inv \in Seq(Pages)
  BY DEF Typed, Request, Reports
<1>2. CASE ask[j].scope = "full"
  <2>1. Listed(j) = inv
    BY <1>2 DEF Listed
  <2> QED
    BY <1>1, <1>2, <2>1 DEF Reports, Statuses
<1>3. CASE ask[j].scope # "full" /\ root \in Scanned(report[j])
  <2>1. Listed(j) = <<root>>
    BY <1>3 DEF Listed
  <2>2. 1 <= Len(inv)
    BY <1>1, <1>3 DEF Scanned, Range
  <2>3. Range(<<root>>) = {root} /\ Len(<<root>>) = 1 /\ <<root>> \in Seq(Pages)
    BY <1>1 DEF Range
  <2> QED
    BY <1>3, <2>1, <2>2, <2>3 DEF Reports, Statuses
<1>4. CASE ask[j].scope # "full" /\ root \notin Scanned(report[j])
  <2>1. Listed(j) = <<>>
    BY <1>4 DEF Listed
  <2>2. Range(<<>>) = {} /\ Len(<<>>) = 0 /\ <<>> \in Seq(Pages)
    BY DEF Range
  <2> QED
    BY <1>1, <1>4, <2>1, <2>2 DEF Reports, Statuses
<1> QED
  BY <1>2, <1>3, <1>4

LEMMA TypedFinishComplete ==
    ASSUME Typed, NEW j \in Jobs, FinishComplete(j)
    PROVE  Typed'
<1>1. pc[j] = "finish" /\ pc' = [pc EXCEPT ![j] = "collect"]
  BY DEF FinishComplete, Goto, At
<1>2. report' \in [Jobs -> Reports]
  BY <1>1, ListedType DEF FinishComplete, Report, Typed
<1>3. shown' \in [Pages -> Jobs \cup {NoJob}]
  BY DEF FinishComplete, Typed
<1>4. found' \subseteq Founds
  <2>1. [key |-> ask[j], inventory |-> Listed(j), visited |-> visited[j]] \in Founds
    BY <1>1, ListedType DEF Typed, Founds
  <2> QED
    BY <2>1 DEF FinishComplete, Typed
<1> QED
  BY <1>1, <1>2, <1>3, <1>4 DEF FinishComplete, Typed, Places

LEMMA TypedCollect ==
    ASSUME Typed, NEW j \in Jobs, shown[ask[j].root] # NoJob, Collect(j)
    PROVE  Typed'
<1> DEFINE who == shown[ask[j].root]
<1>1. pc[j] = "collect" /\ pc' = [pc EXCEPT ![j] = "generate"]
  BY DEF Collect, Goto, At
<1>2. who \in Jobs
  <2>1. ask[j].root \in Pages
    BY <1>1 DEF Typed, Request
  <2> QED
    BY <2>1 DEF Typed
<1>3. report[who] \in Reports /\ Publish(j, report[who], who)
  BY <1>2 DEF Typed, Collect
<1>4. settings' \in Limits
  BY DEF Collect, RestoreLimits, Typed
<1>5. \A k \in Jobs : pc'[k] \in {"page", "scan"} => here'[k] = here[k] /\ pc'[k] = pc[k]
  BY <1>1, <1>3 DEF Publish, Typed
<1> HIDE DEF who
<1> QED
  BY <1>1, <1>2, <1>3, <1>4, <1>5, PublishType DEF Collect, Typed, Places

-----------------------------------------------------------------------------
(* The inductive invariant.  What a crawl still has to visit is in its     *)
(* queue or at hand, unless it has given something up.                     *)
Covered(inventory, seen) ==
    \A p \in Range(inventory) : \A q \in Links[p] : q \in seen \/ Lands[q] \in Elsewhere

AsAsked(r, inventory, seen) ==
    IF r.scope = "full" THEN inventory # <<>> /\ Covered(inventory, seen)
    ELSE Range(inventory) \subseteq {r.root}

UrlsOf(s) == {s[i].url : i \in 1..Len(s)}

Ahead(j) ==
    visited[j] \cup UrlsOf(pending[j])
        \cup (IF pc[j] = "page" THEN {here[j][1].url} ELSE {})

Frontier(j) ==
    (pc[j] \in {"loop", "page", "scan", "finish"} /\ ask[j].scope = "full" /\ ~gap[j])
    => /\ \A q \in queued[j] : q \in Ahead(j) \/ Lands[q] \in Elsewhere
       /\ Covered(report[j].inventory, Ahead(j))

Launching(j) == pc[j] = "launch" => report[j].inventory = <<>>

Stopped(j) ==
    stop[j] => /\ Len(report[j].inventory) <= allowed[j]
               /\ pc[j] = "scan" => Len(report[j].inventory) < allowed[j]

Completed(j) ==
    report[j].status = "crawl_completed" =>
        /\ pc[j] \in {"collect", "generate", "ended"}
        /\ AsAsked(ask[j], report[j].inventory, visited[j])

Collecting(j) ==
    pc[j] \in {"launch", "loop", "page", "scan", "finish", "collect"} => shown[ask[j].root] # NoJob

Published(j) ==
    out[j].status = "crawl_completed" =>
        /\ out[j].who \in Jobs
        /\ pc[j] # "idle" /\ ask[out[j].who].root = ask[j].root
        /\ report[out[j].who].status = "crawl_completed"
        /\ out[j].pages = Scanned(report[out[j].who])

FoundCovers == \A e \in found : AsAsked(e.key, e.inventory, e.visited)

(* An address shows the report of a job that was asked for that address.   *)
ShownAtRoot ==
    \A p \in Pages : shown[p] # NoJob => pc[shown[p]] # "idle" /\ ask[shown[p]].root = p

Own(j) == Frontier(j) /\ Launching(j) /\ Stopped(j) /\ Completed(j)

CrawlInv ==
    /\ Typed
    /\ FoundCovers
    /\ ShownAtRoot
    /\ \A j \in Jobs : Own(j) /\ Collecting(j) /\ Published(j)

(* A step of one job leaves the others' tasks alone, and a completed       *)
(* report as it is.                                                        *)
Apart(j) ==
    /\ \A k \in Jobs \ {j} :
        /\ pc'[k] = pc[k] /\ stop'[k] = stop[k] /\ ask'[k] = ask[k]
        /\ report'[k] = report[k] /\ gap'[k] = gap[k] /\ pending'[k] = pending[k]
        /\ visited'[k] = visited[k] /\ queued'[k] = queued[k] /\ here'[k] = here[k]
        /\ allowed'[k] = allowed[k] /\ out'[k] = out[k]
    /\ report[j].status = "crawl_completed" => report'[j] = report[j]
    /\ \A q \in Pages : shown[q] # NoJob => shown'[q] # NoJob

LEMMA OwnApart ==
    ASSUME NEW j \in Jobs, Apart(j), NEW k \in Jobs \ {j}, Own(k)
    PROVE  Own(k)'
<1>1. Completed(k)'
  BY DEF Apart, Own, Completed, AsAsked, Covered
<1>2. Frontier(k)'
  BY DEF Apart, Own, Frontier, Ahead, Covered, UrlsOf
<1>3. Launching(k)' /\ Stopped(k)'
  BY DEF Apart, Own, Launching, Stopped
<1> QED
  BY <1>1, <1>2, <1>3 DEF Own

LEMMA StepApart ==
    ASSUME Typed, NEW j \in Jobs, Completed(j),
           (\E r \in Requests[j] : StartJob(j, r)) \/ StopJob(j) \/ JobStep(j)
    PROVE  Apart(j)
<1> USE NoJobAssumption DEF Typed, Apart, Completed, At, Goto, Report, GiveUp, Publish, crawl
<1>1. CASE \E r \in Requests[j] : StartJob(j, r)
  BY <1>1 DEF StartJob
<1>2. CASE StopJob(j)
  BY <1>2 DEF StopJob
<1>3. CASE RunJob(j)
  BY <1>3 DEF RunJob
<1>4. CASE RefuseUrl(j)
  BY <1>4 DEF RefuseUrl
<1>5. CASE OverrideLimits(j)
  BY <1>5 DEF OverrideLimits
<1>6. CASE CacheHit(j)
  BY <1>6 DEF CacheHit
<1>7. CASE CacheMiss(j)
  BY <1>7 DEF CacheMiss
<1>8. CASE Launch(j)
  BY <1>8 DEF Launch
<1>9. CASE RefuseSession(j)
  BY <1>9 DEF RefuseSession
<1>10. CASE Blocked(j)
  BY <1>10 DEF Blocked
<1>11. CASE Break(j)
  BY <1>11 DEF Break
<1>12. CASE TakeEntry(j)
  BY <1>12 DEF TakeEntry
<1>13. CASE SkipPage(j)
  BY <1>13 DEF SkipPage
<1>14. CASE PageLoaded(j)
  BY <1>14 DEF PageLoaded
<1>15. CASE RepeatedState(j)
  BY <1>15 DEF RepeatedState
<1>16. CASE ScanPage(j)
  BY <1>16 DEF ScanPage
<1>17. CASE Crash(j)
  BY <1>17 DEF Crash
<1>18. CASE LeaveLoop(j)
  BY <1>18 DEF LeaveLoop
<1>19. CASE FinishPartial(j)
  BY <1>19 DEF FinishPartial
<1>20. CASE FinishComplete(j)
  BY <1>20 DEF FinishComplete
<1>21. CASE Collect(j)
  BY <1>21 DEF Collect
<1>22. CASE EndJob(j)
  BY <1>22 DEF EndJob
<1> QED
  BY <1>1, <1>2, <1>3, <1>4, <1>5, <1>6, <1>7, <1>8, <1>9, <1>10, <1>11,
     <1>12, <1>13, <1>14, <1>15, <1>16, <1>17, <1>18, <1>19, <1>20, <1>21, <1>22 DEF JobStep

LEMMA OwnStart ==
    ASSUME Typed, NEW j \in Jobs, Own(j), NEW r \in Requests[j], StartJob(j, r)
    PROVE  Own(j)'
BY DEF StartJob, Typed, Own, Frontier, Launching, Stopped, Completed, At, Goto, crawl

LEMMA OwnStop ==
    ASSUME Typed, NEW j \in Jobs, Own(j), StopJob(j)
    PROVE  Own(j)'
<1>1. Len(report[j].inventory) \in Nat
  BY DEF Typed, Reports
<1>2. Stopped(j)'
  <2>1. CASE stop[j]
    BY <2>1 DEF StopJob, Typed, Own, Stopped, crawl
  <2>2. CASE ~stop[j]
    <3> DEFINE now == Len(report[j].inventory) + (IF At(j, "scan") THEN 1 ELSE 0)
    <3>1. allowed'[j] = now
      BY <2>2 DEF StopJob, Typed
    <3>2. report' = report /\ pc' = pc
      BY DEF StopJob, crawl
    <3>3. CASE pc[j] = "scan"
      <4>1. now = Len(report[j].inventory) + 1
        BY <3>3 DEF At
      <4> HIDE DEF now
      <4> QED
        BY <1>1, <3>1, <3>2, <4>1 DEF Stopped
    <3>4. CASE pc[j] # "scan"
      <4>1. now = Len(report[j].inventory)
        BY <1>1, <3>4 DEF At
      <4> HIDE DEF now
      <4> QED
        BY <1>1, <3>1, <3>2, <3>4, <4>1 DEF Stopped
    <3> QED
      BY <3>3, <3>4
  <2> QED
    BY <2>1, <2>2
<1>3. Frontier(j)' /\ Launching(j)' /\ Completed(j)'
  BY DEF StopJob, Own, Frontier, Ahead, Launching, Completed, Covered, UrlsOf, crawl
<1> QED
  BY <1>2, <1>3 DEF Own

LEMMA OwnRunJob ==
    ASSUME Typed, NEW j \in Jobs, Own(j), RunJob(j)
    PROVE  Own(j)'
BY DEF RunJob, Typed, Own, Frontier, Ahead, Launching, Stopped, Completed,
   AsAsked, Covered, UrlsOf, At, Goto, Report, Reports, crawl

LEMMA OwnRefuseUrl ==
    ASSUME Typed, NEW j \in Jobs, Own(j), RefuseUrl(j)
    PROVE  Own(j)'
BY DEF RefuseUrl, Typed, Own, Frontier, Ahead, Launching, Stopped, Completed,
   AsAsked, Covered, UrlsOf, At, Goto, Report, Reports, crawl

LEMMA OwnOverrideLimits ==
    ASSUME Typed, NEW j \in Jobs, Own(j), OverrideLimits(j)
    PROVE  Own(j)'
BY DEF OverrideLimits, Typed, Own, Frontier, Ahead, Launching, Stopped, Completed,
   AsAsked, Covered, UrlsOf, At, Goto, Report, Reports, crawl

LEMMA OwnEndJob ==
    ASSUME Typed, NEW j \in Jobs, Own(j), EndJob(j)
    PROVE  Own(j)'
BY DEF EndJob, Typed, Own, Frontier, Ahead, Launching, Stopped, Completed,
   AsAsked, Covered, UrlsOf, At, Goto, Report, Reports, crawl

LEMMA OwnLeaveLoop ==
    ASSUME Typed, NEW j \in Jobs, Own(j), LeaveLoop(j)
    PROVE  Own(j)'
BY DEF LeaveLoop, Typed, Own, Frontier, Ahead, Launching, Stopped, Completed,
   AsAsked, Covered, UrlsOf, At, Goto, Report, Reports, crawl

LEMMA OwnRepeatedState ==
    ASSUME Typed, NEW j \in Jobs, Own(j), RepeatedState(j)
    PROVE  Own(j)'
<1>1. /\ pc[j] = "scan" /\ pc'[j] = "loop"
      /\ report' = report /\ gap' = gap /\ pending' = pending /\ visited' = visited
      /\ queued' = queued /\ stop' = stop /\ ask' = ask /\ allowed' = allowed
  BY DEF RepeatedState, Typed, At, Goto, crawl
<1>2. Len(report[j].inventory) \in Nat /\ allowed[j] \in Nat
  BY DEF Typed, Reports
<1>3. Stopped(j)'
  BY <1>1, <1>2 DEF Own, Stopped
<1>4. Ahead(j)' = Ahead(j)
  BY <1>1 DEF Ahead, UrlsOf
<1>5. Frontier(j)' /\ Launching(j)' /\ Completed(j)'
  BY <1>1, <1>4 DEF Own, Frontier, Launching, Completed, Covered
<1> QED
  BY <1>3, <1>5 DEF Own

LEMMA OwnBreak ==
    ASSUME Typed, NEW j \in Jobs, Own(j), Break(j)
    PROVE  Own(j)'
BY DEF Break, Typed, Own, Frontier, Ahead, Launching, Stopped, Completed,
   AsAsked, Covered, UrlsOf, At, Goto, Report, GiveUp, Reports, crawl

LEMMA OwnRefuseSession ==
    ASSUME Typed, NEW j \in Jobs, Own(j), RefuseSession(j)
    PROVE  Own(j)'
BY DEF RefuseSession, Typed, Own, Frontier, Ahead, Launching, Stopped, Completed,
   AsAsked, Covered, UrlsOf, At, Goto, Report, Reports, crawl

LEMMA OwnBlocked ==
    ASSUME Typed, NEW j \in Jobs, Own(j), Blocked(j)
    PROVE  Own(j)'
BY DEF Blocked, Typed, Own, Frontier, Ahead, Launching, Stopped, Completed,
   AsAsked, Covered, UrlsOf, At, Goto, Report, GiveUp, Reports, crawl

LEMMA OwnCacheHit ==
    ASSUME Typed, NEW j \in Jobs, Own(j), CacheHit(j), FoundCovers
    PROVE  Own(j)'
<1>1. PICK e \in found :
        /\ e.key = ask[j]
        /\ Report(j, [status |-> "crawl_completed", inventory |-> e.inventory])
        /\ visited' = [visited EXCEPT ![j] = e.visited]
        /\ allowed' = [allowed EXCEPT ![j] = Len(e.inventory)]
  BY DEF CacheHit
<1>2. /\ report'[j] = [status |-> "crawl_completed", inventory |-> e.inventory]
      /\ visited'[j] = e.visited /\ allowed'[j] = Len(e.inventory)
      /\ pc'[j] = "generate" /\ ask' = ask /\ Len(e.inventory) \in Nat
  BY <1>1 DEF CacheHit, Typed, Report, Goto, Founds
<1> QED
  BY <1>1, <1>2 DEF Own, Frontier, Launching, Stopped, Completed, AsAsked, FoundCovers

LEMMA OwnCacheMiss ==
    ASSUME Typed, NEW j \in Jobs, Own(j), CacheMiss(j)
    PROVE  Own(j)'
<1>1. report'[j] = FreshReport /\ pc'[j] = "launch" /\ allowed'[j] \in Nat
  BY DEF CacheMiss, Typed, Report, Goto
<1> QED
  BY <1>1 DEF Own, Frontier, Launching, Stopped, Completed, FreshReport

LEMMA OwnLaunch ==
    ASSUME Typed, NEW j \in Jobs, Own(j), Launch(j)
    PROVE  Own(j)'
<1> DEFINE first == [url |-> ask[j].root, depth |-> 0]
<1>0. PICK seeds \in SUBSET Suggested : \E rest \in Listings(Entries(seeds, 1)) :
          /\ pending' = [pending EXCEPT ![j] = <<first>> \o rest]
          /\ queued' = [queued EXCEPT ![j] = seeds \cup {ask[j].root}]
  BY DEF Launch
<1>1. PICK rest \in Listings(Entries(seeds, 1)) :
          /\ pending' = [pending EXCEPT ![j] = <<first>> \o rest]
          /\ queued' = [queued EXCEPT ![j] = seeds \cup {ask[j].root}]
  BY <1>0
<1>2. /\ pc[j] = "launch" /\ pc'[j] = "loop"
      /\ report'[j].inventory = report[j].inventory /\ report'[j].status = "crawl_in_progress"
      /\ stop' = stop /\ allowed' = allowed /\ visited' = visited /\ ask' = ask
  <2>1. report[j] \in Reports
    BY DEF Typed
  <2> QED
    BY <2>1, StatusUpdate DEF Launch, Typed, At, Goto, Report, Statuses
<1>3. report'[j].inventory = <<>>
  BY <1>2 DEF Own, Launching
<1>4. seeds \in SUBSET Pages /\ rest \in Seq(Entry)
      /\ \A p \in seeds : \E i \in 1..Len(rest) : rest[i].url = p
  BY PagesAssumption, ListingType
<1>5. first \in Entry
  BY <1>2 DEF Typed, Request, Entry
<1>6. /\ pending'[j] = <<first>> \o rest
      /\ queued'[j] = seeds \cup {ask[j].root}
  BY <1>1 DEF Typed
<1>7. ASSUME NEW q \in queued'[j] PROVE q \in UrlsOf(pending'[j])
  <2>1. CASE q = ask[j].root
    <3>1. (<<first>> \o rest)[1].url = q /\ 1 \in 1..Len(<<first>> \o rest)
      BY <1>4, <1>5, <2>1
    <3> QED
      BY <1>6, <3>1 DEF UrlsOf
  <2>2. CASE q \in seeds
    <3>1. PICK i \in 1..Len(rest) : rest[i].url = q
      BY <1>4, <2>2
    <3>2. (<<first>> \o rest)[i + 1] = rest[i] /\ i + 1 \in 1..Len(<<first>> \o rest)
      BY <1>4, <1>5
    <3> QED
      BY <1>6, <3>1, <3>2 DEF UrlsOf
  <2> QED
    BY <1>6, <2>1, <2>2
<1>8. Covered(report'[j].inventory, Ahead(j)')
  BY <1>3 DEF Covered, Range
<1>9. Frontier(j)'
  BY <1>7, <1>8 DEF Frontier, Ahead
<1> QED
  BY <1>2, <1>3, <1>9 DEF Own, Launching, Stopped, Completed

LEMMA OwnTakeEntry ==
    ASSUME Typed, NEW j \in Jobs, Own(j), TakeEntry(j)
    PROVE  Own(j)'
<1> DEFINE e == Head(pending[j])
<1>1. /\ pending[j] \in Seq(Entry) /\ pending[j] # <<>> /\ pc[j] = "loop" /\ ~stop[j]
      /\ pending'[j] = Tail(pending[j]) /\ here'[j] = <<e>>
      /\ pc'[j] = IF e.url \in visited[j] THEN "loop" ELSE "page"
      /\ report' = report /\ gap' = gap /\ visited' = visited /\ queued' = queued
      /\ stop' = stop /\ ask' = ask
  BY DEF TakeEntry, MayContinue, Typed, At, Goto
<1>2. Ahead(j) \subseteq Ahead(j)'
  <2>1. \A i \in 1..Len(pending[j]) :
           i = 1 \/ (i - 1 \in 1..Len(Tail(pending[j])) /\ Tail(pending[j])[i - 1] = pending[j][i])
    BY <1>1
  <2>2. \A q \in UrlsOf(pending[j]) : q = e.url \/ q \in UrlsOf(Tail(pending[j]))
    BY <1>1, <2>1 DEF UrlsOf
  <2>3. e.url \in Ahead(j)'
    BY <1>1 DEF Ahead
  <2> QED
    BY <1>1, <2>2, <2>3 DEF Ahead
<1>3. Frontier(j)'
  BY <1>1, <1>2 DEF Own, Frontier, Covered
<1> QED
  BY <1>1, <1>3 DEF Own, Launching, Stopped, Completed

LEMMA RangeAppend ==
    ASSUME NEW s \in Seq(Pages), NEW p \in Pages
    PROVE  Range(Append(s, p)) = Range(s) \cup {p}
BY DEF Range

LEMMA OwnSkipPage ==
    ASSUME Typed, NEW j \in Jobs, Own(j), SkipPage(j)
    PROVE  Own(j)'
<1>1. /\ pc[j] = "page" /\ pc'[j] = "loop"
      /\ report' = report /\ pending' = pending /\ visited' = visited
      /\ queued' = queued /\ stop' = stop /\ ask' = ask /\ allowed' = allowed
      /\ gap'[j] \/ (gap'[j] = gap[j] /\ Lands[here[j][1].url] \in Elsewhere)
  BY DEF SkipPage, Typed, At, Goto, GiveUp
<1>2. Frontier(j)'
  BY <1>1 DEF Own, Frontier, Covered, Ahead
<1> QED
  BY <1>1, <1>2 DEF Own, Launching, Stopped, Completed

LEMMA OwnPageLoaded ==
    ASSUME Typed, NEW j \in Jobs, Own(j), PageLoaded(j)
    PROVE  Own(j)'
<1> DEFINE url == here[j][1].url
<1>1. /\ pc[j] = "page"
      /\ report' = report /\ pending' = pending /\ queued' = queued
      /\ stop' = stop /\ ask' = ask /\ allowed' = allowed /\ here' = here
  BY DEF PageLoaded, At
<1>2. CASE stop[j]
  <2>1. pc'[j] = "finish" /\ gap'[j]
    BY <1>2 DEF PageLoaded, Goto, GiveUp, Typed
  <2> QED
    BY <1>1, <2>1 DEF Own, Frontier, Launching, Stopped, Completed
<1>3. CASE ~stop[j]
  <2>1. pc'[j] = "scan" /\ gap' = gap /\ visited'[j] = visited[j] \cup {url, Lands[url]}
    BY <1>3 DEF PageLoaded, Goto, Typed
  <2>2. Ahead(j) \subseteq Ahead(j)'
    BY <1>1, <2>1 DEF Ahead
  <2>3. Frontier(j)'
    BY <1>1, <2>1, <2>2 DEF Own, Frontier, Covered
  <2> QED
    BY <1>1, <1>3, <2>1, <2>3 DEF Own, Launching, Stopped, Completed
<1> QED
  BY <1>2, <1>3

LEMMA OwnScanPage ==
    ASSUME Typed, NEW j \in Jobs, Own(j), ScanPage(j)
    PROVE  Own(j)'
<1> DEFINE page == Lands[here[j][1].url]
           open == IF Following(j) THEN Controls[page] ELSE {}
<1>1. PICK tried \in SUBSET open :
        /\ Report(j, [report[j] EXCEPT !.inventory = Append(@, page)])
        /\ gap' = [gap EXCEPT ![j] = @ \/ DepthSkipped(j) \/ tried # open]
        /\ \E rest \in Listings(Entries(NewUrls(j, tried), here[j][1].depth + 1)) :
              pending' = [pending EXCEPT ![j] = @ \o rest]
        /\ queued' = [queued EXCEPT ![j] = @ \cup NewUrls(j, tried)]
  BY DEF ScanPage
<1> DEFINE new == NewUrls(j, tried)
<1>2. PICK rest \in Listings(Entries(new, here[j][1].depth + 1)) :
              pending' = [pending EXCEPT ![j] = @ \o rest]
  BY <1>1
<1>3. /\ pc[j] = "scan" /\ pc'[j] = "loop"
      /\ stop' = stop /\ ask' = ask /\ allowed' = allowed /\ here' = here
      /\ visited' = visited
  BY DEF ScanPage, At, Goto, Typed
<1>4. page \in Pages /\ here[j][1].depth + 1 \in Nat
  BY <1>3, EntryType
<1>5. new \in SUBSET Pages
  <2>1. Links[page] \subseteq Pages /\ Opened(j, tried) \subseteq Pages
    BY <1>4, PagesAssumption DEF Opened
  <2> QED
    BY <2>1 DEF NewUrls
<1>6. rest \in Seq(Entry) /\ \A p \in new : \E i \in 1..Len(rest) : rest[i].url = p
  BY <1>4, <1>5, ListingType
<1>7. /\ report'[j].inventory = Append(report[j].inventory, page)
      /\ report'[j].status = report[j].status
      /\ report[j].inventory \in Seq(Pages)
  BY <1>1, <1>4, InventoryUpdate DEF Report, Typed, Reports
<1>8. Stopped(j)'
  BY <1>3, <1>7 DEF Own, Stopped, Typed
<1>9. pending[j] \in Seq(Entry) /\ pending'[j] = pending[j] \o rest
      /\ queued'[j] = queued[j] \cup new
      /\ gap'[j] = (gap[j] \/ DepthSkipped(j) \/ tried # open)
  BY <1>1, <1>2 DEF Typed
<1>10. new \subseteq Ahead(j)' /\ Ahead(j) \subseteq Ahead(j)'
  <2>1. \A i \in 1..Len(pending[j]) : i \in 1..Len(pending'[j]) /\ pending'[j][i] = pending[j][i]
    BY <1>6, <1>9
  <2>2. \A i \in 1..Len(rest) : /\ Len(pending[j]) + i \in 1..Len(pending'[j])
                                /\ pending'[j][Len(pending[j]) + i] = rest[i]
    BY <1>6, <1>9
  <2>3. UrlsOf(pending[j]) \subseteq UrlsOf(pending'[j])
    BY <2>1 DEF UrlsOf
  <2>4. new \subseteq UrlsOf(pending'[j])
    BY <1>6, <2>2 DEF UrlsOf
  <2> QED
    BY <1>3, <2>3, <2>4 DEF Ahead
<1>11. ASSUME ask[j].scope = "full", ~gap'[j]
       PROVE  /\ \A q \in queued'[j] : q \in Ahead(j)' \/ Lands[q] \in Elsewhere
              /\ Covered(report'[j].inventory, Ahead(j)')
  <2>1. ~gap[j] /\ ~DepthSkipped(j)
    BY <1>9, <1>11
  <2>2. /\ \A q \in queued[j] : q \in Ahead(j) \/ Lands[q] \in Elsewhere
        /\ Covered(report[j].inventory, Ahead(j))
    BY <1>3, <1>11, <2>1 DEF Own, Frontier
  <2>3. \A q \in queued'[j] : q \in Ahead(j)' \/ Lands[q] \in Elsewhere
    BY <1>9, <1>10, <2>2
  <2>4. ASSUME NEW q \in Links[page] PROVE q \in Ahead(j)' \/ Lands[q] \in Elsewhere
    <3>1. CASE Following(j)
      <4>1. q \in new \/ q \in visited[j] \/ q \in queued[j]
        BY <3>1 DEF NewUrls
      <4>2. visited[j] \subseteq Ahead(j)
        BY DEF Ahead
      <4> QED
        BY <4>1, <4>2, <1>10, <2>2
    <3>2. CASE ~Following(j)
      <4>1. here[j][1].depth >= settings.depth
        BY <3>2, <1>3, <1>11, EntryType DEF Following, Typed, Limits
      <4> QED
        BY <4>1, <1>11, <2>1 DEF DepthSkipped
    <3> QED
      BY <3>1, <3>2
  <2>5. Range(report'[j].inventory) = Range(report[j].inventory) \cup {page}
    BY <1>4, <1>7, RangeAppend
  <2>6. Covered(report'[j].inventory, Ahead(j)')
    BY <2>2, <2>4, <2>5, <1>10 DEF Covered
  <2> QED
    BY <2>3, <2>6
<1>12. Frontier(j)'
  BY <1>3, <1>11 DEF Frontier
<1> QED
  BY <1>3, <1>7, <1>8, <1>12 DEF Own, Launching, Completed

LEMMA OwnCrash ==
    ASSUME Typed, NEW j \in Jobs, Own(j), Crash(j)
    PROVE  Own(j)'
<1> DEFINE r == [report[j] EXCEPT !.status = "crawl_incomplete"]
<1>1. /\ pc'[j] = "generate" /\ report'[j] = r
      /\ stop' = stop /\ allowed' = allowed
  BY DEF Crash, Goto, Report, Typed
<1>2. r.status # "crawl_completed" /\ r.inventory = report[j].inventory
  BY StatusUpdate DEF Typed, Statuses
<1> HIDE DEF r
<1> QED
  BY <1>1, <1>2 DEF Own, Frontier, Launching, Stopped, Completed

LEMMA OwnFinishPartial ==
    ASSUME Typed, NEW j \in Jobs, Own(j), FinishPartial(j)
    PROVE  Own(j)'
<1> DEFINE r == IF report[j].status = "crawl_blocked" THEN report[j]
             ELSE [report[j] EXCEPT !.status = "crawl_incomplete"]
<1>1. /\ pc'[j] = "generate" /\ report'[j] = r
      /\ stop' = stop /\ allowed' = allowed
  BY DEF FinishPartial, Goto, Report, Typed
<1>2. r.status # "crawl_completed" /\ r.inventory = report[j].inventory
  BY StatusUpdate DEF Typed, Statuses
<1> HIDE DEF r
<1> QED
  BY <1>1, <1>2 DEF Own, Frontier, Launching, Stopped, Completed

(* A crawl that may be called complete has visited what its pages lead to, *)
(* or lists one page.                                                      *)
LEMMA CompleteCovers ==
    ASSUME Typed, NEW j \in Jobs, Own(j), FinishComplete(j)
    PROVE  AsAsked(ask[j], Listed(j), visited[j])
<1>1. pc[j] = "finish" /\ pending[j] = <<>> /\ ~gap[j] /\ report[j].inventory # <<>>
  BY DEF FinishComplete, Complete, At
<1>2. Ahead(j) = visited[j]
  BY <1>1 DEF Ahead, UrlsOf
<1>3. CASE ask[j].scope = "full"
  <2>1. Listed(j) = report[j].inventory
    BY <1>1, <1>3, ListedType
  <2> QED
    BY <1>1, <1>2, <1>3, <2>1 DEF Own, Frontier, AsAsked
<1>4. CASE ask[j].scope # "full"
  BY <1>1, <1>4, ListedType DEF AsAsked
<1> QED
  BY <1>3, <1>4

LEMMA OwnFinishComplete ==
    ASSUME Typed, NEW j \in Jobs, Own(j), FinishComplete(j)
    PROVE  Own(j)'
<1>1. /\ pc[j] = "finish" /\ pc'[j] = "collect"
      /\ report'[j] = [status |-> "crawl_completed", inventory |-> Listed(j)]
      /\ stop' = stop /\ allowed' = allowed /\ ask' = ask /\ visited' = visited
  BY DEF FinishComplete, Goto, At, Report, Typed
<1>2. report'[j].inventory = Listed(j)
  BY <1>1
<1>3. Completed(j)'
  BY <1>1, <1>2, CompleteCovers DEF Completed, AsAsked, Covered
<1>4. Stopped(j)'
  <2>1. /\ Len(Listed(j)) <= Len(report[j].inventory)
        /\ Len(Listed(j)) \in Nat /\ Len(report[j].inventory) \in Nat /\ allowed[j] \in Nat
    BY <1>1, ListedType DEF Typed, Reports
  <2> QED
    BY <1>1, <1>2, <2>1 DEF Own, Stopped
<1> QED
  BY <1>1, <1>3, <1>4 DEF Own, Frontier, Launching

LEMMA OwnCollect ==
    ASSUME Typed, NEW j \in Jobs, Own(j), Collect(j)
    PROVE  Own(j)'
BY DEF Collect, Goto, Typed, Own, Frontier, Launching, Stopped, Completed

-----------------------------------------------------------------------------
(* Each part of the invariant is preserved by a step of a job.             *)
LEMMA TypedStep ==
    ASSUME Typed, NEW j \in Jobs, Collecting(j), JobStep(j)
    PROVE  Typed'
<1>1. CASE RunJob(j)
  BY <1>1, TypedRunJob
<1>2. CASE RefuseUrl(j)
  BY <1>2, TypedRefuseUrl
<1>3. CASE OverrideLimits(j)
  BY <1>3, TypedOverrideLimits
<1>4. CASE CacheHit(j)
  BY <1>4, TypedCacheHit
<1>5. CASE CacheMiss(j)
  BY <1>5, TypedCacheMiss
<1>6. CASE Launch(j)
  BY <1>6, TypedLaunch
<1>7. CASE RefuseSession(j)
  BY <1>7, TypedRefuseSession
<1>8. CASE Blocked(j)
  BY <1>8, TypedBlocked
<1>9. CASE Break(j)
  BY <1>9, TypedBreak
<1>10. CASE TakeEntry(j)
  BY <1>10, TypedTakeEntry
<1>11. CASE SkipPage(j)
  BY <1>11, TypedSkipPage
<1>12. CASE PageLoaded(j)
  BY <1>12, TypedPageLoaded
<1>13. CASE RepeatedState(j)
  BY <1>13, TypedRepeatedState
<1>14. CASE ScanPage(j)
  BY <1>14, TypedScanPage
<1>15. CASE Crash(j)
  BY <1>15, TypedCrash
<1>16. CASE LeaveLoop(j)
  BY <1>16, TypedLeaveLoop
<1>17. CASE FinishPartial(j)
  BY <1>17, TypedFinishPartial
<1>18. CASE FinishComplete(j)
  BY <1>18, TypedFinishComplete
<1>19. CASE Collect(j)
  BY <1>19, TypedCollect DEF Collecting, Collect, At
<1>20. CASE EndJob(j)
  BY <1>20, TypedEndJob
<1> QED
  BY <1>1, <1>2, <1>3, <1>4, <1>5, <1>6, <1>7, <1>8, <1>9, <1>10,
     <1>11, <1>12, <1>13, <1>14, <1>15, <1>16, <1>17, <1>18, <1>19, <1>20 DEF JobStep

LEMMA OwnStep ==
    ASSUME Typed, NEW j \in Jobs, Own(j), FoundCovers, JobStep(j)
    PROVE  Own(j)'
<1>1. CASE RunJob(j)
  BY <1>1, OwnRunJob
<1>2. CASE RefuseUrl(j)
  BY <1>2, OwnRefuseUrl
<1>3. CASE OverrideLimits(j)
  BY <1>3, OwnOverrideLimits
<1>4. CASE CacheHit(j)
  BY <1>4, OwnCacheHit
<1>5. CASE CacheMiss(j)
  BY <1>5, OwnCacheMiss
<1>6. CASE Launch(j)
  BY <1>6, OwnLaunch
<1>7. CASE RefuseSession(j)
  BY <1>7, OwnRefuseSession
<1>8. CASE Blocked(j)
  BY <1>8, OwnBlocked
<1>9. CASE Break(j)
  BY <1>9, OwnBreak
<1>10. CASE TakeEntry(j)
  BY <1>10, OwnTakeEntry
<1>11. CASE SkipPage(j)
  BY <1>11, OwnSkipPage
<1>12. CASE PageLoaded(j)
  BY <1>12, OwnPageLoaded
<1>13. CASE RepeatedState(j)
  BY <1>13, OwnRepeatedState
<1>14. CASE ScanPage(j)
  BY <1>14, OwnScanPage
<1>15. CASE Crash(j)
  BY <1>15, OwnCrash
<1>16. CASE LeaveLoop(j)
  BY <1>16, OwnLeaveLoop
<1>17. CASE FinishPartial(j)
  BY <1>17, OwnFinishPartial
<1>18. CASE FinishComplete(j)
  BY <1>18, OwnFinishComplete
<1>19. CASE Collect(j)
  BY <1>19, OwnCollect
<1>20. CASE EndJob(j)
  BY <1>20, OwnEndJob
<1> QED
  BY <1>1, <1>2, <1>3, <1>4, <1>5, <1>6, <1>7, <1>8, <1>9, <1>10,
     <1>11, <1>12, <1>13, <1>14, <1>15, <1>16, <1>17, <1>18, <1>19, <1>20 DEF JobStep

LEMMA FoundStep ==
    ASSUME Typed, NEW j \in Jobs, Own(j), FoundCovers, JobStep(j)
    PROVE  FoundCovers'
<1>1. CASE FinishComplete(j)
  <2> DEFINE entry == [key |-> ask[j], inventory |-> Listed(j), visited |-> visited[j]]
  <2>1. found' \subseteq found \cup {entry}
    BY <1>1 DEF FinishComplete
  <2>2. AsAsked(entry.key, entry.inventory, entry.visited)
    BY <1>1, CompleteCovers
  <2> HIDE DEF entry
  <2> QED
    BY <2>1, <2>2 DEF FoundCovers, AsAsked, Covered
<1>2. CASE found' = found
  BY <1>2 DEF FoundCovers, AsAsked, Covered
<1> QED
  BY <1>1, <1>2 DEF JobStep, RunJob, RefuseUrl, OverrideLimits, CacheHit, CacheMiss, Launch, RefuseSession, Blocked, Break, TakeEntry, SkipPage, PageLoaded, RepeatedState, ScanPage, Crash, LeaveLoop, FinishPartial, Collect, EndJob

LEMMA PublishStep ==
    ASSUME NEW j \in Jobs, NEW r, NEW who, Publish(j, r, who),
           out \in [Jobs -> [who : Jobs \cup {NoJob}, status : Statuses \cup {"none"},
                             pages : SUBSET Pages]]
    PROVE  /\ out'[j].status = r.status /\ out'[j].who = who
           /\ out'[j].pages = Scanned(r)
BY DEF Publish

LEMMA PublishedStep ==
    ASSUME Typed, NEW j \in Jobs, Published(j), Own(j), Collecting(j), Apart(j), JobStep(j),
           ShownAtRoot, ask' = ask, pc'[j] # "idle",
           \A k \in Jobs \ {j} : report'[k] = report[k]
    PROVE  Published(j)'
<1>0. \A k \in Jobs : report[k].status = "crawl_completed" => report'[k] = report[k]
  BY DEF Apart
<1>1. CASE CacheHit(j)
  <2>1. PICK e \in found :
          /\ Report(j, [status |-> "crawl_completed", inventory |-> e.inventory])
          /\ Publish(j, [status |-> "crawl_completed", inventory |-> e.inventory], j)
    BY <1>1 DEF CacheHit
  <2>2. report'[j] = [status |-> "crawl_completed", inventory |-> e.inventory]
    BY <2>1 DEF Report, Typed
  <2> QED
    <3> DEFINE r == [status |-> "crawl_completed", inventory |-> e.inventory]
    <3>2. report'[j] = r /\ r.status = "crawl_completed" /\ Publish(j, r, j)
      BY <2>1, <2>2
    <3> HIDE DEF r
    <3>1. out'[j].who = j /\ out'[j].pages = Scanned(r)
      BY <3>2, PublishStep DEF Typed
    <3> QED
      BY <3>1, <3>2 DEF Published, Scanned
<1>2. CASE Crash(j)
  <2> DEFINE r == [report[j] EXCEPT !.status = "crawl_incomplete"]
  <2>1. r.status # "crawl_completed" /\ Publish(j, r, j)
    BY <1>2, StatusUpdate DEF Crash, Typed, Statuses
  <2> HIDE DEF r
  <2> QED
    BY <2>1, PublishStep DEF Typed, Published
<1>3. CASE FinishPartial(j)
  <2> DEFINE r == IF report[j].status = "crawl_blocked" THEN report[j]
                  ELSE [report[j] EXCEPT !.status = "crawl_incomplete"]
  <2>1. r.status # "crawl_completed" /\ Publish(j, r, j)
    BY <1>3, StatusUpdate DEF FinishPartial, Typed, Statuses
  <2> HIDE DEF r
  <2> QED
    BY <2>1, PublishStep DEF Typed, Published
<1>4. CASE Collect(j)
  <2> DEFINE who == shown[ask[j].root]
  <2>1. who \in Jobs
    <3>1. pc[j] = "collect" /\ ask[j].root \in Pages
      BY <1>4 DEF Collect, At, Typed, Request
    <3> QED
      BY <3>1 DEF Collecting, Typed
  <2>2. Publish(j, report[who], who)
    BY <1>4 DEF Collect
  <2>3. report' = report
    BY <1>4 DEF Collect
  <2> HIDE DEF who
  <2> QED
    <3>1. /\ out'[j].status = report[who].status /\ out'[j].who = who
          /\ out'[j].pages = Scanned(report[who])
      BY <2>2, PublishStep DEF Typed
    <3>2. ask[who].root = ask[j].root
      <4>1. pc[j] = "collect"
        BY <1>4 DEF Collect, At
      <4>2. ask[j].root \in Pages
        BY <4>1 DEF Typed, Request
      <4> QED
        BY <2>1, <4>2, NoJobAssumption DEF who, ShownAtRoot
    <3> QED
      BY <2>1, <2>3, <3>1, <3>2 DEF Published, Scanned
<1>5. CASE out' = out
  BY <1>0, <1>5 DEF Published, Scanned
<1> QED
  BY <1>1, <1>2, <1>3, <1>4, <1>5 DEF JobStep, RunJob, RefuseUrl, OverrideLimits, CacheMiss, Launch, RefuseSession, Blocked, Break, TakeEntry, SkipPage, PageLoaded, RepeatedState, ScanPage, LeaveLoop, FinishComplete, EndJob, crawl

LEMMA CollectingStep ==
    ASSUME Typed, NEW j \in Jobs, Collecting(j), Apart(j), JobStep(j)
    PROVE  Collecting(j)'
<1>1. CASE CacheMiss(j)
  <2>1. pc[j] = "lookup" /\ shown' = [shown EXCEPT ![ask[j].root] = j] /\ ask' = ask
    BY <1>1 DEF CacheMiss, At
  <2>2. ask[j].root \in Pages
    BY <2>1 DEF Typed, Request
  <2> QED
    BY <2>1, <2>2, NoJobAssumption DEF Collecting, Typed
<1>2. ASSUME pc[j] \in {"launch", "loop", "page", "scan", "finish", "collect"}, ask'[j] = ask[j]
      PROVE  Collecting(j)'
  <2>1. ask[j].root \in Pages
    BY <1>2 DEF Typed, Request
  <2> QED
    BY <1>2, <2>1 DEF Collecting, Apart
<1>3. CASE pc'[j] \in {"validate", "lookup", "generate", "ended"}
  BY <1>3 DEF Collecting
<1> QED
  BY <1>1, <1>2, <1>3 DEF JobStep, Typed, Goto, At,
     RunJob, RefuseUrl, OverrideLimits, CacheHit, Launch, RefuseSession, Blocked,
     Break, TakeEntry, SkipPage, PageLoaded, RepeatedState, ScanPage, Crash, LeaveLoop,
     FinishPartial, FinishComplete, Collect, EndJob

LEMMA ShownStep ==
    ASSUME Typed, ShownAtRoot, NEW j \in Jobs,
           (\E r \in Requests[j] : StartJob(j, r)) \/ StopJob(j) \/ JobStep(j)
    PROVE  /\ ShownAtRoot'
           /\ JobStep(j) => ask' = ask /\ pc'[j] # "idle"
<1>1. \/ shown' = shown
      \/ pc[j] # "idle" /\ shown' = [shown EXCEPT ![ask[j].root] = j]
  BY DEF StartJob, StopJob, JobStep, RunJob, RefuseUrl, OverrideLimits, CacheHit,
     CacheMiss, Launch, RefuseSession, Blocked, Break, TakeEntry, SkipPage, PageLoaded,
     RepeatedState, ScanPage, Crash, LeaveLoop, FinishPartial, FinishComplete, Collect,
     EndJob, At
<1>2. /\ \/ ask' = ask
         \/ pc[j] = "idle" /\ \A k \in Jobs \ {j} : ask'[k] = ask[k]
      /\ JobStep(j) => ask' = ask
  BY DEF StartJob, StopJob, JobStep, RunJob, RefuseUrl, OverrideLimits, CacheHit,
     CacheMiss, Launch, RefuseSession, Blocked, Break, TakeEntry, SkipPage, PageLoaded,
     RepeatedState, ScanPage, Crash, LeaveLoop, FinishPartial, FinishComplete, Collect,
     EndJob, At, Typed
<1>3. /\ \A k \in Jobs : pc'[k] = "idle" => pc[k] = "idle"
      /\ JobStep(j) => pc'[j] # "idle"
  BY DEF StartJob, StopJob, JobStep, RunJob, RefuseUrl, OverrideLimits, CacheHit,
     CacheMiss, Launch, RefuseSession, Blocked, Break, TakeEntry, SkipPage, PageLoaded,
     RepeatedState, ScanPage, Crash, LeaveLoop, FinishPartial, FinishComplete, Collect,
     EndJob, At, Goto, Typed
<1>4. ASSUME NEW p \in Pages, shown'[p] # NoJob
      PROVE  pc'[shown'[p]] # "idle" /\ ask'[shown'[p]].root = p
  <2>1. CASE shown'[p] = shown[p]
    <3>1. shown[p] \in Jobs /\ pc[shown[p]] # "idle" /\ ask[shown[p]].root = p
      BY <1>4, <2>1 DEF Typed, ShownAtRoot
    <3> QED
      BY <1>2, <1>3, <2>1, <3>1
  <2>2. CASE pc[j] # "idle" /\ p = ask[j].root /\ shown'[p] = j
    BY <1>2, <1>3, <2>2
  <2> QED
    BY <1>1, <2>1, <2>2 DEF Typed
<1> QED
  BY <1>2, <1>3, <1>4 DEF ShownAtRoot

LEMMA CrawlInvInit == Init => CrawlInv
<1> SUFFICES ASSUME Init PROVE CrawlInv
  OBVIOUS
<1>1. FoundCovers /\ ShownAtRoot
  BY DEF Init, FoundCovers, ShownAtRoot
<1>2. ASSUME NEW j \in Jobs PROVE Own(j) /\ Collecting(j) /\ Published(j)
  <2>1. pc[j] = "idle" /\ ~stop[j] /\ report[j] = FreshReport /\ out[j] = NothingOut
    BY DEF Init
  <2> QED
    BY <2>1 DEF Own, Frontier, Launching, Stopped, Completed, Collecting, Published,
       FreshReport, NothingOut
<1> QED
  BY <1>1, <1>2, TypedInit DEF CrawlInv

LEMMA CrawlInvNext == CrawlInv /\ [Next]_vars => CrawlInv'
<1> SUFFICES ASSUME CrawlInv, [Next]_vars PROVE CrawlInv'
  OBVIOUS
<1>1. CASE UNCHANGED vars
  <2>1. FoundCovers' /\ ShownAtRoot' /\ Typed'
    BY <1>1 DEF vars, crawl, CrawlInv, FoundCovers, ShownAtRoot, AsAsked, Covered, Typed
  <2>2. \A j \in Jobs : Frontier(j)' /\ Launching(j)' /\ Stopped(j)'
    BY <1>1 DEF vars, crawl, CrawlInv, Own, Frontier, Ahead, UrlsOf, Covered, Launching,
       Stopped
  <2>3. \A j \in Jobs : Completed(j)'
    BY <1>1 DEF vars, crawl, CrawlInv, Own, Completed, AsAsked, Covered
  <2>4. \A j \in Jobs : Collecting(j)' /\ Published(j)'
    BY <1>1 DEF vars, crawl, CrawlInv, Collecting, Published, Scanned
  <2> QED
    BY <2>1, <2>2, <2>3, <2>4 DEF CrawlInv, Own
<1>2. ASSUME NEW j \in Jobs,
             (\E r \in Requests[j] : StartJob(j, r)) \/ StopJob(j) \/ JobStep(j)
      PROVE  CrawlInv'
  <2> USE DEF CrawlInv
  <2>1. Apart(j)
    BY <1>2, StepApart DEF Own
  <2>2. Typed'
    BY <1>2, TypedStart, TypedStop, TypedStep
  <2>3. Own(j)'
    BY <1>2, OwnStart, OwnStop, OwnStep
  <2>4. \A k \in Jobs \ {j} : Own(k)'
    BY <2>1, OwnApart
  <2>5. FoundCovers'
    <3>1. CASE JobStep(j)
      BY <3>1, FoundStep
    <3>2. CASE found' = found
      BY <3>2 DEF FoundCovers, AsAsked, Covered
    <3> QED
      BY <1>2, <3>1, <3>2 DEF StartJob, StopJob
  <2>9. ShownAtRoot'
    BY <1>2, ShownStep
  <2>6. \A k \in Jobs : report[k].status = "crawl_completed" => report'[k] = report[k]
    BY <2>1 DEF Apart
  <2>10. \A k \in Jobs : report[k].status = "crawl_completed" => ask'[k] = ask[k]
    <3>1. ASSUME NEW k \in Jobs, report[k].status = "crawl_completed", pc[k] = "idle"
          PROVE  FALSE
      BY <3>1 DEF Own, Completed
    <3>2. ask' = ask \/ (pc[j] = "idle" /\ \A k \in Jobs \ {j} : ask'[k] = ask[k])
      <4>1. JobStep(j) => ask' = ask
        BY ShownStep
      <4> QED
        BY <1>2, <4>1 DEF StartJob, StopJob, At, Typed
    <3> QED
      BY <3>1, <3>2
  <2>7. \A k \in Jobs \ {j} : Collecting(k)' /\ Published(k)'
    <3> SUFFICES ASSUME NEW k \in Jobs \ {j} PROVE Collecting(k)' /\ Published(k)'
      OBVIOUS
    <3>1. pc'[k] = pc[k] /\ ask'[k] = ask[k] /\ out'[k] = out[k]
      BY <2>1 DEF Apart
    <3>2. Collecting(k)'
      <4>1. pc[k] # "idle" => ask[k].root \in Pages
        BY DEF Typed, Request
      <4> QED
        BY <2>1, <3>1, <4>1 DEF Collecting, Apart
    <3>3. Published(k)'
      BY <2>6, <2>10, <3>1 DEF Published, Scanned
    <3> QED
      BY <3>2, <3>3
  <2>8. Collecting(j)' /\ Published(j)'
    <3>1. CASE JobStep(j)
      BY <2>1, <3>1, CollectingStep, PublishedStep, ShownStep DEF Apart
    <3>2. CASE StopJob(j)
      BY <2>6, <3>2 DEF StopJob, Collecting, Published, Scanned
    <3>3. CASE \E r \in Requests[j] : StartJob(j, r)
      <4>1. pc[j] = "idle" /\ pc'[j] = "created" /\ out' = out
        BY <3>3 DEF StartJob, At, Goto, Typed
      <4> QED
        BY <4>1 DEF Collecting, Published
    <3> QED
      BY <1>2, <3>1, <3>2, <3>3
  <2> QED
    BY <2>2, <2>3, <2>4, <2>5, <2>7, <2>8, <2>9
<1> QED
  BY <1>1, <1>2 DEF Next
-----------------------------------------------------------------------------
(* The invariant holds throughout, whatever the jobs and the pages.        *)
THEOREM CrawlInvariant == Spec => []CrawlInv
BY CrawlInvInit, CrawlInvNext, PTL DEF Spec

(* Limits, tasks, frontiers and reports keep their types.                  *)
THEOREM CrawlTypes == Spec => []TypeOK
<1>1. CrawlInv => TypeOK
  BY DEF CrawlInv, Typed, TypeOK, Places, Reports, Statuses
<1> QED
  BY <1>1, CrawlInvariant, PTL

(* A stop is obeyed for any number of jobs, whatever pages they are at and *)
(* whatever limits the others put in force.  (cancel_event in _discover)   *)
THEOREM StopIsObeyed == Spec => []StopBounds
<1>1. CrawlInv => StopBounds
  BY DEF CrawlInv, Own, Stopped, StopBounds
<1> QED
  BY <1>1, CrawlInvariant, PTL

(* No cached discovery leaves out a link of its pages.  (the cache write   *)
(* and the conditions of crawl_completed in _discover)                     *)
THEOREM CachedCrawlsCover == Spec => []CacheCovers
<1>1. CrawlInv => CacheCovers
  BY DEF CrawlInv, FoundCovers, AsAsked, Covered, CacheCovers
<1> QED
  BY <1>1, CrawlInvariant, PTL

(* Whatever a job publishes as a completed crawl, its own or that of an    *)
(* overlapping job, is of its address and as its owner was asked: a crawl  *)
(* of the whole application leaves out no link of its pages, one of a      *)
(* single page lists no other.  (_discover, _completed_crawl_report)       *)
THEOREM PublishedCrawlsCover == Spec => []PublishedCovers
<1>1. CrawlInv => PublishedCovers
  <2> SUFFICES ASSUME CrawlInv, NEW j \in Jobs, out[j].status = "crawl_completed"
               PROVE  LET o == out[j] IN
                      /\ ask[o.who].root = ask[j].root
                      /\ IF ask[o.who].scope = "full"
                         THEN /\ o.pages # {}
                              /\ \A p \in o.pages : \A q \in Links[p] :
                                    q \in visited[o.who] \/ Lands[q] \in Elsewhere
                         ELSE o.pages \subseteq {ask[j].root}
    BY DEF PublishedCovers
  <2> DEFINE who == out[j].who
             inv == report[who].inventory
  <2>1. /\ who \in Jobs /\ report[who].status = "crawl_completed"
        /\ ask[who].root = ask[j].root
        /\ out[j].pages = Range(inv)
    BY DEF CrawlInv, Published, Scanned
  <2>2. AsAsked(ask[who], inv, visited[who]) /\ inv \in Seq(Pages)
    BY <2>1 DEF CrawlInv, Own, Completed, Typed, Reports
  <2>3. CASE ask[who].scope = "full"
    <3>1. inv # <<>> /\ Covered(inv, visited[who])
      BY <2>2, <2>3 DEF AsAsked
    <3>2. Range(inv) # {}
      <4>1. 1 \in DOMAIN inv
        BY <2>2, <3>1
      <4>2. inv[1] \in Range(inv)
        BY <4>1 DEF Range
      <4> QED
        BY <4>2
    <3> QED
      BY <2>1, <2>3, <3>1, <3>2 DEF Covered
  <2>4. CASE ask[who].scope # "full"
    BY <2>1, <2>2, <2>4 DEF AsAsked
  <2> QED
    BY <2>3, <2>4
<1> QED
  BY <1>1, CrawlInvariant, PTL
=============================================================================
