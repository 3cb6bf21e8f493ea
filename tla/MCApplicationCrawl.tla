------------------------ MODULE MCApplicationCrawl ------------------------
(* Two crawl jobs over a small application.                  *)
EXTENDS ApplicationCrawl, TLC

CONSTANTS j1, j2

MCPages == {"home", "old", "list", "out"}
MCElsewhere == {"out"}
MCLands == [home |-> "home", old |-> "list", list |-> "list", out |-> "out"]
MCLinks == [home |-> {"old"}, old |-> {}, list |-> {"home", "out"}, out |-> {}]
MCControls == [home |-> {}, old |-> {}, list |-> {"home"}, out |-> {}]
MCSuggested == {}
WholeSite == [root |-> "home", scope |-> "full", page |-> 3, depth |-> 2]
OnePage == [root |-> "home", scope |-> "specific", page |-> 1, depth |-> 0]
MovedPage == [OnePage EXCEPT !.root = "old"]
MCRequests == (j1 :> {OnePage, MovedPage, WholeSite}) @@ (j2 :> {WholeSite})
MCConfigured == [page |-> 3, depth |-> 1]
=============================================================================
