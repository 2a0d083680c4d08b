------------------------------- MODULE WebLists ------------------------------
(***************************************************************************)
(* The pages and cards of the web front end whose state is one list        *)
(* fetched for one key: a page number, a tab, a number of days.  They      *)
(* share one machine; what differs is a row of the table Rows.  A route    *)
(* parameter (a tag, a user name) is no key: the router mounts the page    *)
(* anew when it changes.                                                   *)
(***************************************************************************)
EXTENDS WebPage

ListKeys == 1..2            \* bound: values of the key; page numbers, or tabs
ListIds  == 1..2            \* bound: entries the service can hold
Entries == [id : ListIds, mark : BOOLEAN]   \* mark: hidden, banned, resolved, read, pinned...

(***************************************************************************)
(* A row says:                                                             *)
(*   keys    the keys the page fetches for                                 *)
(*   paged   whether the key is a page number (one entry to a page)        *)
(*   starts  the initial value of loading                                  *)
(*   again   whether a fetch sets loading before it starts                 *)
(*   onError what an answer with code # 0 or a rejected promise leaves:    *)
(*           "keep" what is shown, "empty" nothing, "error" a message      *)
(*   spins   what loading hides: "page" all controls, "first" all controls *)
(*           while nothing is shown, "list" the list alone, "none"         *)
(*   pager   how the key is changed: "none", "tabs", "open" (next always   *)
(*           offered), "total" (next up to the last page), "full" (both    *)
(*           offered only under a full page)                               *)
(*   clears  whether a change of the key empties what is shown            *)
(*   acts    what can be done to an entry: "drop", "mark", "unmark",       *)
(*           "flip" the mark, "toggle" (hold the entry or not); to the     *)
(*           list: "add" an entry, "all" (mark every entry)                *)
(*   patched the acts that change what is shown when they are answered;    *)
(*           the others fetch the list again                               *)
(*   deaf    the acts that take a refusal for an answer with code 0        *)
(*   busy    which controls a pending act disables: "none"; "own" those    *)
(*           of its entry; "id" those of the entry acted on last, "saves"  *)
(*           those of "mark" and "add", until any act is answered; "drops"  *)
(*           those that drop and the own ones of "mark"                    *)
(*   picks   how entries are selected for a batch: "none", "shown" (the    *)
(*           batch acts on the selected entries on display), "each" (one   *)
(*           call after the other for every selected id), "drop" (one call *)
(*           that drops the selected, taken off the display when answered) *)
(*   unpicks whether a patched act takes its entry out of the selection    *)
(*   refresh whether a button, or a new object around, fetches again       *)
(***************************************************************************)
Plain ==
  [keys |-> {1}, paged |-> FALSE, starts |-> TRUE, again |-> FALSE,
   onError |-> "keep", spins |-> "list", pager |-> "none", clears |-> FALSE,
   acts |-> {}, patched |-> {}, deaf |-> {}, busy |-> "none", picks |-> "none", unpicks |-> FALSE,
   refresh |-> FALSE]

\* Several values of the key, fetched again in an effect that depends on it.
Tabbed == [Plain EXCEPT !.keys = ListKeys, !.again = TRUE, !.pager = "tabs"]

\* The pages.
Hot          == [Plain EXCEPT !.spins = "page"]
Trending     == Plain
Explore      == Plain
Events       == Plain
Drafts       == [Plain EXCEPT !.starts = FALSE, !.spins = "none"]
HashtagPosts == Plain
Followers    == Plain
Following    == Plain
SpaceVideos  == [Plain EXCEPT !.spins = "page"]
Series       == [Plain EXCEPT !.onError = "error", !.spins = "page"]
Leaderboard  == Tabbed
Polls        == [Tabbed EXCEPT !.paged = TRUE, !.onError = "empty", !.pager = "full"]

\* Cards inside other pages.
Recommendations  == Drafts
EditorPicks      == Drafts
TrendingHashtags == Drafts
WeeklyTopic      == Drafts
LeaderboardCard  == [Tabbed EXCEPT !.starts = FALSE, !.again = FALSE, !.spins = "none"]

\* Under a post: where it was published, and other posts of its space, which
\* every new post object fetches again.
PostRefs    == Drafts
PostRelated == [Drafts EXCEPT !.refresh = TRUE]
------------------------------------------------------------------------------
(***************************************************************************)
(* Lists of one's own: saved items, the profile, conversations,            *)
(* notifications, comments received.                                       *)
(***************************************************************************)
\* A tag's key can change under the page; a query loads the page anew.
Search == [Tabbed EXCEPT !.starts = FALSE, !.spins = "none"]

Saved == [Drafts EXCEPT !.acts = {"toggle"}, !.patched = {"toggle"}, !.busy = "id"]

ProfileBookmarks == Plain
ProfileLikes     == Plain
ProfileVideos    == Plain
ProfileContents  == Plain
ProfileWorksData == Plain
ProfileWorks     == ProfileWorksData
ProfileSpaces    == [Drafts EXCEPT !.acts = {"drop"}, !.patched = {"drop"}]

ConversationsData == [Plain EXCEPT !.again = TRUE, !.onError = "error", !.acts = {"drop", "flip"},
                        !.patched = {"drop"}]
Conversations     == [ConversationsData EXCEPT !.picks = "drop"]

NotificationsData == [Drafts EXCEPT !.acts = {"drop", "mark", "all"}, !.patched = {"drop", "mark", "all"},
                        !.deaf = {"drop", "mark", "all", "batch"}, !.picks = "drop", !.unpicks = TRUE]
Notifications     == [NotificationsData EXCEPT !.busy = "drops"]

ReceivedPosts    == Plain
ReceivedData     == [Tabbed EXCEPT !.clears = TRUE, !.acts = {"drop", "flip"},
                       !.patched = {"drop", "flip"}, !.deaf = {"drop"}]
Received         == [ReceivedData EXCEPT !.starts = FALSE]
------------------------------------------------------------------------------
(***************************************************************************)
(* Lists of a space, most of them its owner's.                             *)
(***************************************************************************)
\* Setting a role takes the way of a ban.
MembersData == Plain
Members     == MembersData
MemberActs  == [Members EXCEPT !.acts = {"mark", "unmark"}, !.busy = "own"]

JoinRequests == [Plain EXCEPT !.again = TRUE, !.spins = "page", !.acts = {"drop"},
                   !.patched = {"drop"}, !.busy = "id"]

ModulesData  == [Plain EXCEPT !.acts = {"drop", "mark", "add"}, !.patched = {"drop", "mark", "add"}]
Modules      == [ModulesData EXCEPT !.spins = "page", !.busy = "saves"]

ReposData    == [Plain EXCEPT !.again = TRUE, !.acts = {"add"}]
Repos        == [ReposData EXCEPT !.spins = "page", !.busy = "saves", !.refresh = TRUE]
RepoFiles    == [Tabbed EXCEPT !.clears = TRUE, !.starts = FALSE]

ProductsData == [Plain EXCEPT !.again = TRUE, !.acts = {"add"}]
Products     == [ProductsData EXCEPT !.spins = "page", !.busy = "saves", !.refresh = TRUE]

\* Tabs of the space.
SpaceOverview      == Plain
SpaceAnnouncements == Plain
SpaceMembers       == [MemberActs EXCEPT !.starts = FALSE]
SpaceSeries        == [Plain EXCEPT !.acts = {"add"}, !.busy = "saves"]
SpaceTiers         == [Plain EXCEPT !.acts = {"drop", "mark", "add"}, !.busy = "saves"]

SpaceStats     == [Plain EXCEPT !.again = TRUE, !.onError = "error", !.spins = "page"]
SpaceStatsMini == [SpaceStats EXCEPT !.onError = "keep"]
------------------------------------------------------------------------------
(***************************************************************************)
(* The administration pages: what they fetch and do, then what they offer. *)
(***************************************************************************)
AdminPaged == [Tabbed EXCEPT !.paged = TRUE, !.spins = "first", !.pager = "total"]

\* Statistics, health, growth and what is recent: fetched apart, never again.
AdminDashboardData == Plain
AdminDashboard     == [AdminDashboardData EXCEPT !.spins = "page"]

AdminCommentsData == [AdminPaged EXCEPT !.pager = "none", !.acts = {"drop"}]
AdminComments     == [AdminCommentsData EXCEPT !.pager = "total"]

AdminTransactions == AdminPaged

AdminAuditLogs    == AdminPaged

AdminReportsData  == [AdminPaged EXCEPT !.pager = "none", !.acts = {"mark"}]
AdminReports      == [AdminReportsData EXCEPT !.pager = "total"]

AdminUsersData    == [AdminPaged EXCEPT !.again = FALSE, !.pager = "none",
                       !.acts = {"mark", "unmark"}]
AdminUsers        == [AdminUsersData EXCEPT !.spins = "none", !.pager = "open"]

AdminSpaces       == [Plain EXCEPT !.spins = "none", !.acts = {"mark"}, !.deaf = {"mark"}]

AdminPosts        == [Plain EXCEPT !.acts = {"mark", "unmark", "drop"}, !.spins = "none"]
AdminPostsBatch   == [Plain EXCEPT !.picks = "each", !.spins = "none"]

AdminQueueData    == [AdminPaged EXCEPT !.pager = "none", !.acts = {"drop", "mark"}]
AdminQueue        == [AdminQueueData EXCEPT !.pager = "total"]
AdminQueueBatch   == [AdminPaged EXCEPT !.picks = "shown"]

AdminRulesData    == [Plain EXCEPT !.again = TRUE, !.acts = {"drop", "mark", "unmark", "add"}]
AdminRules        == [AdminRulesData EXCEPT !.spins = "first"]

AdminAnalytics    == [Tabbed EXCEPT !.spins = "page"]

Rows ==
  [hot |-> Hot, trending |-> Trending, explore |-> Explore, events |-> Events,
   drafts |-> Drafts, hashtag |-> HashtagPosts, followers |-> Followers,
   following |-> Following, leaderboard |-> Leaderboard, series |-> Series,
   polls |-> Polls, spaceVideos |-> SpaceVideos, recommendations |-> Recommendations,
   editorPicks |-> EditorPicks, trendingHashtags |-> TrendingHashtags,
   weeklyTopic |-> WeeklyTopic, leaderboardCard |-> LeaderboardCard,
   postRefs |-> PostRefs, postRelated |-> PostRelated,
   search |-> Search, saved |-> Saved, profileBookmarks |-> ProfileBookmarks,
   profileLikes |-> ProfileLikes, profileVideos |-> ProfileVideos,
   profileContents |-> ProfileContents, profileWorks |-> ProfileWorks,
   profileSpaces |-> ProfileSpaces, conversations |-> Conversations,
   notifications |-> Notifications, receivedPosts |-> ReceivedPosts, received |-> Received,
   members |-> MemberActs, joinRequests |-> JoinRequests, modules |-> Modules,
   repos |-> Repos, repoFiles |-> RepoFiles, products |-> Products,
   spaceOverview |-> SpaceOverview, spaceAnnouncements |-> SpaceAnnouncements,
   spaceMembers |-> SpaceMembers, spaceSeries |-> SpaceSeries, spaceTiers |-> SpaceTiers,
   spaceStats |-> SpaceStats, spaceStatsMini |-> SpaceStatsMini, adminDashboard |-> AdminDashboard,
   adminComments |-> AdminComments, adminTransactions |-> AdminTransactions,
   adminAuditLogs |-> AdminAuditLogs, adminReports |-> AdminReports,
   adminUsers |-> AdminUsers, adminSpaces |-> AdminSpaces, adminPosts |-> AdminPosts, adminPostsBatch |-> AdminPostsBatch,
   adminQueue |-> AdminQueue, adminQueueBatch |-> AdminQueueBatch, adminRules |-> AdminRules,
   adminAnalytics |-> AdminAnalytics]

ListPages == DOMAIN Rows
Row == Rows[page]
------------------------------------------------------------------------------
\* What the service answers for key k while it holds h.
ListHeld(h, k) ==
  IF Row.paged THEN {e \in h : Cardinality({x \in h : x.id <= e.id}) = k} ELSE h

FetchList(k) == Fetch("list", k)

ListInit ==
  /\ page \in ListPages
  /\ ui = [key |-> 1, of |-> 0, shown |-> {}, total |-> 0, loading |-> Row.starts \/ Row.again,
           error |-> FALSE, picked |-> {}, busy |-> 0]
  /\ net = <<FetchList(1)>>
  /\ srv \in {{}, [id : ListIds, mark : {FALSE}]}
  /\ mishap = FALSE

\* Whether the page renders anything but its spinner.
ListRenders ==
  \/ ~ui.loading
  \/ Row.spins \in {"list", "none"}
  \/ Row.spins = "first" /\ ui.shown # {}

ListIsDrawn == ListRenders /\ ~ui.error /\ ~(ui.loading /\ Row.spins = "list")

FullPage == ui.shown # {}

PrevOffered == ui.key > 1 /\ (Row.pager = "full" => FullPage)

NextOffered ==
  \/ Row.pager = "open"
  \/ Row.pager = "full" /\ FullPage
  \/ Row.pager = "total" /\ ui.key < ui.total

\* The key changes and its effect fetches.  (mishap: an act on the page left
\* is pending, and will fetch that page again.)
ListGo(k) ==
  /\ page \in ListPages /\ ListRenders
  /\ k \in Row.keys \ {ui.key}
  /\ \/ Row.pager = "tabs"
     \/ Row.pager \in {"open", "total", "full"} /\ k = ui.key + 1 /\ NextOffered
     \/ Row.pager \in {"open", "total", "full"} /\ k = ui.key - 1 /\ PrevOffered
  /\ Len(net) < MaxInFlight
  /\ ui' = [ui EXCEPT !.key = k, !.loading = @ \/ Row.again,
                       !.error = IF Row.again THEN FALSE ELSE @,
                       !.shown = IF Row.clears THEN {} ELSE @]
  /\ net' = Append(net, FetchList(k))
  /\ mishap' = (mishap \/ \E i \in DOMAIN net : net[i].op # "list")
  /\ UNCHANGED <<page, srv>>

\* The button that fetches again.
Refresh ==
  /\ page \in ListPages /\ ListRenders /\ Row.refresh
  /\ Handle([ui EXCEPT !.loading = @ \/ Row.again], <<FetchList(ui.key)>>)

\* Choosing the chosen entry of a list that clears: no effect runs, so nothing
\* is fetched for what was emptied.
ChooseAgain ==
  /\ page = "received" /\ Len(net) < MaxInFlight
  /\ ui' = [ui EXCEPT !.shown = {}]
  /\ mishap' = TRUE
  /\ UNCHANGED <<page, net, srv>>

ListServed(i) ==
  /\ page \in ListPages /\ Asked(i, {"list"})
  /\ Reply(i, [of |-> net[i].arg, shown |-> ListHeld(srv, net[i].arg), total |-> Cardinality(srv)], srv)

\* Mutant: loading is cleared with the data, not in finally.
Bug_LoadingStays(i) ==
  /\ page \in ListPages /\ Answered(i, {"list"})
  /\ Settle(i, IF IsOk(i)
               THEN [ui EXCEPT !.of = Data(i).of, !.shown = Data(i).shown,
                               !.total = Data(i).total, !.loading = FALSE]
               ELSE ui, <<>>)

\* then / catch / finally of the fetch.
ListFetched(i) ==
  /\ page \in ListPages /\ Answered(i, {"list"})
  /\ Settle(i, IF IsOk(i)
               THEN [ui EXCEPT !.of = Data(i).of, !.shown = Data(i).shown,
                               !.total = Data(i).total, !.loading = FALSE]
               ELSE [ui EXCEPT !.loading = FALSE, !.error = @ \/ Row.onError = "error",
                               !.shown = IF Row.onError = "empty" THEN {} ELSE @], <<>>)
------------------------------------------------------------------------------
\* Which acts an entry's row offers.
ActsOffered(e) == {a \in Row.acts \ {"add", "all"} : (a = "mark" => ~e.mark) /\ (a = "unmark" => e.mark)}

\* The acts on display with the entry they are for, 0 if the list.
ActsShown ==
  (UNION {ActsOffered(e) \X {e.id} : e \in ui.shown})
    \cup ({a \in Row.acts : a = "add" \/ (a = "all" /\ \E e \in ui.shown : ~e.mark)} \X {0})

ListAct(a, id) ==
  Fetch("act", [act |-> a, id |-> id, key |-> ui.key, seen |-> IF a = "all" THEN ui.shown ELSE {}])

ActPending == {net[i].arg : i \in {j \in DOMAIN net : net[j].op = "act"}}

BatchPending == \E i \in DOMAIN net : net[i].op = "batch"

Enabled(a, id) ==
  /\ Row.busy = "own" /\ a # "unmark" => \A x \in ActPending : x.id # id
  /\ Row.busy = "id" => ui.busy # id
  /\ Row.busy = "saves" /\ a # "drop" => ui.busy = 0
  /\ Row.busy = "drops" /\ a = "drop" => ~BatchPending /\ \A x \in ActPending : x.act # a
  /\ Row.busy = "drops" /\ a = "mark" => \A x \in ActPending : <<x.act, x.id>> # <<a, id>>

BusyWith(id) ==
  CASE Row.busy = "id" -> id [] Row.busy = "saves" -> 1 [] OTHER -> 0

\* (mishap: an entry is toggled again while its toggle is pending, or the
\* list is marked as it is now while an act on it is pending.)
DoAct ==
  /\ page \in ListPages /\ ListIsDrawn
  /\ \E offer \in ActsShown :
       LET a  == offer[1]
           id == offer[2]
       IN /\ Enabled(a, id)
          /\ Len(net) < MaxInFlight
          /\ ui' = [ui EXCEPT !.busy = BusyWith(id)]
          /\ net' = Append(net, ListAct(a, id))
          /\ mishap' = (\/ mishap
                         \/ (a = "toggle" /\ \E x \in ActPending : x.id = id)
                         \/ (a = "all" /\ (ActPending # {} \/ BatchPending)))
  /\ UNCHANGED <<page, srv>>

Ids(h) == {e.id : e \in h}

\* A list h after act a on entry id, or, for "add", with id as a new entry.
ListEffect(h, a, id) ==
  CASE a = "drop" \/ (a = "toggle" /\ id \in Ids(h)) -> {e \in h : e.id # id}
    [] a = "add" \/ (a = "toggle" /\ id \notin Ids(h)) -> h \cup {[id |-> id, mark |-> FALSE]}
    [] a = "all"  -> {[e EXCEPT !.mark = TRUE] : e \in h}
    [] a = "flip" -> {IF e.id = id THEN [e EXCEPT !.mark = ~@] ELSE e : e \in h}
    [] OTHER      -> {IF e.id = id THEN [e EXCEPT !.mark = (a = "mark")] ELSE e : e \in h}

\* The service chooses the id of a new entry; it answers the entry.
ActServed(i) ==
  /\ page \in ListPages /\ Asked(i, {"act"})
  /\ \E id \in IF net[i].arg.act = "add" THEN ListIds \ Ids(srv) ELSE {net[i].arg.id} :
       Reply(i, id, ListEffect(srv, net[i].arg.act, id))

\* The continuation takes the act to be done.
ActTaken(i) == IsOk(i) \/ (net[i].ans = Refused /\ net[i].arg.act \in Row.deaf)

\* What is shown after a patched act: marking all puts back the list that was
\* on display at the click.
Patched(i) ==
  LET a == net[i].arg.act IN
  CASE a = "all"    -> ListEffect(net[i].arg.seen, a, 0)
    [] a = "toggle" -> ListEffect(ui.shown, "drop", net[i].arg.id)
    [] a = "add"    -> ListEffect(ui.shown, a, Data(i))
    [] OTHER        -> ListEffect(ui.shown, a, net[i].arg.id)

\* Mutant: only the control is released, nothing is fetched again.
Bug_NoReload(i) ==
  /\ page \in ListPages /\ Answered(i, {"act"})
  /\ Settle(i, IF ActTaken(i) /\ net[i].arg.act \in Row.patched
               THEN [ui EXCEPT !.busy = 0, !.shown = Patched(i)]
               ELSE [ui EXCEPT !.busy = 0], <<>>)

\* An act answered: what is shown is patched, or the page the act was done on
\* is fetched again.
ActDone(i) ==
  LET idle == [ui EXCEPT !.busy = 0] IN
  /\ page \in ListPages /\ Answered(i, {"act"})
  /\ IF ~ActTaken(i) THEN Settle(i, [idle EXCEPT !.error = @ \/ Row.onError = "error"], <<>>)
     ELSE IF net[i].arg.act \in Row.patched
     THEN Settle(i, [idle EXCEPT !.shown = Patched(i),
                                 !.picked = IF Row.unpicks THEN @ \ {net[i].arg.id} ELSE @], <<>>)
     ELSE Settle(i, [idle EXCEPT !.loading = @ \/ Row.again], <<FetchList(net[i].arg.key)>>)
------------------------------------------------------------------------------
ShownIds == Ids(ui.shown)

ToggleSelect ==
  /\ page \in ListPages /\ ListIsDrawn /\ Row.picks # "none"
  /\ \E id \in ShownIds : Update([ui EXCEPT !.picked = SymDiff(@, {id})])

\* Compares the sizes, not the sets.
ToggleAll ==
  /\ page \in ListPages /\ ListIsDrawn /\ Row.picks # "none"
  /\ Update([ui EXCEPT !.picked = IF Cardinality(@) = Cardinality(ui.shown) THEN {} ELSE ShownIds])

BatchCall(ids) == Fetch("batch", [ids |-> ids, key |-> ui.key])

\* "shown" sends the selected entries on display in one call; "each" takes
\* the ids selected now one after the other; "drop" waits for its own call.
StartBatch ==
  /\ page \in ListPages /\ ListRenders /\ Row.picks # "none" /\ ui.picked # {}
  /\ Row.picks = "drop" => ListIsDrawn /\ ~BatchPending
  /\ Row.busy = "drops" => \A x \in ActPending : x.act # "drop"
  /\ Handle(ui, <<BatchCall(IF Row.picks = "shown" THEN ui.picked \cap ShownIds ELSE ui.picked)>>)

BatchNow(ids) == IF Row.picks = "each" THEN {Min(ids)} ELSE ids

BatchServed(i) ==
  LET ids == BatchNow(net[i].arg.ids) IN
  /\ page \in ListPages /\ Asked(i, {"batch"})
  /\ Reply(i, TRUE, IF Row.picks = "drop" THEN {e \in srv : e.id \notin ids}
                    ELSE {IF e.id \in ids THEN [e EXCEPT !.mark = TRUE] ELSE e : e \in srv})

BatchGoesOn(i) ==
  /\ page \in ListPages /\ Answered(i, {"batch"}) /\ Row.picks = "each"
  /\ Cardinality(net[i].arg.ids) > 1
  /\ Settle(i, ui, <<[net[i] EXCEPT !.arg.ids = @ \ BatchNow(@), !.ans = Pending]>>)

BatchDone(i) ==
  /\ page \in ListPages /\ Answered(i, {"batch"})
  /\ Row.picks = "each" => Cardinality(net[i].arg.ids) = 1
  /\ IF ~(IsOk(i) \/ Row.picks = "each" \/ (net[i].ans = Refused /\ "batch" \in Row.deaf))
     THEN Settle(i, [ui EXCEPT !.error = @ \/ Row.onError = "error"], <<>>)
     ELSE IF Row.picks = "drop"
     THEN Settle(i, [ui EXCEPT !.picked = {}, !.shown = {e \in @ : e.id \notin net[i].arg.ids}], <<>>)
     ELSE Settle(i, [ui EXCEPT !.picked = {}, !.loading = @ \/ Row.again],
                 <<FetchList(net[i].arg.key)>>)

\* Bound: after a mishap, which ListIsCurrent exempts, nothing more is started.
ListUser ==
  /\ ~mishap
  /\ \/ \E k \in ListKeys : ListGo(k)
     \/ Refresh \/ ChooseAgain
     \/ DoAct
     \/ ToggleSelect \/ ToggleAll \/ StartBatch

ListService(i) == ListServed(i) \/ ActServed(i) \/ BatchServed(i)

ListThen(i) == ListFetched(i) \/ ActDone(i) \/ BatchGoesOn(i) \/ BatchDone(i)
------------------------------------------------------------------------------
\* Once no call is pending, the list on display is the one the service holds
\* for the key the user chose last, unless a call failed, answers overtook one
\* another or the user left a page of the list while an act on it was pending:
\* every change of a key and every act that was carried out has fetched again.
ListIsCurrent ==
  page \in ListPages /\ Quiet /\ ~mishap =>
    ui.of = ui.key /\ ui.shown = ListHeld(srv, ui.key)
==============================================================================
