------------------------------- MODULE WebFeeds ------------------------------
(***************************************************************************)
(* Lists that grow: the home feed (infinite scroll beside a pager), the    *)
(* creation center, and the profile page with its follow button.           *)
(***************************************************************************)
EXTENDS WebPage

FeedTabs  == 1..2
FeedPages == 3          \* bound: pages of a tab's feed; the last one is short
------------------------------------------------------------------------------
(***************************************************************************)
(* FeedLayout.  items: the pages on display, one after the other.          *)
(***************************************************************************)
FetchFeed(p, append, tab) == Fetch("feed", [p |-> p, append |-> append, tab |-> tab])

FeedInit ==
  /\ page = "feed"
  /\ ui = [tab |-> 1, page |-> 1, items |-> <<>>, hasMore |-> TRUE, loading |-> TRUE,
           loadingMore |-> FALSE, totalPages |-> 1]
  /\ net = <<FetchFeed(1, FALSE, 1)>>
  /\ srv = 0
  /\ mishap = FALSE

\* Mutant: a new tab keeps the number of the old one's page.
Bug_TabKeepsPage(t) ==
  /\ page = "feed" /\ t # ui.tab
  /\ Handle([ui EXCEPT !.tab = t, !.items = <<>>, !.hasMore = TRUE, !.loading = TRUE],
            <<FetchFeed(1, FALSE, t)>>)

\* The effect of a new tab.
FeedTab(t) ==
  /\ page = "feed" /\ t # ui.tab
  /\ Handle([ui EXCEPT !.tab = t, !.page = 1, !.items = <<>>, !.hasMore = TRUE, !.loading = TRUE],
            <<FetchFeed(1, FALSE, t)>>)

\* What is below the spinner: the sentinel the observer watches and the pager.
FeedIsDrawn == ~ui.loading /\ ui.items # <<>>

\* The sentinel comes into view.  The page is counted before it is there.
FeedScroll ==
  /\ page = "feed" /\ FeedIsDrawn
  /\ ui.hasMore /\ ~ui.loadingMore /\ ui.page <= FeedPages
  /\ Handle([ui EXCEPT !.loadingMore = TRUE, !.page = @ + 1],
            <<FetchFeed(ui.page + 1, TRUE, ui.tab)>>)

GoToPage(p) ==
  /\ page = "feed" /\ FeedIsDrawn
  /\ p \in 1..ui.totalPages
  /\ Handle([ui EXCEPT !.loading = TRUE, !.items = <<>>, !.page = p, !.hasMore = TRUE],
            <<FetchFeed(p, FALSE, ui.tab)>>)

FeedServed(i) ==
  /\ Asked(i, {"feed"})
  /\ LET a == net[i].arg IN
       Reply(i, [items |-> IF a.p <= FeedPages THEN <<<<a.tab, a.p>>>> ELSE <<>>,
                 short |-> a.p >= FeedPages], srv)

\* No answer is checked against the tab or the page it was asked for.
FeedLoaded(i) ==
  LET done == [ui EXCEPT !.loading = FALSE, !.loadingMore = FALSE] IN
  /\ Answered(i, {"feed"})
  /\ Settle(i, CASE IsOk(i) -> [done EXCEPT !.items = IF net[i].arg.append THEN @ \o Data(i).items
                                                      ELSE Data(i).items,
                                            !.totalPages = FeedPages,
                                            !.hasMore = @ /\ ~Data(i).short]
                 [] net[i].ans = Refused -> [done EXCEPT !.hasMore = FALSE]
                 [] OTHER -> done, <<>>)

\* However tabs, scrolling and the pager are mixed while answers are pending,
\* the feed ends as a seamless run of pages of the chosen tab that closes with
\* the page the pager names: none twice, none skipped, none of another tab.
FeedIsSeamless ==
  page = "feed" /\ Quiet /\ ~mishap =>
    /\ ui.items # <<>>
    /\ \A k \in DOMAIN ui.items :
         ui.items[k] = <<ui.tab, Min({ui.page, FeedPages}) - Len(ui.items) + k>>
------------------------------------------------------------------------------
(***************************************************************************)
(* The creation center: the owner's creations under a filter, a page of    *)
(* one after the other, newest first.                                      *)
(***************************************************************************)
CreationIds == 1..2       \* bound: creations held; one to a page
Filters == {"all", "published"}
Creation == [id : CreationIds, published : BOOLEAN, submitted : BOOLEAN, public : BOOLEAN]

CreationsHeld(h, f) == {c \in h : f = "published" => c.published}

LoadCreations(reset, f) ==
  Fetch("creations", [reset |-> reset, p |-> IF reset THEN 1 ELSE ui.page, filter |-> f])

CreationsInit ==
  /\ page = "creations"
  /\ ui = [creations |-> <<>>, loading |-> TRUE, page |-> 1, hasMore |-> TRUE, filter |-> "all"]
  /\ net = <<Fetch("creations", [reset |-> TRUE, p |-> 1, filter |-> "all"])>>
  /\ srv = {[id |-> n, published |-> n # 2, submitted |-> n = 1, public |-> TRUE] : n \in CreationIds}
  /\ mishap = FALSE

CreationsServed(i) ==
  /\ Asked(i, {"creations"})
  /\ LET p == net[i].arg.p IN
     \E s \in Listings(CreationsHeld(srv, net[i].arg.filter), Cardinality(CreationIds)) :
       Reply(i, IF p <= Len(s) THEN <<s[p]>> ELSE <<>>, srv)

\* Mutant: a reset leaves the number of the next page.
Bug_PageNotReset(i) ==
  /\ Answered(i, {"creations"})
  /\ Settle(i, IF ~IsOk(i) THEN [ui EXCEPT !.loading = FALSE]
               ELSE [ui EXCEPT !.loading = FALSE, !.hasMore = Data(i) # <<>>,
                               !.creations = IF net[i].arg.reset THEN Data(i) ELSE @ \o Data(i),
                               !.page = IF net[i].arg.reset THEN @ ELSE @ + 1], <<>>)

CreationsLoaded(i) ==
  /\ Answered(i, {"creations"})
  /\ Settle(i, IF ~IsOk(i) THEN [ui EXCEPT !.loading = FALSE]
               ELSE [ui EXCEPT !.loading = FALSE,
                               !.creations = IF net[i].arg.reset THEN Data(i) ELSE @ \o Data(i),
                               !.page = IF net[i].arg.reset THEN 2 ELSE @ + 1,
                               !.hasMore = Data(i) # <<>>], <<>>)

\* The calls after which the page loads again under the filter they were
\* started with; a submission from the dialog is another.
Reloading == {"withdraw"}

\* The effect of a new filter.  (mishap: a call will load again under the old one.)
SetFilter(f) ==
  /\ page = "creations" /\ f # ui.filter /\ ~mishap
  /\ Len(net) < MaxInFlight
  /\ ui' = [ui EXCEPT !.filter = f, !.loading = TRUE]
  /\ net' = Append(net, LoadCreations(TRUE, f))
  /\ mishap' = \E i \in DOMAIN net : net[i].op \in Reloading
  /\ UNCHANGED <<page, srv>>

\* (mishap: any answer clears loading, so that a page can be asked for while
\* an older load is still to come.)
LoadMoreCreations ==
  /\ page = "creations" /\ ~mishap
  /\ ui.creations # <<>> /\ ui.hasMore /\ ~ui.loading
  /\ Len(net) < MaxInFlight
  /\ ui' = [ui EXCEPT !.loading = TRUE]
  /\ net' = Append(net, LoadCreations(FALSE, ui.filter))
  /\ mishap' = \E i \in DOMAIN net : net[i].op = "creations"
  /\ UNCHANGED <<page, srv>>

\* What a card offers its owner.  (Bound: what is private stays private.)
CreationActs(c) ==
  {"delete"} \cup (IF c.public THEN {"visibility"} ELSE {})
             \cup (IF c.submitted THEN {"withdraw"} ELSE {})

ActOnCreation ==
  /\ page = "creations" /\ ~mishap
  /\ \E c \in ToSet(ui.creations) : \E op \in CreationActs(c) :
       Handle(ui, <<Fetch(op, [id |-> c.id, filter |-> ui.filter])>>)

CreationEffect(c, op, arg) ==
  IF c.id # arg.id THEN c
  ELSE IF op = "visibility" THEN [c EXCEPT !.public = FALSE]
  ELSE [c EXCEPT !.submitted = FALSE]

CreationActServed(i) ==
  \/ /\ Asked(i, {"delete"})
     /\ Reply(i, TRUE, {c \in srv : c.id # net[i].arg.id})
  \/ /\ Asked(i, {"visibility", "withdraw"})
     /\ Reply(i, TRUE, {CreationEffect(c, net[i].op, net[i].arg) : c \in srv})

CreationActDone(i) ==
  \/ /\ Answered(i, {"delete"})
     /\ Settle(i, IF IsOk(i)
                  THEN [ui EXCEPT !.creations = Without(@, net[i].arg.id)]
                  ELSE ui, <<>>)
  \/ /\ Answered(i, {"visibility"})
     /\ Settle(i, IF IsOk(i)
                  THEN [ui EXCEPT !.creations =
                          [k \in DOMAIN @ |-> CreationEffect(@[k], "visibility", net[i].arg)]]
                  ELSE ui, <<>>)
  \/ /\ Answered(i, Reloading)
     /\ IF IsOk(i) THEN Settle(i, [ui EXCEPT !.loading = TRUE], <<LoadCreations(TRUE, net[i].arg.filter)>>)
        ELSE Settle(i, ui, <<>>)

\* Every creation on display is one the service holds, as it holds it, under
\* the chosen filter, the newest first and none twice, whatever deletions,
\* withdrawals and changes of visibility were pending while the list was loaded.
CreationsAreCurrent ==
  page = "creations" /\ Quiet /\ ~mishap =>
    /\ ToSet(ui.creations) \subseteq CreationsHeld(srv, ui.filter)
    /\ NewestFirst(ui.creations)
------------------------------------------------------------------------------
(***************************************************************************)
(* The creation center's followers and followings, a list each.  The       *)
(* service holds whether the owner follows the one follower.               *)
(***************************************************************************)
InteractionTabs == {"followers", "following"}

InteractionsHeld(follows, tab) == tab = "followers" \/ follows

LoadInteractions(tab) == Request("interactions", tab)

InteractionsInit ==
  /\ page = "interactions"
  /\ ui = [tab |-> "followers", lists |-> [t \in InteractionTabs |-> FALSE], loading |-> TRUE]
  /\ net = <<LoadInteractions("followers")>>
  /\ srv \in BOOLEAN
  /\ mishap = FALSE

InteractionTab(t) ==
  /\ page = "interactions" /\ t # ui.tab
  /\ Handle([ui EXCEPT !.tab = t, !.loading = TRUE], <<LoadInteractions(t)>>)

InteractionsServed(i) ==
  Asked(i, {"interactions"}) /\ Reply(i, InteractionsHeld(srv, net[i].arg), srv)

\* Mutant: the answer goes to the tab that is open now.
Bug_LoadsOpenTab(i) ==
  /\ Answered(i, {"interactions"})
  /\ Settle(i, IF IsOk(i) THEN [ui EXCEPT !.lists[ui.tab] = Data(i), !.loading = FALSE]
               ELSE [ui EXCEPT !.loading = FALSE], <<>>)

InteractionsLoaded(i) ==
  /\ Answered(i, {"interactions"})
  /\ Settle(i, IF IsOk(i) THEN [ui EXCEPT !.lists[net[i].arg] = Data(i), !.loading = FALSE]
               ELSE [ui EXCEPT !.loading = FALSE], <<>>)

FollowToggle ==
  /\ page = "interactions" /\ ~ui.loading /\ ui.lists[ui.tab]
  /\ Handle(ui, <<Request("followToggle", ui.tab)>>)

FollowToggleServed(i) == Asked(i, {"followToggle"}) /\ Reply(i, ~srv, ~srv)

FollowToggled(i) ==
  /\ Answered(i, {"followToggle"})
  /\ IF IsOk(i) THEN Settle(i, [ui EXCEPT !.loading = TRUE], <<LoadInteractions(net[i].arg)>>)
     ELSE Settle(i, ui, <<>>)

\* The list of the chosen tab is the service's after any mix of toggles and
\* changes of the tab, though a toggle loads the list it was pressed on.
InteractionsAreCurrent ==
  page = "interactions" /\ Quiet /\ ~mishap => ui.lists[ui.tab] = InteractionsHeld(srv, ui.tab)
------------------------------------------------------------------------------
(***************************************************************************)
(* ProfilePageClient for a visitor.  The service holds whether the visitor *)
(* follows the profile's user.                                             *)
(***************************************************************************)
OtherFollowers == 1
FollowersBound == 3     \* bound: the number shown, which lost answers let drift

ProfileInit ==
  /\ page = "profile"
  /\ ui = [loading |-> TRUE, user |-> FALSE, isFollowing |-> FALSE, followers |-> 0,
           busy |-> FALSE, pressed |-> FALSE]
  /\ net = <<Request("profile", 0)>>
  /\ srv \in BOOLEAN
  /\ mishap = FALSE

FollowersHeld(follows) == OtherFollowers + (IF follows THEN 1 ELSE 0)

ProfileServed(i) ==
  /\ Asked(i, {"profile", "profileFollowers", "profileFollowing"})
  /\ Reply(i, FollowersHeld(srv), srv)

\* One call after the other, whatever the one before answered.  Whether the
\* visitor follows the user is not asked.
ProfileLoaded(i) ==
  \/ /\ Answered(i, {"profile"})
     /\ Settle(i, [ui EXCEPT !.user = IsOk(i)], <<Request("profileFollowers", 0)>>)
  \/ /\ Answered(i, {"profileFollowers"})
     /\ Settle(i, [ui EXCEPT !.followers = IF IsOk(i) THEN Data(i) ELSE @],
               <<Request("profileFollowing", 0)>>)
  \/ /\ Answered(i, {"profileFollowing"})
     /\ Settle(i, [ui EXCEPT !.loading = FALSE], <<>>)

\* pressed: history, the button was pressed since the mount.
HandleFollow ==
  /\ page = "profile" /\ ~ui.loading /\ ui.user /\ ~ui.busy
  /\ ui.followers < FollowersBound
  /\ Handle([ui EXCEPT !.busy = TRUE, !.pressed = TRUE], <<Request("follow", 0)>>)

FollowServed(i) == Asked(i, {"follow"}) /\ Reply(i, ~srv, ~srv)

\* Mutant: the answer flips the button.
Bug_FlipsFollowing(i) ==
  /\ Answered(i, {"follow"})
  /\ Settle(i, IF ~IsOk(i) THEN [ui EXCEPT !.busy = FALSE]
               ELSE [ui EXCEPT !.busy = FALSE, !.isFollowing = ~@,
                               !.followers = IF ui.isFollowing THEN Max({0, @ - 1}) ELSE @ + 1], <<>>)

FollowDone(i) ==
  /\ Answered(i, {"follow"})
  /\ Settle(i, IF ~IsOk(i) THEN [ui EXCEPT !.busy = FALSE]
               ELSE [ui EXCEPT !.busy = FALSE, !.isFollowing = Data(i),
                               !.followers = IF Data(i) THEN @ + 1 ELSE Max({0, @ - 1})], <<>>)

\* The number of followers is the service's; once the visitor has pressed the
\* button, so is what it says, though the page starts from "does not follow".
FollowIsCurrent ==
  page = "profile" /\ Quiet /\ ~mishap =>
    /\ ui.followers = FollowersHeld(srv)
    /\ ui.pressed => ui.isFollowing = srv
------------------------------------------------------------------------------
FeedsInit == FeedInit \/ CreationsInit \/ InteractionsInit \/ ProfileInit

FeedsUser ==
  \/ \E t \in FeedTabs : FeedTab(t)
  \/ FeedScroll
  \/ \E p \in 1..FeedPages : GoToPage(p)
  \/ \E f \in Filters : SetFilter(f)
  \/ LoadMoreCreations \/ ActOnCreation
  \/ \E t \in InteractionTabs : InteractionTab(t)
  \/ FollowToggle \/ HandleFollow

FeedsService(i) ==
  \/ FeedServed(i) \/ CreationsServed(i) \/ CreationActServed(i)
  \/ InteractionsServed(i) \/ FollowToggleServed(i) \/ ProfileServed(i) \/ FollowServed(i)

FeedsThen(i) ==
  \/ FeedLoaded(i) \/ CreationsLoaded(i) \/ CreationActDone(i)
  \/ InteractionsLoaded(i) \/ FollowToggled(i) \/ ProfileLoaded(i) \/ FollowDone(i)
==============================================================================
