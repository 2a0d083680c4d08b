------------------------------- MODULE WebSpace ------------------------------
(***************************************************************************)
(* The page of a space: the owner's list of posts, the visitor's buttons   *)
(* in the header, the owner's edit dialog and the subscriptions.           *)
(***************************************************************************)
EXTENDS WebPage

None == 0
------------------------------------------------------------------------------
(***************************************************************************)
(* The owner's posts and the featured ones, fetched together.  The key is  *)
(* "show hidden"; one effect serves it, the sort order and the page alike. *)
(***************************************************************************)
PostIds == 1..2
SpacePost == [id : PostIds, pinned : BOOLEAN, featured : BOOLEAN, hidden : BOOLEAN]

SpacePostsHeld(h, showHidden) == {p \in h : showHidden \/ ~p.hidden}

\* How often a post is among the featured ones; their order is left out.
Unfeatured == [n \in PostIds |-> 0]

FeaturedHeld(h) == [n \in PostIds |-> IF \E p \in h : p.id = n /\ p.featured /\ ~p.hidden THEN 1 ELSE 0]

FetchPosts(k) == Fetch("posts", k)

SpacePostsInit ==
  /\ page = "spacePosts"
  /\ ui = [key |-> FALSE, of |-> FALSE, posts |-> {}, featured |-> Unfeatured, loading |-> TRUE,
           fetching |-> TRUE]
  /\ net = <<FetchPosts(FALSE)>>
  /\ srv = {[id |-> n, pinned |-> FALSE, featured |-> n = 2, hidden |-> FALSE] : n \in PostIds}
  /\ mishap = FALSE

\* The effect of a new key returns early while a fetch is pending, and nothing
\* runs it again.  (mishap)
SetPostKey(k) ==
  /\ page = "spacePosts" /\ ~mishap /\ k # ui.key
  /\ Len(net) < MaxInFlight
  /\ ui' = [ui EXCEPT !.key = k, !.loading = TRUE, !.fetching = TRUE]
  /\ net' = IF ui.fetching THEN net ELSE Append(net, FetchPosts(k))
  /\ mishap' = ui.fetching
  /\ UNCHANGED <<page, srv>>

\* A featured list that cannot be fetched counts as an empty one.
PostsServed(i) ==
  /\ Asked(i, {"posts"})
  /\ LET held == SpacePostsHeld(srv, net[i].arg) IN
       \/ Reply(i, [posts |-> held, featured |-> FeaturedHeld(srv)], srv)
       \/ /\ net' = [net EXCEPT ![i].ans = Ok([posts |-> held, featured |-> Unfeatured])]
          /\ mishap' = TRUE
          /\ UNCHANGED <<page, ui, srv>>

PostsFetched(i) ==
  LET done == [ui EXCEPT !.loading = FALSE, !.fetching = FALSE] IN
  /\ Answered(i, {"posts"})
  /\ Settle(i, IF IsOk(i)
               THEN [done EXCEPT !.of = net[i].arg, !.posts = Data(i).posts, !.featured = Data(i).featured]
               ELSE done, <<>>)

\* Bound: the first post is pinned, the second featured; both are hidden.
PostActs(p) == IF p.hidden THEN {"unhide"} ELSE {"hide", IF p.id = 1 THEN "pin" ELSE "feature"}

\* Hiding and showing are one call, which flips.  (mishap: a post's call is
\* repeated while it is pending.)
PostAct(op, p) ==
  /\ page = "spacePosts" /\ ~mishap /\ ~ui.loading
  /\ p \in ui.posts
  /\ op \in PostActs(p)
  /\ Len(net) < MaxInFlight
  /\ net' = Append(net, Fetch(op, p.id))
  /\ mishap' = (op \in {"hide", "unhide"} /\ \E i \in DOMAIN net : net[i].op = op /\ net[i].arg = p.id)
  /\ UNCHANGED <<page, ui, srv>>

PostFlip(p, op) ==
  CASE op = "pin"     -> [p EXCEPT !.pinned = ~@]
    [] op = "feature" -> [p EXCEPT !.featured = ~@]
    [] OTHER          -> [p EXCEPT !.hidden = ~@]

PostOps == {"pin", "feature", "hide", "unhide"}

\* The answer says what the post is now.
PostActServed(i) ==
  /\ page = "spacePosts" /\ Asked(i, PostOps)
  /\ LET after == {IF p.id = net[i].arg THEN PostFlip(p, net[i].op) ELSE p : p \in srv} IN
       Reply(i, CHOOSE p \in after : p.id = net[i].arg, after)

\* What op's answer makes of a post on display.
PostPatched(p, op, d) ==
  IF p.id # d.id THEN p
  ELSE CASE op = "pin"     -> [p EXCEPT !.pinned = d.pinned]
         [] op = "feature" -> [p EXCEPT !.featured = d.featured]
         [] OTHER          -> [p EXCEPT !.hidden = FALSE]

\* Mutant: "feature" always adds, and hiding is all the same.
Bug_FeaturesAlways(i) ==
  /\ page = "spacePosts" /\ Answered(i, PostOps)
  /\ Settle(i, IF ~IsOk(i) THEN ui
               ELSE [ui EXCEPT !.posts = {PostPatched(p, net[i].op, Data(i)) : p \in @},
                               !.featured[net[i].arg] = IF net[i].op = "feature" THEN @ + 1 ELSE @], <<>>)

\* A post that becomes featured is put among them; one that is hidden is taken
\* off both lists, and one shown again is not put back among the featured.
PostActDone(i) ==
  LET op == net[i].op
      id == net[i].arg
      shown == IF op = "hide" THEN {p \in ui.posts : p.id # id}
               ELSE {PostPatched(p, op, Data(i)) : p \in ui.posts}
      times == CASE op = "hide" -> 0
                 [] op = "feature" -> IF Data(i).featured THEN ui.featured[id] + 1 ELSE 0
                 [] OTHER -> ui.featured[id]
  IN
  /\ page = "spacePosts" /\ Answered(i, PostOps)
  /\ Settle(i, IF IsOk(i) THEN [ui EXCEPT !.posts = shown, !.featured[id] = times] ELSE ui, <<>>)

\* However the owner pins, features and hides posts while others of these
\* calls and a fetch are pending: the posts on display are of the chosen key,
\* each as the service has it, and a post is shown as featured once, and only
\* if it is (though it may have been hidden while it was being featured).
SpacePostsAreCurrent ==
  page = "spacePosts" /\ Quiet /\ ~mishap =>
    /\ ui.of = ui.key
    /\ ui.posts \subseteq SpacePostsHeld(srv, ui.key)
    /\ \A n \in PostIds : /\ ui.featured[n] <= 1
                          /\ ui.featured[n] = 1 => \E p \in srv : p.id = n /\ p.featured
------------------------------------------------------------------------------
(***************************************************************************)
(* The header for a visitor.  The callbacks of the two toggles close over  *)
(* the space as it was when their flag last changed.                       *)
(***************************************************************************)
Toggles == {"follow", "star"}
Rest    == 1                 \* other users who follow, or star, the space

NoSpace == [known |-> FALSE, count |-> [t \in Toggles |-> 0]]
Off     == [t \in Toggles |-> FALSE]

SpaceInit ==
  /\ page = "space"
  /\ ui = [loading |-> TRUE, space |-> NoSpace, on |-> Off, busy |-> Off,
           captured |-> [t \in Toggles |-> NoSpace], member |-> FALSE, pending |-> FALSE,
           joining |-> FALSE, pressed |-> {}]
  /\ net = <<Fetch("space", None)>>
  /\ srv \in [on : [Toggles -> BOOLEAN], member : {"no", "yes"}, private : BOOLEAN]
  /\ mishap = FALSE

SpaceHeld(s) == [known |-> TRUE, count |-> [t \in Toggles |-> Rest + (IF s.on[t] THEN 1 ELSE 0)]]

SpaceServed(i) ==
  \/ Asked(i, {"space"}) /\ Reply(i, SpaceHeld(srv), srv)
  \/ Asked(i, {"status"}) /\ Reply(i, srv, srv)

FetchStatus == Fetch("status", None)

\* A toggle whose flag changes is given a callback for the space of that render.
Flagged(s, on) ==
  [s EXCEPT !.on = on, !.captured = [t \in Toggles |-> IF on[t] # s.on[t] THEN s.space ELSE @[t]]]

\* The space that appears starts the fetch of the visitor's status.
SpaceFetched(i) ==
  \/ /\ Answered(i, {"space"})
     /\ IF IsOk(i) THEN Settle(i, [ui EXCEPT !.loading = FALSE, !.space = Data(i)], <<FetchStatus>>)
        ELSE Settle(i, [ui EXCEPT !.loading = FALSE], <<>>)
  \/ /\ Answered(i, {"status"})
     /\ Settle(i, IF IsOk(i)
                  THEN [Flagged(ui, Data(i).on) EXCEPT !.member = Data(i).member = "yes",
                                                       !.pending = Data(i).member = "asked"]
                  ELSE ui, <<>>)

\* Bound: after a mishap, which the property exempts, nothing more is started.
SpaceShown == page = "space" /\ ~ui.loading /\ ui.space.known /\ ~mishap

\* pressed: history, the toggles pressed since the mount.
HandleToggle(t) ==
  /\ SpaceShown /\ ~ui.busy[t]
  /\ Handle([ui EXCEPT !.busy[t] = TRUE, !.pressed = @ \cup {t}],
            <<Request("toggle", [t |-> t, was |-> ui.on[t], space |-> ui.captured[t]])>>)

\* Following and starring what is followed or starred changes nothing.
ToggleServed(i) ==
  /\ Asked(i, {"toggle"})
  /\ Reply(i, TRUE, [srv EXCEPT !.on[net[i].arg.t] = ~net[i].arg.was])

\* The space the callback has captured, with its count one up or down, or no
\* space at all.
Counted(a) ==
  IF ~a.space.known THEN NoSpace
  ELSE [a.space EXCEPT !.count[a.t] = IF a.was THEN Max({0, @ - 1}) ELSE @ + 1]

\* A space that appears again starts the fetch of the status.
ToggleDone(i) ==
  LET a    == net[i].arg
      idle == [ui EXCEPT !.busy[a.t] = FALSE]
      next == Counted(a)
  IN
  /\ Answered(i, {"toggle"})
  /\ IF ~IsOk(i) THEN Settle(i, idle, <<>>)
     ELSE Settle(i, Flagged([idle EXCEPT !.space = next], [ui.on EXCEPT ![a.t] = ~a.was]),
                 IF next.known /\ ~ui.space.known THEN <<FetchStatus>> ELSE <<>>)

HandleJoinSpace ==
  /\ SpaceShown /\ ~ui.member /\ ~ui.pending /\ ~ui.joining
  /\ Handle([ui EXCEPT !.joining = TRUE], <<Request("joinSpace", None)>>)

\* A private space keeps one request of a user for its owner.
JoinSpaceServed(i) ==
  /\ Asked(i, {"joinSpace"})
  /\ LET m == IF srv.private THEN "asked" ELSE "yes" IN
       Reply(i, m, [srv EXCEPT !.member = IF @ = "yes" THEN @ ELSE m])

\* Mutant: a request to join counts as membership.
Bug_MemberOnRequest(i) ==
  /\ Answered(i, {"joinSpace"})
  /\ Settle(i, [ui EXCEPT !.joining = FALSE, !.member = @ \/ IsOk(i)], <<>>)

\* The status "pending" is a toast: the button may be pressed again.
JoinSpaceDone(i) ==
  /\ Answered(i, {"joinSpace"})
  /\ Settle(i, [ui EXCEPT !.joining = FALSE, !.member = @ \/ (IsOk(i) /\ Data(i) = "yes")], <<>>)

\* As long as the page shows the space, follow, star and membership are what
\* the service holds, however the three buttons are mixed; and so are both
\* counts for a visitor who uses only one of the two toggles.
SpaceHeaderIsCurrent ==
  page = "space" /\ Quiet /\ ~mishap /\ ui.space.known =>
    /\ ui.on = srv.on /\ ui.member = (srv.member = "yes")
    /\ Cardinality(ui.pressed) <= 1 => ui.space = SpaceHeld(srv)
------------------------------------------------------------------------------
(***************************************************************************)
(* Subscriptions to the tiers of the space.  The service keeps every tier  *)
(* subscribed to, oldest first, and names the newest.                      *)
(***************************************************************************)
TierIds == 1..2

Subscribed(s) == IF s = <<>> THEN None ELSE Last(s)

GetSubscription(shown) == Request("getSub", shown)

TiersInit ==
  /\ page = "subscribe"
  /\ ui = [loading |-> TRUE, sub |-> None, subscribing |-> None]
  /\ net = <<GetSubscription("first")>>
  /\ srv \in {<<>>, <<1>>}
  /\ mishap = FALSE

GetSubServed(i) == Asked(i, {"getSub"}) /\ Reply(i, Subscribed(srv), srv)

\* Only a subscription is taken over, never that there is none.
GetSubDone(i) ==
  /\ Answered(i, {"getSub"})
  /\ Settle(i, [ui EXCEPT !.sub = IF IsOk(i) /\ Data(i) # None THEN Data(i) ELSE @,
                          !.loading = FALSE,
                          !.subscribing = IF net[i].arg = "first" THEN @ ELSE None], <<>>)

\* The button of a tier is disabled while it is the last one pressed.
HandleSubscribe(t) ==
  /\ page = "subscribe" /\ ~ui.loading /\ ui.subscribing # t
  /\ Handle([ui EXCEPT !.subscribing = t],
            <<IF ui.sub = t THEN Request("cancelSub", None) ELSE Request("subscribe", t)>>)

SubscribeServed(i) ==
  \/ Asked(i, {"cancelSub"}) /\ Reply(i, TRUE, <<>>)
  \/ /\ Asked(i, {"subscribe"})
     /\ LET t == net[i].arg IN Reply(i, TRUE, IF t \in ToSet(srv) THEN srv ELSE Append(srv, t))

\* Mutant: the tier that was chosen is shown without asking for it.
Bug_ShowsChosen(i) ==
  \/ /\ Answered(i, {"cancelSub"})
     /\ Settle(i, [ui EXCEPT !.subscribing = None, !.sub = IF IsOk(i) THEN None ELSE @], <<>>)
  \/ /\ Answered(i, {"subscribe"})
     /\ Settle(i, [ui EXCEPT !.subscribing = None, !.sub = IF IsOk(i) THEN net[i].arg ELSE @], <<>>)

SubscribeDone(i) ==
  \/ /\ Answered(i, {"cancelSub"})
     /\ Settle(i, [ui EXCEPT !.subscribing = None, !.sub = IF IsOk(i) THEN None ELSE @], <<>>)
  \/ /\ Answered(i, {"subscribe"})
     /\ IF IsOk(i) THEN Settle(i, ui, <<GetSubscription("again")>>)
        ELSE Settle(i, [ui EXCEPT !.subscribing = None], <<>>)

\* The tier shown as subscribed is the service's, though a second tier may be
\* chosen, or the first cancelled, while the call for another is pending.
SubscriptionIsCurrent ==
  page = "subscribe" /\ Quiet /\ ~mishap => ui.sub = Subscribed(srv)
------------------------------------------------------------------------------
(***************************************************************************)
(* The owner's edit dialog.  A title stands for title and description.     *)
(***************************************************************************)
Blank   == 0
Titles  == {Blank, 1, 2}
NoIcon  == 0
Icons   == {NoIcon, 1}    \* icon and banner alike: the file a URL names

EditInit ==
  /\ page = "spaceEdit"
  /\ srv = [title |-> 1, icon |-> 1]
  /\ ui = [space |-> srv, form |-> srv, open |-> FALSE, saving |-> FALSE, uploading |-> FALSE]
  /\ net = <<>>
  /\ mishap = FALSE

OpenEdit ==
  /\ page = "spaceEdit" /\ ~ui.open /\ ~mishap
  /\ Update([ui EXCEPT !.form = ui.space, !.open = TRUE])

EditField ==
  /\ page = "spaceEdit" /\ ui.open /\ ~mishap
  /\ \/ \E t \in Titles \ {ui.form.title} : Update([ui EXCEPT !.form.title = t])
     \/ ui.form.icon # NoIcon /\ Update([ui EXCEPT !.form.icon = NoIcon])

CloseEdit == page = "spaceEdit" /\ ui.open /\ Update([ui EXCEPT !.open = FALSE])

HandleUploadIcon(f) ==
  /\ page = "spaceEdit" /\ ui.open /\ ~ui.uploading /\ ~mishap
  /\ Handle([ui EXCEPT !.uploading = TRUE], <<Request("uploadIcon", f)>>)

UploadServed(i) == Asked(i, {"uploadIcon"}) /\ Reply(i, net[i].arg, srv)

UploadDone(i) ==
  /\ Answered(i, {"uploadIcon"})
  /\ Settle(i, [ui EXCEPT !.uploading = FALSE, !.form.icon = IF IsOk(i) THEN Data(i) ELSE @], <<>>)

HandleSaveSpaceEdit ==
  /\ page = "spaceEdit" /\ ui.open /\ ~ui.saving /\ ~mishap
  /\ Handle([ui EXCEPT !.saving = TRUE], <<Request("saveSpace", ui.form)>>)

\* A blank title is not sent.
SaveSpaceServed(i) ==
  /\ Asked(i, {"saveSpace"})
  /\ LET f == net[i].arg IN
       Reply(i, TRUE, [title |-> IF f.title = Blank THEN srv.title ELSE f.title, icon |-> f.icon])

\* Mutant: shows the form as it is now.
Bug_ShowsForm(i) ==
  /\ Answered(i, {"saveSpace"})
  /\ Settle(i, IF IsOk(i) THEN [ui EXCEPT !.saving = FALSE, !.space = ui.form, !.open = FALSE]
               ELSE [ui EXCEPT !.saving = FALSE], <<>>)

\* Shows the form that was sent, and closes the dialog, whatever is in it now.
SaveSpaceDone(i) ==
  /\ Answered(i, {"saveSpace"})
  /\ Settle(i, IF IsOk(i) THEN [ui EXCEPT !.saving = FALSE, !.space = net[i].arg, !.open = FALSE]
               ELSE [ui EXCEPT !.saving = FALSE], <<>>)

\* Though the form changes while a save is pending, and an upload may put its
\* file into a form opened since, the page shows what the service holds, but
\* for a title or description that was saved blank.
EditIsCurrent ==
  page = "spaceEdit" /\ Quiet /\ ~mishap =>
    /\ ui.space.icon = srv.icon
    /\ ui.space.title # Blank => ui.space.title = srv.title
------------------------------------------------------------------------------
SpacePagesInit == SpacePostsInit \/ SpaceInit \/ TiersInit \/ EditInit

SpaceUser ==
  \/ \E k \in BOOLEAN : SetPostKey(k)
  \/ page = "spacePosts" /\ \E op \in PostOps, p \in ui.posts : PostAct(op, p)
  \/ \E t \in Toggles : HandleToggle(t)
  \/ HandleJoinSpace
  \/ \E t \in TierIds : HandleSubscribe(t)
  \/ OpenEdit \/ EditField \/ CloseEdit \/ HandleSaveSpaceEdit
  \/ \E f \in Icons \ {NoIcon} : HandleUploadIcon(f)

SpaceService(i) ==
  \/ PostsServed(i) \/ PostActServed(i)
  \/ SpaceServed(i) \/ ToggleServed(i) \/ JoinSpaceServed(i)
  \/ GetSubServed(i) \/ SubscribeServed(i)
  \/ UploadServed(i) \/ SaveSpaceServed(i)

SpaceThen(i) ==
  \/ PostsFetched(i) \/ PostActDone(i)
  \/ SpaceFetched(i) \/ ToggleDone(i) \/ JoinSpaceDone(i)
  \/ GetSubDone(i) \/ SubscribeDone(i)
  \/ UploadDone(i) \/ SaveSpaceDone(i)
==============================================================================
