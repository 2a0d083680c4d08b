-------------------------------- MODULE MCWeb --------------------------------
(***************************************************************************)
(* One tab of the front end: any of its pages is mounted, the user clicks, *)
(* timers fire, services answer or do not, and continuations run, in any   *)
(* order.  Every page is an alternative of Init, so one run checks all.    *)
(***************************************************************************)
EXTENDS WebLists, WebReactions, WebFeeds, WebMessages, WebSpace, WebPost, WebEditor,
  WebForms

Init ==
  \/ ListInit \/ ReactionsInit \/ FeedsInit \/ ChatInit \/ SpacePagesInit \/ PostsInit \/ EditorPagesInit
  \/ FormsInit

User ==
  \/ ListUser \/ ReactionsUser \/ FeedsUser \/ ChatUser \/ SpaceUser \/ PostUser \/ EditorUser
  \/ FormsUser

Service(i) == ListService(i) \/ ReactionsService(i) \/ FeedsService(i) \/ ChatService(i) \/ SpaceService(i)
  \/ PostService(i) \/ EditorService(i) \/ FormsService(i) \/ Deny(i)

Then(i) == ListThen(i) \/ ReactionsThen(i) \/ FeedsThen(i) \/ ChatThen(i) \/ SpaceThen(i)
  \/ PostThen(i) \/ EditorThen(i) \/ FormsThen(i)

Next ==
  \/ User
  \/ \E i \in Positions : i \in DOMAIN net /\ (Service(i) \/ Then(i))

Spec == Init /\ [][Next]_vars

\* The oldest call is answered, refused or fails some time, and its
\* continuation runs: the browser settles every promise of a fetch.
FairSpec == Spec /\ WF_vars(Service(1)) /\ WF_vars(Then(1))

\* Whether the page shows its spinner.
Loading == "loading" \in DOMAIN ui /\ ui.loading

\* No page spins for ever: whatever its calls come to, and whatever the user
\* starts meanwhile, every path through their continuations clears loading.
LoadingEnds == Loading ~> ~Loading
==============================================================================
