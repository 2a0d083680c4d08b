-------------------------------- MODULE WebPost ------------------------------
(***************************************************************************)
(* The page of a post: what a reader does to it, its comments, and the     *)
(* author's editor.                                                        *)
(***************************************************************************)
EXTENDS WebPage

PostCount(x, others) == others + (IF x THEN 1 ELSE 0)
------------------------------------------------------------------------------
(***************************************************************************)
(* The reader.  The id may be a post's, or that of a creation posted       *)
(* nowhere, which is shown in the same way.                                *)
(***************************************************************************)
OtherLikes == 1
NoPost == [found |-> FALSE]

PostInit ==
  /\ page = "post"
  /\ ui = [loading |-> TRUE, known |-> FALSE, error |-> FALSE, body |-> FALSE, views |-> 0,
           liked |-> FALSE, likes |-> 0, marked |-> FALSE, following |-> FALSE,
           followLoading |-> FALSE, unlocking |-> FALSE]
  /\ net = <<Request("getPost", 0)>>
  /\ srv \in {[kind |-> k, locked |-> l, liked |-> x, marked |-> FALSE, follows |-> x, views |-> 0] :
                k \in {"post", "creation", "none"}, l \in BOOLEAN, x \in BOOLEAN}
  /\ mishap = FALSE

PostHeld(s) ==
  [found |-> TRUE, body |-> ~s.locked, views |-> s.views, liked |-> s.liked,
   likes |-> PostCount(s.liked, OtherLikes), marked |-> s.marked]

\* A creation has likes and bookmarks of its own, of which there are none.
GetPostServed(i) ==
  \/ Asked(i, {"getPost"}) /\ Reply(i, IF srv.kind = "post" THEN PostHeld(srv) ELSE NoPost, srv)
  \/ /\ Asked(i, {"getCreation"})
     /\ Reply(i, IF srv.kind = "creation"
                 THEN PostHeld([srv EXCEPT !.liked = FALSE, !.marked = FALSE]) ELSE NoPost, srv)

\* The effect of every new post object: whom the reader follows.
FetchFollowers == Fetch("isFollowed", 0)
ViewPost       == Request("view", 0)

ShowPost(s, d) ==
  [s EXCEPT !.known = TRUE, !.body = d.body, !.views = d.views, !.liked = d.liked,
            !.likes = d.likes, !.marked = d.marked]

\* Comments are the last to be loaded, and of a post only; a post that cannot
\* be had is looked for among the creations.
PostLoaded(i) ==
  \/ /\ Answered(i, {"getPost"})
     /\ IF IsOk(i) /\ Data(i).found
        THEN Settle(i, ShowPost(ui, Data(i)), <<Request("getComments", 0), ViewPost, FetchFollowers>>)
        ELSE Settle(i, ui, <<Request("getCreation", 0)>>)
  \/ /\ Answered(i, {"getCreation"})
     /\ IF IsOk(i) /\ Data(i).found
        THEN Settle(i, [ShowPost(ui, Data(i)) EXCEPT !.loading = FALSE], <<ViewPost, FetchFollowers>>)
        ELSE Settle(i, [ui EXCEPT !.loading = FALSE, !.error = TRUE], <<>>)
  \/ /\ Answered(i, {"getComments"})
     /\ Settle(i, [ui EXCEPT !.loading = FALSE], <<>>)

\* A wrong password puts an error in the place of the page.
PostShown == page = "post" /\ ~ui.loading /\ ui.known /\ ~ui.error

\* Only a post's views are counted; a creation's id is refused.
ViewServed(i) ==
  \/ /\ Asked(i, {"view"}) /\ srv.kind = "post"
     /\ Reply(i, srv.views + 1, [srv EXCEPT !.views = @ + 1])
  \/ Asked(i, {"getComments"}) /\ Reply(i, 0, srv)
  \/ Asked(i, {"isFollowed"}) /\ Reply(i, srv.follows, srv)

\* Mutant: a post object that is there keeps its number of views.
Bug_ViewsKept(i) ==
  \/ Answered(i, {"view"}) /\ Settle(i, ui, <<>>)
  \/ /\ Answered(i, {"isFollowed"})
     /\ Settle(i, [ui EXCEPT !.following = IF IsOk(i) THEN Data(i) ELSE @], <<>>)

\* The views make a new post object of the old one.
ViewDone(i) ==
  \/ /\ Answered(i, {"view"})
     /\ IF IsOk(i) THEN Settle(i, [ui EXCEPT !.views = Data(i)], <<FetchFollowers>>)
        ELSE Settle(i, ui, <<>>)
  \/ /\ Answered(i, {"isFollowed"})
     /\ Settle(i, [ui EXCEPT !.following = IF IsOk(i) THEN Data(i) ELSE @], <<>>)

HandleFollowAuthor ==
  /\ PostShown /\ ~ui.followLoading /\ ~mishap
  /\ Handle([ui EXCEPT !.followLoading = TRUE], <<Fetch("followAuthor", 0)>>)

HandleLike     == PostShown /\ ~mishap /\ Handle(ui, <<Request("likePost", 0)>>)
HandleBookmark == PostShown /\ ~mishap /\ Handle(ui, <<Request("markPost", 0)>>)

HandleUnlock(right) ==
  /\ PostShown /\ ~ui.body /\ ~ui.unlocking /\ ~mishap
  /\ Handle([ui EXCEPT !.unlocking = TRUE], <<Request("unlock", right)>>)

\* A like of a creation's id is stored as that of a post.
PostActDoneBy(op, s) ==
  CASE op = "followAuthor" -> [s EXCEPT !.follows = ~@]
    [] op = "likePost"     -> [s EXCEPT !.liked = ~@]
    [] op = "markPost"     -> [s EXCEPT !.marked = ~@]

ReaderOps == {"followAuthor", "likePost", "markPost"}

ReaderServed(i) ==
  \/ /\ Asked(i, ReaderOps)
     /\ LET s == PostActDoneBy(net[i].op, srv) IN
          Reply(i, CASE net[i].op = "followAuthor" -> s.follows
                     [] net[i].op = "likePost"     -> s.liked
                     [] OTHER                      -> s.marked, s)
  \/ Asked(i, {"unlock"}) /\ Reply(i, [right |-> net[i].arg, views |-> srv.views], srv)

\* The answer to a like carries no count.
ReaderDone(i) ==
  \/ /\ Answered(i, {"followAuthor"})
     /\ Settle(i, [ui EXCEPT !.followLoading = FALSE, !.following = IF IsOk(i) THEN Data(i) ELSE @], <<>>)
  \/ /\ Answered(i, {"likePost"})
     /\ Settle(i, IF ~IsOk(i) THEN ui
                  ELSE [ui EXCEPT !.liked = Data(i), !.likes = IF Data(i) THEN @ + 1 ELSE Max({0, @ - 1})], <<>>)
  \/ /\ Answered(i, {"markPost"})
     /\ Settle(i, [ui EXCEPT !.marked = IF IsOk(i) THEN Data(i) ELSE @], <<>>)
  \/ /\ Answered(i, {"unlock"})
     /\ IF IsOk(i) /\ Data(i).right
        THEN Settle(i, [ui EXCEPT !.unlocking = FALSE, !.body = TRUE, !.views = Data(i).views], <<FetchFollowers>>)
        ELSE Settle(i, [ui EXCEPT !.unlocking = FALSE, !.error = TRUE], <<>>)

\* A post ends up as the service has it: the heart and its count, the bookmark,
\* whether the author is followed, the views.  Every new post object asks again
\* for the followers, so that such an answer may come between a press of the
\* follow button and its own.
PostIsCurrent ==
  page = "post" /\ ui.known /\ srv.kind = "post" /\ Quiet /\ ~mishap =>
    /\ ui.liked = srv.liked /\ ui.likes = PostCount(srv.liked, OtherLikes)
    /\ ui.marked = srv.marked /\ ui.following = srv.follows /\ ui.views = srv.views
------------------------------------------------------------------------------
(***************************************************************************)
(* The comments, the newest of this tab first.  The page does not know     *)
(* which of them the reader likes before they are pressed.                 *)
(***************************************************************************)
NotesBound == 2            \* bound: comments of the post
NoteLikes  == 1            \* likes of others
Nobody     == 0            \* no reply form is open

NotesInit ==
  /\ page = "notes"
  /\ ui = [loading |-> TRUE, comments |-> <<>>, likedComments |-> {}, commentText |-> FALSE,
           replyTo |-> Nobody, replyText |-> FALSE, pressed |-> {}]
  /\ net = <<Request("getNotes", 0)>>
  /\ srv \in {[sent |-> 1, liked |-> {}], [sent |-> 1, liked |-> {1}]}
  /\ mishap = FALSE

NoteHeld(n, liked) == [id |-> n, likes |-> PostCount(n \in liked, NoteLikes)]

NotesOpen == page = "notes" /\ ~ui.loading /\ ~mishap

TypeComment == NotesOpen /\ ~ui.commentText /\ Update([ui EXCEPT !.commentText = TRUE])

\* Opens a reply form, or closes it.
OpenReply(n) ==
  /\ NotesOpen
  /\ Update([ui EXCEPT !.replyTo = IF @ = n THEN Nobody ELSE n, !.replyText = FALSE])

TypeReply == NotesOpen /\ ui.replyTo # Nobody /\ ~ui.replyText /\ Update([ui EXCEPT !.replyText = TRUE])

\* Nothing keeps a reader from sending a text twice.
HandleComment(parent) ==
  /\ NotesOpen /\ srv.sent < NotesBound
  /\ IF parent = Nobody THEN ui.commentText ELSE ui.replyTo = parent /\ ui.replyText
  /\ Handle(ui, <<Request("comment", parent)>>)

\* pressed: history, the hearts pressed since the mount.
HandleCommentLike(n) ==
  /\ NotesOpen
  /\ Handle([ui EXCEPT !.pressed = @ \cup {n}], <<Request("likeNote", n)>>)

NotesServed(i) ==
  \/ /\ Asked(i, {"getNotes"})
     /\ Reply(i, [n \in 1..srv.sent |-> NoteHeld(n, srv.liked)], srv)
  \/ /\ Asked(i, {"comment"}) /\ srv.sent < NotesBound
     /\ Reply(i, [id |-> srv.sent + 1, likes |-> NoteLikes], [srv EXCEPT !.sent = @ + 1])
  \/ /\ Asked(i, {"likeNote"})
     /\ LET liked == SymDiff(srv.liked, {net[i].arg}) IN
          Reply(i, net[i].arg \in liked, [srv EXCEPT !.liked = liked])

\* Mutant: a like is taken back on the heart, not in the count.
Bug_LikesOnlyGrow(i) ==
  \/ /\ Answered(i, {"getNotes"})
     /\ Settle(i, [ui EXCEPT !.loading = FALSE, !.comments = IF IsOk(i) THEN Data(i) ELSE @], <<>>)
  \/ /\ Answered(i, {"comment"})
     /\ Settle(i, IF IsOk(i) THEN [ui EXCEPT !.comments = <<Data(i)>> \o @] ELSE ui, <<>>)
  \/ /\ Answered(i, {"likeNote"})
     /\ Settle(i, IF ~IsOk(i) THEN ui
                  ELSE [ui EXCEPT !.likedComments = SymDiff(@, {net[i].arg}),
                                  !.comments = [k \in DOMAIN @ |-> IF @[k].id = net[i].arg
                                                  THEN [@[k] EXCEPT !.likes = @ + 1] ELSE @[k]]], <<>>)

\* Comment x when comment n is liked, or no longer.
Rated(x, n, liked) ==
  IF x.id = n THEN [x EXCEPT !.likes = Max({0, @ + (IF liked THEN 1 ELSE -1)})] ELSE x

NotesDone(i) ==
  \/ /\ Answered(i, {"getNotes"})
     /\ Settle(i, [ui EXCEPT !.loading = FALSE, !.comments = IF IsOk(i) THEN Data(i) ELSE @], <<>>)
  \/ /\ Answered(i, {"comment"})
     /\ LET put == [ui EXCEPT !.comments = <<Data(i)>> \o @] IN
          Settle(i, IF ~IsOk(i) THEN ui
                    ELSE IF net[i].arg = Nobody THEN [put EXCEPT !.commentText = FALSE]
                    ELSE [put EXCEPT !.replyTo = Nobody, !.replyText = FALSE], <<>>)
  \/ /\ Answered(i, {"likeNote"})
     /\ LET n == net[i].arg IN
          Settle(i, IF ~IsOk(i) THEN ui
                    ELSE [ui EXCEPT
                      !.likedComments = IF Data(i) THEN @ \cup {n} ELSE @ \ {n},
                      !.comments = [k \in DOMAIN @ |-> Rated(@[k], n, Data(i))]], <<>>)

\* Every comment is on the page once and with the service's number of likes,
\* and each heart that was pressed says what the service holds, though the
\* page never asks which comments the reader likes.
CommentsAreCurrent ==
  page = "notes" /\ Quiet /\ ~mishap =>
    /\ Len(ui.comments) = srv.sent
    /\ ToSet(ui.comments) = {NoteHeld(n, srv.liked) : n \in 1..srv.sent}
    /\ ui.likedComments = ui.pressed \cap srv.liked
------------------------------------------------------------------------------
(***************************************************************************)
(* The author's editor.  A title stands for title, text and tags.          *)
(***************************************************************************)
PostTitles   == 1..2
Visibilities == {"public", "unlisted"}
Unchanged    == "unchanged"
PostForm     == [title : PostTitles, visibility : Visibilities, password : BOOLEAN]

FormOf(p) == [title |-> p.title, visibility |-> p.visibility, password |-> FALSE]

EditorInit ==
  /\ page = "postEdit"
  /\ srv = [title |-> 1, visibility |-> "public", password |-> FALSE, deleted |-> FALSE]
  /\ ui = [post |-> srv, editing |-> FALSE, form |-> FormOf(srv), saved |-> [title |-> 1, password |-> FALSE], left |-> FALSE]
  /\ net = <<>>
  /\ mishap = FALSE

EditorShown == page = "postEdit" /\ ~ui.left /\ ~mishap

HandleEdit == EditorShown /\ ~ui.editing /\ Update([ui EXCEPT !.editing = TRUE, !.form = FormOf(ui.post)])

\* (The form of a closed editor is never read.)
HandleCancelEdit ==
  /\ EditorShown /\ ui.editing
  /\ Update([ui EXCEPT !.editing = FALSE, !.form = FormOf(ui.post)])

\* A visibility without a password forgets the one typed.
SetForm(f) ==
  /\ EditorShown /\ ui.editing
  /\ Update([ui EXCEPT !.form = [f EXCEPT !.password = @ /\ f.visibility = "unlisted"]])

\* saved: history, the title and password sent last.  A visibility is sent if it is not that
\* of the post on display.
HandleSaveEdit ==
  /\ EditorShown /\ ui.editing
  /\ Handle([ui EXCEPT !.saved = [title |-> ui.form.title, password |-> ui.form.password]],
            <<Request("savePost",
                [ui.form EXCEPT !.visibility = IF @ = ui.post.visibility THEN Unchanged ELSE @])>>)

HandleDelete == EditorShown /\ Handle(ui, <<Request("deletePost", 0)>>)

\* A password once set is kept: a blank one changes nothing.
SavedAs(s, a) ==
  [s EXCEPT !.title = a.title,
            !.visibility = IF a.visibility = Unchanged THEN @ ELSE a.visibility,
            !.password = @ \/ a.password]

EditorServed(i) ==
  \/ /\ Asked(i, {"savePost"}) /\ ~srv.deleted
     /\ LET s == SavedAs(srv, net[i].arg) IN Reply(i, s, s)
  \/ Asked(i, {"deletePost"}) /\ Reply(i, TRUE, [srv EXCEPT !.deleted = TRUE])

\* Mutant: shows the form, not the answer.
Bug_ShowsOwnForm(i) ==
  \/ /\ Answered(i, {"savePost"})
     /\ Settle(i, IF IsOk(i) THEN [ui EXCEPT !.post = ui.form @@ @, !.editing = FALSE] ELSE ui, <<>>)
  \/ /\ Answered(i, {"deletePost"})
     /\ Settle(i, [ui EXCEPT !.left = @ \/ IsOk(i)], <<>>)

\* The answer to a save closes the editor, whatever is in it by now.
EditorDone(i) ==
  \/ /\ Answered(i, {"savePost"})
     /\ Settle(i, IF IsOk(i) THEN [ui EXCEPT !.post = Data(i), !.editing = FALSE, !.form = FormOf(Data(i))]
                  ELSE ui, <<>>)
  \/ /\ Answered(i, {"deletePost"})
     /\ Settle(i, [ui EXCEPT !.left = @ \/ IsOk(i)], <<>>)

\* Though a form can be changed and sent again while a save is pending, the
\* post on display is the service's, with the title and the password that were
\* sent last; the author is taken away from a post once it is deleted.
EditedPostIsCurrent ==
  page = "postEdit" /\ Quiet /\ ~mishap =>
    /\ ui.left = srv.deleted
    /\ ~ui.left => /\ ui.post = srv
                   /\ srv.title = ui.saved.title
                   /\ ui.saved.password => srv.password
------------------------------------------------------------------------------
PostsInit == PostInit \/ NotesInit \/ EditorInit

PostUser ==
  \/ HandleFollowAuthor \/ HandleLike \/ HandleBookmark
  \/ \E right \in BOOLEAN : HandleUnlock(right)
  \/ TypeComment \/ TypeReply
  \/ \E n \in 1..NotesBound : page = "notes" /\ n <= Len(ui.comments) /\ (OpenReply(n) \/ HandleCommentLike(n))
  \/ \E n \in 0..NotesBound : HandleComment(n)
  \/ HandleEdit \/ HandleCancelEdit \/ HandleSaveEdit \/ HandleDelete
  \/ \E f \in PostForm : SetForm(f)

PostService(i) ==
  \/ GetPostServed(i) \/ ViewServed(i) \/ ReaderServed(i)
  \/ NotesServed(i) \/ EditorServed(i)

PostThen(i) ==
  \/ PostLoaded(i) \/ ViewDone(i) \/ ReaderDone(i)
  \/ NotesDone(i) \/ EditorDone(i)
==============================================================================
