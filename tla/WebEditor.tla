------------------------------- MODULE WebEditor -----------------------------
(***************************************************************************)
(* The page that writes a new article or uploads a video.  The draft of an *)
(* article is in the browser's storage and outlives the page.              *)
(***************************************************************************)
EXTENDS WebPage

NoText  == 0
Texts   == {NoText, 1, 2}   \* what the editor holds; 1 and 2 are not blank
Headers == {NoText, 1}      \* titles
NoDraft == [stored |-> FALSE, title |-> NoText, body |-> NoText]
------------------------------------------------------------------------------
(***************************************************************************)
(* The article.  The Markdown editor calls the onChange it was mounted     *)
(* with, which has the title of that render: mountedTitle.  Whether and    *)
(* when it reports a text the page has put into it is the library's.       *)
(***************************************************************************)
\* The state a mount finds: the storage is as the last page left it.  A draft
\* is offered, not put into the editor.
\* History: given, the page put the text on display there, and the editor has
\* not reported it; kept, the text last typed, reported or restored, here or
\* before a reload, and neither published nor discarded since.
Mounted(draft, kept) ==
  [title |-> NoText, body |-> NoText, mountedTitle |-> NoText, full |-> FALSE, offer |-> draft.stored,
   draft |-> draft, publishing |-> FALSE, left |-> FALSE, given |-> FALSE, kept |-> kept]

ComposeInit ==
  /\ page = "compose"
  /\ ui \in {Mounted(NoDraft, NoText), Mounted([stored |-> TRUE, title |-> 1, body |-> 1], 1)}
  /\ net = <<>>
  /\ srv = <<>>              \* the articles, by their text
  /\ mishap = FALSE

ComposeShown == page = "compose" /\ ~ui.left

HandleAutoSave(s, b) == [s EXCEPT !.draft = [stored |-> TRUE, title |-> s.mountedTitle, body |-> b]]

\* The editor's onChange.
EditorChange(b) == Update(HandleAutoSave([ui EXCEPT !.body = b, !.given = FALSE, !.kept = b], b))

TypeText(b) == ComposeShown /\ b # ui.body /\ EditorChange(b)

EditorReports == ComposeShown /\ ui.given /\ EditorChange(ui.body)

TypeTitle(t) == ComposeShown /\ t # ui.title /\ Update([ui EXCEPT !.title = t])

\* Entering and leaving full screen mounts another editor.
SetIsFullscreen ==
  ComposeShown /\ Update([ui EXCEPT !.full = ~@, !.mountedTitle = ui.title])

\* setBody: the page itself saves nothing.
SetBody(s, b) == IF b = s.body THEN s ELSE [s EXCEPT !.body = b, !.given = TRUE]

\* NoText parts are not restored.
RestoreDraft ==
  /\ ComposeShown /\ ui.offer /\ ~ui.full
  /\ LET d == ui.draft
         s == IF d.body = NoText THEN ui ELSE [SetBody(ui, d.body) EXCEPT !.kept = d.body]
     IN Update([s EXCEPT !.offer = FALSE, !.title = IF d.title # NoText THEN d.title ELSE @])

DiscardDraft ==
  /\ ComposeShown /\ ui.offer /\ ~ui.full
  /\ Update([ui EXCEPT !.offer = FALSE, !.draft = NoDraft, !.kept = NoText])

\* An import (handleImportMd) or an attachment (handleAttachmentUpload): a file
\* is read and uploaded; its text, or a link to it, goes to the end of the text
\* there is then.  Several may be on their way.
HandleFile == ComposeShown /\ ~ui.full /\ Handle(ui, <<Fetch("file", NoText)>>)

FileServed(i) == Asked(i, {"file"}) /\ Reply(i, TRUE, srv)

\* The text with something behind it: any other that is not blank.
FileDone(i) ==
  /\ Answered(i, {"file"})
  /\ \E b \in Texts \ {NoText} : Settle(i, IF IsOk(i) /\ ~ui.left THEN SetBody(ui, b) ELSE ui, <<>>)

ArticleBound == 2          \* bound: articles ever stored

\* Three buttons, disabled alike.
HandleSubmitText ==
  /\ ComposeShown /\ ui.title # NoText /\ ui.body # NoText /\ ~ui.publishing
  /\ Len(srv) < ArticleBound
  /\ Handle([ui EXCEPT !.publishing = TRUE], <<Fetch("create", ui.body)>>)

CreateServed(i) ==
  /\ Asked(i, {"create"})
  /\ Reply(i, TRUE, Append(srv, net[i].arg))

\* Mutant: the draft is removed whatever the answer.
Bug_RemovesDraft(i) ==
  /\ Answered(i, {"create"})
  /\ Settle(i, [ui EXCEPT !.publishing = FALSE, !.draft = NoDraft, !.left = IsOk(i)], <<>>)

\* The draft goes with the article, and so does what was typed meanwhile.  (The
\* calls that put the article into a series and into spaces come in between; if
\* they fail, a message says so and nothing else.)
CreateDone(i) ==
  /\ Answered(i, {"create"})
  /\ Settle(i, IF IsOk(i) THEN [ui EXCEPT !.publishing = FALSE, !.draft = NoDraft, !.left = TRUE, !.kept = NoText]
               ELSE [ui EXCEPT !.publishing = FALSE], <<>>)

\* The tab is reloaded, or opened again after a crash.  A call on its way may
\* still be handled.  (mishap: its answer is lost.)
Reload ==
  /\ page = "compose"
  /\ ui' = Mounted(ui.draft, ui.kept)
  /\ net' = <<>>
  /\ srv' \in {srv} \cup {Append(srv, net[i].arg) : i \in {k \in DOMAIN net : Asked(k, {"create"})}}
  /\ mishap' = (mishap \/ net # <<>>)
  /\ UNCHANGED page

\* What was last typed, or restored, is in storage until it is published, which
\* takes the user away, whatever reload, failed publication, change of editor,
\* import or attachment came between; only discarding the draft that is offered
\* gives it up.  A text on display is the stored one unless an import or an
\* attachment was put there that the editor has not reported: these are not
\* saved by the page.  The buttons never publish twice at a time, and the page
\* is left only when the article is stored.
DraftIsSafe ==
  page = "compose" =>
    /\ ui.kept # NoText =>
         ui.draft.stored /\ ui.draft.body = ui.kept /\ (ui.body \in {NoText, ui.kept} \/ ui.given)
    /\ ui.publishing => Cardinality({i \in DOMAIN net : net[i].op = "create"}) = 1
    /\ ui.left => srv # <<>>
------------------------------------------------------------------------------
(***************************************************************************)
(* The video: an upload, then up to three attempts to publish it in the    *)
(* spaces that were chosen when it began.                                  *)
(***************************************************************************)
Spaces      == 1..2
MaxRetries  == 3
VideoBound  == 2           \* bound: videos ever stored

UploadInit ==
  /\ page = "upload"
  /\ ui = [status |-> "idle", publishing |-> FALSE, error |-> FALSE, file |-> FALSE,
           submissions |-> {}, sent |-> {}]
  /\ net = <<>>
  \* open: the spaces whose video module is on; in: those the last video is in.
  /\ srv \in {[open |-> o, videos |-> 0, in |-> {}] : o \in {{1}, Spaces}}
  /\ mishap = FALSE

SetVideoFile == page = "upload" /\ ui.status # "success" /\ Update([ui EXCEPT !.file = ~@])

\* (Bound: spaces are chosen while nothing is uploaded.)
SetSubmission(s) ==
  /\ page = "upload" /\ ui.status # "success" /\ net = <<>>
  /\ Update([ui EXCEPT !.submissions = SymDiff(@, {s})])

\* sent: history, the spaces chosen for the last upload.
HandleVideoUpload ==
  /\ page = "upload" /\ ui.file /\ ~ui.publishing /\ ui.status # "uploading"
  /\ srv.videos < VideoBound
  /\ Handle([ui EXCEPT !.publishing = TRUE, !.error = FALSE, !.status = "uploading", !.sent = ui.submissions],
            <<Fetch("upload", ui.submissions)>>)

UploadMore ==
  /\ page = "upload" /\ ui.status = "success"
  /\ Update([ui EXCEPT !.status = "idle", !.file = FALSE, !.submissions = {}])

\* All spaces are checked before the video is put into the first.
VideoPublished(i) ==
  \/ /\ Asked(i, {"upload"})
     /\ Reply(i, TRUE, [srv EXCEPT !.videos = @ + 1, !.in = {}])
  \/ /\ Asked(i, {"publish"})
     /\ LET wanted == net[i].arg.spaces IN
          Reply(i, wanted \subseteq srv.open,
                IF wanted \subseteq srv.open THEN [srv EXCEPT !.in = @ \cup wanted] ELSE srv)

Publish(spaces, retry) == Fetch("publish", [spaces |-> spaces, retry |-> retry])

UploadEnds(s, ok) == [s EXCEPT !.publishing = FALSE, !.status = "success", !.error = ~ok]

\* Mutant: the upload ends well after its last attempt to publish.
Bug_NoErrorAtLast(i) ==
  \/ /\ Answered(i, {"upload"})
     /\ IF ~IsOk(i)
        THEN Settle(i, [ui EXCEPT !.publishing = FALSE, !.status = "error", !.error = TRUE], <<>>)
        ELSE Settle(i, ui, <<Publish(net[i].arg, 1)>>)
  \/ /\ Answered(i, {"publish"})
     /\ LET a == net[i].arg IN
          IF ~(IsOk(i) /\ Data(i)) /\ a.retry < MaxRetries THEN Settle(i, ui, <<Publish(a.spaces, a.retry + 1)>>)
          ELSE Settle(i, UploadEnds(ui, TRUE), <<>>)

VideoUploadDone(i) ==
  \/ /\ Answered(i, {"upload"})
     /\ IF ~IsOk(i)
        THEN Settle(i, [ui EXCEPT !.publishing = FALSE, !.status = "error", !.error = TRUE], <<>>)
        ELSE IF net[i].arg = {} THEN Settle(i, UploadEnds(ui, TRUE), <<>>)
        ELSE Settle(i, ui, <<Publish(net[i].arg, 1)>>)
  \/ /\ Answered(i, {"publish"})
     /\ LET a == net[i].arg IN
          IF IsOk(i) /\ Data(i) THEN Settle(i, UploadEnds(ui, TRUE), <<>>)
          ELSE IF a.retry < MaxRetries THEN Settle(i, ui, <<Publish(a.spaces, a.retry + 1)>>)
          ELSE Settle(i, UploadEnds(ui, FALSE), <<>>)

\* A video that is said to be uploaded is stored, and unless an error is shown
\* with it, it is in the spaces chosen for it and in no other, however many
\* attempts were refused or answered too late; as long as none was lost, the
\* error is shown only if a space would not have it.
UploadIsPublished ==
  page = "upload" /\ Quiet /\ ui.status = "success" =>
    /\ srv.videos > 0
    /\ ~ui.error => srv.in = ui.sent
    /\ ~mishap => ui.error = ~(ui.sent \subseteq srv.open)
------------------------------------------------------------------------------
EditorPagesInit == ComposeInit \/ UploadInit

EditorUser ==
  \/ \E b \in Texts : TypeText(b)
  \/ \E t \in Headers : TypeTitle(t)
  \/ EditorReports \/ SetIsFullscreen \/ RestoreDraft \/ DiscardDraft \/ HandleFile
  \/ HandleSubmitText \/ Reload
  \/ SetVideoFile \/ HandleVideoUpload \/ UploadMore
  \/ \E s \in Spaces : SetSubmission(s)

EditorService(i) == CreateServed(i) \/ FileServed(i) \/ VideoPublished(i)

EditorThen(i) == CreateDone(i) \/ FileDone(i) \/ VideoUploadDone(i)
==============================================================================
