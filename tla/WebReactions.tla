----------------------------- MODULE WebReactions ----------------------------
(***************************************************************************)
(* What a reader does to one item: the vote arrows, the poll card, the     *)
(* buttons that act once (tip, join an event), the video page and the      *)
(* content card of the creation center.                                    *)
(***************************************************************************)
EXTENDS WebPage

Others == 1             \* votes of other users, up and down alike
B(x) == IF x THEN 1 ELSE 0
------------------------------------------------------------------------------
(***************************************************************************)
(* VoteButton.  The service holds this user's vote: -1, 0 or 1.            *)
(***************************************************************************)
Score(v) == [up |-> Others + B(v = 1), down |-> Others + B(v = -1)]

VoteInit ==
  /\ page = "vote"
  /\ ui = [up |-> 0, down |-> 0, mine |-> 0, loading |-> TRUE, cast |-> FALSE]
  /\ net = <<Request("score", 0)>>
  /\ srv \in {-1, 0, 1}
  /\ mishap = FALSE

\* GET /vote is public and does not say how this user voted.
ScoreServed(i) == Asked(i, {"score"}) /\ Reply(i, Score(srv), srv)

ScoreLoaded(i) ==
  /\ Answered(i, {"score"})
  /\ Settle(i, IF IsOk(i) THEN [ui EXCEPT !.up = Data(i).up, !.down = Data(i).down, !.loading = FALSE]
               ELSE [ui EXCEPT !.loading = FALSE], <<>>)

\* Takes one vote out of the counts and puts another in.
Recount(s, out, in) ==
  [s EXCEPT !.up = @ - B(out = 1) + B(in = 1), !.down = @ - B(out = -1) + B(in = -1), !.mine = in]

VoteBound == 4          \* bound: clicks keep the counts in -VoteBound..VoteBound

\* cast: history, a vote was cast since the mount.
HandleVote(value) ==
  LET new == IF ui.mine = value THEN 0 ELSE value IN
  /\ page = "vote" /\ ~ui.loading
  /\ {ui.up, ui.down} \subseteq (1 - VoteBound)..(VoteBound - 1)
  /\ Handle([Recount(ui, ui.mine, new) EXCEPT !.cast = TRUE],
            <<Request("cast", [old |-> ui.mine, new |-> new])>>)

CastServed(i) ==
  /\ Asked(i, {"cast"})
  /\ LET v == net[i].arg.new IN Reply(i, [score |-> Score(v), vote |-> v], v)

\* Mutant: an answer leaves the counts of the click.
Bug_IgnoresAnswer(i) ==
  /\ Answered(i, {"cast"})
  /\ Settle(i, IF IsOk(i) THEN ui ELSE Recount(ui, net[i].arg.new, net[i].arg.old), <<>>)

\* The rollback uses the vote of the time of the click.
CastDone(i) ==
  /\ Answered(i, {"cast"})
  /\ Settle(i, IF IsOk(i)
               THEN [ui EXCEPT !.up = Data(i).score.up, !.down = Data(i).score.down,
                               !.mine = Data(i).vote]
               ELSE Recount(ui, net[i].arg.new, net[i].arg.old), <<>>)

\* Votes clicked faster than they are answered end up as the service holds
\* them: after the last answer the arrows and both counts are the service's.
VoteIsSettled ==
  page = "vote" /\ Quiet /\ ~mishap /\ ui.cast =>
    [up |-> ui.up, down |-> ui.down] = Score(srv) /\ ui.mine = srv
------------------------------------------------------------------------------
(***************************************************************************)
(* PollCard.  The service holds the option this user chose, 0 if none.     *)
(***************************************************************************)
Options == 1..2
Tally(v) == [o \in Options |-> Others + B(v = o)]

\* The card is given the tally its page has fetched.
PollInit ==
  /\ page = "poll"
  /\ srv \in {0} \cup Options
  /\ ui = [voted |-> FALSE, tally |-> Tally(srv), submitting |-> FALSE, loading |-> TRUE]
  /\ net = <<Fetch("myVote", 0)>>
  /\ mishap = FALSE

MyVoteServed(i) == Asked(i, {"myVote"}) /\ Reply(i, srv # 0, srv)

MyVoteChecked(i) ==
  /\ Answered(i, {"myVote"})
  /\ IF IsOk(i) /\ Data(i)
     THEN Settle(i, [ui EXCEPT !.voted = TRUE], <<Fetch("tallyFirst", 0)>>)
     ELSE Settle(i, [ui EXCEPT !.loading = FALSE], <<>>)

TallyServed(i) == Asked(i, {"tally", "tallyFirst"}) /\ Reply(i, Tally(srv), srv)

TallyRefreshed(i) ==
  /\ Answered(i, {"tally", "tallyFirst"})
  /\ Settle(i, [ui EXCEPT !.tally = IF IsOk(i) THEN Data(i) ELSE @,
                          !.loading = @ /\ net[i].op # "tallyFirst"], <<>>)

HandlePollVote(o) ==
  /\ page = "poll"
  /\ ~ui.voted /\ ~ui.submitting /\ ~ui.loading
  /\ Handle([ui EXCEPT !.submitting = TRUE], <<Fetch("pollVote", o)>>)

\* A second vote is forbidden; the error names the reason.
PollVoteServed(i) ==
  /\ Asked(i, {"pollVote"})
  /\ Reply(i, [already |-> srv # 0], IF srv = 0 THEN net[i].arg ELSE srv)

\* Mutant: a failed vote counts as cast.
Bug_VotedAnyway(i) ==
  /\ Answered(i, {"pollVote"})
  /\ Settle(i, [ui EXCEPT !.submitting = FALSE, !.voted = TRUE], <<Fetch("tally", 0)>>)

PollVoteDone(i) ==
  LET counted == [ui.tally EXCEPT ![net[i].arg] = @ + 1]
      done    == [ui EXCEPT !.submitting = FALSE]
  IN
  /\ Answered(i, {"pollVote"})
  /\ IF ~IsOk(i) THEN Settle(i, done, <<>>)
     ELSE Settle(i, [done EXCEPT !.voted = TRUE,
                                 !.tally = IF Data(i).already THEN @ ELSE counted],
                 <<Fetch("tally", 0)>>)

\* A card that says the user has voted is right, whatever failed before, and
\* it shows the service's tally once the refresh has been answered.
PollIsTrue ==
  page = "poll" /\ ui.voted =>
    /\ srv # 0
    /\ Quiet /\ ~mishap => ui.tally = Tally(srv)
------------------------------------------------------------------------------
(***************************************************************************)
(* Buttons that act once: TipButton and the join button of an event.  The  *)
(* service holds how often it was done; it keeps every tip, but one        *)
(* participation a user.                                                   *)
(***************************************************************************)
OncePages == {"tip", "event"}
OnceBound == 2          \* bound: tips held

OnceInit ==
  /\ page \in OncePages
  /\ ui = [busy |-> FALSE, done |-> FALSE]
  /\ net = <<>>
  /\ srv = 0
  /\ mishap = FALSE

\* Mutant: the button is not disabled while a tip is sent.
Bug_TipsWhileBusy ==
  /\ page = "tip" /\ ~ui.done /\ srv < OnceBound
  /\ Handle([ui EXCEPT !.busy = TRUE], <<Request("once", 0)>>)

HandleTip ==
  /\ page = "tip" /\ ~ui.busy /\ ~ui.done /\ srv < OnceBound
  /\ Handle([ui EXCEPT !.busy = TRUE], <<Request("once", 0)>>)

HandleJoin ==
  /\ page = "event" /\ ~ui.busy /\ ~ui.done
  /\ Handle([ui EXCEPT !.busy = TRUE], <<Request("once", 0)>>)

OnceServed(i) ==
  /\ Asked(i, {"once"})
  /\ Reply(i, TRUE, IF page = "event" THEN 1 ELSE srv + 1)

OnceDone(i) ==
  /\ Answered(i, {"once"})
  /\ Settle(i, [busy |-> FALSE, done |-> ui.done \/ IsOk(i)], <<>>)

\* Unless an answer was lost, a reader who presses the button again and again
\* has tipped or joined at most once, and the button says so afterwards.
ActsOnce ==
  page \in OncePages /\ ~mishap => srv <= 1 /\ (Quiet => ui.done = (srv = 1))
------------------------------------------------------------------------------
(***************************************************************************)
(* VideoPageClient: like and bookmark with a busy flag each, comments      *)
(* without one.                                                            *)
(***************************************************************************)
CommentBound == 2       \* bound: comments of a video

VideoInit ==
  /\ page = "video"
  /\ ui = [loading |-> TRUE, known |-> FALSE, liked |-> FALSE, marked |-> FALSE, notes |-> 0,
           draft |-> FALSE, liking |-> FALSE, marking |-> FALSE]
  /\ net = <<Request("video", 0)>>
  /\ srv \in [liked : BOOLEAN, marked : BOOLEAN, notes : {0}]
  /\ mishap = FALSE

VideoServed(i) == Asked(i, {"video"}) /\ Reply(i, srv, srv)

\* Mutant: the bookmark is not taken from the answer.
Bug_MarkNotLoaded(i) ==
  /\ Answered(i, {"video"})
  /\ Settle(i, IF IsOk(i) THEN [ui EXCEPT !.loading = FALSE, !.known = TRUE, !.liked = Data(i).liked,
                                          !.notes = Data(i).notes]
               ELSE [ui EXCEPT !.loading = FALSE], <<>>)

VideoLoaded(i) ==
  /\ Answered(i, {"video"})
  /\ Settle(i, IF IsOk(i)
               THEN [ui EXCEPT !.loading = FALSE, !.known = TRUE, !.liked = Data(i).liked,
                               !.marked = Data(i).marked, !.notes = Data(i).notes]
               ELSE [ui EXCEPT !.loading = FALSE], <<>>)

HandleVideoLike ==
  /\ page = "video" /\ ui.known /\ ~ui.liking
  /\ Handle([ui EXCEPT !.liking = TRUE], <<Request("videoLike", 0)>>)

HandleVideoMark ==
  /\ page = "video" /\ ui.known /\ ~ui.marking
  /\ Handle([ui EXCEPT !.marking = TRUE], <<Request("videoMark", 0)>>)

TypeVideoNote == page = "video" /\ ui.known /\ ~ui.draft /\ Update([ui EXCEPT !.draft = TRUE])

HandleVideoNote ==
  /\ page = "video" /\ ui.known /\ ui.draft /\ srv.notes + Len(net) < CommentBound
  /\ Handle(ui, <<Request("videoNote", 0)>>)

VideoActServed(i) ==
  \/ /\ Asked(i, {"videoLike"})
     /\ Reply(i, ~srv.liked, [srv EXCEPT !.liked = ~@])
  \/ /\ Asked(i, {"videoMark"})
     /\ Reply(i, ~srv.marked, [srv EXCEPT !.marked = ~@])
  \/ /\ Asked(i, {"videoNote"})
     /\ Reply(i, TRUE, [srv EXCEPT !.notes = @ + 1])

\* A like flips what is shown; a bookmark shows what the service answered.
VideoActDone(i) ==
  \/ /\ Answered(i, {"videoLike"})
     /\ Settle(i, [ui EXCEPT !.liking = FALSE, !.liked = IF IsOk(i) THEN ~@ ELSE @], <<>>)
  \/ /\ Answered(i, {"videoMark"})
     /\ Settle(i, [ui EXCEPT !.marking = FALSE, !.marked = IF IsOk(i) THEN Data(i) ELSE @], <<>>)
  \/ /\ Answered(i, {"videoNote"})
     /\ Settle(i, IF IsOk(i) THEN [ui EXCEPT !.notes = @ + 1, !.draft = FALSE] ELSE ui, <<>>)

\* Without a lost call the page agrees with the service: no like is toggled
\* twice by an impatient reader and every comment sent is on the page.
VideoIsCurrent ==
  page = "video" /\ ui.known /\ Quiet /\ ~mishap =>
    [liked |-> ui.liked, marked |-> ui.marked, notes |-> ui.notes] = srv
------------------------------------------------------------------------------
(***************************************************************************)
(* ContentCard in the creation center: the heart and the bookmark flip at  *)
(* once and the call that toggles them is not looked at any more.          *)
(***************************************************************************)
CardInit ==
  /\ page = "card"
  /\ srv \in [liked : BOOLEAN, marked : BOOLEAN]
  /\ ui = [liked |-> srv.liked, marked |-> srv.marked, likes |-> Others + B(srv.liked)]
  /\ net = <<>>
  /\ mishap = FALSE

\* Mutant: counts by what the heart is after the press.
Bug_CountsTheOtherWay ==
  /\ page = "card"
  /\ Handle([ui EXCEPT !.liked = ~@, !.likes = IF ui.liked THEN @ + 1 ELSE @ - 1],
            <<Fetch("cardLike", 0)>>)

CardLike ==
  /\ page = "card"
  /\ Handle([ui EXCEPT !.liked = ~@, !.likes = IF ui.liked THEN @ - 1 ELSE @ + 1],
            <<Fetch("cardLike", 0)>>)

CardMark == page = "card" /\ Handle([ui EXCEPT !.marked = ~@], <<Fetch("cardMark", 0)>>)

CardServed(i) ==
  \/ Asked(i, {"cardLike"}) /\ Reply(i, 0, [srv EXCEPT !.liked = ~@])
  \/ Asked(i, {"cardMark"}) /\ Reply(i, 0, [srv EXCEPT !.marked = ~@])

CardDone(i) == Answered(i, {"cardLike", "cardMark"}) /\ Settle(i, ui, <<>>)

\* However often the heart is pressed while older presses are pending, it and
\* its count end as the service has them.
CardIsCurrent ==
  page = "card" /\ Quiet /\ ~mishap =>
    /\ ui.liked = srv.liked /\ ui.marked = srv.marked
    /\ ui.likes = Others + B(srv.liked)
------------------------------------------------------------------------------
ReactionsInit == VoteInit \/ PollInit \/ OnceInit \/ VideoInit \/ CardInit

ReactionsUser ==
  \/ \E v \in {-1, 1} : HandleVote(v)
  \/ \E o \in Options : HandlePollVote(o)
  \/ HandleTip \/ HandleJoin
  \/ HandleVideoLike \/ HandleVideoMark \/ TypeVideoNote \/ HandleVideoNote
  \/ CardLike \/ CardMark

ReactionsService(i) ==
  \/ ScoreServed(i) \/ CastServed(i)
  \/ MyVoteServed(i) \/ TallyServed(i) \/ PollVoteServed(i)
  \/ OnceServed(i) \/ VideoServed(i) \/ VideoActServed(i) \/ CardServed(i)

ReactionsThen(i) ==
  \/ ScoreLoaded(i) \/ CastDone(i)
  \/ MyVoteChecked(i) \/ TallyRefreshed(i) \/ PollVoteDone(i)
  \/ OnceDone(i) \/ VideoLoaded(i) \/ VideoActDone(i) \/ CardDone(i)
==============================================================================
