------------------------------ MODULE WebMessages ----------------------------
(***************************************************************************)
(* The two conversations of the front end: a thread of direct messages and *)
(* the chat of a space.  Both are fetched again by a timer while messages  *)
(* are sent, pinned and deleted.  Message ids grow; the newest comes first.*)
(***************************************************************************)
EXTENDS WebPage

ChatPages    == {"thread", "chat"}
MessageBound == 2            \* bound: messages ever held
Messages     == [id : 1..MessageBound, pinned : BOOLEAN]

\* LoadData shows the spinner, the timer's poll does not.  The thread awaits
\* markRead before it takes the spinner away.
LoadData == Request("load", 0)
Poll     == Request("poll", 0)
MarkRead == Request("markRead", 0)

\* The service: the messages it holds and how many there ever were.
ChatInit ==
  /\ page \in ChatPages
  /\ ui = [msgs |-> <<>>, loading |-> TRUE, sending |-> FALSE, newMsg |-> FALSE]
  /\ net = <<LoadData>>
  /\ srv = [held |-> {[id |-> 1, pinned |-> FALSE]}, sent |-> 1]
  /\ mishap = FALSE

\* Bound: after a mishap, which ConversationIsCurrent exempts, only the timer
\* goes on.
Interval == page \in ChatPages /\ Handle(ui, <<Poll>>)

TypeMessage ==
  /\ page \in ChatPages /\ ~ui.newMsg /\ ~mishap
  /\ Update([ui EXCEPT !.newMsg = TRUE])

HandleSend ==
  /\ page \in ChatPages /\ ui.newMsg /\ ~ui.sending /\ ~mishap
  /\ Handle([ui EXCEPT !.sending = TRUE], <<Request("send", 0)>>)

\* Pinning, deleting and clearing are the thread's.
ThreadDo(op, id) == page = "thread" /\ ~mishap /\ Handle(ui, <<Request(op, id)>>)

\* The spinner hides the messages, but not those that are pinned.
OnThread ==
  \/ \E m \in ToSet(IF page = "thread" THEN ui.msgs ELSE <<>>) :
       \/ (~ui.loading \/ m.pinned) /\ ThreadDo("pin", m.id)
       \/ ~ui.loading /\ ThreadDo("drop", m.id)
  \/ ThreadDo("clear", 0)

LoadServed(i) ==
  /\ Asked(i, {"load", "poll"}) /\ page \in ChatPages
  /\ \E s \in Listings(srv.held, MessageBound) : Reply(i, s, srv)

MarkServed(i) == Asked(i, {"markRead"}) /\ page = "thread" /\ Reply(i, TRUE, srv)

SendServed(i) ==
  LET m == [id |-> srv.sent + 1, pinned |-> FALSE] IN
  /\ Asked(i, {"send"}) /\ page \in ChatPages
  /\ srv.sent < MessageBound
  /\ Reply(i, m, [held |-> srv.held \cup {m}, sent |-> srv.sent + 1])

ThreadServed(i) ==
  LET id == net[i].arg
      after == CASE net[i].op = "pin"  -> {IF m.id = id THEN [m EXCEPT !.pinned = ~@] ELSE m : m \in srv.held}
                 [] net[i].op = "drop" -> {m \in srv.held : m.id # id}
                 [] OTHER -> {}
  IN
  /\ Asked(i, {"pin", "drop", "clear"}) /\ page = "thread"
  /\ Reply(i, TRUE, [srv EXCEPT !.held = after])

\* Every answer replaces what is shown, by whomever it was asked for.
LoadAnswered(i) ==
  LET s == [ui EXCEPT !.msgs = IF IsOk(i) THEN Data(i) ELSE @] IN
  /\ Answered(i, {"load", "poll"})
  /\ IF page = "thread" /\ net[i].op = "poll" THEN Settle(i, s, <<>>)
     ELSE IF page = "thread" /\ IsOk(i) THEN Settle(i, s, <<MarkRead>>)
     ELSE Settle(i, [s EXCEPT !.loading = FALSE], <<>>)

MarkDone(i) == Answered(i, {"markRead"}) /\ Settle(i, [ui EXCEPT !.loading = FALSE], <<>>)

\* Mutant: the thread puts what was sent last.
Bug_PutsLast(i) ==
  /\ Answered(i, {"send"})
  /\ Settle(i, IF IsOk(i) THEN [ui EXCEPT !.sending = FALSE, !.newMsg = FALSE, !.msgs = Append(@, Data(i))]
               ELSE [ui EXCEPT !.sending = FALSE], <<>>)

\* The thread puts the message first; the chat fetches.  What was typed is
\* cleared.
SendDone(i) ==
  LET idle == [ui EXCEPT !.sending = FALSE] IN
  /\ Answered(i, {"send"})
  /\ IF ~IsOk(i) THEN Settle(i, idle, <<>>)
     ELSE IF page = "thread"
     THEN Settle(i, [idle EXCEPT !.newMsg = FALSE, !.msgs = <<Data(i)>> \o @], <<>>)
     ELSE Settle(i, [idle EXCEPT !.newMsg = FALSE], <<Poll>>)

ThreadDone(i) ==
  /\ page = "thread" /\ Answered(i, {"pin", "drop", "clear"})
  /\ IF ~IsOk(i) THEN Settle(i, ui, <<>>)
     ELSE IF net[i].op = "pin" THEN Settle(i, [ui EXCEPT !.loading = TRUE], <<LoadData>>)
     ELSE Settle(i, [ui EXCEPT !.msgs = IF net[i].op = "drop" THEN Without(@, net[i].arg) ELSE <<>>], <<>>)

ChatUser     == Interval \/ TypeMessage \/ HandleSend \/ OnThread
ChatService(i) == LoadServed(i) \/ MarkServed(i) \/ SendServed(i) \/ ThreadServed(i)
ChatThen(i)    == LoadAnswered(i) \/ MarkDone(i) \/ SendDone(i) \/ ThreadDone(i)
------------------------------------------------------------------------------
\* With nothing pending a conversation shows the service's messages, newest
\* first: what was sent is there once though a poll may have brought it too,
\* and no poll brings back what was deleted or cleared, as long as no answer
\* was lost or overtaken.
ConversationIsCurrent ==
  page \in ChatPages /\ Quiet /\ ~mishap => NewestFirst(ui.msgs) /\ ToSet(ui.msgs) = srv.held
==============================================================================
