-------------------------- MODULE WebReplayProofs ---------------------------
(***************************************************************************)
(* Pages whose continuations write what they are answered into what the    *)
(* page shows.  What the calls under way will make of it is walked through *)
(* by Replay: without a mishap the answers, in their order, lead from what *)
(* is shown to what the services hold.                                     *)
(***************************************************************************)
EXTENDS WebProofs

(***************************************************************************)
(* The queue before and after a step.                                      *)
(***************************************************************************)
\* New calls are behind those of q.
Grown(q, t) ==
  /\ Len(q) \in Nat /\ Len(t) \in Nat /\ Len(t) >= Len(q)
  /\ \A k \in 1..Len(q) : t[k] = q[k]
  /\ \A k \in (Len(q) + 1)..Len(t) : t[k].ans = Pending

\* Call i, the oldest pending one, has been answered.
AnsweredNext(q, t, i) ==
  /\ Len(q) \in Nat /\ Len(t) = Len(q) /\ i \in 1..Len(q)
  /\ \A k \in 1..Len(q) : k # i => t[k] = q[k]
  /\ \A k \in i..Len(q) : q[k].ans = Pending
  /\ t[i].ans # Pending

\* The oldest call, answered, is gone; new calls are behind the others.
Shifted(q, t) ==
  /\ Len(q) \in Nat /\ Len(q) > 0 /\ Len(t) \in Nat /\ Len(t) >= Len(q) - 1
  /\ \A k \in 1..(Len(q) - 1) : t[k] = q[k + 1]
  /\ \A k \in Len(q)..Len(t) : t[k].ans = Pending

\* Calls, all of them new.
NewOnes(cs, ops) == Calls(cs, ops) /\ \A k \in 1..Len(cs) : cs[k].ans = Pending

\* The page's state is s and calls cs are new.
Begun(ops, s, cs) ==
  /\ Queue(ops)'
  /\ Len(net') = Len(net) + Len(cs) /\ Len(net) \in Nat
  /\ \A k \in 1..Len(net) : net'[k] = net[k]
  /\ \A k \in 1..Len(cs) : net'[Len(net) + k] = cs[k]
  /\ ui' = s /\ page' = page /\ srv' = srv
  /\ mishap' \in BOOLEAN /\ (mishap => mishap')
  /\ Grown(net, net')

\* Call i is gone, the page's state is s and calls cs are new.  Without a
\* mishap i was the oldest.
Finished(ops, i, s, cs) ==
  /\ Queue(ops)'
  /\ Len(net') = (Len(net) - 1) + Len(cs) /\ Len(net) \in Nat
  /\ \A k \in 1..(Len(net) - 1) : net'[k] = net[IF k < i THEN k ELSE k + 1]
  /\ \A k \in 1..Len(cs) : net'[(Len(net) - 1) + k] = cs[k]
  /\ ui' = s /\ page' = page /\ srv' = srv
  /\ mishap' \in BOOLEAN /\ (mishap => mishap')
  /\ ~mishap' => i = 1 /\ IsOk(1) /\ Shifted(net, net')

\* No call, one call and three calls.
LEMMA NewNone ==
  ASSUME NEW ops PROVE NewOnes(<< >>, ops) /\ Len(<< >>) = 0
<1>1. Len(<< >>) = 0 /\ 1..0 = {}
  OBVIOUS
<1>2. << >> = [k \in 1..Len(<< >>) |-> << >>[k]]
  OBVIOUS
<1>. QED BY <1>1, <1>2 DEF NewOnes, Calls

\* One call.
LEMMA NewOne ==
  ASSUME NEW ops, NEW c, IsCall(c), c.op \in ops, c.ans = Pending
  PROVE  NewOnes(<<c>>, ops) /\ Len(<<c>>) = 1 /\ <<c>>[1] = c
<1>1. Len(<<c>>) = 1 /\ <<c>>[1] = c /\ \A k \in 1..1 : k = 1
  OBVIOUS
<1>2. <<c>> = [k \in 1..Len(<<c>>) |-> <<c>>[k]]
  OBVIOUS
<1>. QED BY <1>1, <1>2 DEF NewOnes, Calls

\* Calls put behind a queue.
LEMMA YoungestCalls ==
  ASSUME NEW q, NEW ops, Calls(q, ops), NEW cs, NewOnes(cs, ops)
  PROVE  LET t == q \o cs IN
         /\ Len(t) = Len(q) + Len(cs)
         /\ \A k \in 1..Len(q) : t[k] = q[k]
         /\ \A k \in 1..Len(cs) : t[Len(q) + k] = cs[k]
         /\ \A k \in (Len(q) + 1)..Len(t) : t[k].ans = Pending
         /\ Calls(t, ops) /\ (InOrder(q) => InOrder(t))
<1>. DEFINE S == {q[k] : k \in 1..Len(q)} \cup {cs[k] : k \in 1..Len(cs)}
            t == q \o cs
<1>0. Calls(cs, ops) /\ \A k \in 1..Len(cs) : cs[k].ans = Pending
  BY DEF NewOnes
<1>1. Len(q) \in Nat /\ Len(cs) \in Nat /\ q \in Seq(S) /\ cs \in Seq(S)
  <2>1. q \in Seq({q[k] : k \in 1..Len(q)}) /\ cs \in Seq({cs[k] : k \in 1..Len(cs)})
    BY <1>0, Elements DEF Calls
  <2>. QED BY <2>1, <1>0 DEF Calls
<1>. HIDE DEF S
<1>2. /\ t \in Seq(S) /\ Len(t) = Len(q) + Len(cs)
      /\ \A k \in 1..(Len(q) + Len(cs)) : t[k] = IF k <= Len(q) THEN q[k] ELSE cs[k - Len(q)]
  BY <1>1, ConcatProperties
<1>3. t = [k \in 1..Len(t) |-> t[k]]
  BY <1>2, ByElements
<1>. HIDE DEF t
<1>4. (\A k \in 1..Len(q) : t[k] = q[k]) /\ (\A k \in 1..Len(cs) : t[Len(q) + k] = cs[k])
  <2>1. \A k \in 1..Len(q) : t[k] = q[k]
    BY <1>1, <1>2
  <2>2. ASSUME NEW k \in 1..Len(cs) PROVE t[Len(q) + k] = cs[k]
    <3>1. /\ Len(q) + k \in 1..(Len(q) + Len(cs)) /\ ~(Len(q) + k <= Len(q))
          /\ (Len(q) + k) - Len(q) = k
      BY <1>1
    <3>. QED BY <3>1, <1>2
  <2>. QED BY <2>1, <2>2
<1>5. \A k \in 1..Len(t) : k \in 1..Len(q) \/ (k - Len(q) \in 1..Len(cs) /\ t[k] = cs[k - Len(q)])
  BY <1>1, <1>2
<1>6. Calls(t, ops)
  BY <1>0, <1>1, <1>2, <1>3, <1>4, <1>5 DEF Calls
<1>7. ASSUME InOrder(q) PROVE InOrder(t)
  <2>1. \A k \in 1..Len(t) : t[k].ans # Pending => k \in 1..Len(q) /\ t[k] = q[k]
    BY <1>0, <1>4, <1>5
  <2>2. \A k \in 1..Len(q) : \A j \in 1..(k - 1) : j \in 1..Len(q) /\ t[j] = q[j]
    BY <1>1, <1>4
  <2>. QED BY <1>7, <2>1, <2>2 DEF InOrder
<1>8. \A k \in (Len(q) + 1)..Len(t) : t[k].ans = Pending
  <2>1. \A k \in (Len(q) + 1)..Len(t) : k - Len(q) \in 1..Len(cs) /\ t[k] = cs[k - Len(q)]
    BY <1>1, <1>2
  <2>. QED BY <2>1, <1>0
<1>. QED BY <1>2, <1>4, <1>6, <1>7, <1>8 DEF t

\* A step that starts calls.
LEMMA Begins ==
  ASSUME NEW ops, Queue(ops), NEW s, NEW cs, NewOnes(cs, ops),
         net' = net \o cs, ui' = s, page' = page, srv' = srv, mishap' \in BOOLEAN, mishap => mishap'
  PROVE  Begun(ops, s, cs)
<1>1. Calls(net, ops) /\ Len(net) \in Nat /\ Len(cs) \in Nat
  BY DEF Queue, Calls, NewOnes
<1>2. /\ Calls(net', ops) /\ (InOrder(net) => InOrder(net'))
      /\ Len(net') = Len(net) + Len(cs)
      /\ \A k \in 1..Len(net) : net'[k] = net[k]
      /\ \A k \in 1..Len(cs) : net'[Len(net) + k] = cs[k]
      /\ \A k \in (Len(net) + 1)..Len(net') : net'[k].ans = Pending
  BY <1>1, YoungestCalls
<1>3. Queue(ops)'
  BY <1>2 DEF Queue
<1>4. Grown(net, net')
  BY <1>1, <1>2 DEF Grown
<1>. QED BY <1>1, <1>2, <1>3, <1>4 DEF Begun

\* A handler that starts calls.
LEMMA HandleBegins ==
  ASSUME NEW ops, Queue(ops), NEW s, NEW cs, NewOnes(cs, ops), Handle(s, cs)
  PROVE  Begun(ops, s, cs) /\ mishap' = mishap
<1>1. /\ net' = net \o cs /\ ui' = s /\ page' = page /\ srv' = srv /\ mishap' = mishap
  BY DEF Handle
<1>2. mishap' \in BOOLEAN
  BY <1>1 DEF Queue
<1>. QED BY <1>1, <1>2, Begins

\* A handler that starts none.
LEMMA UpdateBegins ==
  ASSUME NEW ops, Queue(ops), NEW s, Update(s)
  PROVE  Begun(ops, s, << >>) /\ mishap' = mishap
BY NewNone, HandleBegins DEF Update

\* A continuation that starts calls.
LEMMA SettleFinishes ==
  ASSUME NEW ops, Queue(ops), NEW i \in 1..Len(net), net[i].ans # Pending, NEW s,
         NEW cs, NewOnes(cs, ops), Settle(i, s, cs)
  PROVE  Finished(ops, i, s, cs)
<1>. DEFINE rest == RemoveAt(net, i)
<1>1. /\ net' = rest \o cs /\ ui' = s /\ page' = page /\ srv' = srv
      /\ mishap' = (mishap \/ i > 1)
  BY DEF Settle
<1>2. Calls(rest, ops) /\ (InOrder(net) /\ i = 1 => InOrder(rest))
  BY CallsLeft DEF Queue
<1>3. /\ Len(rest) = Len(net) - 1
      /\ \A k \in 1..(Len(net) - 1) : rest[k] = net[IF k < i THEN k ELSE k + 1]
      /\ Len(net) \in Nat /\ Len(cs) \in Nat
  BY TakenOut DEF Queue, Calls, NewOnes
<1>. HIDE DEF rest
<1>4. /\ Calls(net', ops) /\ (InOrder(rest) => InOrder(net'))
      /\ Len(net') = Len(rest) + Len(cs)
      /\ \A k \in 1..Len(rest) : net'[k] = rest[k]
      /\ \A k \in 1..Len(cs) : net'[Len(rest) + k] = cs[k]
      /\ \A k \in (Len(rest) + 1)..Len(net') : net'[k].ans = Pending
  BY <1>1, <1>2, YoungestCalls
<1>5. mishap' \in BOOLEAN /\ (mishap => mishap') /\ (~mishap' => i = 1)
  <2>1. i \in Nat /\ i >= 1 /\ mishap \in BOOLEAN
    BY DEF Queue, Calls
  <2>2. CASE i > 1
    BY <2>1, <2>2, <1>1
  <2>3. CASE i = 1
    BY <2>1, <2>3, <1>1
  <2>. QED BY <2>1, <2>2, <2>3
<1>6. ~mishap' => IsOk(1)
  BY <1>5 DEF Queue, InOrder, IsOk
<1>7. Queue(ops)'
  BY <1>2, <1>4, <1>5 DEF Queue
<1>8. /\ Len(net') = (Len(net) - 1) + Len(cs)
      /\ \A k \in 1..(Len(net) - 1) : net'[k] = net[IF k < i THEN k ELSE k + 1]
      /\ \A k \in 1..Len(cs) : net'[(Len(net) - 1) + k] = cs[k]
  BY <1>3, <1>4
<1>9. ASSUME i = 1 PROVE Shifted(net, net')
  <2>1. \A k \in 1..(Len(net) - 1) : net'[k] = net[k + 1]
    BY <1>8, <1>9, <1>3
  <2>2. Len(net) > 0 /\ Len(net') \in Nat /\ Len(net') >= Len(net) - 1
    BY <1>3, <1>8
  <2>3. \A k \in Len(net)..Len(net') : net'[k].ans = Pending
    BY <1>3, <1>4
  <2>. QED BY <2>1, <2>2, <2>3, <1>3 DEF Shifted
<1>. QED BY <1>1, <1>3, <1>5, <1>6, <1>7, <1>8, <1>9 DEF Finished

\* Without a mishap the oldest pending call is the one that is answered.
LEMMA RepliedNext ==
  ASSUME NEW ops, NEW i \in 1..Len(net), NEW v, NEW s, Replied(ops, i, v, s), ~mishap'
  PROVE  AnsweredNext(net, net', i) /\ net'[i].ans = Ok(v) /\ ~mishap
BY DEF Replied, AnsweredNext

\* The position of the only call.
LEMMA OnlyOne == ASSUME NEW n \in Nat, NEW i \in Nat, 1 <= i, i <= n, n <= 1 PROVE n = 1 /\ i = 1
OBVIOUS
-----------------------------------------------------------------------------
(***************************************************************************)
(* The page of a post, for a reader.                                       *)
(***************************************************************************)
ReadPageOps    == {"getPost", "getCreation", "getComments", "view", "isFollowed", "followAuthor",
                   "likePost", "markPost", "unlock"}
ReadPageFields == {"loading", "known", "error", "body", "views", "liked", "likes", "marked",
                   "following", "followLoading", "unlocking"}
PostRecords    == [kind : {"post", "creation", "none"}, locked : BOOLEAN, liked : BOOLEAN,
                   marked : BOOLEAN, follows : BOOLEAN, views : Int]
FollowOps      == {"isFollowed", "followAuthor"}
FirstOps       == {"getPost", "getCreation"}

\* What of the page the property is about, and what an answer makes of it.
PostView(u) ==
  [liked |-> u.liked, likes |-> u.likes, marked |-> u.marked, views |-> u.views, following |-> u.following]

PostAfter(c, v) ==
  [liked     |-> IF c.op = "likePost" THEN c.ans.data ELSE v.liked,
   likes     |-> IF c.op # "likePost" THEN v.likes
                 ELSE IF c.ans.data THEN v.likes + 1 ELSE Max({0, v.likes - 1}),
   marked    |-> IF c.op = "markPost" THEN c.ans.data ELSE v.marked,
   views     |-> IF c.op = "view" THEN c.ans.data
                 ELSE IF c.op = "unlock" /\ c.ans.data.right THEN c.ans.data.views ELSE v.views,
   following |-> IF c.op \in FollowOps THEN c.ans.data ELSE v.following]

PostReplay == INSTANCE Replay WITH After <- PostAfter

\* Whether the author is followed is still to be answered.
FollowersToCome(q) == \E k \in 1..Len(q) : q[k].op = "isFollowed" /\ q[k].ans = Pending

PostAgrees(q, b, s) ==
  /\ b.liked = s.liked /\ b.likes = PostCount(s.liked, OtherLikes)
  /\ b.marked = s.marked /\ b.views = s.views
  /\ b.following = s.follows \/ FollowersToCome(q)

\* The post comes first, alone; then the answers lead to what the service holds.
PostLeads(q, u, s) == \E b : PostReplay!Leads(q, PostView(u), b) /\ PostAgrees(q, b, s)

PostGoes(q, u, s) ==
  /\ u.known => PostLeads(q, u, s) /\ \A k \in 1..Len(q) : q[k].op \notin FirstOps
  /\ ~u.known => /\ Len(q) <= 1
                 /\ \A k \in 1..Len(q) : q[k].op = "getPost" /\ (q[k].ans # Pending => q[k].ans = Ok(PostHeld(s)))

PostState ==
  /\ Queue(ReadPageOps)
  /\ DOMAIN ui = ReadPageFields /\ ui.known \in BOOLEAN
  /\ srv \in PostRecords
  /\ srv.kind = "post" /\ ~mishap => PostGoes(net, ui, srv)

\* The page is mounted in a state of it.
LEMMA PostStarts ==
  ASSUME PostInit PROVE PostState
<1>. DEFINE c == Request("getPost", 0)
<1>1. IsCall(c) /\ c.op = "getPost" /\ c.op \in ReadPageOps /\ c.ans = Pending
  BY NewCalls DEF ReadPageOps
<1>2. net = <<c>> /\ mishap = FALSE
  BY DEF PostInit
<1>. HIDE DEF c
<1>3. Queue(ReadPageOps) /\ Len(net) = 1 /\ net[1] = c
  BY <1>1, <1>2, FirstCall
<1>4. DOMAIN ui = ReadPageFields /\ ~ui.known /\ ui.known \in BOOLEAN
  BY DEF PostInit, ReadPageFields
<1>5. srv \in PostRecords
  <2>1. PICK k \in {"post", "creation", "none"}, l \in BOOLEAN, x \in BOOLEAN :
          srv = [kind |-> k, locked |-> l, liked |-> x, marked |-> FALSE, follows |-> x, views |-> 0]
    BY DEF PostInit
  <2>. QED BY <2>1 DEF PostRecords
<1>6. PostGoes(net, ui, srv)
  BY <1>1, <1>3, <1>4 DEF PostGoes
<1>. QED BY <1>3, <1>4, <1>5, <1>6 DEF PostState

\* What can happen on this page.
LEMMA PostActions ==
  ASSUME page = "post", Queue(ReadPageOps), Next
  PROVE  \/ HandleFollowAuthor \/ HandleLike \/ HandleBookmark
         \/ \E right \in BOOLEAN : HandleUnlock(right)
         \/ \E i \in 1..Len(net) : \/ GetPostServed(i) \/ ViewServed(i) \/ ReaderServed(i) \/ Deny(i)
                                   \/ PostLoaded(i) \/ ViewDone(i) \/ ReaderDone(i)
<1>1. page \in PostPages /\ Queue(ReadOps)
  BY QueueOf DEF PostPages, ReadPageOps, ReadOps
<1>2. CASE PostUser
  BY <1>2 DEF PostUser, TypeComment, TypeReply, NotesOpen, HandleComment, EditorShown, HandleEdit,
    HandleCancelEdit, HandleSaveEdit, HandleDelete, SetForm
<1>3. ASSUME NEW i \in 1..Len(net), PostService(i) \/ PostThen(i)
      PROVE  \/ GetPostServed(i) \/ ViewServed(i) \/ ReaderServed(i)
             \/ PostLoaded(i) \/ ViewDone(i) \/ ReaderDone(i)
  <2>1. net[i].op \in ReadPageOps
    BY DEF Queue, Calls
  <2>2. PostService(i) => GetPostServed(i) \/ ViewServed(i) \/ ReaderServed(i)
    BY <2>1 DEF ReadPageOps, PostService, NotesServed, EditorServed, Asked
  <2>3. PostThen(i) => PostLoaded(i) \/ ViewDone(i) \/ ReaderDone(i)
    BY <2>1 DEF ReadPageOps, PostThen, NotesDone, EditorDone, Answered
  <2>. QED BY <1>3, <2>2, <2>3
<1>. QED BY <1>1, <1>2, <1>3, PostNext

\* The number of likes with one's own and without.
LEMMA LikesCounted ==
  ASSUME NEW x
  PROVE  (x = TRUE => PostCount(x, OtherLikes) = 2) /\ (x = FALSE => PostCount(x, OtherLikes) = 1)
BY DEF PostCount, OtherLikes

\* A click that starts a call changes nothing of what is shown.
LEMMA PostClicked ==
  ASSUME PostState, ui.known, NEW s, NEW c, Handle(s, <<c>>), IsCall(c), c.ans = Pending,
         c.op \in ReadPageOps \ FirstOps, DOMAIN s = ReadPageFields, s.known = ui.known,
         PostView(s) = PostView(ui)
  PROVE  PostState'
<1>1. NewOnes(<<c>>, ReadPageOps) /\ Len(<<c>>) = 1 /\ <<c>>[1] = c
  BY NewOne
<1>2. Begun(ReadPageOps, s, <<c>>) /\ mishap' = mishap
  BY <1>1, HandleBegins DEF PostState
<1>3. /\ Queue(ReadPageOps)' /\ ui' = s /\ srv' = srv /\ Grown(net, net')
      /\ Len(net') = Len(net) + 1 /\ Len(net) \in Nat /\ (\A k \in 1..Len(net) : net'[k] = net[k])
      /\ net'[Len(net) + 1] = c
  BY <1>1, <1>2 DEF Begun
<1>4. ASSUME srv.kind = "post", ~mishap' PROVE PostGoes(net', s, srv)
  <2>1. PostLeads(net, ui, srv) /\ \A k \in 1..Len(net) : net[k].op \notin FirstOps
    BY <1>2, <1>4 DEF PostState, PostGoes
  <2>2. PICK b : PostReplay!Leads(net, PostView(ui), b) /\ PostAgrees(net, b, srv)
    BY <2>1 DEF PostLeads
  <2>3. PostReplay!Leads(net', PostView(s), b)
    BY <1>3, <2>2, PostReplay!LeadsGrow DEF Grown
  <2>4. FollowersToCome(net) => FollowersToCome(net')
    BY <1>3 DEF FollowersToCome
  <2>5. PostAgrees(net', b, srv)
    BY <2>2, <2>4 DEF PostAgrees
  <2>6. \A k \in 1..Len(net') : net'[k].op \notin FirstOps
    BY <1>3, <2>1
  <2>. QED BY <2>3, <2>5, <2>6 DEF PostGoes, PostLeads
<1>5. ui.known \in BOOLEAN /\ srv \in PostRecords
  BY DEF PostState
<1>. QED BY <1>3, <1>4, <1>5 DEF PostState

\* The service does what it is asked, and says so.
LEMMA PostServes ==
  ASSUME PostState, NEW i \in 1..Len(net), net[i].op \notin FirstOps, NEW v, NEW s, Reply(i, v, s),
         s \in PostRecords, s.kind = srv.kind,
         s.liked = IF net[i].op = "likePost" THEN ~srv.liked ELSE srv.liked,
         net[i].op = "likePost" => v = s.liked,
         net[i].op # "markPost" => s.marked = srv.marked,
         net[i].op = "markPost" => v = s.marked,
         net[i].op # "view" => s.views = srv.views,
         net[i].op = "view" => v = s.views,
         net[i].op = "unlock" => v.views = s.views,
         net[i].op \notin FollowOps => s.follows = srv.follows,
         net[i].op \in FollowOps => v = s.follows
  PROVE  PostState'
<1>1. Replied(ReadPageOps, i, v, s)
  BY Replies DEF PostState
<1>2. /\ Queue(ReadPageOps)' /\ ui' = ui /\ srv' = s
      /\ Len(net') = Len(net) /\ Len(net) \in Nat
      /\ \A k \in 1..Len(net) : net'[k].op = net[k].op /\ (k # i => net'[k] = net[k])
  BY <1>1 DEF Replied
<1>3. ASSUME s.kind = "post", ~mishap' PROVE PostGoes(net', ui, s)
  <2>1. AnsweredNext(net, net', i) /\ net'[i].ans = Ok(v) /\ ~mishap
    BY <1>1, <1>3, RepliedNext
  <2>2. PostGoes(net, ui, srv)
    BY <1>3, <2>1 DEF PostState
  <2>3. ui.known
    BY <2>2 DEF PostGoes, FirstOps
  <2>4. PICK b : PostReplay!Leads(net, PostView(ui), b) /\ PostAgrees(net, b, srv)
    BY <2>2, <2>3 DEF PostGoes, PostLeads
  <2>. DEFINE d == PostAfter(net'[i], b)
  <2>5. PostReplay!Leads(net', PostView(ui), d)
    BY <2>1, <2>4, PostReplay!LeadsAnswered DEF AnsweredNext
  <2>6. net'[i].op = net[i].op /\ net'[i].ans.data = v
    BY <1>2, <2>1 DEF Ok
  <2>7. d.liked = s.liked /\ d.likes = PostCount(s.liked, OtherLikes)
    <3>1. srv.liked \in BOOLEAN /\ s.liked \in BOOLEAN
      BY DEF PostState, PostRecords
    <3>2. b.liked = srv.liked /\ b.likes = PostCount(srv.liked, OtherLikes)
      BY <2>4 DEF PostAgrees
    <3>3. CASE net[i].op # "likePost"
      BY <3>2, <3>3, <2>6 DEF PostAfter
    <3>4. CASE net[i].op = "likePost"
      <4>1. d.liked = s.liked /\ d.likes = IF s.liked THEN b.likes + 1 ELSE Max({0, b.likes - 1})
        BY <3>4, <2>6 DEF PostAfter
      <4>. HIDE DEF d
      <4>2. CASE s.liked
        <5>1. PostCount(s.liked, OtherLikes) = 2 /\ PostCount(srv.liked, OtherLikes) = 1
          <6>1. s.liked = TRUE /\ srv.liked = FALSE
            BY <4>2, <3>1, <3>4
          <6>. QED BY <6>1, LikesCounted
        <5>2. d.likes = b.likes + 1
          BY <4>1, <4>2
        <5>. QED BY <3>2, <4>1, <5>1, <5>2
      <4>3. CASE ~s.liked
        <5>1. PostCount(s.liked, OtherLikes) = 1 /\ PostCount(srv.liked, OtherLikes) = 2
          <6>1. s.liked = FALSE /\ srv.liked = TRUE
            BY <4>3, <3>1, <3>4
          <6>. QED BY <6>1, LikesCounted
        <5>2. d.likes = Max({0, b.likes - 1})
          BY <4>1, <4>3
        <5>3. Max({0, 1}) = 1
          BY MaxWithZero
        <5>. QED BY <3>2, <4>1, <5>1, <5>2, <5>3
      <4>. QED BY <4>2, <4>3
    <3>. QED BY <3>3, <3>4
  <2>8. d.marked = s.marked /\ d.views = s.views
    <3>1. b.marked = srv.marked /\ b.views = srv.views
      BY <2>4 DEF PostAgrees
    <3>. QED BY <2>6, <3>1 DEF PostAfter
  <2>9. d.following = s.follows \/ FollowersToCome(net')
    <3>1. CASE net[i].op \in FollowOps
      BY <3>1, <2>6 DEF PostAfter
    <3>2. CASE net[i].op \notin FollowOps
      <4>1. d.following = b.following /\ s.follows = srv.follows
        BY <3>2, <2>6 DEF PostAfter
      <4>2. FollowersToCome(net) => FollowersToCome(net')
        BY <1>2, <3>2 DEF FollowersToCome, FollowOps
      <4>. QED BY <4>1, <4>2, <2>4 DEF PostAgrees
    <3>. QED BY <3>1, <3>2
  <2>. HIDE DEF d
  <2>10. PostLeads(net', ui, s)
    BY <2>5, <2>7, <2>8, <2>9 DEF PostLeads, PostAgrees
  <2>11. \A k \in 1..Len(net') : net'[k].op \notin FirstOps
    BY <1>2, <2>2, <2>3 DEF PostGoes
  <2>. QED BY <2>3, <2>10, <2>11 DEF PostGoes
<1>4. DOMAIN ui = ReadPageFields /\ ui.known \in BOOLEAN
  BY DEF PostState
<1>. QED BY <1>2, <1>3, <1>4 DEF PostState

\* The page does what was answered, and may ask for the followers again.
LEMMA PostFollows ==
  ASSUME PostState, NEW i \in 1..Len(net), net[i].op \notin FirstOps, net[i].ans # Pending, NEW s, NEW cs,
         NewOnes(cs, ReadPageOps), \A k \in 1..Len(cs) : cs[k].op \notin FirstOps, Settle(i, s, cs),
         DOMAIN s = ReadPageFields, s.known = ui.known,
         IsOk(i) => PostView(s) = PostAfter(net[i], PostView(ui))
  PROVE  PostState'
<1>1. Finished(ReadPageOps, i, s, cs)
  BY SettleFinishes DEF PostState
<1>2. /\ Queue(ReadPageOps)' /\ ui' = s /\ srv' = srv
      /\ Len(net') = (Len(net) - 1) + Len(cs) /\ Len(net) \in Nat
      /\ \A k \in 1..(Len(net) - 1) : net'[k] = net[IF k < i THEN k ELSE k + 1]
      /\ \A k \in 1..Len(cs) : net'[(Len(net) - 1) + k] = cs[k]
      /\ ~mishap' => ~mishap /\ i = 1 /\ IsOk(1) /\ Shifted(net, net')
  BY <1>1 DEF Finished
<1>3. ui.known \in BOOLEAN /\ srv \in PostRecords
  BY DEF PostState
<1>4. ASSUME srv.kind = "post", ~mishap' PROVE PostGoes(net', s, srv)
  <2>1. PostGoes(net, ui, srv)
    BY <1>2, <1>4 DEF PostState
  <2>2. ui.known /\ \A k \in 1..Len(net) : net[k].op \notin FirstOps
    BY <2>1 DEF PostGoes, FirstOps
  <2>3. PICK b : PostReplay!Leads(net, PostView(ui), b) /\ PostAgrees(net, b, srv)
    BY <2>1, <2>2 DEF PostGoes, PostLeads
  <2>4. i = 1 /\ Shifted(net, net') /\ PostReplay!Step(net[1], PostView(ui)) = PostView(s)
    BY <1>2, <1>4 DEF PostReplay!Step
  <2>5. PostReplay!Leads(net', PostView(s), b)
    BY <2>3, <2>4, PostReplay!LeadsSettled DEF Shifted
  <2>6. \A k \in 2..Len(net) : k - 1 \in 1..Len(net') /\ net'[k - 1] = net[k]
    <3>1. Len(cs) \in Nat /\ i = 1
      BY <2>4 DEF NewOnes, Calls
    <3>. QED BY <3>1, <1>2
  <2>7. FollowersToCome(net) => FollowersToCome(net')
    <3>1. \A k \in 1..Len(net) : net[k].ans = Pending => k \in 2..Len(net)
      BY <2>4, <1>2
    <3>. QED BY <2>6, <3>1 DEF FollowersToCome
  <2>8. PostAgrees(net', b, srv)
    BY <2>3, <2>7 DEF PostAgrees
  <2>9. \A k \in 1..Len(net') : net'[k].op \notin FirstOps
    <3>1. \A k \in 1..Len(net') : k \in 1..(Len(net) - 1) \/ k - (Len(net) - 1) \in 1..Len(cs)
      BY <1>2 DEF NewOnes, Calls
    <3>2. \A k \in 1..(Len(net) - 1) : k + 1 \in 1..Len(net) /\ net'[k] = net[k + 1]
      BY <2>4 DEF Shifted
    <3>3. \A k \in 1..Len(net') : k - (Len(net) - 1) \in 1..Len(cs) => net'[k] = cs[k - (Len(net) - 1)]
      <4>. TAKE k \in 1..Len(net')
      <4>1. k = (Len(net) - 1) + (k - (Len(net) - 1))
        BY <1>2 DEF NewOnes, Calls
      <4>. QED BY <4>1, <1>2
    <3>. QED BY <3>1, <3>2, <3>3, <2>2
  <2>. QED BY <1>3, <2>2, <2>5, <2>8, <2>9 DEF PostGoes, PostLeads
<1>. QED BY <1>2, <1>3, <1>4 DEF PostState

\* The post is there, or is looked for among the creations.
LEMMA PostLoads ==
  ASSUME PostState, NEW i \in 1..Len(net), net[i].ans # Pending, NEW s, NEW cs,
         NewOnes(cs, ReadPageOps), Settle(i, s, cs),
         DOMAIN s = ReadPageFields, s.known \in BOOLEAN, net[i].op \in FirstOps,
         net[i].op = "getPost" /\ IsOk(i) /\ Data(i).found =>
           /\ s.known /\ Len(cs) = 3 /\ cs[3].op = "isFollowed"
           /\ \A k \in 1..Len(cs) : cs[k].op \notin FirstOps
           /\ s.liked = Data(i).liked /\ s.likes = Data(i).likes
           /\ s.marked = Data(i).marked /\ s.views = Data(i).views
  PROVE  PostState'
<1>1. Finished(ReadPageOps, i, s, cs)
  BY SettleFinishes DEF PostState
<1>2. /\ Queue(ReadPageOps)' /\ ui' = s /\ srv' = srv
      /\ Len(net') = (Len(net) - 1) + Len(cs) /\ Len(net) \in Nat
      /\ \A k \in 1..Len(cs) : net'[(Len(net) - 1) + k] = cs[k]
      /\ ~mishap' => ~mishap /\ i = 1 /\ IsOk(1) /\ Shifted(net, net')
  BY <1>1 DEF Finished
<1>3. ASSUME srv.kind = "post", ~mishap' PROVE PostGoes(net', s, srv)
  <2>1. PostGoes(net, ui, srv) /\ i = 1 /\ IsOk(i)
    BY <1>2, <1>3 DEF PostState
  <2>2. ~ui.known
    BY <2>1 DEF PostGoes, PostState
  <2>3. Len(net) <= 1 /\ net[i].op = "getPost" /\ net[i].ans = Ok(PostHeld(srv))
    BY <2>1, <2>2 DEF PostGoes
  <2>4. Len(net) = 1
    <3>1. i \in Nat /\ 1 <= i /\ i <= Len(net)
      BY <1>2
    <3>2. Len(net) <= 1
      BY <2>3
    <3>3. Len(net) \in Nat
      BY <1>2
    <3>. QED BY <3>1, <3>2, <3>3, OnlyOne
  <2>5. Data(i) = PostHeld(srv)
    BY <2>3 DEF Data, Ok
  <2>6. /\ Data(i).found /\ Data(i).liked = srv.liked /\ Data(i).likes = PostCount(srv.liked, OtherLikes)
        /\ Data(i).marked = srv.marked /\ Data(i).views = srv.views
    BY <2>5 DEF PostHeld
  <2>7. /\ s.known /\ Len(cs) = 3 /\ cs[3].op = "isFollowed"
        /\ \A k \in 1..Len(cs) : cs[k].op \notin FirstOps
        /\ s.liked = srv.liked /\ s.likes = PostCount(srv.liked, OtherLikes)
        /\ s.marked = srv.marked /\ s.views = srv.views
    BY <2>1, <2>3, <2>6
  <2>8. Len(net') = 3 /\ \A k \in 1..3 : net'[k] = cs[k] /\ cs[k].ans = Pending
    <3>1. \A k \in 1..3 : k \in 1..Len(cs) /\ (Len(net) - 1) + k = k
      BY <2>4, <2>7
    <3>2. \A k \in 1..Len(cs) : cs[k].ans = Pending
      BY DEF NewOnes
    <3>. QED BY <3>1, <3>2, <2>4, <2>7, <1>2
  <2>9. PostReplay!Leads(net', PostView(s), PostView(s))
    BY <2>8, PostReplay!LeadsWaiting
  <2>10. FollowersToCome(net')
    BY <2>7, <2>8 DEF FollowersToCome
  <2>11. PostAgrees(net', PostView(s), srv)
    BY <2>7, <2>10 DEF PostAgrees, PostView
  <2>12. \A k \in 1..Len(net') : net'[k].op \notin FirstOps
    BY <2>7, <2>8
  <2>. QED BY <2>7, <2>9, <2>11, <2>12 DEF PostGoes, PostLeads
<1>4. srv \in PostRecords
  BY DEF PostState
<1>. QED BY <1>2, <1>3, <1>4 DEF PostState

\* Every step of the page keeps it.
LEMMA PostPageSteps ==
  ASSUME page = "post", PostState, Next PROVE PostState'
<1>. Queue(ReadPageOps) /\ Len(net) \in Nat
  BY DEF PostState, Queue, Calls
<1>0. DOMAIN ui = ReadPageFields /\ ui.known \in BOOLEAN /\ srv \in PostRecords
  BY DEF PostState
<1>1. CASE HandleFollowAuthor
  <2>. DEFINE s == [ui EXCEPT !.followLoading = TRUE]
              c == Fetch("followAuthor", 0)
  <2>1. Handle(s, <<c>>) /\ ui.known
    BY <1>1 DEF HandleFollowAuthor, PostShown
  <2>2. DOMAIN s = ReadPageFields /\ s.known = ui.known /\ PostView(s) = PostView(ui)
    BY <1>0 DEF ReadPageFields, PostView
  <2>3. IsCall(c) /\ c.op \in ReadPageOps \ FirstOps /\ c.ans = Pending
    BY NewCalls DEF ReadPageOps, FirstOps
  <2>. HIDE DEF s, c
  <2>. QED BY <2>1, <2>2, <2>3, PostClicked
<1>2. CASE HandleLike
  <2>. DEFINE c == Request("likePost", 0)
  <2>1. Handle(ui, <<c>>) /\ ui.known
    BY <1>2 DEF HandleLike, PostShown
  <2>2. IsCall(c) /\ c.op \in ReadPageOps \ FirstOps /\ c.ans = Pending
    BY NewCalls DEF ReadPageOps, FirstOps
  <2>. HIDE DEF c
  <2>. QED BY <1>0, <2>1, <2>2, PostClicked
<1>3. CASE HandleBookmark
  <2>. DEFINE c == Request("markPost", 0)
  <2>1. Handle(ui, <<c>>) /\ ui.known
    BY <1>3 DEF HandleBookmark, PostShown
  <2>2. IsCall(c) /\ c.op \in ReadPageOps \ FirstOps /\ c.ans = Pending
    BY NewCalls DEF ReadPageOps, FirstOps
  <2>. HIDE DEF c
  <2>. QED BY <1>0, <2>1, <2>2, PostClicked
<1>4. ASSUME NEW right \in BOOLEAN, HandleUnlock(right) PROVE PostState'
  <2>. DEFINE s == [ui EXCEPT !.unlocking = TRUE]
              c == Request("unlock", right)
  <2>1. Handle(s, <<c>>) /\ ui.known
    BY <1>4 DEF HandleUnlock, PostShown
  <2>2. DOMAIN s = ReadPageFields /\ s.known = ui.known /\ PostView(s) = PostView(ui)
    BY <1>0 DEF ReadPageFields, PostView
  <2>3. IsCall(c) /\ c.op \in ReadPageOps \ FirstOps /\ c.ans = Pending
    BY NewCalls DEF ReadPageOps, FirstOps
  <2>. HIDE DEF s, c
  <2>. QED BY <2>1, <2>2, <2>3, PostClicked
<1>5. ASSUME NEW i \in 1..Len(net), GetPostServed(i) PROVE PostState'
  <2>1. PICK v : Reply(i, v, srv) /\ net[i].op \in FirstOps
                 /\ (net[i].op = "getPost" /\ srv.kind = "post" => v = PostHeld(srv))
    BY <1>5 DEF GetPostServed, Asked, FirstOps
  <2>2. Replied(ReadPageOps, i, v, srv)
    BY <2>1, Replies
  <2>3. /\ Queue(ReadPageOps)' /\ ui' = ui /\ srv' = srv
        /\ Len(net') = Len(net)
        /\ \A k \in 1..Len(net) : net'[k].op = net[k].op /\ (k # i => net'[k] = net[k])
    BY <2>2 DEF Replied
  <2>4. ASSUME srv.kind = "post", ~mishap' PROVE PostGoes(net', ui, srv)
    <3>1. net'[i].ans = Ok(v) /\ ~mishap
      BY <2>2, <2>4, RepliedNext
    <3>2. PostGoes(net, ui, srv)
      BY <2>4, <3>1 DEF PostState
    <3>3. ~ui.known /\ Len(net) <= 1 /\ \A k \in 1..Len(net) : net[k].op = "getPost"
      BY <2>1, <3>2, <1>0 DEF PostGoes
    <3>4. \A k \in 1..Len(net) : k = i
      BY <3>3
    <3>5. net'[i].ans = Ok(PostHeld(srv))
      BY <2>1, <2>4, <3>1, <3>3
    <3>. QED BY <2>3, <3>3, <3>4, <3>5 DEF PostGoes
  <2>. QED BY <1>0, <2>3, <2>4 DEF PostState
<1>6. ASSUME NEW i \in 1..Len(net), ViewServed(i) PROVE PostState'
  <2>1. CASE net[i].op = "view"
    <3>. DEFINE s == [srv EXCEPT !.views = @ + 1]
    <3>1. Reply(i, srv.views + 1, s)
      BY <1>6, <2>1 DEF ViewServed, Asked
    <3>2. /\ s \in PostRecords /\ s.kind = srv.kind /\ s.liked = srv.liked /\ s.marked = srv.marked
          /\ s.views = srv.views + 1 /\ s.follows = srv.follows
      BY <1>0 DEF PostRecords
    <3>. HIDE DEF s
    <3>. QED BY <2>1, <3>1, <3>2, PostServes DEF FirstOps, FollowOps
  <2>2. CASE net[i].op = "getComments"
    <3>1. Reply(i, 0, srv)
      BY <1>6, <2>2 DEF ViewServed, Asked
    <3>. QED BY <1>0, <2>2, <3>1, PostServes DEF FirstOps, FollowOps
  <2>3. CASE net[i].op = "isFollowed"
    <3>1. Reply(i, srv.follows, srv)
      BY <1>6, <2>3 DEF ViewServed, Asked
    <3>. QED BY <1>0, <2>3, <3>1, PostServes DEF FirstOps, FollowOps
  <2>. QED BY <1>6, <2>1, <2>2, <2>3 DEF ViewServed, Asked
<1>7. ASSUME NEW i \in 1..Len(net), ReaderServed(i) PROVE PostState'
  <2>1. CASE net[i].op = "followAuthor"
    <3>. DEFINE s == [srv EXCEPT !.follows = ~@]
    <3>1. Reply(i, s.follows, s)
      BY <1>7, <2>1 DEF ReaderServed, Asked, PostActDoneBy
    <3>2. /\ s \in PostRecords /\ s.kind = srv.kind /\ s.liked = srv.liked /\ s.marked = srv.marked
          /\ s.views = srv.views
      BY <1>0 DEF PostRecords
    <3>. HIDE DEF s
    <3>. QED BY <2>1, <3>1, <3>2, PostServes DEF FirstOps, FollowOps
  <2>2. CASE net[i].op = "likePost"
    <3>. DEFINE s == [srv EXCEPT !.liked = ~@]
    <3>1. Reply(i, s.liked, s)
      BY <1>7, <2>2 DEF ReaderServed, Asked, PostActDoneBy
    <3>2. /\ s \in PostRecords /\ s.kind = srv.kind /\ s.liked = ~srv.liked /\ s.marked = srv.marked
          /\ s.views = srv.views /\ s.follows = srv.follows
      BY <1>0 DEF PostRecords
    <3>. HIDE DEF s
    <3>. QED BY <2>2, <3>1, <3>2, PostServes DEF FirstOps, FollowOps
  <2>3. CASE net[i].op = "markPost"
    <3>. DEFINE s == [srv EXCEPT !.marked = ~@]
    <3>1. Reply(i, s.marked, s)
      BY <1>7, <2>3 DEF ReaderServed, Asked, PostActDoneBy
    <3>2. /\ s \in PostRecords /\ s.kind = srv.kind /\ s.liked = srv.liked
          /\ s.views = srv.views /\ s.follows = srv.follows
      BY <1>0 DEF PostRecords
    <3>. HIDE DEF s
    <3>. QED BY <2>3, <3>1, <3>2, PostServes DEF FirstOps, FollowOps
  <2>4. CASE net[i].op = "unlock"
    <3>1. Reply(i, [right |-> net[i].arg, views |-> srv.views], srv)
      BY <1>7, <2>4 DEF ReaderServed, Asked, ReaderOps
    <3>. QED BY <1>0, <2>4, <3>1, PostServes DEF FirstOps, FollowOps
  <2>. QED BY <1>7, <2>1, <2>2, <2>3, <2>4 DEF ReaderServed, Asked, ReaderOps
<1>8. ASSUME NEW i \in 1..Len(net), PostLoaded(i) PROVE PostState'
  <2>0. NewOnes(<< >>, ReadPageOps) /\ Len(<< >>) = 0
    BY NewNone
  <2>1. CASE net[i].op = "getPost"
    <3>. DEFINE s == ShowPost(ui, Data(i))
                cs == <<Request("getComments", 0), ViewPost, FetchFollowers>>
                c == Request("getCreation", 0)
    <3>1. /\ net[i].ans # Pending
          /\ IsOk(i) /\ Data(i).found => Settle(i, s, cs)
          /\ ~(IsOk(i) /\ Data(i).found) => Settle(i, ui, <<c>>)
      BY <1>8, <2>1 DEF PostLoaded, Answered
    <3>2. /\ DOMAIN s = ReadPageFields /\ s.known = TRUE
          /\ s.liked = Data(i).liked /\ s.likes = Data(i).likes
          /\ s.marked = Data(i).marked /\ s.views = Data(i).views
      BY <1>0 DEF ShowPost, ReadPageFields
    <3>3. NewOnes(<<c>>, ReadPageOps)
      <4>1. IsCall(c) /\ c.op \in ReadPageOps /\ c.ans = Pending
        BY NewCalls DEF ReadPageOps
      <4>. HIDE DEF c
      <4>. QED BY <4>1, NewOne
    <3>4. /\ NewOnes(cs, ReadPageOps) /\ Len(cs) = 3 /\ cs[3].op = "isFollowed"
          /\ \A k \in 1..Len(cs) : cs[k].op \notin FirstOps
      <4>1. \A d \in {Request("getComments", 0), ViewPost, FetchFollowers} :
              IsCall(d) /\ d.op \in ReadPageOps /\ d.ans = Pending /\ d.op \notin FirstOps
        BY DEF ViewPost, FetchFollowers, Request, Fetch, IsCall, ReadPageOps, FirstOps
      <4>2. FetchFollowers.op = "isFollowed"
        BY DEF FetchFollowers, Fetch
      <4>3. /\ Len(cs) = 3 /\ cs[3] = FetchFollowers
            /\ \A k \in 1..3 : cs[k] \in {Request("getComments", 0), ViewPost, FetchFollowers}
            /\ cs = [k \in 1..3 |-> cs[k]]
        OBVIOUS
      <4>. HIDE DEF cs
      <4>. QED BY <4>1, <4>2, <4>3 DEF NewOnes, Calls
    <3>. HIDE DEF s, cs, c
    <3>5. CASE IsOk(i) /\ Data(i).found
      BY <2>1, <3>1, <3>2, <3>4, <3>5, PostLoads DEF FirstOps
    <3>6. CASE ~(IsOk(i) /\ Data(i).found)
      BY <1>0, <2>1, <3>1, <3>3, <3>6, PostLoads DEF FirstOps
    <3>. QED BY <3>5, <3>6
  <2>2. CASE net[i].op = "getCreation"
    <3>. DEFINE s == [ShowPost(ui, Data(i)) EXCEPT !.loading = FALSE]
                cs == <<ViewPost, FetchFollowers>>
                e == [ui EXCEPT !.loading = FALSE, !.error = TRUE]
    <3>1. /\ net[i].ans # Pending
          /\ IsOk(i) /\ Data(i).found => Settle(i, s, cs)
          /\ ~(IsOk(i) /\ Data(i).found) => Settle(i, e, << >>)
      BY <1>8, <2>2 DEF PostLoaded, Answered
    <3>2. DOMAIN s = ReadPageFields /\ s.known \in BOOLEAN
      BY <1>0 DEF ShowPost, ReadPageFields
    <3>3. DOMAIN e = ReadPageFields /\ e.known \in BOOLEAN
      BY <1>0 DEF ReadPageFields
    <3>4. NewOnes(cs, ReadPageOps)
      <4>1. \A d \in {ViewPost, FetchFollowers} : IsCall(d) /\ d.op \in ReadPageOps /\ d.ans = Pending
        BY DEF ViewPost, FetchFollowers, Request, Fetch, IsCall, ReadPageOps
      <4>2. /\ Len(cs) = 2 /\ \A k \in 1..2 : cs[k] \in {ViewPost, FetchFollowers}
            /\ cs = [k \in 1..2 |-> cs[k]]
        OBVIOUS
      <4>. HIDE DEF cs
      <4>. QED BY <4>1, <4>2 DEF NewOnes, Calls
    <3>. HIDE DEF s, cs, e
    <3>5. CASE IsOk(i) /\ Data(i).found
      BY <2>2, <3>1, <3>2, <3>4, <3>5, PostLoads DEF FirstOps
    <3>6. CASE ~(IsOk(i) /\ Data(i).found)
      BY <2>0, <2>2, <3>1, <3>3, <3>6, PostLoads DEF FirstOps
    <3>. QED BY <3>5, <3>6
  <2>3. CASE net[i].op = "getComments"
    <3>. DEFINE s == [ui EXCEPT !.loading = FALSE]
    <3>1. net[i].ans # Pending /\ Settle(i, s, << >>)
      BY <1>8, <2>3 DEF PostLoaded, Answered
    <3>2. DOMAIN s = ReadPageFields /\ s.known = ui.known /\ PostView(s) = PostAfter(net[i], PostView(ui))
      BY <1>0, <2>3 DEF ReadPageFields, PostView, PostAfter, FollowOps
    <3>. HIDE DEF s
    <3>3. \A k \in 1..Len(<< >>) : FALSE
      BY <2>0
    <3>. QED BY <2>0, <2>3, <3>1, <3>2, <3>3, PostFollows DEF FirstOps
  <2>. QED BY <1>8, <2>1, <2>2, <2>3 DEF PostLoaded, Answered
<1>. DEFINE cs == <<FetchFollowers>>
<1>9. /\ NewOnes(cs, ReadPageOps) /\ \A k \in 1..Len(cs) : cs[k].op \notin FirstOps
      /\ NewOnes(<< >>, ReadPageOps) /\ \A k \in 1..Len(<< >>) : << >>[k].op \notin FirstOps
  <2>1. /\ IsCall(FetchFollowers) /\ FetchFollowers.op \in ReadPageOps /\ FetchFollowers.ans = Pending
        /\ FetchFollowers.op \notin FirstOps
    BY DEF FetchFollowers, Fetch, IsCall, ReadPageOps, FirstOps
  <2>2. NewOnes(cs, ReadPageOps) /\ Len(cs) = 1 /\ cs[1] = FetchFollowers
    BY <2>1, NewOne
  <2>3. NewOnes(<< >>, ReadPageOps) /\ Len(<< >>) = 0
    BY NewNone
  <2>. HIDE DEF cs
  <2>4. \A k \in 1..Len(cs) : cs[k] = FetchFollowers
    BY <2>2
  <2>. QED BY <2>1, <2>2, <2>3, <2>4
<1>. HIDE DEF cs
<1>10. ASSUME NEW i \in 1..Len(net), ViewDone(i) PROVE PostState'
  <2>. DEFINE shown == [ui EXCEPT !.views = Data(i)]
              told == [ui EXCEPT !.following = IF IsOk(i) THEN Data(i) ELSE @]
  <2>1. /\ net[i].ans # Pending
        /\ \/ net[i].op = "view" /\ IsOk(i) /\ Settle(i, shown, cs)
           \/ net[i].op = "view" /\ ~IsOk(i) /\ Settle(i, ui, << >>)
           \/ net[i].op = "isFollowed" /\ Settle(i, told, << >>)
    BY <1>10 DEF ViewDone, Answered, cs
  <2>2. /\ DOMAIN shown = ReadPageFields /\ shown.known = ui.known
        /\ net[i].op = "view" => PostView(shown) = PostAfter(net[i], PostView(ui))
    BY <1>0 DEF ReadPageFields, PostView, PostAfter, FollowOps, Data
  <2>3. /\ DOMAIN told = ReadPageFields /\ told.known = ui.known
        /\ net[i].op = "isFollowed" /\ IsOk(i) => PostView(told) = PostAfter(net[i], PostView(ui))
    BY <1>0 DEF ReadPageFields, PostView, PostAfter, FollowOps, Data
  <2>. HIDE DEF shown, told
  <2>4. net[i].op \notin FirstOps
    BY <2>1 DEF FirstOps
  <2>5. CASE net[i].op = "view" /\ IsOk(i) /\ Settle(i, shown, cs)
    BY <1>9, <2>1, <2>2, <2>4, <2>5, PostFollows
  <2>6. CASE net[i].op = "view" /\ ~IsOk(i) /\ Settle(i, ui, << >>)
    BY <1>0, <1>9, <2>1, <2>4, <2>6, PostFollows
  <2>7. CASE net[i].op = "isFollowed" /\ Settle(i, told, << >>)
    BY <1>9, <2>1, <2>3, <2>4, <2>7, PostFollows
  <2>. QED BY <2>1, <2>5, <2>6, <2>7
<1>11. ASSUME NEW i \in 1..Len(net), ReaderDone(i) PROVE PostState'
  <2>. DEFINE told == [ui EXCEPT !.followLoading = FALSE, !.following = IF IsOk(i) THEN Data(i) ELSE @]
              liked == IF ~IsOk(i) THEN ui
                       ELSE [ui EXCEPT !.liked = Data(i),
                                       !.likes = IF Data(i) THEN @ + 1 ELSE Max({0, @ - 1})]
              marked == [ui EXCEPT !.marked = IF IsOk(i) THEN Data(i) ELSE @]
              open == [ui EXCEPT !.unlocking = FALSE, !.body = TRUE, !.views = Data(i).views]
              wrong == [ui EXCEPT !.unlocking = FALSE, !.error = TRUE]
  <2>1. /\ net[i].ans # Pending
        /\ \/ net[i].op = "followAuthor" /\ Settle(i, told, << >>)
           \/ net[i].op = "likePost" /\ Settle(i, liked, << >>)
           \/ net[i].op = "markPost" /\ Settle(i, marked, << >>)
           \/ net[i].op = "unlock" /\ (IsOk(i) /\ Data(i).right) /\ Settle(i, open, cs)
           \/ net[i].op = "unlock" /\ ~(IsOk(i) /\ Data(i).right) /\ Settle(i, wrong, << >>)
    BY <1>11 DEF ReaderDone, Answered, cs
  <2>2. /\ DOMAIN told = ReadPageFields /\ told.known = ui.known
        /\ net[i].op = "followAuthor" /\ IsOk(i) => PostView(told) = PostAfter(net[i], PostView(ui))
    BY <1>0 DEF ReadPageFields, PostView, PostAfter, FollowOps, Data
  <2>3. /\ DOMAIN liked = ReadPageFields /\ liked.known = ui.known
        /\ net[i].op = "likePost" /\ IsOk(i) => PostView(liked) = PostAfter(net[i], PostView(ui))
    BY <1>0 DEF ReadPageFields, PostView, PostAfter, FollowOps, Data
  <2>4. /\ DOMAIN marked = ReadPageFields /\ marked.known = ui.known
        /\ net[i].op = "markPost" /\ IsOk(i) => PostView(marked) = PostAfter(net[i], PostView(ui))
    BY <1>0 DEF ReadPageFields, PostView, PostAfter, FollowOps, Data
  <2>5. /\ DOMAIN open = ReadPageFields /\ open.known = ui.known
        /\ net[i].op = "unlock" /\ Data(i).right => PostView(open) = PostAfter(net[i], PostView(ui))
    BY <1>0 DEF ReadPageFields, PostView, PostAfter, FollowOps, Data
  <2>6. /\ DOMAIN wrong = ReadPageFields /\ wrong.known = ui.known
        /\ net[i].op = "unlock" /\ ~Data(i).right => PostView(wrong) = PostAfter(net[i], PostView(ui))
    BY <1>0 DEF ReadPageFields, PostView, PostAfter, FollowOps, Data
  <2>. HIDE DEF told, liked, marked, open, wrong
  <2>7. net[i].op \notin FirstOps
    BY <2>1 DEF FirstOps
  <2>8. CASE net[i].op = "followAuthor" /\ Settle(i, told, << >>)
    BY <1>9, <2>1, <2>2, <2>7, <2>8, PostFollows
  <2>9. CASE net[i].op = "likePost" /\ Settle(i, liked, << >>)
    BY <1>9, <2>1, <2>3, <2>7, <2>9, PostFollows
  <2>10. CASE net[i].op = "markPost" /\ Settle(i, marked, << >>)
    BY <1>9, <2>1, <2>4, <2>7, <2>10, PostFollows
  <2>11. CASE net[i].op = "unlock" /\ (IsOk(i) /\ Data(i).right) /\ Settle(i, open, cs)
    BY <1>9, <2>1, <2>5, <2>7, <2>11, PostFollows
  <2>12. CASE net[i].op = "unlock" /\ ~(IsOk(i) /\ Data(i).right) /\ Settle(i, wrong, << >>)
    BY <1>9, <2>1, <2>6, <2>7, <2>12, PostFollows
  <2>. QED BY <2>1, <2>8, <2>9, <2>10, <2>11, <2>12
<1>12. ASSUME NEW i \in 1..Len(net), Deny(i) PROVE PostState'
  <2>1. Denied(ReadPageOps, i)
    BY <1>12, Denies
  <2>2. Queue(ReadPageOps)' /\ ui' = ui /\ srv' = srv /\ mishap'
    BY <2>1 DEF Denied
  <2>. QED BY <1>0, <2>2 DEF PostState
<1>. QED BY <1>1, <1>2, <1>3, <1>4, <1>5, <1>6, <1>7, <1>8, <1>10, <1>11, <1>12, PostActions

\* The page of a post (WebPost.PostIsCurrent): what is shown, and the answers
\* that are still to be taken, lead to what the service holds; only whether the
\* author is followed may wait for an answer of its own, which every new post
\* object asks for.
THEOREM PostStaysCurrent == Spec => []PostIsCurrent
<1>. DEFINE Inv == page = "post" => PostState
<1>1. Init => Inv
  BY Mounts, PostStarts
<1>2. Inv /\ [Next]_vars => Inv'
  <2>1. CASE Next
    BY <2>1, PageStays, PostPageSteps
  <2>2. CASE UNCHANGED vars
    BY <2>2 DEF vars, PostState, Queue, Calls, InOrder
  <2>. QED BY <2>1, <2>2
<1>3. Inv => PostIsCurrent
  <2>. SUFFICES ASSUME PostState, ui.known, srv.kind = "post", Quiet, ~mishap
                PROVE  /\ ui.liked = srv.liked /\ ui.likes = PostCount(srv.liked, OtherLikes)
                       /\ ui.marked = srv.marked /\ ui.following = srv.follows /\ ui.views = srv.views
    BY DEF PostIsCurrent
  <2>1. Len(net) = 0
    BY QuietIsEmpty DEF PostState
  <2>2. PICK b : PostReplay!Leads(net, PostView(ui), b) /\ PostAgrees(net, b, srv)
    BY DEF PostState, PostGoes, PostLeads
  <2>3. b = PostView(ui)
    BY <2>1, <2>2, PostReplay!LeadsNowhere
  <2>4. ~FollowersToCome(net)
    BY <2>1 DEF FollowersToCome
  <2>. QED BY <2>2, <2>3, <2>4 DEF PostAgrees, PostView
<1>. QED BY <1>1, <1>2, <1>3, PTL DEF Spec
-----------------------------------------------------------------------------
(***************************************************************************)
(* The header of a space.                                                  *)
(***************************************************************************)
SpacePageOps    == {"space", "status", "toggle", "joinSpace"}
SpacePageFields == {"loading", "space", "on", "busy", "captured", "member", "pending", "joining", "pressed"}
SpaceRecords    == [on : [Toggles -> BOOLEAN], member : {"no", "yes", "asked"}, private : BOOLEAN]

\* The flags of the page, and what an answer makes of them.
FlagsView(u) == [on |-> u.on, member |-> u.member]

FlagsAfter(c, v) ==
  CASE c.op = "status"    -> [on |-> c.ans.data.on, member |-> c.ans.data.member = "yes"]
    [] c.op = "toggle"    -> [on |-> [v.on EXCEPT ![c.arg.t] = ~c.arg.was], member |-> v.member]
    [] c.op = "joinSpace" -> [on |-> v.on, member |-> v.member \/ c.ans.data = "yes"]
    [] OTHER              -> v

FlagsReplay == INSTANCE Replay WITH After <- FlagsAfter

\* The status is still to be answered, or the space that starts its fetch.
StatusToCome(q) == \E k \in 1..Len(q) : q[k].op = "space" \/ (q[k].op = "status" /\ q[k].ans = Pending)

FlagsLead(q, u, s) ==
  \E b : /\ FlagsReplay!Leads(q, FlagsView(u), b)
         /\ (b.on = s.on /\ b.member = (s.member = "yes")) \/ StatusToCome(q)

\* Calls to the toggles are marked busy, one each; the space is asked for alone.
IsToggle(c) == c.op = "toggle"

TogglesBusy(q, u) ==
  /\ \A k \in 1..Len(q) : IsToggle(q[k]) =>
       q[k].arg.t \in u.pressed /\ u.busy[q[k].arg.t] /\ q[k].arg.was \in BOOLEAN
  /\ \A j, k \in 1..Len(q) : IsToggle(q[j]) /\ IsToggle(q[k]) /\ q[j].arg.t = q[k].arg.t => j = k
  /\ \A k \in 1..Len(q) : q[k].op = "space" => Len(q) = 1 /\ ~u.space.known
  /\ \A k \in 1..Len(q) : q[k].op = "status" /\ q[k].ans # Pending => q[k].ans.data \in SpaceRecords

\* The space as it is answered while the toggles are on like o.
HeldOn(o) == [known |-> TRUE, count |-> [t \in Toggles |-> Rest + (IF o[t] THEN 1 ELSE 0)]]

\* A call to a toggle is answered up to place k.
ToggledBy(q, k) == \E j \in 1..k : IsToggle(q[j]) /\ q[j].ans # Pending

\* With toggle t alone in use: o is what the service held before the toggle
\* answered last; the page, the callback and the calls agree with it.
CountsAt(q, u, s, t, o) ==
  /\ u.space.known => u.space = HeldOn(o)
  /\ u.captured[t].known => u.captured[t] = HeldOn(o) /\ u.on[t] = o[t]
  /\ \A k \in 1..Len(q) : IsToggle(q[k]) /\ q[k].arg.space.known => q[k].arg.space = HeldOn(o) /\ q[k].arg.was = o[t]
  /\ \A k \in 1..Len(q) : q[k].op = "space" /\ q[k].ans # Pending => q[k].ans.data = HeldOn(o)
  /\ \A k \in 1..Len(q) : q[k].op = "status" /\ q[k].ans # Pending =>
       q[k].ans.data.on = IF ToggledBy(q, k) THEN s.on ELSE o
  /\ \A k \in 1..Len(q) : IsToggle(q[k]) /\ q[k].ans # Pending => s.on = [o EXCEPT ![t] = ~q[k].arg.was]
  /\ ToggledBy(q, Len(q)) \/ o = s.on

CountsGo(q, u, s, t) == \E o \in [Toggles -> BOOLEAN] : CountsAt(q, u, s, t, o)

SpaceTyped(u, s) ==
  /\ DOMAIN u = SpacePageFields
  /\ u.on \in [Toggles -> BOOLEAN] /\ u.busy \in [Toggles -> BOOLEAN] /\ u.pressed \subseteq Toggles
  /\ s \in SpaceRecords

SpaceGoes(q, u, s) ==
  /\ SpaceTyped(u, s)
  /\ TogglesBusy(q, u)
  /\ FlagsLead(q, u, s)
  /\ \A t \in Toggles : u.pressed \subseteq {t} => CountsGo(q, u, s, t)

SpaceState == Queue(SpacePageOps) /\ (~mishap => SpaceGoes(net, ui, srv))

\* The page is mounted in a state of it.
LEMMA SpaceStarts ==
  ASSUME SpaceInit PROVE SpaceState
<1>. DEFINE c == Fetch("space", None)
<1>1. IsCall(c) /\ c.op = "space" /\ c.op \in SpacePageOps /\ c.ans = Pending
  BY NewCalls DEF SpacePageOps
<1>2. net = <<c>> /\ mishap = FALSE
  BY DEF SpaceInit
<1>. HIDE DEF c
<1>3. Queue(SpacePageOps) /\ Len(net) = 1 /\ net[1] = c
  BY <1>1, <1>2, FirstCall
<1>4. /\ DOMAIN ui = SpacePageFields /\ ui.on \in [Toggles -> BOOLEAN] /\ ui.busy \in [Toggles -> BOOLEAN]
      /\ ui.pressed = {} /\ ~ui.space.known
      /\ \A t \in Toggles : ~ui.captured[t].known
  BY DEF SpaceInit, SpacePageFields, Off, NoSpace
<1>5. srv \in SpaceRecords
  BY DEF SpaceInit, SpaceRecords
<1>6. \A k \in 1..Len(net) : net[k].op = "space" /\ net[k].ans = Pending
  BY <1>1, <1>3
<1>7. TogglesBusy(net, ui)
  BY <1>3, <1>4, <1>6 DEF TogglesBusy, IsToggle
<1>8. FlagsLead(net, ui, srv)
  <2>1. FlagsReplay!Leads(net, FlagsView(ui), FlagsView(ui))
    BY <1>3, <1>6, FlagsReplay!LeadsWaiting
  <2>2. StatusToCome(net)
    BY <1>3, <1>6 DEF StatusToCome
  <2>. QED BY <2>1, <2>2 DEF FlagsLead
<1>9. ASSUME NEW t \in Toggles PROVE CountsGo(net, ui, srv, t)
  <2>1. CountsAt(net, ui, srv, t, srv.on)
    BY <1>4, <1>6 DEF CountsAt, IsToggle
  <2>2. srv.on \in [Toggles -> BOOLEAN]
    BY <1>5 DEF SpaceRecords
  <2>. QED BY <2>1, <2>2 DEF CountsGo
<1>. QED BY <1>3, <1>4, <1>5, <1>7, <1>8, <1>9 DEF SpaceState, SpaceGoes, SpaceTyped

\* What can happen on this page.
LEMMA SpaceActions ==
  ASSUME page = "space", Queue(SpacePageOps), Next
  PROVE  \/ \E t \in Toggles : HandleToggle(t)
         \/ HandleJoinSpace
         \/ \E i \in 1..Len(net) : \/ SpaceServed(i) \/ ToggleServed(i) \/ JoinSpaceServed(i) \/ Deny(i)
                                   \/ SpaceFetched(i) \/ ToggleDone(i) \/ JoinSpaceDone(i)
<1>1. page \in SpacePages /\ Queue(SpaceOps)
  BY QueueOf DEF SpacePages, SpacePageOps, SpaceOps
<1>2. CASE SpaceUser
  BY <1>2 DEF SpaceUser, SetPostKey, HandleSubscribe, OpenEdit, EditField, CloseEdit, HandleSaveSpaceEdit,
    HandleUploadIcon
<1>3. ASSUME NEW i \in 1..Len(net), SpaceService(i) \/ SpaceThen(i)
      PROVE  \/ SpaceServed(i) \/ ToggleServed(i) \/ JoinSpaceServed(i)
             \/ SpaceFetched(i) \/ ToggleDone(i) \/ JoinSpaceDone(i)
  <2>1. net[i].op \in SpacePageOps
    BY DEF Queue, Calls
  <2>2. SpaceService(i) => SpaceServed(i) \/ ToggleServed(i) \/ JoinSpaceServed(i)
    BY <2>1 DEF SpacePageOps, SpaceService, PostsServed, PostActServed, PostOps, GetSubServed, SubscribeServed,
      UploadServed, SaveSpaceServed, Asked
  <2>3. SpaceThen(i) => SpaceFetched(i) \/ ToggleDone(i) \/ JoinSpaceDone(i)
    BY <2>1 DEF SpacePageOps, SpaceThen, PostsFetched, PostActDone, PostOps, GetSubDone, SubscribeDone,
      UploadDone, SaveSpaceDone, Answered
  <2>. QED BY <1>3, <2>2, <2>3
<1>. QED BY <1>1, <1>2, <1>3, SpaceNext

\* A call is started.
LEMMA SpaceClicked ==
  ASSUME SpaceState, ~mishap, NEW s, NEW c, Handle(s, <<c>>), IsCall(c), c.ans = Pending,
         c.op \in {"toggle", "joinSpace"}, DOMAIN s = SpacePageFields, ui.space.known,
         s.space = ui.space, s.on = ui.on, s.member = ui.member, s.captured = ui.captured,
         s.busy \in [Toggles -> BOOLEAN], \A t \in Toggles : ui.busy[t] => s.busy[t],
         IsToggle(c) => /\ c.arg.t \in Toggles /\ ~ui.busy[c.arg.t] /\ s.busy[c.arg.t]
                        /\ c.arg.was = ui.on[c.arg.t] /\ c.arg.space = ui.captured[c.arg.t]
                        /\ s.pressed = ui.pressed \cup {c.arg.t},
         ~IsToggle(c) => s.pressed = ui.pressed
  PROVE  SpaceState'
<1>1. NewOnes(<<c>>, SpacePageOps) /\ Len(<<c>>) = 1 /\ <<c>>[1] = c
  BY NewOne DEF SpacePageOps
<1>2. Begun(SpacePageOps, s, <<c>>) /\ mishap' = mishap
  BY <1>1, HandleBegins DEF SpaceState
<1>3. /\ Queue(SpacePageOps)' /\ ui' = s /\ srv' = srv /\ Grown(net, net')
      /\ Len(net') = Len(net) + 1 /\ Len(net) \in Nat /\ (\A k \in 1..Len(net) : net'[k] = net[k])
      /\ net'[Len(net) + 1] = c
  BY <1>1, <1>2 DEF Begun
<1>4. /\ SpaceTyped(ui, srv) /\ TogglesBusy(net, ui) /\ FlagsLead(net, ui, srv)
      /\ \A t \in Toggles : ui.pressed \subseteq {t} => CountsGo(net, ui, srv, t)
  BY DEF SpaceState, SpaceGoes
<1>5. \A k \in 1..Len(net') : k \in 1..Len(net) \/ (k = Len(net) + 1 /\ net'[k] = c)
  BY <1>3
<1>6. SpaceTyped(s, srv)
  BY <1>4 DEF SpaceTyped
<1>7. TogglesBusy(net', s)
  <2>1. \A k \in 1..Len(net) : net[k].op # "space"
    BY <1>4 DEF TogglesBusy
  <2>2. \A k \in 1..Len(net') : net'[k].op # "space"
    BY <1>3, <1>5, <2>1
  <2>3. ASSUME NEW k \in 1..Len(net'), IsToggle(net'[k])
        PROVE  net'[k].arg.t \in s.pressed /\ s.busy[net'[k].arg.t] /\ net'[k].arg.was \in BOOLEAN
    <3>1. CASE k \in 1..Len(net)
      <4>1. net'[k] = net[k] /\ IsToggle(net[k])
        BY <2>3, <3>1, <1>3
      <4>2. net[k].arg.t \in ui.pressed /\ ui.busy[net[k].arg.t] /\ net[k].arg.was \in BOOLEAN
        BY <4>1, <3>1, <1>4 DEF TogglesBusy
      <4>3. net[k].arg.t \in Toggles
        BY <4>2, <1>4 DEF SpaceTyped
      <4>. QED BY <4>1, <4>2, <4>3
    <3>2. CASE k = Len(net) + 1 /\ net'[k] = c
      <4>1. ui.on[c.arg.t] \in BOOLEAN
        BY <2>3, <3>2, <1>4 DEF SpaceTyped
      <4>. QED BY <2>3, <3>2, <4>1
    <3>. QED BY <3>1, <3>2, <1>5
  <2>4. ASSUME NEW j \in 1..Len(net'), NEW k \in 1..Len(net'), IsToggle(net'[j]), IsToggle(net'[k]),
               net'[j].arg.t = net'[k].arg.t
        PROVE  j = k
    <3>1. \A l \in 1..Len(net) : IsToggle(net[l]) => ui.busy[net[l].arg.t]
      BY <1>4 DEF TogglesBusy
    <3>2. \A l \in 1..Len(net) : IsToggle(net[l]) /\ IsToggle(c) => net[l].arg.t # c.arg.t
      BY <3>1
    <3>3. CASE j \in 1..Len(net) /\ k \in 1..Len(net)
      BY <3>3, <2>4, <1>3, <1>4 DEF TogglesBusy
    <3>4. CASE j \in 1..Len(net) /\ k = Len(net) + 1
      BY <3>4, <3>2, <2>4, <1>3
    <3>5. CASE j = Len(net) + 1 /\ k \in 1..Len(net)
      BY <3>5, <3>2, <2>4, <1>3
    <3>6. CASE j = Len(net) + 1 /\ k = Len(net) + 1
      BY <3>6
    <3>. QED BY <3>3, <3>4, <3>5, <3>6, <1>5
  <2>5. ASSUME NEW k \in 1..Len(net'), net'[k].op = "status", net'[k].ans # Pending
        PROVE  net'[k].ans.data \in SpaceRecords
    <3>1. k \in 1..Len(net) /\ net'[k] = net[k]
      BY <2>5, <1>3, <1>5
    <3>. QED BY <2>5, <3>1, <1>4 DEF TogglesBusy
  <2>. QED BY <2>2, <2>3, <2>4, <2>5 DEF TogglesBusy
<1>8. FlagsLead(net', s, srv)
  <2>1. PICK b : /\ FlagsReplay!Leads(net, FlagsView(ui), b)
                 /\ (b.on = srv.on /\ b.member = (srv.member = "yes")) \/ StatusToCome(net)
    BY <1>4 DEF FlagsLead
  <2>2. FlagsView(s) = FlagsView(ui)
    BY DEF FlagsView
  <2>3. FlagsReplay!Leads(net', FlagsView(s), b)
    BY <1>3, <2>1, <2>2, FlagsReplay!LeadsGrow DEF Grown
  <2>4. StatusToCome(net) => StatusToCome(net')
    BY <1>3 DEF StatusToCome
  <2>. QED BY <2>1, <2>3, <2>4 DEF FlagsLead
<1>9. ASSUME NEW t \in Toggles, s.pressed \subseteq {t} PROVE CountsGo(net', s, srv, t)
  <2>1. ui.pressed \subseteq {t} /\ (IsToggle(c) => c.arg.t = t)
    BY <1>9
  <2>2. PICK o \in [Toggles -> BOOLEAN] : CountsAt(net, ui, srv, t, o)
    BY <2>1, <1>4 DEF CountsGo
  <2>3. ASSUME NEW k \in 1..Len(net'), IsToggle(net'[k]), net'[k].arg.space.known
        PROVE  net'[k].arg.space = HeldOn(o) /\ net'[k].arg.was = o[t]
    <3>1. CASE k \in 1..Len(net)
      BY <2>2, <2>3, <3>1, <1>3 DEF CountsAt
    <3>2. CASE k = Len(net) + 1 /\ net'[k] = c
      BY <2>1, <2>2, <2>3, <3>2 DEF CountsAt
    <3>. QED BY <3>1, <3>2, <1>5
  <2>4. \A k \in 1..Len(net') : net'[k].ans # Pending => k \in 1..Len(net) /\ net'[k] = net[k]
    BY <1>3, <1>5
  <2>5. \A k \in 1..Len(net) : ToggledBy(net', k) <=> ToggledBy(net, k)
    BY <1>3 DEF ToggledBy
  <2>6. ToggledBy(net, Len(net)) => ToggledBy(net', Len(net'))
    BY <1>3 DEF ToggledBy
  <2>7. \A k \in 1..Len(net') : net'[k].op = "status" /\ net'[k].ans # Pending =>
          net'[k].ans.data.on = IF ToggledBy(net', k) THEN srv.on ELSE o
    BY <2>2, <2>4, <2>5 DEF CountsAt
  <2>8. \A k \in 1..Len(net') : net'[k].op = "space" /\ net'[k].ans # Pending => net'[k].ans.data = HeldOn(o)
    BY <2>2, <2>4 DEF CountsAt
  <2>9. \A k \in 1..Len(net') : IsToggle(net'[k]) /\ net'[k].ans # Pending =>
          srv.on = [o EXCEPT ![t] = ~net'[k].arg.was]
    BY <2>2, <2>4 DEF CountsAt
  <2>10. /\ s.space.known => s.space = HeldOn(o)
         /\ s.captured[t].known => s.captured[t] = HeldOn(o) /\ s.on[t] = o[t]
         /\ ToggledBy(net', Len(net')) \/ o = srv.on
    BY <2>2, <2>6 DEF CountsAt
  <2>11. CountsAt(net', s, srv, t, o)
    BY <2>3, <2>7, <2>8, <2>9, <2>10 DEF CountsAt
  <2>. QED BY <2>11 DEF CountsGo
<1>. QED BY <1>2, <1>3, <1>6, <1>7, <1>8, <1>9 DEF SpaceState, SpaceGoes

\* What the service has made of the flags.
SpaceServedBy(c, v, s) ==
  /\ s \in SpaceRecords
  /\ c.op = "status" => v = srv /\ s = srv
  /\ c.op = "space" => v = HeldOn(srv.on) /\ s = srv
  /\ IsToggle(c) => s.on = [srv.on EXCEPT ![c.arg.t] = ~c.arg.was] /\ s.member = srv.member
  /\ c.op = "joinSpace" => s.on = srv.on /\ ((s.member = "yes") <=> (srv.member = "yes" \/ v = "yes"))

\* The service does what it is asked, and says so.
LEMMA SpaceServes ==
  ASSUME SpaceState, NEW i \in 1..Len(net), NEW v, NEW s, Reply(i, v, s),
         ~mishap => SpaceServedBy(net[i], v, s)
  PROVE  SpaceState'
<1>1. Replied(SpacePageOps, i, v, s)
  BY Replies DEF SpaceState
<1>2. /\ Queue(SpacePageOps)' /\ ui' = ui /\ srv' = s /\ net[i].ans = Pending
      /\ Len(net') = Len(net) /\ Len(net) \in Nat
      /\ \A k \in 1..Len(net) : net'[k].op = net[k].op /\ net'[k].arg = net[k].arg /\ (k # i => net'[k] = net[k])
  BY <1>1 DEF Replied
<1>3. SUFFICES ASSUME ~mishap' PROVE SpaceGoes(net', ui, s)
  BY <1>2 DEF SpaceState
<1>4. AnsweredNext(net, net', i) /\ net'[i].ans = Ok(v) /\ ~mishap
  BY <1>1, <1>3, RepliedNext
<1>5. SpaceServedBy(net[i], v, s)
  BY <1>4
<1>6. /\ SpaceTyped(ui, srv) /\ TogglesBusy(net, ui) /\ FlagsLead(net, ui, srv)
      /\ \A t \in Toggles : ui.pressed \subseteq {t} => CountsGo(net, ui, srv, t)
  BY <1>4 DEF SpaceState, SpaceGoes
<1>7. net'[i].ans.data = v /\ net[i].op \in SpacePageOps /\ net'[i].ans # Pending
  BY <1>4, <1>1 DEF Ok, Replied, SpaceState, Queue, Calls
<1>8. /\ \A k \in i..Len(net) : net[k].ans = Pending
      /\ \A k \in 1..(i - 1) : net[k].ans # Pending /\ net'[k] = net[k]
      /\ \A k \in 1..Len(net) : net'[k].ans # Pending => k = i \/ k \in 1..(i - 1)
  <2>1. \A k \in 1..(i - 1) : net[k].ans # Pending /\ net'[k] = net[k]
    BY <1>1, <1>2, <1>3 DEF Replied
  <2>2. \A k \in i..Len(net) : net[k].ans = Pending
    BY <1>4 DEF AnsweredNext
  <2>3. \A k \in 1..Len(net) : k \in i..Len(net) \/ k \in 1..(i - 1)
    BY <1>2
  <2>. QED BY <2>1, <2>2, <2>3, <1>2
<1>9. SpaceTyped(ui, s)
  BY <1>5, <1>6 DEF SpaceTyped, SpaceServedBy
<1>10. TogglesBusy(net', ui)
  <2>1. \A k \in 1..Len(net') : net'[k].op = "status" /\ net'[k].ans # Pending => net'[k].ans.data \in SpaceRecords
    <3>1. srv \in SpaceRecords
      BY <1>6 DEF SpaceTyped
    <3>. QED BY <1>2, <1>5, <1>6, <1>7, <3>1 DEF TogglesBusy, SpaceServedBy
  <2>2. \A k \in 1..Len(net') : IsToggle(net'[k]) <=> IsToggle(net[k])
    BY <1>2 DEF IsToggle
  <2>. QED BY <1>2, <1>6, <2>1, <2>2 DEF TogglesBusy
<1>11. FlagsLead(net', ui, s)
  <2>1. PICK b : /\ FlagsReplay!Leads(net, FlagsView(ui), b)
                 /\ (b.on = srv.on /\ b.member = (srv.member = "yes")) \/ StatusToCome(net)
    BY <1>6 DEF FlagsLead
  <2>. DEFINE d == FlagsAfter(net'[i], b)
  <2>2. FlagsReplay!Leads(net', FlagsView(ui), d)
    BY <1>4, <2>1, FlagsReplay!LeadsAnswered DEF AnsweredNext
  <2>3. StatusToCome(net) /\ net[i].op # "status" => StatusToCome(net')
    BY <1>2 DEF StatusToCome
  <2>4. net'[i].op = net[i].op /\ net'[i].arg = net[i].arg
    BY <1>2
  <2>5. CASE net[i].op = "status"
    <3>1. d.on = v.on /\ d.member = (v.member = "yes")
      BY <1>7, <2>4, <2>5 DEF FlagsAfter
    <3>2. v = srv /\ s = srv
      BY <1>5, <2>5 DEF SpaceServedBy
    <3>. QED BY <3>1, <3>2, <2>2 DEF FlagsLead
  <2>6. CASE net[i].op = "space"
    <3>1. StatusToCome(net')
      BY <1>2, <2>6 DEF StatusToCome
    <3>. QED BY <3>1, <2>2 DEF FlagsLead
  <2>7. CASE net[i].op = "toggle"
    <3>1. d.on = [b.on EXCEPT ![net[i].arg.t] = ~net[i].arg.was] /\ d.member = b.member
      BY <2>4, <2>7 DEF FlagsAfter
    <3>2. s.on = [srv.on EXCEPT ![net[i].arg.t] = ~net[i].arg.was] /\ s.member = srv.member
      BY <1>5, <2>7 DEF SpaceServedBy, IsToggle
    <3>3. (d.on = s.on /\ d.member = (s.member = "yes")) \/ StatusToCome(net')
      <4>. HIDE DEF d
      <4>. QED BY <3>1, <3>2, <2>1, <2>3, <2>7
    <3>. QED BY <3>3, <2>2 DEF FlagsLead
  <2>8. CASE net[i].op = "joinSpace"
    <3>1. d.on = b.on /\ d.member = (b.member \/ v = "yes")
      BY <1>7, <2>4, <2>8 DEF FlagsAfter
    <3>2. s.on = srv.on /\ ((s.member = "yes") <=> (srv.member = "yes" \/ v = "yes"))
      BY <1>5, <2>8 DEF SpaceServedBy
    <3>3. (d.on = s.on /\ d.member = (s.member = "yes")) \/ StatusToCome(net')
      <4>. HIDE DEF d
      <4>1. CASE StatusToCome(net)
        BY <4>1, <2>3, <2>8
      <4>2. CASE b.on = srv.on /\ b.member = (srv.member = "yes")
        <5>1. d.member = (srv.member = "yes" \/ v = "yes")
          BY <3>1, <4>2, Zenon
        <5>. QED BY <3>1, <3>2, <4>2, <5>1
      <4>. QED BY <4>1, <4>2, <2>1
    <3>. QED BY <3>3, <2>2 DEF FlagsLead
  <2>. QED BY <1>7, <2>5, <2>6, <2>7, <2>8 DEF SpacePageOps
<1>12. ASSUME NEW t \in Toggles, ui.pressed \subseteq {t} PROVE CountsGo(net', ui, s, t)
  <2>1. PICK o \in [Toggles -> BOOLEAN] : CountsAt(net, ui, srv, t, o)
    BY <1>6, <1>12 DEF CountsGo
  <2>2. i \in Nat /\ 1 <= i /\ i <= Len(net)
    BY <1>2
  <2>3. \A k \in 1..Len(net) : IsToggle(net[k]) => net[k].arg.t = t
    BY <1>6, <1>12 DEF TogglesBusy
  <2>4. ASSUME NEW k \in 1..Len(net), NEW j \in 1..Len(net), IsToggle(net[j]), IsToggle(net[k]) PROVE j = k
    BY <2>3, <2>4, <1>6 DEF TogglesBusy
  <2>5. \A k \in 1..Len(net') : IsToggle(net'[k]) <=> IsToggle(net[k])
    BY <1>2 DEF IsToggle
  <2>6. CASE IsToggle(net[i])
    <3>1. \A k \in 1..Len(net) : ~ToggledBy(net, k)
      <4>1. \A j \in 1..Len(net) : IsToggle(net[j]) => net[j].ans = Pending
        BY <1>2, <2>4, <2>6
      <4>. QED BY <4>1, <2>2 DEF ToggledBy
    <3>2. o = srv.on
      BY <2>1, <2>2, <3>1 DEF CountsAt
    <3>3. s.on = [o EXCEPT ![t] = ~net[i].arg.was]
      BY <1>5, <2>3, <2>6, <3>2 DEF SpaceServedBy
    <3>4. ToggledBy(net', Len(net'))
      BY <1>2, <1>7, <2>5, <2>6 DEF ToggledBy
    <3>5. \A k \in 1..(i - 1) : ~ToggledBy(net', k)
      BY <1>8, <3>1, <2>2 DEF ToggledBy
    <3>6. ASSUME NEW k \in 1..Len(net'), net'[k].op = "status", net'[k].ans # Pending
          PROVE  net'[k].ans.data.on = IF ToggledBy(net', k) THEN s.on ELSE o
      <4>1. k # i
        BY <1>2, <2>6, <3>6 DEF IsToggle
      <4>2. k \in 1..(i - 1) /\ k \in 1..Len(net) /\ net'[k] = net[k]
        BY <1>2, <1>8, <3>6, <4>1
      <4>. QED BY <4>2, <3>1, <3>5, <3>6, <2>1 DEF CountsAt
    <3>7. \A k \in 1..Len(net') : IsToggle(net'[k]) /\ net'[k].ans # Pending =>
            s.on = [o EXCEPT ![t] = ~net'[k].arg.was]
      BY <1>2, <2>4, <2>5, <2>6, <3>3
    <3>8. \A k \in 1..Len(net') : net'[k].op = "space" /\ net'[k].ans # Pending => net'[k].ans.data = HeldOn(o)
      BY <1>2, <2>1, <2>6 DEF CountsAt, IsToggle
    <3>9. CountsAt(net', ui, s, t, o)
      BY <2>1, <2>5, <1>2, <3>4, <3>6, <3>7, <3>8 DEF CountsAt
    <3>. QED BY <3>9 DEF CountsGo
  <2>7. CASE ~IsToggle(net[i])
    <3>1. s.on = srv.on
      BY <1>5, <1>7, <2>7 DEF SpaceServedBy, IsToggle, SpacePageOps
    <3>2. \A k \in 1..Len(net) : ToggledBy(net', k) <=> ToggledBy(net, k)
      BY <1>2, <2>7 DEF ToggledBy, IsToggle
    <3>3. ~ToggledBy(net, i) => o = srv.on
      <4>1. ToggledBy(net, Len(net)) => ToggledBy(net, i)
        <5>1. \A j \in 1..Len(net) : net[j].ans # Pending => j \in 1..i
          <6>1. \A j \in 1..Len(net) : j \in i..Len(net) \/ j \in 1..i
            BY <2>2, <1>2
          <6>. QED BY <6>1, <1>8
        <5>. QED BY <5>1 DEF ToggledBy
      <4>. QED BY <4>1, <2>1 DEF CountsAt
    <3>4. ASSUME NEW k \in 1..Len(net'), net'[k].op = "status", net'[k].ans # Pending
          PROVE  net'[k].ans.data.on = IF ToggledBy(net', k) THEN s.on ELSE o
      <4>1. CASE k = i
        <5>1. net'[k].ans.data = srv
          BY <1>2, <1>5, <1>7, <3>4, <4>1 DEF SpaceServedBy
        <5>. QED BY <5>1, <3>1, <3>2, <3>3, <4>1
      <4>2. CASE k # i
        BY <4>2, <1>2, <2>1, <3>1, <3>2, <3>4 DEF CountsAt
      <4>. QED BY <4>1, <4>2
    <3>5. ASSUME NEW k \in 1..Len(net'), net'[k].op = "space", net'[k].ans # Pending
          PROVE  net'[k].ans.data = HeldOn(o)
      <4>1. CASE k = i
        <5>1. net[i].op = "space" /\ Len(net) = 1
          BY <1>2, <1>6, <3>5, <4>1 DEF TogglesBusy
        <5>2. ~ToggledBy(net, i)
          <6>1. \A j \in 1..i : j = i
            BY <5>1, <2>2
          <6>. QED BY <6>1, <2>7 DEF ToggledBy
        <5>3. net'[k].ans.data = HeldOn(srv.on)
          BY <1>5, <1>7, <4>1, <5>1 DEF SpaceServedBy
        <5>. QED BY <5>2, <5>3, <3>3
      <4>2. CASE k # i
        BY <4>2, <1>2, <2>1, <3>5 DEF CountsAt
      <4>. QED BY <4>1, <4>2
    <3>6. \A k \in 1..Len(net') : IsToggle(net'[k]) /\ net'[k].ans # Pending =>
            s.on = [o EXCEPT ![t] = ~net'[k].arg.was]
      BY <1>2, <2>1, <2>5, <2>7, <3>1 DEF CountsAt
    <3>7. ToggledBy(net', Len(net')) \/ o = s.on
      <4>1. Len(net) \in 1..Len(net)
        BY <1>2, <2>2
      <4>2. ToggledBy(net, Len(net)) \/ o = srv.on
        BY <2>1 DEF CountsAt
      <4>. QED BY <4>1, <4>2, <3>1, <3>2, <1>2
    <3>8. CountsAt(net', ui, s, t, o)
      BY <2>1, <2>5, <1>2, <3>4, <3>5, <3>6, <3>7 DEF CountsAt
    <3>. QED BY <3>8 DEF CountsGo
  <2>. QED BY <2>6, <2>7
<1>. QED BY <1>9, <1>10, <1>11, <1>12 DEF SpaceGoes

\* A toggle answered: its count one up or down.
LEMMA CountsOneMore ==
  ASSUME NEW o \in [Toggles -> BOOLEAN], NEW a, a.t \in Toggles, a.was = o[a.t],
         a.space.known => a.space = HeldOn(o), Counted(a).known
  PROVE  Counted(a) = HeldOn([o EXCEPT ![a.t] = ~a.was])
<1>1. a.space.known /\ a.space = HeldOn(o)
  BY DEF Counted, NoSpace
<1>. DEFINE n == [o EXCEPT ![a.t] = ~a.was]
            held == HeldOn(o)
            up == IF a.was THEN Max({0, held.count[a.t] - 1}) ELSE held.count[a.t] + 1
<1>2. held.known = TRUE /\ \A x \in Toggles : held.count[x] = Rest + (IF o[x] THEN 1 ELSE 0)
  BY DEF HeldOn
<1>3. up = Rest + (IF n[a.t] THEN 1 ELSE 0)
  <2>1. a.was = TRUE \/ a.was = FALSE
    OBVIOUS
  <2>. HIDE DEF held
  <2>2. CASE a.was = TRUE
    <3>0. o[a.t] = TRUE /\ n[a.t] = FALSE
      BY <2>2
    <3>. HIDE DEF n
    <3>1. held.count[a.t] = 2 /\ n[a.t] = FALSE
      <4>1. held.count[a.t] = Rest + (IF o[a.t] THEN 1 ELSE 0)
        BY <1>2
      <4>2. (IF o[a.t] THEN 1 ELSE 0) = 1
        BY <3>0
      <4>. QED BY <3>0, <4>1, <4>2 DEF Rest
    <3>2. Max({0, 1}) = 1
      BY MaxWithZero
    <3>. QED BY <2>2, <3>1, <3>2 DEF Rest
  <2>3. CASE a.was = FALSE
    <3>0. o[a.t] = FALSE /\ n[a.t] = TRUE
      BY <2>3
    <3>. HIDE DEF n
    <3>1. held.count[a.t] = 1 /\ n[a.t] = TRUE
      <4>1. held.count[a.t] = Rest + (IF o[a.t] THEN 1 ELSE 0)
        BY <1>2
      <4>2. (IF o[a.t] THEN 1 ELSE 0) = 0
        BY <3>0
      <4>. QED BY <3>0, <4>1, <4>2 DEF Rest
    <3>. QED BY <2>3, <3>1 DEF Rest
  <2>. QED BY <2>1, <2>2, <2>3
<1>4. Counted(a) = [held EXCEPT !.count[a.t] = up]
  BY <1>1 DEF Counted
<1>5. \A x \in Toggles : x # a.t => n[x] = o[x]
  OBVIOUS
<1>6. held = [known |-> TRUE, count |-> [x \in Toggles |-> Rest + (IF o[x] THEN 1 ELSE 0)]]
  BY DEF HeldOn
<1>. DEFINE c == [x \in Toggles |-> Rest + (IF o[x] THEN 1 ELSE 0)]
            m == [x \in Toggles |-> Rest + (IF n[x] THEN 1 ELSE 0)]
<1>7. [c EXCEPT ![a.t] = up] = m
  <2>1. \A x \in Toggles : [c EXCEPT ![a.t] = up][x] = m[x]
    <3>. HIDE DEF n, up
    <3>. QED BY <1>3, <1>5
  <2>. HIDE DEF up, n
  <2>. QED BY <2>1
<1>8. [held EXCEPT !.count[a.t] = up] = [known |-> TRUE, count |-> [c EXCEPT ![a.t] = up]]
  <2>1. held = [known |-> TRUE, count |-> c]
    BY <1>6
  <2>. HIDE DEF up, held, c
  <2>2. held.known = TRUE /\ held.count = c /\ held = [known |-> held.known, count |-> held.count]
    BY <2>1
  <2>3. [held EXCEPT !.count[a.t] = up] = [known |-> held.known, count |-> [held.count EXCEPT ![a.t] = up]]
    BY <2>2
  <2>. QED BY <2>2, <2>3
<1>9. HeldOn(n) = [known |-> TRUE, count |-> m]
  BY DEF HeldOn
<1>. HIDE DEF n, held, up, c, m
<1>10. Counted(a) = HeldOn(n)
  BY <1>4, <1>7, <1>8, <1>9
<1>. QED BY <1>10 DEF n

\* What the page makes of an answer.
SpaceDone(c, s, cs) ==
  /\ DOMAIN s = SpacePageFields /\ s.pressed = ui.pressed
  /\ s.on \in [Toggles -> BOOLEAN] /\ s.busy \in [Toggles -> BOOLEAN]
  /\ FlagsView(s) = FlagsAfter(c, FlagsView(ui))
  /\ \A k \in 1..Len(cs) : cs[k].op = "status"
  /\ ~IsToggle(c) => s.busy = ui.busy
  /\ c.op = "space" => s.space = c.ans.data /\ s.captured = ui.captured /\ Len(cs) > 0
  /\ c.op = "joinSpace" => s.space = ui.space /\ s.captured = ui.captured
  /\ c.op = "status" => /\ s.space = ui.space
                        /\ \A t \in Toggles :
                             s.captured[t] = IF s.on[t] # ui.on[t] THEN ui.space ELSE ui.captured[t]
  /\ IsToggle(c) => /\ s.space = Counted(c.arg)
                    /\ \A t \in Toggles : t # c.arg.t => s.busy[t] = ui.busy[t]
                    /\ \A t \in Toggles :
                         s.captured[t] = IF s.on[t] # ui.on[t] THEN Counted(c.arg) ELSE ui.captured[t]

\* The page does what was answered.
LEMMA SpaceFollows ==
  ASSUME SpaceState, NEW i \in 1..Len(net), net[i].ans # Pending, NEW s, NEW cs,
         NewOnes(cs, SpacePageOps), Settle(i, s, cs),
         ~mishap /\ IsOk(i) => SpaceDone(net[i], s, cs)
  PROVE  SpaceState'
<1>1. Finished(SpacePageOps, i, s, cs)
  BY SettleFinishes DEF SpaceState
<1>2. /\ Queue(SpacePageOps)' /\ ui' = s /\ srv' = srv
      /\ Len(net') = (Len(net) - 1) + Len(cs) /\ Len(net) \in Nat
      /\ \A k \in 1..Len(cs) : net'[(Len(net) - 1) + k] = cs[k]
      /\ ~mishap' => ~mishap /\ i = 1 /\ IsOk(1) /\ Shifted(net, net')
  BY <1>1 DEF Finished
<1>3. SUFFICES ASSUME ~mishap' PROVE SpaceGoes(net', s, srv)
  BY <1>2 DEF SpaceState
<1>4. ~mishap /\ i = 1 /\ IsOk(1) /\ Shifted(net, net') /\ SpaceDone(net[1], s, cs)
  BY <1>2, <1>3
<1>5. /\ SpaceTyped(ui, srv) /\ TogglesBusy(net, ui) /\ FlagsLead(net, ui, srv)
      /\ \A t \in Toggles : ui.pressed \subseteq {t} => CountsGo(net, ui, srv, t)
  BY <1>4 DEF SpaceState, SpaceGoes
<1>6. SpaceTyped(s, srv)
  BY <1>4, <1>5 DEF SpaceTyped, SpaceDone
<1>7. 1 \in 1..Len(net) /\ net[1].ans # Pending /\ net[1].op \in SpacePageOps /\ Len(cs) \in Nat
  BY <1>4 DEF SpaceState, Queue, Calls, NewOnes
<1>8. /\ \A k \in 1..(Len(net) - 1) : k + 1 \in 1..Len(net) /\ net'[k] = net[k + 1]
      /\ \A k \in 2..Len(net) : k - 1 \in 1..Len(net') /\ k \in 1..Len(net) /\ net'[k - 1] = net[k]
  <2>1. \A k \in 1..(Len(net) - 1) : k + 1 \in 1..Len(net) /\ net'[k] = net[k + 1]
    BY <1>4 DEF Shifted
  <2>2. \A k \in 2..Len(net) : k - 1 \in 1..(Len(net) - 1) /\ k - 1 \in 1..Len(net') /\ k \in 1..Len(net) /\ (k - 1) + 1 = k
    BY <1>2, <1>7
  <2>3. ASSUME NEW k \in 2..Len(net) PROVE net'[k - 1] = net[k]
    <3>1. net'[k - 1] = net[(k - 1) + 1]
      BY <2>1, <2>2
    <3>. QED BY <3>1, <2>2
  <2>. QED BY <2>1, <2>2, <2>3
<1>9. ASSUME NEW k \in 1..Len(net')
      PROVE  k \in 1..(Len(net) - 1) \/ (net'[k].op = "status" /\ net'[k].ans = Pending)
  <2>1. CASE k \in 1..(Len(net) - 1)
    BY <2>1
  <2>2. CASE k \notin 1..(Len(net) - 1)
    <3>. DEFINE j == k - (Len(net) - 1)
    <3>1. j \in 1..Len(cs) /\ (Len(net) - 1) + j = k
      BY <2>2, <1>2, <1>7
    <3>2. net'[k] = cs[j]
      BY <3>1, <1>2
    <3>. QED BY <3>1, <3>2, <1>4 DEF SpaceDone, NewOnes
  <2>. QED BY <2>1, <2>2
<1>10. TogglesBusy(net', s)
  <2>1. \A k \in 1..Len(net') : net'[k].op # "space"
    <3>1. \A k \in 1..(Len(net) - 1) : net[k + 1].op # "space"
      BY <1>2, <1>5, <1>8 DEF TogglesBusy
    <3>. QED BY <1>8, <1>9, <3>1
  <2>2. ASSUME NEW k \in 1..Len(net'), IsToggle(net'[k])
        PROVE  net'[k].arg.t \in s.pressed /\ s.busy[net'[k].arg.t] /\ net'[k].arg.was \in BOOLEAN
    <3>1. k \in 1..(Len(net) - 1)
      BY <1>9, <2>2 DEF IsToggle
    <3>2. k + 1 \in 1..Len(net) /\ net'[k] = net[k + 1] /\ IsToggle(net[k + 1]) /\ k + 1 # 1
      BY <3>1, <1>8, <2>2
    <3>3. net'[k].arg.t \in ui.pressed /\ ui.busy[net'[k].arg.t] /\ net'[k].arg.was \in BOOLEAN
      BY <3>2, <1>5 DEF TogglesBusy
    <3>4. net'[k].arg.t \in Toggles
      BY <3>3, <1>5 DEF SpaceTyped
    <3>5. IsToggle(net[1]) => net[1].arg.t # net'[k].arg.t
      BY <3>2, <1>5, <1>7 DEF TogglesBusy
    <3>6. s.busy[net'[k].arg.t] = ui.busy[net'[k].arg.t]
      BY <3>4, <3>5, <1>4 DEF SpaceDone
    <3>. QED BY <3>3, <3>6, <1>4 DEF SpaceDone
  <2>3. ASSUME NEW j \in 1..Len(net'), NEW k \in 1..Len(net'), IsToggle(net'[j]), IsToggle(net'[k]),
               net'[j].arg.t = net'[k].arg.t
        PROVE  j = k
    <3>1. j \in 1..(Len(net) - 1) /\ k \in 1..(Len(net) - 1)
      BY <1>9, <2>3 DEF IsToggle
    <3>2. j + 1 \in 1..Len(net) /\ net'[j] = net[j + 1] /\ k + 1 \in 1..Len(net) /\ net'[k] = net[k + 1]
      BY <3>1, <1>8
    <3>3. j + 1 = k + 1
      BY <3>2, <2>3, <1>5 DEF TogglesBusy
    <3>. QED BY <3>1, <3>3
  <2>4. ASSUME NEW k \in 1..Len(net'), net'[k].op = "status", net'[k].ans # Pending
        PROVE  net'[k].ans.data \in SpaceRecords
    <3>1. k \in 1..(Len(net) - 1)
      BY <1>9, <2>4
    <3>2. k + 1 \in 1..Len(net) /\ net'[k] = net[k + 1]
      BY <3>1, <1>8
    <3>. QED BY <3>2, <2>4, <1>5 DEF TogglesBusy
  <2>. QED BY <2>1, <2>2, <2>3, <2>4 DEF TogglesBusy
<1>11. FlagsLead(net', s, srv)
  <2>1. PICK b : /\ FlagsReplay!Leads(net, FlagsView(ui), b)
                 /\ (b.on = srv.on /\ b.member = (srv.member = "yes")) \/ StatusToCome(net)
    BY <1>5 DEF FlagsLead
  <2>2. FlagsReplay!Step(net[1], FlagsView(ui)) = FlagsView(s)
    BY <1>4, <1>7 DEF FlagsReplay!Step, SpaceDone
  <2>3. FlagsReplay!Leads(net', FlagsView(s), b)
    BY <1>4, <2>1, <2>2, FlagsReplay!LeadsSettled DEF Shifted
  <2>4. ASSUME StatusToCome(net) PROVE StatusToCome(net')
    <3>1. PICK k \in 1..Len(net) : net[k].op = "space" \/ (net[k].op = "status" /\ net[k].ans = Pending)
      BY <2>4 DEF StatusToCome
    <3>2. CASE net[k].op = "space"
      <4>1. Len(net) = 1 /\ net[1].op = "space"
        <5>1. Len(net) = 1
          BY <3>1, <3>2, <1>5 DEF TogglesBusy
        <5>2. k = 1
          BY <5>1
        <5>. QED BY <5>1, <5>2, <3>2
      <4>2. Len(cs) > 0
        BY <4>1, <1>4 DEF SpaceDone
      <4>3. 1 \in 1..Len(net') /\ 1 \notin 1..(Len(net) - 1)
        BY <4>1, <4>2, <1>2, <1>7
      <4>. QED BY <4>3, <1>9 DEF StatusToCome
    <3>3. CASE net[k].op = "status" /\ net[k].ans = Pending
      <4>1. k \in 2..Len(net)
        <5>1. k # 1
          BY <3>3, <1>7
        <5>2. k \in Nat /\ 1 <= k /\ k <= Len(net)
          BY <3>1, <1>2
        <5>. QED BY <5>1, <5>2, <1>2
      <4>. QED BY <3>3, <4>1, <1>8 DEF StatusToCome
    <3>. QED BY <3>1, <3>2, <3>3
  <2>. QED BY <2>1, <2>3, <2>4 DEF FlagsLead
<1>12. ASSUME NEW t \in Toggles, s.pressed \subseteq {t} PROVE CountsGo(net', s, srv, t)
  <2>0. ui.pressed \subseteq {t}
    BY <1>4, <1>12 DEF SpaceDone
  <2>1. PICK o \in [Toggles -> BOOLEAN] : CountsAt(net, ui, srv, t, o)
    BY <1>5, <2>0 DEF CountsGo
  <2>2. \A k \in 1..Len(net) : IsToggle(net[k]) => net[k].arg.t = t
    BY <1>5, <2>0 DEF TogglesBusy
  <2>3. \A j, k \in 1..Len(net) : IsToggle(net[j]) /\ IsToggle(net[k]) => j = k
    BY <2>2, <1>5 DEF TogglesBusy
  <2>4. \A k \in 1..Len(net') : net'[k].ans # Pending \/ IsToggle(net'[k]) =>
          k \in 1..(Len(net) - 1) /\ k + 1 \in 1..Len(net) /\ net'[k] = net[k + 1] /\ k + 1 # 1
    BY <1>8, <1>9 DEF IsToggle
  <2>5. \A k \in 1..Len(net') : ~(net'[k].op = "space" /\ net'[k].ans # Pending)
    BY <2>4, <1>5 DEF TogglesBusy
  <2>6. CASE IsToggle(net[1])
    <3>. DEFINE a == net[1].arg
                n == srv.on
    <3>0. n \in [Toggles -> BOOLEAN]
      BY <1>5 DEF SpaceTyped, SpaceRecords
    <3>1. a.t = t /\ n = [o EXCEPT ![t] = ~a.was] /\ a.was \in BOOLEAN
      BY <1>5, <1>7, <2>1, <2>2, <2>6 DEF CountsAt, TogglesBusy
    <3>2. Counted(a).known => Counted(a) = HeldOn(n)
      <4>1. Counted(a).known => a.space.known
        BY DEF Counted, NoSpace
      <4>2. a.space.known => a.space = HeldOn(o) /\ a.was = o[t]
        BY <1>7, <2>1, <2>6 DEF CountsAt
      <4>. HIDE DEF a
      <4>3. Counted(a).known => Counted(a) = HeldOn([o EXCEPT ![a.t] = ~a.was])
        BY <3>1, <4>1, <4>2, CountsOneMore
      <4>. QED BY <4>3, <3>1
    <3>3. \A k \in 1..Len(net') : ~IsToggle(net'[k])
      BY <1>7, <2>3, <2>4, <2>6
    <3>4. ASSUME NEW k \in 1..Len(net'), net'[k].op = "status", net'[k].ans # Pending
          PROVE  net'[k].ans.data.on = n
      <4>1. k + 1 \in 1..Len(net) /\ net'[k] = net[k + 1]
        BY <2>4, <3>4
      <4>2. ToggledBy(net, k + 1)
        <5>1. 1 \in 1..(k + 1)
          OBVIOUS
        <5>. QED BY <5>1, <1>7, <2>6 DEF ToggledBy
      <4>. QED BY <4>1, <4>2, <3>4, <2>1 DEF CountsAt
    <3>5. s.space = Counted(a)
      BY <1>4, <2>6 DEF SpaceDone
    <3>6. s.on = [ui.on EXCEPT ![t] = ~a.was] /\ ui.on \in [Toggles -> BOOLEAN]
      <4>1. FlagsView(s).on = FlagsAfter(net[1], FlagsView(ui)).on
        BY <1>4 DEF SpaceDone
      <4>2. FlagsAfter(net[1], FlagsView(ui)).on = [ui.on EXCEPT ![t] = ~a.was]
        BY <2>6, <3>1 DEF FlagsAfter, FlagsView, IsToggle
      <4>. QED BY <4>1, <4>2, <1>5 DEF FlagsView, SpaceTyped
    <3>7. s.captured[t] = IF s.on[t] # ui.on[t] THEN Counted(a) ELSE ui.captured[t]
      BY <1>4, <1>12, <2>6 DEF SpaceDone
    <3>. HIDE DEF a
    <3>8. s.on[t] = ~a.was /\ n[t] = ~a.was
      <4>. HIDE DEF n
      <4>. QED BY <3>1, <3>6
    <3>9. s.captured[t].known => s.captured[t] = HeldOn(n) /\ s.on[t] = n[t]
      <4>1. CASE s.on[t] # ui.on[t]
        BY <4>1, <3>2, <3>7, <3>8
      <4>2. CASE s.on[t] = ui.on[t]
        <5>1. SUFFICES ASSUME s.captured[t].known PROVE s.captured[t] = HeldOn(n)
          BY <3>8
        <5>2. ui.captured[t].known /\ s.captured[t] = ui.captured[t]
          BY <4>2, <5>1, <3>7
        <5>3. ui.captured[t] = HeldOn(o) /\ ui.on[t] = o[t]
          BY <5>2, <2>1 DEF CountsAt
        <5>4. n = o
          BY <5>3, <4>2, <3>1, <3>8
        <5>. QED BY <5>2, <5>3, <5>4
      <4>. QED BY <4>1, <4>2
    <3>10. ~ToggledBy(net', Len(net')) /\ \A k \in 1..Len(net') : ~ToggledBy(net', k)
      <4>. HIDE DEF n
      <4>1. Len(net') \in Nat
        BY <1>2, <1>7
      <4>2. \A k \in 1..Len(net') : \A j \in 1..k : j \in 1..Len(net')
        BY <4>1
      <4>. QED BY <3>3, <4>2 DEF ToggledBy
    <3>11. CountsAt(net', s, srv, t, n)
      BY <2>5, <3>2, <3>3, <3>4, <3>5, <3>9, <3>10 DEF CountsAt
    <3>. QED BY <3>0, <3>11 DEF CountsGo
  <2>7. CASE ~IsToggle(net[1])
    <3>1. ASSUME NEW k \in 1..Len(net'), k \in 1..(Len(net) - 1) PROVE ToggledBy(net', k) <=> ToggledBy(net, k + 1)
      <4>1. ASSUME NEW j \in 1..k, IsToggle(net'[j]), net'[j].ans # Pending PROVE ToggledBy(net, k + 1)
        <5>1. j \in 1..(Len(net) - 1) /\ j + 1 \in 1..(k + 1)
          BY <3>1, <1>2
        <5>2. net'[j] = net[j + 1]
          BY <5>1, <1>8
        <5>. QED BY <4>1, <5>1, <5>2 DEF ToggledBy
      <4>2. ASSUME NEW j \in 1..(k + 1), IsToggle(net[j]), net[j].ans # Pending PROVE ToggledBy(net', k)
        <5>1. j # 1
          BY <4>2, <2>7
        <5>2. j \in 2..Len(net) /\ j - 1 \in 1..k
          BY <5>1, <3>1, <1>2
        <5>3. net'[j - 1] = net[j]
          BY <5>2, <1>8
        <5>. QED BY <4>2, <5>2, <5>3 DEF ToggledBy
      <4>. QED BY <4>1, <4>2 DEF ToggledBy
    <3>2. ToggledBy(net, Len(net)) => ToggledBy(net', Len(net'))
      <4>1. SUFFICES ASSUME NEW j \in 1..Len(net), IsToggle(net[j]), net[j].ans # Pending
                     PROVE  ToggledBy(net', Len(net'))
        BY DEF ToggledBy
      <4>2. j # 1
        BY <4>1, <2>7
      <4>3. j \in 2..Len(net)
        BY <4>2, <1>2
      <4>. QED BY <4>1, <4>3, <1>8 DEF ToggledBy
    <3>3. ASSUME NEW k \in 1..Len(net'), net'[k].op = "status", net'[k].ans # Pending
          PROVE  net'[k].ans.data.on = IF ToggledBy(net', k) THEN srv.on ELSE o
      BY <2>1, <2>4, <3>1, <3>3 DEF CountsAt
    <3>4. \A k \in 1..Len(net') : IsToggle(net'[k]) /\ net'[k].arg.space.known =>
            net'[k].arg.space = HeldOn(o) /\ net'[k].arg.was = o[t]
      BY <2>1, <2>4 DEF CountsAt
    <3>5. \A k \in 1..Len(net') : IsToggle(net'[k]) /\ net'[k].ans # Pending =>
            srv.on = [o EXCEPT ![t] = ~net'[k].arg.was]
      <4>1. SUFFICES ASSUME NEW k \in 1..Len(net'), IsToggle(net'[k]), net'[k].ans # Pending
                     PROVE  srv.on = [o EXCEPT ![t] = ~net'[k].arg.was]
        OBVIOUS
      <4>2. k + 1 \in 1..Len(net) /\ net'[k] = net[k + 1]
        BY <2>4, <4>1
      <4>3. srv.on = [o EXCEPT ![t] = ~net[k + 1].arg.was]
        BY <2>1, <4>1, <4>2 DEF CountsAt
      <4>. QED BY <4>2, <4>3
    <3>6. s.space.known => s.space = HeldOn(o)
      <4>1. CASE net[1].op = "space"
        BY <4>1, <1>4, <1>7, <2>1 DEF CountsAt, SpaceDone
      <4>2. CASE net[1].op # "space"
        BY <4>2, <1>4, <1>7, <2>1, <2>7 DEF CountsAt, SpaceDone, SpacePageOps, IsToggle
      <4>. QED BY <4>1, <4>2
    <3>7. s.captured[t].known => s.captured[t] = HeldOn(o) /\ s.on[t] = o[t]
      <4>1. CASE net[1].op = "status"
        <5>1. FlagsView(s).on = FlagsAfter(net[1], FlagsView(ui)).on
          BY <1>4 DEF SpaceDone
        <5>2. s.on = net[1].ans.data.on
          BY <5>1, <4>1 DEF FlagsAfter, FlagsView
        <5>3. ~ToggledBy(net, 1)
          <6>1. \A j \in 1..1 : j = 1
            OBVIOUS
          <6>. QED BY <6>1, <2>7 DEF ToggledBy
        <5>4. s.on = o
          BY <5>2, <5>3, <4>1, <1>7, <2>1 DEF CountsAt
        <5>5. s.captured[t] = IF s.on[t] # ui.on[t] THEN ui.space ELSE ui.captured[t]
          BY <1>4, <1>12, <4>1 DEF SpaceDone
        <5>. QED BY <5>4, <5>5, <2>1 DEF CountsAt
      <4>2. CASE net[1].op \in {"space", "joinSpace"}
        <5>1. FlagsView(s).on = FlagsAfter(net[1], FlagsView(ui)).on
          BY <1>4 DEF SpaceDone
        <5>2. s.on = ui.on
          BY <5>1, <4>2 DEF FlagsAfter, FlagsView
        <5>3. s.captured = ui.captured
          BY <1>4, <4>2 DEF SpaceDone
        <5>. QED BY <5>2, <5>3, <2>1 DEF CountsAt
      <4>. QED BY <4>1, <4>2, <1>7, <2>7 DEF SpacePageOps, IsToggle
    <3>8. ToggledBy(net', Len(net')) \/ o = srv.on
      BY <2>1, <3>2 DEF CountsAt
    <3>9. CountsAt(net', s, srv, t, o)
      BY <2>5, <3>3, <3>4, <3>5, <3>6, <3>7, <3>8 DEF CountsAt
    <3>. QED BY <3>9 DEF CountsGo
  <2>. QED BY <2>6, <2>7
<1>. QED BY <1>6, <1>10, <1>11, <1>12 DEF SpaceGoes

\* What the service answers when asked for the space.
LEMMA HeldIsOn == ASSUME NEW s PROVE SpaceHeld(s) = HeldOn(s.on)
BY DEF SpaceHeld, HeldOn

\* Every step of the page keeps it so.
LEMMA SpacePageSteps ==
  ASSUME page = "space", SpaceState, Next PROVE SpaceState'
<1>0. Queue(SpacePageOps)
  BY DEF SpaceState
<1>1. ASSUME ~mishap PROVE SpaceTyped(ui, srv)
  BY <1>1 DEF SpaceState, SpaceGoes
<1>2. ASSUME NEW t \in Toggles, HandleToggle(t) PROVE SpaceState'
  <2>. DEFINE s == [ui EXCEPT !.busy[t] = TRUE, !.pressed = @ \cup {t}]
              c == Request("toggle", [t |-> t, was |-> ui.on[t], space |-> ui.captured[t]])
  <2>1. ui.space.known /\ ~mishap /\ ~ui.busy[t] /\ Handle(s, <<c>>)
    BY <1>2 DEF HandleToggle, SpaceShown
  <2>2. DOMAIN ui = SpacePageFields /\ ui.busy \in [Toggles -> BOOLEAN]
    BY <1>1, <2>1 DEF SpaceTyped
  <2>3. /\ DOMAIN s = SpacePageFields
        /\ s.space = ui.space /\ s.on = ui.on /\ s.member = ui.member /\ s.captured = ui.captured
        /\ s.pressed = ui.pressed \cup {t}
    BY <2>2 DEF SpacePageFields
  <2>4. s.busy = [ui.busy EXCEPT ![t] = TRUE]
    BY <2>2 DEF SpacePageFields
  <2>5. s.busy \in [Toggles -> BOOLEAN] /\ s.busy[t] /\ \A x \in Toggles : ui.busy[x] => s.busy[x]
    BY <2>2, <2>4
  <2>6. IsCall(c) /\ c.op = "toggle" /\ c.ans = Pending /\ c.arg = [t |-> t, was |-> ui.on[t], space |-> ui.captured[t]]
    BY NewCalls
  <2>. HIDE DEF s, c
  <2>. QED BY <2>1, <2>3, <2>5, <2>6, SpaceClicked DEF IsToggle
<1>3. ASSUME HandleJoinSpace PROVE SpaceState'
  <2>. DEFINE s == [ui EXCEPT !.joining = TRUE]
              c == Request("joinSpace", None)
  <2>1. ui.space.known /\ ~mishap /\ Handle(s, <<c>>)
    BY <1>3 DEF HandleJoinSpace, SpaceShown
  <2>2. DOMAIN ui = SpacePageFields /\ ui.busy \in [Toggles -> BOOLEAN]
    BY <1>1, <2>1 DEF SpaceTyped
  <2>3. /\ DOMAIN s = SpacePageFields
        /\ s.space = ui.space /\ s.on = ui.on /\ s.member = ui.member /\ s.captured = ui.captured
        /\ s.pressed = ui.pressed /\ s.busy = ui.busy
    BY <2>2 DEF SpacePageFields
  <2>4. IsCall(c) /\ c.op = "joinSpace" /\ c.ans = Pending
    BY NewCalls
  <2>. HIDE DEF s, c
  <2>. QED BY <2>1, <2>2, <2>3, <2>4, SpaceClicked DEF IsToggle
<1>4. ASSUME NEW i \in 1..Len(net), SpaceServed(i) PROVE SpaceState'
  <2>1. ASSUME ~mishap PROVE srv \in SpaceRecords
    BY <1>1, <2>1 DEF SpaceTyped
  <2>2. CASE net[i].op = "space" /\ Reply(i, SpaceHeld(srv), srv)
    BY <2>1, <2>2, HeldIsOn, SpaceServes DEF SpaceServedBy, IsToggle
  <2>3. CASE net[i].op = "status" /\ Reply(i, srv, srv)
    BY <2>1, <2>3, SpaceServes DEF SpaceServedBy, IsToggle
  <2>. QED BY <1>4, <2>2, <2>3 DEF SpaceServed, Asked
<1>5. ASSUME NEW i \in 1..Len(net), ToggleServed(i) PROVE SpaceState'
  <2>. DEFINE a == net[i].arg
              s == [srv EXCEPT !.on[a.t] = ~a.was]
  <2>1. net[i].op = "toggle" /\ Reply(i, TRUE, s)
    BY <1>5 DEF ToggleServed, Asked
  <2>2. ASSUME ~mishap PROVE SpaceServedBy(net[i], TRUE, s)
    <3>1. srv \in SpaceRecords /\ TogglesBusy(net, ui) /\ ui.pressed \subseteq Toggles
      BY <2>2 DEF SpaceState, SpaceGoes, SpaceTyped
    <3>2. a.t \in Toggles /\ a.was \in BOOLEAN
      BY <2>1, <3>1 DEF TogglesBusy, IsToggle
    <3>3. s.on = [srv.on EXCEPT ![a.t] = ~a.was] /\ s.member = srv.member /\ s \in SpaceRecords
      <4>. HIDE DEF a
      <4>. QED BY <3>1, <3>2 DEF SpaceRecords
    <3>. HIDE DEF s
    <3>. QED BY <2>1, <3>3 DEF SpaceServedBy, IsToggle
  <2>. HIDE DEF s
  <2>. QED BY <2>1, <2>2, SpaceServes
<1>6. ASSUME NEW i \in 1..Len(net), JoinSpaceServed(i) PROVE SpaceState'
  <2>. DEFINE m == IF srv.private THEN "asked" ELSE "yes"
              s == [srv EXCEPT !.member = IF @ = "yes" THEN @ ELSE m]
  <2>1. net[i].op = "joinSpace" /\ Reply(i, m, s)
    BY <1>6 DEF JoinSpaceServed, Asked
  <2>2. ASSUME ~mishap PROVE SpaceServedBy(net[i], m, s)
    <3>1. srv \in SpaceRecords
      BY <1>1, <2>2 DEF SpaceTyped
    <3>2. m \in {"asked", "yes"}
      OBVIOUS
    <3>3. s \in SpaceRecords /\ s.on = srv.on /\ s.member = IF srv.member = "yes" THEN srv.member ELSE m
      <4>. HIDE DEF m
      <4>. QED BY <3>1, <3>2 DEF SpaceRecords
    <3>. HIDE DEF s, m
    <3>. QED BY <2>1, <3>3 DEF SpaceServedBy, IsToggle
  <2>. HIDE DEF s, m
  <2>. QED BY <2>1, <2>2, SpaceServes
<1>. DEFINE cs == <<FetchStatus>>
<1>7. /\ NewOnes(cs, SpacePageOps) /\ Len(cs) > 0 /\ \A k \in 1..Len(cs) : cs[k].op = "status"
      /\ NewOnes(<< >>, SpacePageOps) /\ \A k \in 1..Len(<< >>) : << >>[k].op = "status"
  <2>1. IsCall(FetchStatus) /\ FetchStatus.op = "status" /\ FetchStatus.ans = Pending
    BY NewCalls DEF FetchStatus
  <2>2. NewOnes(cs, SpacePageOps) /\ Len(cs) = 1 /\ cs[1] = FetchStatus
    BY <2>1, NewOne DEF SpacePageOps
  <2>3. NewOnes(<< >>, SpacePageOps) /\ Len(<< >>) = 0
    BY NewNone
  <2>. HIDE DEF cs
  <2>4. \A k \in 1..Len(cs) : cs[k] = FetchStatus
    BY <2>2
  <2>. QED BY <2>1, <2>2, <2>3, <2>4
<1>. HIDE DEF cs
<1>8. ASSUME NEW i \in 1..Len(net), SpaceFetched(i) PROVE SpaceState'
  <2>1. net[i].ans # Pending
    BY <1>8 DEF SpaceFetched, Answered
  <2>2. CASE net[i].op = "space"
    <3>. DEFINE s == [ui EXCEPT !.loading = FALSE, !.space = Data(i)]
                e == [ui EXCEPT !.loading = FALSE]
    <3>1. (IsOk(i) /\ Settle(i, s, cs)) \/ (~IsOk(i) /\ Settle(i, e, << >>))
      BY <1>8, <2>2 DEF SpaceFetched, Answered, cs
    <3>2. ASSUME ~mishap PROVE SpaceDone(net[i], s, cs)
      <4>1. SpaceTyped(ui, srv)
        BY <1>1, <3>2
      <4>2. /\ DOMAIN s = SpacePageFields /\ s.pressed = ui.pressed /\ s.on = ui.on /\ s.busy = ui.busy
            /\ s.member = ui.member /\ s.space = net[i].ans.data /\ s.captured = ui.captured
        BY <4>1 DEF SpaceTyped, SpacePageFields, Data
      <4>3. FlagsView(s) = FlagsAfter(net[i], FlagsView(ui))
        BY <2>2, <4>2 DEF FlagsView, FlagsAfter
      <4>. HIDE DEF s
      <4>. QED BY <2>2, <4>1, <4>2, <4>3, <1>7 DEF SpaceDone, SpaceTyped, IsToggle
    <3>. HIDE DEF s, e
    <3>. QED BY <1>7, <2>1, <3>1, <3>2, SpaceFollows
  <2>3. CASE net[i].op = "status"
    <3>. DEFINE d == Data(i)
                f == Flagged(ui, d.on)
                s == [f EXCEPT !.member = d.member = "yes", !.pending = d.member = "asked"]
    <3>1. Settle(i, IF IsOk(i) THEN s ELSE ui, << >>)
      BY <1>8, <2>3 DEF SpaceFetched, Answered
    <3>2. ASSUME ~mishap PROVE SpaceDone(net[i], s, << >>)
      <4>1. SpaceTyped(ui, srv) /\ d \in SpaceRecords /\ d = net[i].ans.data
        BY <1>1, <2>1, <2>3, <3>2 DEF SpaceState, SpaceGoes, TogglesBusy, Data
      <4>2. d.on \in [Toggles -> BOOLEAN]
        BY <4>1 DEF SpaceRecords
      <4>. HIDE DEF d
      <4>3. /\ DOMAIN f = SpacePageFields /\ f.pressed = ui.pressed /\ f.on = d.on /\ f.busy = ui.busy
            /\ f.space = ui.space
            /\ \A t \in Toggles : f.captured[t] = IF d.on[t] # ui.on[t] THEN ui.space ELSE ui.captured[t]
        BY <4>1 DEF SpaceTyped, SpacePageFields, Flagged
      <4>. HIDE DEF f
      <4>4. /\ DOMAIN s = SpacePageFields /\ s.pressed = f.pressed /\ s.on = f.on /\ s.busy = f.busy
            /\ s.space = f.space /\ s.captured = f.captured /\ s.member = (d.member = "yes")
        BY <4>3 DEF SpacePageFields
      <4>. HIDE DEF s
      <4>5. FlagsView(s) = FlagsAfter(net[i], FlagsView(ui))
        BY <2>3, <4>1, <4>3, <4>4 DEF FlagsView, FlagsAfter
      <4>. QED BY <2>3, <4>1, <4>2, <4>3, <4>4, <4>5, <1>7 DEF SpaceDone, SpaceTyped, IsToggle
    <3>3. (IsOk(i) /\ Settle(i, s, << >>)) \/ (~IsOk(i) /\ Settle(i, ui, << >>))
      BY <3>1
    <3>. HIDE DEF s, f, d
    <3>. QED BY <1>7, <2>1, <3>2, <3>3, SpaceFollows
  <2>. QED BY <1>8, <2>2, <2>3 DEF SpaceFetched, Answered
<1>9. ASSUME NEW i \in 1..Len(net), ToggleDone(i) PROVE SpaceState'
  <2>. DEFINE a == net[i].arg
              idle == [ui EXCEPT !.busy[a.t] = FALSE]
              next == Counted(a)
              shown == [idle EXCEPT !.space = next]
              on == [ui.on EXCEPT ![a.t] = ~a.was]
              s == Flagged(shown, on)
              new == IF next.known /\ ~ui.space.known THEN cs ELSE << >>
  <2>1. net[i].op = "toggle" /\ net[i].ans # Pending
    BY <1>9 DEF ToggleDone, Answered
  <2>2. (IsOk(i) /\ Settle(i, s, new)) \/ (~IsOk(i) /\ Settle(i, idle, << >>))
    BY <1>9 DEF ToggleDone, cs
  <2>3. NewOnes(new, SpacePageOps) /\ \A k \in 1..Len(new) : new[k].op = "status"
    <3>1. new = cs \/ new = << >>
      OBVIOUS
    <3>. HIDE DEF new
    <3>. QED BY <1>7, <3>1
  <2>. HIDE DEF new
  <2>4. ASSUME ~mishap PROVE SpaceDone(net[i], s, new)
    <3>1. SpaceTyped(ui, srv) /\ TogglesBusy(net, ui)
      BY <2>4 DEF SpaceState, SpaceGoes
    <3>2. a.t \in Toggles /\ a.was \in BOOLEAN
      BY <2>1, <3>1 DEF TogglesBusy, IsToggle, SpaceTyped
    <3>3. /\ DOMAIN ui = SpacePageFields /\ ui.busy \in [Toggles -> BOOLEAN] /\ ui.on \in [Toggles -> BOOLEAN]
      BY <3>1 DEF SpaceTyped
    <3>. HIDE DEF a, next
    <3>4. /\ DOMAIN idle = SpacePageFields /\ idle.pressed = ui.pressed /\ idle.on = ui.on
          /\ idle.busy = [ui.busy EXCEPT ![a.t] = FALSE] /\ idle.captured = ui.captured /\ idle.member = ui.member
      BY <3>3 DEF SpacePageFields
    <3>. HIDE DEF idle
    <3>5. /\ DOMAIN shown = SpacePageFields /\ shown.pressed = idle.pressed /\ shown.on = idle.on
          /\ shown.busy = idle.busy /\ shown.captured = idle.captured /\ shown.member = idle.member
          /\ shown.space = next
      BY <3>4 DEF SpacePageFields
    <3>. HIDE DEF shown, on
    <3>6. /\ DOMAIN s = SpacePageFields /\ s.pressed = shown.pressed /\ s.on = on
          /\ s.busy = shown.busy /\ s.member = shown.member /\ s.space = shown.space
          /\ \A t \in Toggles : s.captured[t] = IF on[t] # shown.on[t] THEN shown.space ELSE shown.captured[t]
      BY <3>5 DEF SpacePageFields, Flagged
    <3>. HIDE DEF s
    <3>7. on \in [Toggles -> BOOLEAN] /\ s.busy \in [Toggles -> BOOLEAN]
          /\ \A t \in Toggles : t # a.t => s.busy[t] = ui.busy[t]
      BY <3>2, <3>3, <3>4, <3>5, <3>6 DEF on
    <3>8. FlagsView(s) = FlagsAfter(net[i], FlagsView(ui))
      <4>1. FlagsAfter(net[i], FlagsView(ui)) = [on |-> [ui.on EXCEPT ![a.t] = ~a.was], member |-> ui.member]
        BY <2>1 DEF FlagsAfter, FlagsView, a
      <4>2. FlagsView(s) = [on |-> on, member |-> ui.member]
        BY <3>4, <3>5, <3>6 DEF FlagsView
      <4>. QED BY <4>1, <4>2 DEF on
    <3>. QED BY <2>1, <2>3, <3>4, <3>5, <3>6, <3>7, <3>8 DEF SpaceDone, IsToggle, a, next
  <2>. HIDE DEF s, idle
  <2>. QED BY <1>7, <2>1, <2>2, <2>3, <2>4, SpaceFollows
<1>10. ASSUME NEW i \in 1..Len(net), JoinSpaceDone(i) PROVE SpaceState'
  <2>. DEFINE s == [ui EXCEPT !.joining = FALSE, !.member = @ \/ (IsOk(i) /\ Data(i) = "yes")]
  <2>1. net[i].op = "joinSpace" /\ net[i].ans # Pending /\ Settle(i, s, << >>)
    BY <1>10 DEF JoinSpaceDone, Answered
  <2>2. ASSUME ~mishap, IsOk(i) PROVE SpaceDone(net[i], s, << >>)
    <3>1. SpaceTyped(ui, srv)
      BY <1>1, <2>2
    <3>2. /\ DOMAIN s = SpacePageFields /\ s.pressed = ui.pressed /\ s.on = ui.on /\ s.busy = ui.busy
          /\ s.space = ui.space /\ s.captured = ui.captured
          /\ s.member = (ui.member \/ (IsOk(i) /\ Data(i) = "yes"))
      BY <3>1 DEF SpaceTyped, SpacePageFields
    <3>. HIDE DEF s
    <3>3. s.member = (ui.member \/ net[i].ans.data = "yes")
      BY <2>2, <3>2, Zenon DEF Data
    <3>4. FlagsView(s) = FlagsAfter(net[i], FlagsView(ui))
      BY <2>1, <3>2, <3>3 DEF FlagsView, FlagsAfter
    <3>. QED BY <2>1, <3>1, <3>2, <3>4, <1>7 DEF SpaceDone, SpaceTyped, IsToggle
  <2>. HIDE DEF s
  <2>. QED BY <1>7, <2>1, <2>2, SpaceFollows
<1>11. ASSUME NEW i \in 1..Len(net), Deny(i) PROVE SpaceState'
  <2>1. Denied(SpacePageOps, i)
    BY <1>0, <1>11, Denies
  <2>. QED BY <2>1 DEF Denied, SpaceState
<1>. QED BY <1>0, <1>2, <1>3, <1>4, <1>5, <1>6, <1>8, <1>9, <1>10, <1>11, SpaceActions

\* The header of a space (WebSpace.SpaceHeaderIsCurrent): the flags shown, and
\* the answers that are still to be taken, lead to what the service holds, as
\* long as no status is to come; and while one toggle alone has been used, its
\* callback and its calls carry the counts that go with the flag they carry.
THEOREM SpaceHeaderStaysCurrent == Spec => []SpaceHeaderIsCurrent
<1>. DEFINE Inv == page = "space" => SpaceState
<1>1. Init => Inv
  BY Mounts, SpaceStarts
<1>2. Inv /\ [Next]_vars => Inv'
  <2>1. CASE Next
    BY <2>1, PageStays, SpacePageSteps
  <2>2. CASE UNCHANGED vars
    BY <2>2 DEF vars, SpaceState, Queue, Calls, InOrder
  <2>. QED BY <2>1, <2>2
<1>3. Inv => SpaceHeaderIsCurrent
  <2>. SUFFICES ASSUME SpaceState, Quiet, ~mishap, ui.space.known
                PROVE  /\ ui.on = srv.on /\ ui.member = (srv.member = "yes")
                       /\ Cardinality(ui.pressed) <= 1 => ui.space = SpaceHeld(srv)
    BY DEF SpaceHeaderIsCurrent
  <2>1. Len(net) = 0
    BY QuietIsEmpty DEF SpaceState
  <2>2. PICK b : /\ FlagsReplay!Leads(net, FlagsView(ui), b)
                 /\ (b.on = srv.on /\ b.member = (srv.member = "yes")) \/ StatusToCome(net)
    BY DEF SpaceState, SpaceGoes, FlagsLead
  <2>3. b = FlagsView(ui)
    BY <2>1, <2>2, FlagsReplay!LeadsNowhere
  <2>4. ~StatusToCome(net)
    BY <2>1 DEF StatusToCome
  <2>5. ui.on = srv.on /\ ui.member = (srv.member = "yes")
    BY <2>2, <2>3, <2>4 DEF FlagsView
  <2>6. ASSUME Cardinality(ui.pressed) <= 1 PROVE ui.space = SpaceHeld(srv)
    <3>1. ui.pressed \subseteq Toggles
      BY DEF SpaceState, SpaceGoes, SpaceTyped
    <3>2. PICK t \in Toggles : ui.pressed \subseteq {t}
      <4>1. CASE ui.pressed = {}
        BY <4>1 DEF Toggles
      <4>2. CASE ui.pressed # {}
        <5>1. PICK t \in ui.pressed : TRUE
          BY <4>2
        <5>2. ASSUME NEW x \in ui.pressed, x # t PROVE FALSE
          <6>1. IsFiniteSet(ui.pressed)
            <7>1. Toggles = {"follow"} \cup {"star"} /\ IsFiniteSet({"follow"} \cup {"star"})
              BY FS_AddElement, FS_Singleton DEF Toggles
            <7>. QED BY <3>1, <7>1, FS_Subset
          <6>2. {t, x} \subseteq ui.pressed
            BY <5>1
          <6>3. Cardinality({t, x}) = 2
            <7>1. IsFiniteSet({t}) /\ Cardinality({t}) = 1
              BY FS_Singleton
            <7>2. x \notin {t} /\ {t, x} = {t} \cup {x}
              BY <5>2
            <7>3. Cardinality({t} \cup {x}) = 1 + 1
              BY <7>1, <7>2, FS_AddElement
            <7>. QED BY <7>2, <7>3
          <6>4. Cardinality({t, x}) <= Cardinality(ui.pressed)
            BY <6>1, <6>2, FS_Subset
          <6>5. Cardinality(ui.pressed) \in Nat
            BY <6>1, FS_CardinalityType
          <6>. QED BY <6>3, <6>4, <6>5, <2>6
        <5>. QED BY <3>1, <5>1, <5>2
      <4>. QED BY <4>1, <4>2
    <3>3. PICK o \in [Toggles -> BOOLEAN] : CountsAt(net, ui, srv, t, o)
      BY <3>2 DEF SpaceState, SpaceGoes, CountsGo
    <3>4. ~ToggledBy(net, Len(net))
      BY <2>1 DEF ToggledBy
    <3>5. o = srv.on /\ ui.space = HeldOn(o)
      BY <3>3, <3>4 DEF CountsAt
    <3>. QED BY <3>5, HeldIsOn
  <2>. QED BY <2>5, <2>6
<1>. HIDE DEF Inv
<1>. QED BY <1>1, <1>2, <1>3, PTL DEF Spec
-----------------------------------------------------------------------------
(***************************************************************************)
(* The comments of a post.                                                 *)
(***************************************************************************)
NotesOps    == {"getNotes", "comment", "likeNote"}
NotesFields == {"loading", "comments", "likedComments", "commentText", "replyTo", "replyText", "pressed"}

ItemsOf(s) == {s[k] : k \in 1..Len(s)}

\* The comments on display, and what an answer makes of them.
NotesView(u) == [len |-> Len(u.comments), shown |-> ItemsOf(u.comments), hearts |-> u.likedComments]

NotesAfter(c, v) ==
  CASE c.op = "getNotes" -> [len |-> Len(c.ans.data), shown |-> ItemsOf(c.ans.data), hearts |-> v.hearts]
    [] c.op = "comment"  -> [len |-> v.len + 1, shown |-> v.shown \cup {c.ans.data}, hearts |-> v.hearts]
    [] c.op = "likeNote" -> [len |-> v.len, shown |-> {Rated(x, c.arg, c.ans.data) : x \in v.shown},
                             hearts |-> IF c.ans.data THEN v.hearts \cup {c.arg} ELSE v.hearts \ {c.arg}]
    [] OTHER             -> v

NotesReplay == INSTANCE Replay WITH After <- NotesAfter

\* The comments are still to be answered; whether comment n is liked is.
NotesToCome(q) == \E k \in 1..Len(q) : q[k].op = "getNotes" /\ q[k].ans = Pending
LikeToCome(q, n) == \E k \in 1..Len(q) : q[k].op = "likeNote" /\ q[k].arg = n /\ q[k].ans = Pending

NotesHeld(s) == {NoteHeld(n, s.liked) : n \in 1..s.sent}

NotesAgree(q, b, u, s) ==
  /\ (b.len = s.sent /\ b.shown = NotesHeld(s)) \/ NotesToCome(q)
  /\ \A n \in u.pressed : (n \in b.hearts <=> n \in s.liked) \/ LikeToCome(q, n)
  /\ b.hearts \subseteq u.pressed

NotesLead(q, u, s) == \E b : NotesReplay!Leads(q, NotesView(u), b) /\ NotesAgree(q, b, u, s)

IsList(l) == Len(l) \in Nat /\ l = [k \in 1..Len(l) |-> l[k]]

\* The comments are asked for alone; new ones are numbered in their order.
NotesTyped(q, u, s) ==
  /\ DOMAIN u = NotesFields
  /\ s.sent \in Nat /\ s.liked \subseteq 1..s.sent /\ DOMAIN s = {"sent", "liked"}
  /\ IsList(u.comments) /\ Len(u.comments) <= s.sent
  /\ \A k \in 1..Len(q) : q[k].op = "getNotes" =>
       /\ Len(q) = 1 /\ u.loading
       /\ q[k].ans # Pending => q[k].ans.data = [n \in 1..s.sent |-> NoteHeld(n, s.liked)]
  /\ \A k \in 1..Len(q) : q[k].op = "likeNote" => q[k].arg \in u.pressed /\ q[k].arg \in 1..s.sent
  /\ \A k \in 1..Len(q) : q[k].op = "comment" /\ q[k].ans # Pending =>
       q[k].ans.data.id \in Nat /\ Len(u.comments) < q[k].ans.data.id /\ q[k].ans.data.id <= s.sent
  /\ \A j, k \in 1..Len(q) : j < k /\ q[j].op = "comment" /\ q[k].op = "comment" /\ q[k].ans # Pending =>
       q[j].ans # Pending /\ q[j].ans.data.id < q[k].ans.data.id

NotesState == Queue(NotesOps) /\ (~mishap => NotesTyped(net, ui, srv) /\ NotesLead(net, ui, srv))

\* The page is mounted in a state of it.
LEMMA NotesStarts ==
  ASSUME NotesInit PROVE NotesState
<1>. DEFINE c == Request("getNotes", 0)
<1>1. IsCall(c) /\ c.op = "getNotes" /\ c.op \in NotesOps /\ c.ans = Pending
  BY NewCalls DEF NotesOps
<1>2. net = <<c>> /\ mishap = FALSE
  BY DEF NotesInit
<1>. HIDE DEF c
<1>3. Queue(NotesOps) /\ Len(net) = 1 /\ net[1] = c
  BY <1>1, <1>2, FirstCall
<1>4. \A k \in 1..Len(net) : net[k].op = "getNotes" /\ net[k].ans = Pending
  BY <1>1, <1>3
<1>5. /\ DOMAIN ui = NotesFields /\ ui.comments = << >> /\ ui.loading /\ ui.likedComments = {} /\ ui.pressed = {}
  BY DEF NotesInit, NotesFields
<1>6. srv.sent = 1 /\ srv.liked \subseteq 1..1 /\ DOMAIN srv = {"sent", "liked"}
  BY DEF NotesInit
<1>7. IsList(ui.comments) /\ Len(ui.comments) = 0
  <2>1. Len(<< >>) = 0 /\ << >> = [k \in 1..Len(<< >>) |-> << >>[k]]
    OBVIOUS
  <2>. QED BY <2>1, <1>5 DEF IsList
<1>8. NotesTyped(net, ui, srv)
  BY <1>3, <1>4, <1>5, <1>6, <1>7 DEF NotesTyped
<1>9. NotesLead(net, ui, srv)
  <2>1. NotesReplay!Leads(net, NotesView(ui), NotesView(ui))
    BY <1>3, <1>4, NotesReplay!LeadsWaiting
  <2>2. NotesToCome(net)
    BY <1>3, <1>4 DEF NotesToCome
  <2>3. NotesView(ui).hearts = {}
    BY <1>5 DEF NotesView
  <2>4. NotesAgree(net, NotesView(ui), ui, srv)
    BY <2>2, <2>3, <1>5 DEF NotesAgree
  <2>. QED BY <2>1, <2>4 DEF NotesLead
<1>. QED BY <1>3, <1>8, <1>9 DEF NotesState

\* What can happen on this page.
LEMMA NotesActions ==
  ASSUME page = "notes", Queue(NotesOps), Next
  PROVE  \/ TypeComment \/ TypeReply
         \/ \E n \in 1..NotesBound : n <= Len(ui.comments) /\ (OpenReply(n) \/ HandleCommentLike(n))
         \/ \E n \in 0..NotesBound : HandleComment(n)
         \/ \E i \in 1..Len(net) : NotesServed(i) \/ Deny(i) \/ NotesDone(i)
<1>1. page \in PostPages /\ Queue(ReadOps)
  BY QueueOf DEF PostPages, NotesOps, ReadOps
<1>2. CASE PostUser
  BY <1>2 DEF PostUser, PostShown, HandleFollowAuthor, HandleLike, HandleBookmark, HandleUnlock,
    EditorShown, HandleEdit, HandleCancelEdit, HandleSaveEdit, HandleDelete, SetForm
<1>3. ASSUME NEW i \in 1..Len(net), PostService(i) \/ PostThen(i)
      PROVE  NotesServed(i) \/ NotesDone(i)
  <2>1. net[i].op \in NotesOps
    BY DEF Queue, Calls
  <2>2. PostService(i) => NotesServed(i)
    BY <2>1 DEF NotesOps, PostService, GetPostServed, ViewServed, ReaderServed, ReaderOps, EditorServed, Asked
  <2>3. PostThen(i) => NotesDone(i)
    BY <2>1 DEF NotesOps, PostThen, PostLoaded, ViewDone, ReaderDone, ReaderOps, EditorDone, Answered
  <2>. QED BY <1>3, <2>2, <2>3
<1>. QED BY <1>1, <1>2, <1>3, PostNext

\* The reader types, opens a form or starts calls.
LEMMA NotesClicked ==
  ASSUME NotesState, ~mishap, ~ui.loading, NEW s, NEW cs, Begun(NotesOps, s, cs), NewOnes(cs, NotesOps), mishap' = mishap,
         DOMAIN s = NotesFields, s.comments = ui.comments, s.likedComments = ui.likedComments,
         ui.pressed \subseteq s.pressed,
         \A n \in s.pressed \ ui.pressed : \E k \in 1..Len(cs) : cs[k].op = "likeNote" /\ cs[k].arg = n,
         \A k \in 1..Len(cs) : \/ cs[k].op = "comment"
                               \/ cs[k].op = "likeNote" /\ cs[k].arg \in s.pressed /\ cs[k].arg \in 1..srv.sent
  PROVE  NotesState'
<1>1. /\ Queue(NotesOps)' /\ ui' = s /\ srv' = srv /\ Grown(net, net')
      /\ Len(net') = Len(net) + Len(cs) /\ Len(net) \in Nat /\ (\A k \in 1..Len(net) : net'[k] = net[k])
      /\ \A k \in 1..Len(cs) : net'[Len(net) + k] = cs[k]
  BY DEF Begun
<1>2. Len(cs) \in Nat /\ \A k \in 1..Len(cs) : cs[k].ans = Pending
  BY DEF NewOnes, Calls
<1>3. NotesTyped(net, ui, srv) /\ NotesLead(net, ui, srv)
  BY DEF NotesState
<1>4. ASSUME NEW k \in 1..Len(net')
      PROVE  \/ k \in 1..Len(net) /\ net'[k] = net[k]
             \/ k - Len(net) \in 1..Len(cs) /\ net'[k] = cs[k - Len(net)]
  <2>1. CASE k \in 1..Len(net)
    BY <2>1, <1>1
  <2>2. CASE k \notin 1..Len(net)
    <3>1. k - Len(net) \in 1..Len(cs) /\ Len(net) + (k - Len(net)) = k
      BY <2>2, <1>1, <1>2
    <3>2. net'[Len(net) + (k - Len(net))] = cs[k - Len(net)]
      BY <3>1, <1>1
    <3>. QED BY <3>1, <3>2
  <2>. QED BY <2>1, <2>2
<1>5. \A k \in 1..Len(net) : net[k].op # "getNotes"
  BY <1>3 DEF NotesTyped
<1>6. \A k \in 1..Len(net') : net'[k].op # "getNotes"
  BY <1>4, <1>5
<1>7. \A k \in 1..Len(net') : net'[k].ans # Pending => k \in 1..Len(net) /\ net'[k] = net[k]
  BY <1>2, <1>4
<1>8. \A k \in 1..Len(net') : net'[k].op = "likeNote" => net'[k].arg \in s.pressed /\ net'[k].arg \in 1..srv.sent
  BY <1>3, <1>4 DEF NotesTyped
<1>9. ASSUME NEW j \in 1..Len(net'), NEW k \in 1..Len(net'), j < k, net'[j].op = "comment", net'[k].op = "comment",
             net'[k].ans # Pending
      PROVE  net'[j].ans # Pending /\ net'[j].ans.data.id < net'[k].ans.data.id
  <2>1. k \in 1..Len(net) /\ net'[k] = net[k]
    BY <1>7, <1>9
  <2>2. j \in 1..Len(net) /\ net'[j] = net[j]
    BY <2>1, <1>1, <1>9
  <2>. QED BY <2>1, <2>2, <1>3, <1>9 DEF NotesTyped
<1>10. \A k \in 1..Len(net') : net'[k].op = "comment" /\ net'[k].ans # Pending =>
         net'[k].ans.data.id \in Nat /\ Len(s.comments) < net'[k].ans.data.id /\ net'[k].ans.data.id <= srv.sent
  BY <1>3, <1>7 DEF NotesTyped
<1>11. NotesTyped(net', s, srv)
  <2>1. /\ srv.sent \in Nat /\ srv.liked \subseteq 1..srv.sent /\ DOMAIN srv = {"sent", "liked"}
        /\ IsList(s.comments) /\ Len(s.comments) <= srv.sent
    BY <1>3 DEF NotesTyped
  <2>. QED BY <2>1, <1>6, <1>8, <1>9, <1>10 DEF NotesTyped
<1>12. NotesLead(net', s, srv)
  <2>1. PICK b : NotesReplay!Leads(net, NotesView(ui), b) /\ NotesAgree(net, b, ui, srv)
    BY <1>3 DEF NotesLead
  <2>2. NotesView(s) = NotesView(ui)
    BY DEF NotesView
  <2>3. NotesReplay!Leads(net', NotesView(s), b)
    BY <1>1, <2>1, <2>2, NotesReplay!LeadsGrow DEF Grown
  <2>4. \A n : LikeToCome(net, n) => LikeToCome(net', n)
    <3>1. \A k \in 1..Len(net) : k \in 1..Len(net')
      BY <1>1, <1>2
    <3>. QED BY <3>1, <1>1 DEF LikeToCome
  <2>5. ASSUME NEW n \in s.pressed \ ui.pressed PROVE LikeToCome(net', n)
    <3>1. PICK k \in 1..Len(cs) : cs[k].op = "likeNote" /\ cs[k].arg = n
      BY <2>5
    <3>2. Len(net) + k \in 1..Len(net') /\ net'[Len(net) + k] = cs[k] /\ cs[k].ans = Pending
      BY <1>1, <1>2
    <3>. QED BY <3>1, <3>2 DEF LikeToCome
  <2>6. b.len = srv.sent /\ b.shown = NotesHeld(srv)
    BY <1>5, <2>1 DEF NotesAgree, NotesToCome
  <2>7. NotesAgree(net', b, s, srv)
    BY <2>1, <2>4, <2>5, <2>6 DEF NotesAgree
  <2>. QED BY <2>3, <2>7 DEF NotesLead
<1>. QED BY <1>1, <1>11, <1>12 DEF NotesState

\* The service likes comment n, or no longer.
LEMMA NoteRated ==
  ASSUME NEW m \in Nat, NEW n, NEW liked, NEW after, NEW d \in BOOLEAN,
         after = SymDiff(liked, {n}), d <=> n \in after
  PROVE  Rated(NoteHeld(m, liked), n, d) = NoteHeld(m, after)
<1>1. (d = TRUE => n \in after /\ n \notin liked) /\ (d = FALSE => n \notin after /\ n \in liked)
  BY DEF SymDiff
<1>2. m # n => (m \in after <=> m \in liked)
  BY DEF SymDiff
<1>3. CASE m # n
  <2>1. NoteHeld(m, liked).id = m
    BY DEF NoteHeld
  <2>2. NoteHeld(m, liked) = NoteHeld(m, after)
    BY <1>2, <1>3 DEF NoteHeld, PostCount
  <2>. QED BY <1>3, <2>1, <2>2 DEF Rated
<1>4. CASE m = n
  <2>1. PostCount(TRUE, NoteLikes) = 2 /\ PostCount(FALSE, NoteLikes) = 1
    BY DEF PostCount, NoteLikes
  <2>2. NoteHeld(m, liked) = [id |-> m, likes |-> IF n \in liked THEN 2 ELSE 1]
    BY <1>4, <2>1 DEF NoteHeld, PostCount, NoteLikes
  <2>3. NoteHeld(m, after) = [id |-> m, likes |-> IF n \in after THEN 2 ELSE 1]
    BY <1>4, <2>1 DEF NoteHeld, PostCount, NoteLikes
  <2>4. Max({0, 2}) = 2 /\ Max({0, 1}) = 1
    BY MaxWithZero
  <2>5. CASE d = TRUE
    <3>1. NoteHeld(m, liked) = [id |-> m, likes |-> 1] /\ NoteHeld(m, after) = [id |-> m, likes |-> 2]
      BY <1>1, <2>2, <2>3, <2>5
    <3>2. (1 + (IF d THEN 1 ELSE -1)) = 2
      BY <2>5
    <3>. QED BY <1>4, <2>4, <3>1, <3>2 DEF Rated
  <2>6. CASE d = FALSE
    <3>1. NoteHeld(m, liked) = [id |-> m, likes |-> 2] /\ NoteHeld(m, after) = [id |-> m, likes |-> 1]
      BY <1>1, <2>2, <2>3, <2>6
    <3>2. (2 + (IF d THEN 1 ELSE -1)) = 1
      BY <2>6
    <3>. QED BY <1>4, <2>4, <3>1, <3>2 DEF Rated
  <2>. QED BY <2>5, <2>6
<1>. QED BY <1>3, <1>4

\* What the service holds of the comments after an answer v.
NotesServedBy(c, v, s) ==
  /\ c.op = "getNotes" => v = [n \in 1..srv.sent |-> NoteHeld(n, srv.liked)] /\ s = srv
  /\ c.op = "comment" => /\ v = [id |-> srv.sent + 1, likes |-> NoteLikes]
                         /\ s.sent = srv.sent + 1 /\ s.liked = srv.liked /\ DOMAIN s = DOMAIN srv
  /\ c.op = "likeNote" => /\ s.liked = SymDiff(srv.liked, {c.arg}) /\ v = (c.arg \in s.liked)
                          /\ s.sent = srv.sent /\ DOMAIN s = DOMAIN srv

\* What the answer makes of what is led to.
LEMMA NotesServeAgrees ==
  ASSUME NotesTyped(net, ui, srv), NEW i \in 1..Len(net), Len(net') = Len(net), Len(net) \in Nat,
         \A k \in 1..Len(net) : net'[k].op = net[k].op /\ net'[k].arg = net[k].arg /\ (k # i => net'[k] = net[k]),
         NEW v, net'[i].ans.data = v, net'[i].ans # Pending, net[i].op \in NotesOps,
         NEW s, NotesServedBy(net[i], v, s), NEW b, NotesAgree(net, b, ui, srv)
  PROVE  NotesAgree(net', NotesAfter(net'[i], b), ui, s)
<1>. DEFINE d == NotesAfter(net'[i], b)
            n == net[i].arg
<1>1. net'[i].op = net[i].op /\ net'[i].arg = n
  OBVIOUS
<1>2. \A m : m # n \/ net[i].op # "likeNote" => (LikeToCome(net, m) => LikeToCome(net', m))
  BY DEF LikeToCome
<1>3. srv.sent \in Nat /\ srv.liked \subseteq 1..srv.sent
  BY DEF NotesTyped
<1>4. /\ (b.len = srv.sent /\ b.shown = NotesHeld(srv)) \/ NotesToCome(net)
      /\ \A m \in ui.pressed : (m \in b.hearts <=> m \in srv.liked) \/ LikeToCome(net, m)
      /\ b.hearts \subseteq ui.pressed
  BY DEF NotesAgree
<1>5. CASE net[i].op = "getNotes"
  <2>1. d = [len |-> Len(v), shown |-> ItemsOf(v), hearts |-> b.hearts]
    BY <1>1, <1>5 DEF NotesAfter
  <2>2. s = srv /\ v = [m \in 1..srv.sent |-> NoteHeld(m, srv.liked)]
    BY <1>5 DEF NotesServedBy
  <2>3. Len(v) = srv.sent /\ ItemsOf(v) = NotesHeld(srv)
    BY <2>2, <1>3 DEF ItemsOf, NotesHeld
  <2>. HIDE DEF d
  <2>4. NotesAgree(net', d, ui, s)
    BY <1>2, <1>4, <1>5, <2>1, <2>2, <2>3 DEF NotesAgree
  <2>. QED BY <2>4 DEF d
<1>6. CASE net[i].op = "comment"
  <2>1. d = [len |-> b.len + 1, shown |-> b.shown \cup {v}, hearts |-> b.hearts]
    BY <1>1, <1>6 DEF NotesAfter
  <2>2. /\ v = [id |-> srv.sent + 1, likes |-> NoteLikes]
        /\ s.sent = srv.sent + 1 /\ s.liked = srv.liked
    BY <1>6 DEF NotesServedBy
  <2>3. b.len = srv.sent /\ b.shown = NotesHeld(srv)
    <3>1. \A k \in 1..Len(net) : net[k].op # "getNotes"
      <4>1. \A k \in 1..Len(net) : net[k].op = "getNotes" => Len(net) = 1
        BY DEF NotesTyped
      <4>. QED BY <4>1, <1>6
    <3>. QED BY <3>1, <1>4 DEF NotesToCome
  <2>4. NoteHeld(srv.sent + 1, srv.liked) = v
    <3>1. srv.sent + 1 \notin srv.liked
      BY <1>3
    <3>. QED BY <3>1, <2>2 DEF NoteHeld, PostCount, NoteLikes
  <2>5. NotesHeld(s) = NotesHeld(srv) \cup {v}
    <3>1. \A m : m \in 1..s.sent <=> m \in 1..srv.sent \/ m = srv.sent + 1
      BY <1>3, <2>2
    <3>. QED BY <2>2, <2>4, <3>1 DEF NotesHeld
  <2>. HIDE DEF d
  <2>6. d.len = s.sent /\ d.shown = NotesHeld(s) /\ d.hearts = b.hearts
    BY <2>1, <2>2, <2>3, <2>5
  <2>7. NotesAgree(net', d, ui, s)
    BY <1>2, <1>4, <1>6, <2>2, <2>6 DEF NotesAgree
  <2>. QED BY <2>7 DEF d
<1>7. CASE net[i].op = "likeNote"
  <2>1. d = [len |-> b.len, shown |-> {Rated(x, n, v) : x \in b.shown},
             hearts |-> IF v THEN b.hearts \cup {n} ELSE b.hearts \ {n}]
    BY <1>1, <1>7 DEF NotesAfter
  <2>2. s.liked = SymDiff(srv.liked, {n}) /\ (v <=> n \in s.liked) /\ s.sent = srv.sent /\ v \in BOOLEAN
    <3>1. s.liked = SymDiff(srv.liked, {n}) /\ v = (n \in s.liked) /\ s.sent = srv.sent
      BY <1>7 DEF NotesServedBy
    <3>. HIDE DEF n
    <3>2. v \in BOOLEAN
      BY <3>1
    <3>3. v <=> n \in s.liked
      BY <3>1, Zenon
    <3>. QED BY <3>1, <3>2, <3>3
  <2>3. b.len = srv.sent /\ b.shown = NotesHeld(srv)
    <3>1. \A k \in 1..Len(net) : net[k].op # "getNotes"
      <4>1. \A k \in 1..Len(net) : net[k].op = "getNotes" => Len(net) = 1
        BY DEF NotesTyped
      <4>. QED BY <4>1, <1>7
    <3>. QED BY <3>1, <1>4 DEF NotesToCome
  <2>4. \A m \in 1..srv.sent : Rated(NoteHeld(m, srv.liked), n, v) = NoteHeld(m, s.liked)
    <3>1. TAKE m \in 1..srv.sent
    <3>2. m \in Nat
      BY <1>3
    <3>. HIDE DEF n
    <3>. QED BY <2>2, <3>2, NoteRated
  <2>5. {Rated(x, n, v) : x \in NotesHeld(srv)} = NotesHeld(s)
    <3>. HIDE DEF n
    <3>1. \A x \in NotesHeld(srv) : Rated(x, n, v) \in NotesHeld(s)
      BY <2>2, <2>4 DEF NotesHeld
    <3>2. \A y \in NotesHeld(s) : \E x \in NotesHeld(srv) : y = Rated(x, n, v)
      BY <2>2, <2>4 DEF NotesHeld
    <3>. QED BY <3>1, <3>2
  <2>. HIDE DEF d
  <2>6. d.len = s.sent /\ d.shown = NotesHeld(s)
    BY <2>1, <2>2, <2>3, <2>5
  <2>7. n \in ui.pressed
    BY <1>7 DEF NotesTyped
  <2>8. d.hearts \subseteq ui.pressed
    BY <1>4, <2>1, <2>7
  <2>9. ASSUME NEW m \in ui.pressed PROVE (m \in d.hearts <=> m \in s.liked) \/ LikeToCome(net', m)
    <3>1. CASE m = n
      BY <2>1, <2>2, <3>1
    <3>2. CASE m # n
      <4>1. m \in d.hearts <=> m \in b.hearts
        BY <2>1, <3>2
      <4>2. m \in s.liked <=> m \in srv.liked
        BY <2>2, <3>2 DEF SymDiff
      <4>. QED BY <4>1, <4>2, <1>2, <1>4, <3>2
    <3>. QED BY <3>1, <3>2
  <2>10. NotesAgree(net', d, ui, s)
    BY <2>6, <2>8, <2>9 DEF NotesAgree
  <2>. QED BY <2>10 DEF d
<1>. QED BY <1>5, <1>6, <1>7 DEF NotesOps

\* The service does what it is asked, and says so.
LEMMA NotesServes ==
  ASSUME NotesState, NEW i \in 1..Len(net), NEW v, NEW s, Reply(i, v, s),
         ~mishap => NotesServedBy(net[i], v, s)
  PROVE  NotesState'
<1>1. Replied(NotesOps, i, v, s)
  BY Replies DEF NotesState
<1>2. /\ Queue(NotesOps)' /\ ui' = ui /\ srv' = s /\ net[i].ans = Pending
      /\ Len(net') = Len(net) /\ Len(net) \in Nat
      /\ \A k \in 1..Len(net) : net'[k].op = net[k].op /\ net'[k].arg = net[k].arg /\ (k # i => net'[k] = net[k])
  BY <1>1 DEF Replied
<1>. SUFFICES ASSUME ~mishap', NotesServedBy(net[i], v, s) PROVE NotesTyped(net', ui, s) /\ NotesLead(net', ui, s)
  BY <1>1, <1>2 DEF NotesState, Replied
<1>3. ~mishap'
  OBVIOUS
<1>4. AnsweredNext(net, net', i) /\ net'[i].ans = Ok(v) /\ ~mishap
  BY <1>1, <1>3, RepliedNext
<1>5. NotesTyped(net, ui, srv) /\ NotesLead(net, ui, srv)
  BY <1>4 DEF NotesState
<1>6. net'[i].ans.data = v /\ net[i].op \in NotesOps /\ net'[i].ans # Pending
  BY <1>4, <1>1 DEF Ok, Replied, NotesState, Queue, Calls
<1>7. NotesLead(net', ui, s)
  <2>1. PICK b : NotesReplay!Leads(net, NotesView(ui), b) /\ NotesAgree(net, b, ui, srv)
    BY <1>5 DEF NotesLead
  <2>2. NotesReplay!Leads(net', NotesView(ui), NotesAfter(net'[i], b))
    BY <1>4, <2>1, NotesReplay!LeadsAnswered DEF AnsweredNext
  <2>3. NotesAgree(net', NotesAfter(net'[i], b), ui, s)
    BY <1>2, <1>5, <1>6, <2>1, NotesServeAgrees
  <2>. QED BY <2>2, <2>3 DEF NotesLead
<1>8. s.sent \in Nat /\ srv.sent \in Nat /\ s.sent >= srv.sent /\ s.liked \subseteq 1..s.sent /\ DOMAIN s = {"sent", "liked"}
  <2>1. srv.sent \in Nat /\ srv.liked \subseteq 1..srv.sent /\ DOMAIN srv = {"sent", "liked"}
    BY <1>5 DEF NotesTyped
  <2>2. CASE net[i].op = "getNotes"
    BY <2>1, <2>2 DEF NotesServedBy
  <2>3. CASE net[i].op = "comment"
    <3>1. 1..srv.sent \subseteq 1..(srv.sent + 1)
      BY <2>1
    <3>. QED BY <2>1, <2>3, <3>1 DEF NotesServedBy
  <2>4. CASE net[i].op = "likeNote"
    BY <2>1, <2>4, <1>5 DEF NotesServedBy, NotesTyped, SymDiff
  <2>. QED BY <2>2, <2>3, <2>4, <1>6 DEF NotesOps
<1>9. ASSUME NEW k \in 1..Len(net'), net'[k].op = "getNotes"
      PROVE  /\ Len(net') = 1 /\ ui.loading
             /\ net'[k].ans # Pending => net'[k].ans.data = [n \in 1..s.sent |-> NoteHeld(n, s.liked)]
  <2>1. net[k].op = "getNotes" /\ Len(net) = 1 /\ ui.loading
    BY <1>2, <1>5, <1>9 DEF NotesTyped
  <2>2. k = i
    BY <1>2, <1>9, <2>1
  <2>3. s = srv /\ v = [n \in 1..srv.sent |-> NoteHeld(n, srv.liked)]
    BY <2>1, <2>2 DEF NotesServedBy
  <2>. QED BY <1>2, <1>6, <2>1, <2>2, <2>3
<1>10. IsList(ui.comments) /\ Len(ui.comments) \in Nat /\ Len(ui.comments) <= s.sent
  BY <1>5, <1>8 DEF NotesTyped, IsList
<1>11. \A k \in 1..Len(net') : net'[k].op = "likeNote" => net'[k].arg \in ui.pressed /\ net'[k].arg \in 1..s.sent
  <2>1. 1..srv.sent \subseteq 1..s.sent
    BY <1>8
  <2>. QED BY <2>1, <1>2, <1>5 DEF NotesTyped
<1>12. ASSUME NEW k \in 1..Len(net'), net'[k].op = "comment", net'[k].ans # Pending
       PROVE  net'[k].ans.data.id \in Nat /\ Len(ui.comments) < net'[k].ans.data.id /\ net'[k].ans.data.id <= s.sent
  <2>1. CASE k = i
    <3>1. net[i].op = "comment"
      BY <1>2, <1>12, <2>1
    <3>2. v.id = srv.sent + 1 /\ s.sent = srv.sent + 1
      BY <3>1 DEF NotesServedBy
    <3>3. Len(ui.comments) <= srv.sent
      BY <1>5 DEF NotesTyped
    <3>. QED BY <1>6, <1>8, <1>10, <2>1, <3>2, <3>3
  <2>2. CASE k # i
    <3>1. /\ net'[k].ans.data.id \in Nat /\ Len(ui.comments) < net'[k].ans.data.id
          /\ net'[k].ans.data.id <= srv.sent
      BY <1>2, <1>5, <1>12, <2>2 DEF NotesTyped
    <3>. QED BY <3>1, <1>8
  <2>. QED BY <2>1, <2>2
<1>13. ASSUME NEW j \in 1..Len(net'), NEW k \in 1..Len(net'), j < k, net'[j].op = "comment", net'[k].op = "comment",
              net'[k].ans # Pending
       PROVE  net'[j].ans # Pending /\ net'[j].ans.data.id < net'[k].ans.data.id
  <2>0. k \in 1..i
    <3>1. k \in i..Len(net) \/ k \in 1..i
      BY <1>2, <1>13
    <3>2. k \in i..Len(net) /\ k # i => FALSE
      BY <1>2, <1>4, <1>13 DEF AnsweredNext
    <3>3. i \in 1..i
      BY <1>2
    <3>. QED BY <3>1, <3>2, <3>3
  <2>1. j # i /\ net'[j] = net[j] /\ net[j].op = "comment"
    BY <2>0, <1>2, <1>13
  <2>2. net[j].ans # Pending
    <3>1. j \in 1..(i - 1)
      BY <2>0, <1>2, <1>13
    <3>. QED BY <3>1, <1>1, <1>3 DEF Replied
  <2>3. CASE k = i
    <3>1. v.id = srv.sent + 1
      BY <1>2, <1>13, <2>3 DEF NotesServedBy
    <3>2. net[j].ans.data.id \in Nat /\ net[j].ans.data.id <= srv.sent
      BY <1>2, <1>5, <2>1, <2>2 DEF NotesTyped
    <3>. QED BY <1>6, <1>8, <2>1, <2>2, <2>3, <3>1, <3>2
  <2>4. CASE k # i
    BY <1>2, <1>5, <1>13, <2>1, <2>4 DEF NotesTyped
  <2>. QED BY <2>1, <2>2, <2>3, <2>4
<1>14. NotesTyped(net', ui, s)
  <2>1. DOMAIN ui = NotesFields
    BY <1>5 DEF NotesTyped
  <2>. QED BY <2>1, <1>8, <1>9, <1>10, <1>11, <1>12, <1>13 DEF NotesTyped
<1>. QED BY <1>7, <1>14

\* What the page makes of an answer.
NotesTaken(c, s) ==
  /\ DOMAIN s = NotesFields /\ s.pressed = ui.pressed
  /\ NotesView(s) = NotesAfter(c, NotesView(ui))
  /\ IsList(s.comments)
  /\ c.op = "comment" => Len(s.comments) = Len(ui.comments) + 1
  /\ c.op = "likeNote" => Len(s.comments) = Len(ui.comments)
  /\ c.op = "getNotes" => Len(s.comments) = Len(c.ans.data)

\* The page does what was answered.
LEMMA NotesFollows ==
  ASSUME NotesState, NEW i \in 1..Len(net), net[i].ans # Pending, NEW s, Settle(i, s, << >>),
         ~mishap /\ IsOk(i) => NotesTaken(net[i], s)
  PROVE  NotesState'
<1>0. NewOnes(<< >>, NotesOps) /\ Len(<< >>) = 0
  BY NewNone
<1>1. Finished(NotesOps, i, s, << >>)
  BY <1>0, SettleFinishes DEF NotesState
<1>2. /\ Queue(NotesOps)' /\ ui' = s /\ srv' = srv
      /\ Len(net') = Len(net) - 1 /\ Len(net) \in Nat
      /\ ~mishap' => ~mishap /\ i = 1 /\ IsOk(1) /\ Shifted(net, net')
  BY <1>0, <1>1 DEF Finished
<1>3. SUFFICES ASSUME ~mishap' PROVE NotesTyped(net', s, srv) /\ NotesLead(net', s, srv)
  BY <1>2 DEF NotesState
<1>4. ~mishap /\ i = 1 /\ IsOk(1) /\ Shifted(net, net') /\ NotesTaken(net[1], s)
  BY <1>2, <1>3
<1>5. NotesTyped(net, ui, srv) /\ NotesLead(net, ui, srv)
  BY <1>4 DEF NotesState
<1>6. 1 \in 1..Len(net) /\ net[1].ans # Pending /\ net[1].op \in NotesOps
  BY <1>4 DEF NotesState, Queue, Calls
<1>7. \A k \in 1..Len(net') : k + 1 \in 1..Len(net) /\ k + 1 # 1 /\ net'[k] = net[k + 1]
  BY <1>2, <1>4 DEF Shifted
<1>8. \A k \in 2..Len(net) : k - 1 \in 1..Len(net') /\ net'[k - 1] = net[k]
  <2>1. \A k \in 2..Len(net) : k - 1 \in 1..Len(net') /\ (k - 1) + 1 = k
    BY <1>2, <1>6
  <2>2. ASSUME NEW k \in 2..Len(net) PROVE net'[k - 1] = net[k]
    <3>1. net'[k - 1] = net[(k - 1) + 1]
      BY <2>1, <1>7
    <3>. QED BY <2>1, <3>1
  <2>. QED BY <2>1, <2>2
<1>9. \A k \in 1..Len(net') : net'[k].op # "getNotes"
  <2>1. \A k \in 1..Len(net) : net[k].op = "getNotes" => Len(net) = 1
    BY <1>5 DEF NotesTyped
  <2>. QED BY <1>2, <1>7, <2>1
<1>10. NotesLead(net', s, srv)
  <2>1. PICK b : NotesReplay!Leads(net, NotesView(ui), b) /\ NotesAgree(net, b, ui, srv)
    BY <1>5 DEF NotesLead
  <2>2. NotesReplay!Step(net[1], NotesView(ui)) = NotesView(s)
    BY <1>4, <1>6 DEF NotesReplay!Step, NotesTaken
  <2>3. \A k \in Len(net)..Len(net') : FALSE
    BY <1>2
  <2>4. NotesReplay!Leads(net', NotesView(s), b)
    BY <1>4, <2>1, <2>2, NotesReplay!LeadsSettled DEF Shifted
  <2>5. \A k \in 1..Len(net) : net[k].ans = Pending => k \in 2..Len(net)
    BY <1>2, <1>6
  <2>6. NotesToCome(net) => NotesToCome(net')
    BY <2>5, <1>8 DEF NotesToCome
  <2>7. \A n : LikeToCome(net, n) => LikeToCome(net', n)
    BY <2>5, <1>8 DEF LikeToCome
  <2>8. s.pressed = ui.pressed
    BY <1>4 DEF NotesTaken
  <2>9. NotesAgree(net', b, s, srv)
    BY <2>1, <2>6, <2>7, <2>8 DEF NotesAgree
  <2>. QED BY <2>4, <2>9 DEF NotesLead
<1>11. srv.sent \in Nat /\ srv.liked \subseteq 1..srv.sent /\ DOMAIN srv = {"sent", "liked"}
  BY <1>5 DEF NotesTyped
<1>12. Len(ui.comments) \in Nat /\ Len(ui.comments) <= srv.sent
  BY <1>5 DEF NotesTyped, IsList
<1>13. Len(s.comments) \in Nat /\ Len(s.comments) <= srv.sent
  <2>1. CASE net[1].op = "getNotes"
    <3>1. net[1].ans.data = [n \in 1..srv.sent |-> NoteHeld(n, srv.liked)]
      BY <2>1, <1>5, <1>6 DEF NotesTyped
    <3>2. Len(net[1].ans.data) = srv.sent
      BY <3>1, <1>11
    <3>. QED BY <1>4, <1>11, <2>1, <3>2 DEF NotesTaken
  <2>2. CASE net[1].op = "comment"
    <3>1. net[1].ans.data.id \in Nat /\ Len(ui.comments) < net[1].ans.data.id /\ net[1].ans.data.id <= srv.sent
      BY <2>2, <1>5, <1>6 DEF NotesTyped
    <3>2. Len(s.comments) = Len(ui.comments) + 1
      BY <2>2, <1>4 DEF NotesTaken
    <3>. QED BY <1>11, <1>12, <3>1, <3>2
  <2>3. CASE net[1].op = "likeNote"
    BY <2>3, <1>4, <1>12 DEF NotesTaken
  <2>. QED BY <1>6, <2>1, <2>2, <2>3 DEF NotesOps
<1>14. ASSUME NEW k \in 1..Len(net'), net'[k].op = "comment", net'[k].ans # Pending
       PROVE  net'[k].ans.data.id \in Nat /\ Len(s.comments) < net'[k].ans.data.id /\ net'[k].ans.data.id <= srv.sent
  <2>1. k + 1 \in 1..Len(net) /\ net'[k] = net[k + 1] /\ 1 < k + 1
    BY <1>2, <1>7
  <2>2. net'[k].ans.data.id \in Nat /\ Len(ui.comments) < net'[k].ans.data.id /\ net'[k].ans.data.id <= srv.sent
    BY <1>5, <1>14, <2>1 DEF NotesTyped
  <2>3. Len(s.comments) < net'[k].ans.data.id
    <3>1. CASE net[1].op = "getNotes"
      <4>1. Len(net) = 1
        BY <3>1, <1>5, <1>6 DEF NotesTyped
      <4>. QED BY <4>1, <1>2
    <3>2. CASE net[1].op = "comment"
      <4>1. net[1].ans.data.id < net'[k].ans.data.id
        BY <1>5, <1>6, <1>14, <2>1, <3>2 DEF NotesTyped
      <4>2. net[1].ans.data.id \in Nat /\ Len(ui.comments) < net[1].ans.data.id
        BY <3>2, <1>5, <1>6 DEF NotesTyped
      <4>3. Len(s.comments) = Len(ui.comments) + 1
        BY <3>2, <1>4 DEF NotesTaken
      <4>. QED BY <4>1, <4>2, <4>3, <2>2, <1>12
    <3>3. CASE net[1].op = "likeNote"
      BY <3>3, <1>4, <2>2 DEF NotesTaken
    <3>. QED BY <1>6, <3>1, <3>2, <3>3 DEF NotesOps
  <2>. QED BY <2>2, <2>3
<1>15. ASSUME NEW j \in 1..Len(net'), NEW k \in 1..Len(net'), j < k, net'[j].op = "comment", net'[k].op = "comment",
              net'[k].ans # Pending
       PROVE  net'[j].ans # Pending /\ net'[j].ans.data.id < net'[k].ans.data.id
  <2>1. /\ j + 1 \in 1..Len(net) /\ net'[j] = net[j + 1]
        /\ k + 1 \in 1..Len(net) /\ net'[k] = net[k + 1] /\ j + 1 < k + 1
    BY <1>2, <1>7, <1>15
  <2>. QED BY <1>5, <1>15, <2>1 DEF NotesTyped
<1>16. \A k \in 1..Len(net') : net'[k].op = "likeNote" => net'[k].arg \in s.pressed /\ net'[k].arg \in 1..srv.sent
  <2>1. s.pressed = ui.pressed
    BY <1>4 DEF NotesTaken
  <2>. QED BY <2>1, <1>5, <1>7 DEF NotesTyped
<1>17. NotesTyped(net', s, srv)
  <2>1. DOMAIN s = NotesFields /\ IsList(s.comments)
    BY <1>4 DEF NotesTaken
  <2>. QED BY <2>1, <1>9, <1>11, <1>13, <1>14, <1>15, <1>16 DEF NotesTyped
<1>. QED BY <1>10, <1>17

\* A comment put before the others.
LEMMA PutBefore ==
  ASSUME NEW l, IsList(l), NEW x
  PROVE  LET m == <<x>> \o l IN IsList(m) /\ Len(m) = Len(l) + 1 /\ ItemsOf(m) = ItemsOf(l) \cup {x}
<1>. DEFINE S == ItemsOf(l) \cup {x}
            m == <<x>> \o l
<1>1. Len(l) \in Nat /\ l \in Seq(S) /\ <<x>> \in Seq(S)
  <2>1. l \in Seq({l[k] : k \in 1..Len(l)})
    BY Elements DEF IsList
  <2>. QED BY <2>1 DEF IsList, ItemsOf
<1>2. Len(<<x>>) = 1 /\ <<x>>[1] = x
  OBVIOUS
<1>. HIDE DEF S
<1>3. /\ m \in Seq(S) /\ Len(m) = 1 + Len(l)
      /\ \A k \in 1..(1 + Len(l)) : m[k] = IF k <= 1 THEN <<x>>[k] ELSE l[k - 1]
  BY <1>1, <1>2, ConcatProperties
<1>4. m = [k \in 1..Len(m) |-> m[k]]
  BY <1>3, ByElements
<1>. HIDE DEF m
<1>5. m[1] = x
  <2>1. 1 \in 1..(1 + Len(l)) /\ 1 <= 1
    BY <1>1
  <2>2. m[1] = <<x>>[1]
    BY <2>1, <1>3
  <2>. QED BY <2>2, <1>2
<1>6. \A k \in 1..Len(l) : k + 1 \in 1..Len(m) /\ m[k + 1] = l[k]
  <2>1. TAKE k \in 1..Len(l)
  <2>2. k + 1 \in 1..(1 + Len(l)) /\ ~(k + 1 <= 1) /\ (k + 1) - 1 = k
    BY <1>1
  <2>3. m[k + 1] = l[(k + 1) - 1]
    BY <1>3, <2>2
  <2>. QED BY <1>3, <2>2, <2>3
<1>7. \A k \in 1..Len(m) : k = 1 \/ (k - 1 \in 1..Len(l) /\ m[k] = l[k - 1])
  BY <1>1, <1>3
<1>8. ItemsOf(m) = ItemsOf(l) \cup {x}
  <2>1. 1 \in 1..Len(m)
    BY <1>1, <1>3
  <2>2. ASSUME NEW y \in ItemsOf(m) PROVE y \in ItemsOf(l) \cup {x}
    <3>1. PICK k \in 1..Len(m) : y = m[k]
      BY <2>2 DEF ItemsOf
    <3>. QED BY <3>1, <1>5, <1>7 DEF ItemsOf
  <2>3. ASSUME NEW y \in ItemsOf(l) PROVE y \in ItemsOf(m)
    BY <2>3, <1>6 DEF ItemsOf
  <2>4. x \in ItemsOf(m)
    BY <2>1, <1>5 DEF ItemsOf
  <2>. QED BY <2>2, <2>3, <2>4
<1>9. IsList(m) /\ Len(m) = Len(l) + 1
  BY <1>1, <1>3, <1>4 DEF IsList
<1>. QED BY <1>8, <1>9 DEF m

\* Every step of the page keeps it so.
LEMMA NotesPageSteps ==
  ASSUME page = "notes", NotesState, Next PROVE NotesState'
<1>0. Queue(NotesOps) /\ (~mishap => NotesTyped(net, ui, srv))
  BY DEF NotesState
<1>1. NewOnes(<< >>, NotesOps) /\ Len(<< >>) = 0
  BY NewNone
<1>2. ASSUME NotesOpen, NEW s, Update(s), DOMAIN s = NotesFields, s.comments = ui.comments,
             s.likedComments = ui.likedComments, s.pressed = ui.pressed
      PROVE  NotesState'
  <2>1. Begun(NotesOps, s, << >>) /\ mishap' = mishap
    BY <1>0, <1>2, UpdateBegins
  <2>2. \A k \in 1..Len(<< >>) : FALSE
    BY <1>1
  <2>. QED BY <1>1, <1>2, <2>1, <2>2, NotesClicked DEF NotesOpen
<1>3. NotesOpen => DOMAIN ui = NotesFields
  BY <1>0 DEF NotesOpen, NotesTyped
<1>4. CASE TypeComment
  <2>. DEFINE s == [ui EXCEPT !.commentText = TRUE]
  <2>1. NotesOpen /\ Update(s)
    BY <1>4 DEF TypeComment
  <2>2. /\ DOMAIN s = NotesFields /\ s.comments = ui.comments /\ s.likedComments = ui.likedComments
        /\ s.pressed = ui.pressed
    BY <1>3, <2>1 DEF NotesFields
  <2>. HIDE DEF s
  <2>. QED BY <1>2, <2>1, <2>2
<1>5. CASE TypeReply
  <2>. DEFINE s == [ui EXCEPT !.replyText = TRUE]
  <2>1. NotesOpen /\ Update(s)
    BY <1>5 DEF TypeReply
  <2>2. /\ DOMAIN s = NotesFields /\ s.comments = ui.comments /\ s.likedComments = ui.likedComments
        /\ s.pressed = ui.pressed
    BY <1>3, <2>1 DEF NotesFields
  <2>. HIDE DEF s
  <2>. QED BY <1>2, <2>1, <2>2
<1>6. ASSUME NEW n, OpenReply(n) PROVE NotesState'
  <2>. DEFINE s == [ui EXCEPT !.replyTo = IF @ = n THEN Nobody ELSE n, !.replyText = FALSE]
  <2>1. NotesOpen /\ Update(s)
    BY <1>6 DEF OpenReply
  <2>2. /\ DOMAIN s = NotesFields /\ s.comments = ui.comments /\ s.likedComments = ui.likedComments
        /\ s.pressed = ui.pressed
    BY <1>3, <2>1 DEF NotesFields
  <2>. HIDE DEF s
  <2>. QED BY <1>2, <2>1, <2>2
<1>7. ASSUME NEW n, HandleComment(n) PROVE NotesState'
  <2>. DEFINE c == Request("comment", n)
  <2>1. NotesOpen /\ Handle(ui, <<c>>)
    BY <1>7 DEF HandleComment
  <2>2. IsCall(c) /\ c.op = "comment" /\ c.op \in NotesOps /\ c.ans = Pending
    BY NewCalls DEF NotesOps
  <2>. HIDE DEF c
  <2>3. NewOnes(<<c>>, NotesOps) /\ Len(<<c>>) = 1 /\ <<c>>[1] = c
    BY <2>2, NewOne
  <2>. DEFINE cs == <<c>>
  <2>4. NewOnes(cs, NotesOps) /\ Handle(ui, cs) /\ \A k \in 1..Len(cs) : cs[k].op = "comment"
    BY <2>1, <2>2, <2>3
  <2>. HIDE DEF cs
  <2>5. Begun(NotesOps, ui, cs) /\ mishap' = mishap
    BY <1>0, <2>4, HandleBegins
  <2>. QED BY <1>3, <2>1, <2>4, <2>5, NotesClicked DEF NotesOpen
<1>8. ASSUME NEW n \in 1..NotesBound, n <= Len(ui.comments), HandleCommentLike(n) PROVE NotesState'
  <2>. DEFINE c == Request("likeNote", n)
              s == [ui EXCEPT !.pressed = @ \cup {n}]
  <2>1. NotesOpen /\ Handle(s, <<c>>)
    BY <1>8 DEF HandleCommentLike
  <2>2. IsCall(c) /\ c.op = "likeNote" /\ c.op \in NotesOps /\ c.ans = Pending /\ c.arg = n
    BY NewCalls DEF NotesOps
  <2>3. /\ DOMAIN s = NotesFields /\ s.comments = ui.comments /\ s.likedComments = ui.likedComments
        /\ s.pressed = ui.pressed \cup {n}
    BY <1>3, <2>1 DEF NotesFields
  <2>. HIDE DEF c, s
  <2>4. NewOnes(<<c>>, NotesOps) /\ Len(<<c>>) = 1 /\ <<c>>[1] = c
    BY <2>2, NewOne
  <2>. DEFINE cs == <<c>>
  <2>5. NewOnes(cs, NotesOps) /\ Handle(s, cs) /\ Len(cs) = 1 /\ cs[1] = c
    BY <2>1, <2>4
  <2>. HIDE DEF cs
  <2>6. Begun(NotesOps, s, cs) /\ mishap' = mishap
    BY <1>0, <2>5, HandleBegins
  <2>7. n \in 1..srv.sent
    <3>1. srv.sent \in Nat /\ Len(ui.comments) \in Nat /\ Len(ui.comments) <= srv.sent
      BY <1>0, <2>1 DEF NotesOpen, NotesTyped, IsList
    <3>2. n \in Nat /\ 1 <= n
      BY DEF NotesBound
    <3>. QED BY <1>8, <3>1, <3>2
  <2>8. \A k \in 1..Len(cs) : cs[k].op = "likeNote" /\ cs[k].arg = n
    BY <2>2, <2>5
  <2>9. \A m \in s.pressed \ ui.pressed : \E k \in 1..Len(cs) : cs[k].op = "likeNote" /\ cs[k].arg = m
    <3>1. 1 \in 1..Len(cs)
      BY <2>5
    <3>. QED BY <3>1, <2>3, <2>8
  <2>10. \A k \in 1..Len(cs) : cs[k].op = "likeNote" /\ cs[k].arg \in s.pressed /\ cs[k].arg \in 1..srv.sent
    BY <2>3, <2>7, <2>8
  <2>11. ~mishap /\ ~ui.loading /\ ui.pressed \subseteq s.pressed
    BY <2>1, <2>3 DEF NotesOpen
  <2>. QED BY <2>3, <2>5, <2>6, <2>9, <2>10, <2>11, NotesClicked
<1>9. ASSUME NEW i \in 1..Len(net), NotesServed(i) PROVE NotesState'
  <2>1. CASE net[i].op = "getNotes"
    <3>. DEFINE v == [n \in 1..srv.sent |-> NoteHeld(n, srv.liked)]
    <3>1. Reply(i, v, srv)
      BY <1>9, <2>1 DEF NotesServed, Asked
    <3>2. NotesServedBy(net[i], v, srv)
      BY <2>1 DEF NotesServedBy
    <3>. HIDE DEF v
    <3>. QED BY <3>1, <3>2, NotesServes
  <2>2. CASE net[i].op = "comment"
    <3>. DEFINE v == [id |-> srv.sent + 1, likes |-> NoteLikes]
                s == [srv EXCEPT !.sent = @ + 1]
    <3>1. Reply(i, v, s)
      BY <1>9, <2>2 DEF NotesServed, Asked
    <3>2. ASSUME ~mishap PROVE NotesServedBy(net[i], v, s)
      <4>1. DOMAIN srv = {"sent", "liked"}
        BY <1>0, <3>2 DEF NotesTyped
      <4>2. s.sent = srv.sent + 1 /\ s.liked = srv.liked /\ DOMAIN s = DOMAIN srv
        BY <4>1
      <4>. HIDE DEF s
      <4>. QED BY <2>2, <4>2 DEF NotesServedBy
    <3>. HIDE DEF v, s
    <3>. QED BY <3>1, <3>2, NotesServes
  <2>3. CASE net[i].op = "likeNote"
    <3>. DEFINE liked == SymDiff(srv.liked, {net[i].arg})
                v == net[i].arg \in liked
                s == [srv EXCEPT !.liked = liked]
    <3>1. Reply(i, v, s)
      BY <1>9, <2>3 DEF NotesServed, Asked
    <3>2. ASSUME ~mishap PROVE NotesServedBy(net[i], v, s)
      <4>1. DOMAIN srv = {"sent", "liked"}
        BY <1>0, <3>2 DEF NotesTyped
      <4>. HIDE DEF liked
      <4>2. s.sent = srv.sent /\ s.liked = liked /\ DOMAIN s = DOMAIN srv
        BY <4>1
      <4>3. v = (net[i].arg \in s.liked)
        BY <4>2
      <4>. HIDE DEF s, v
      <4>. QED BY <2>3, <4>2, <4>3 DEF NotesServedBy, liked
    <3>. HIDE DEF v, s
    <3>. QED BY <3>1, <3>2, NotesServes
  <2>. QED BY <1>9, <2>1, <2>2, <2>3 DEF NotesServed, Asked
<1>10. ASSUME NEW i \in 1..Len(net), NotesDone(i) PROVE NotesState'
  <2>1. net[i].ans # Pending
    BY <1>10 DEF NotesDone, Answered
  <2>2. CASE net[i].op = "getNotes"
    <3>. DEFINE s == [ui EXCEPT !.loading = FALSE, !.comments = IF IsOk(i) THEN Data(i) ELSE @]
    <3>1. Settle(i, s, << >>)
      BY <1>10, <2>2 DEF NotesDone, Answered
    <3>2. ASSUME ~mishap, IsOk(i) PROVE NotesTaken(net[i], s)
      <4>1. NotesTyped(net, ui, srv)
        BY <1>0, <3>2
      <4>2. Data(i) = [n \in 1..srv.sent |-> NoteHeld(n, srv.liked)] /\ srv.sent \in Nat
        BY <4>1, <2>1, <2>2 DEF NotesTyped, Data
      <4>3. IsList(Data(i))
        <5>1. Len(Data(i)) = srv.sent
          BY <4>2
        <5>2. Data(i) = [n \in 1..Len(Data(i)) |-> Data(i)[n]]
          BY <4>2, <5>1
        <5>. QED BY <4>2, <5>1, <5>2 DEF IsList
      <4>4. DOMAIN s = NotesFields /\ s.pressed = ui.pressed /\ s.comments = Data(i) /\ s.likedComments = ui.likedComments
        BY <3>2, <4>1 DEF NotesTyped, NotesFields
      <4>. HIDE DEF s
      <4>5. NotesView(s) = NotesAfter(net[i], NotesView(ui))
        BY <2>2, <4>4 DEF NotesView, NotesAfter, Data
      <4>. QED BY <2>2, <4>3, <4>4, <4>5 DEF NotesTaken, Data
    <3>. HIDE DEF s
    <3>. QED BY <2>1, <3>1, <3>2, NotesFollows
  <2>3. CASE net[i].op = "comment"
    <3>. DEFINE put == [ui EXCEPT !.comments = <<Data(i)>> \o @]
                s == IF ~IsOk(i) THEN ui
                     ELSE IF net[i].arg = Nobody THEN [put EXCEPT !.commentText = FALSE]
                     ELSE [put EXCEPT !.replyTo = Nobody, !.replyText = FALSE]
    <3>1. Settle(i, s, << >>)
      BY <1>10, <2>3 DEF NotesDone, Answered
    <3>2. ASSUME ~mishap, IsOk(i) PROVE NotesTaken(net[i], s)
      <4>1. NotesTyped(net, ui, srv) /\ IsList(ui.comments)
        BY <1>0, <3>2 DEF NotesTyped
      <4>. DEFINE m == <<Data(i)>> \o ui.comments
      <4>2. IsList(m) /\ Len(m) = Len(ui.comments) + 1 /\ ItemsOf(m) = ItemsOf(ui.comments) \cup {Data(i)}
        BY <4>1, PutBefore
      <4>. HIDE DEF m
      <4>3. /\ DOMAIN put = NotesFields /\ put.pressed = ui.pressed /\ put.comments = m
            /\ put.likedComments = ui.likedComments
        BY <4>1 DEF NotesTyped, NotesFields, m
      <4>. HIDE DEF put
      <4>4. DOMAIN s = NotesFields /\ s.pressed = ui.pressed /\ s.comments = m /\ s.likedComments = ui.likedComments
        BY <3>2, <4>3 DEF NotesFields
      <4>. HIDE DEF s
      <4>5. NotesView(s) = NotesAfter(net[i], NotesView(ui))
        BY <2>3, <4>2, <4>4 DEF NotesView, NotesAfter, Data
      <4>. QED BY <2>3, <4>2, <4>4, <4>5 DEF NotesTaken
    <3>. HIDE DEF s
    <3>. QED BY <2>1, <3>1, <3>2, NotesFollows
  <2>4. CASE net[i].op = "likeNote"
    <3>. DEFINE n == net[i].arg
                d == Data(i)
                l == [k \in DOMAIN ui.comments |-> Rated(ui.comments[k], n, d)]
                s == IF ~IsOk(i) THEN ui
                     ELSE [ui EXCEPT !.likedComments = IF d THEN @ \cup {n} ELSE @ \ {n}, !.comments = l]
    <3>1. Settle(i, s, << >>)
      BY <1>10, <2>4 DEF NotesDone, Answered
    <3>2. ASSUME ~mishap, IsOk(i) PROVE NotesTaken(net[i], s)
      <4>1. NotesTyped(net, ui, srv) /\ IsList(ui.comments)
        BY <1>0, <3>2 DEF NotesTyped
      <4>2. l = [k \in 1..Len(ui.comments) |-> Rated(ui.comments[k], n, d)]
        <5>1. DOMAIN ui.comments = 1..Len(ui.comments)
          BY <4>1 DEF IsList
        <5>. QED BY <5>1 DEF Rated
      <4>. HIDE DEF l
      <4>3. Len(l) = Len(ui.comments) /\ IsList(l)
        <5>1. Len(ui.comments) \in Nat
          BY <4>1 DEF IsList
        <5>2. Len(l) = Len(ui.comments)
          BY <4>2, <5>1
        <5>3. l = [k \in 1..Len(l) |-> l[k]]
          BY <4>2, <5>2
        <5>. QED BY <5>1, <5>2, <5>3 DEF IsList
      <4>4. ItemsOf(l) = {Rated(x, n, d) : x \in ItemsOf(ui.comments)}
        <5>1. \A k \in 1..Len(l) : l[k] = Rated(ui.comments[k], n, d)
          BY <4>2, <4>3
        <5>. HIDE DEF n, d
        <5>2. \A x \in ItemsOf(l) : \E y \in ItemsOf(ui.comments) : x = Rated(y, n, d)
          BY <4>3, <5>1 DEF ItemsOf
        <5>3. \A y \in ItemsOf(ui.comments) : Rated(y, n, d) \in ItemsOf(l)
          BY <4>3, <5>1 DEF ItemsOf
        <5>. QED BY <5>2, <5>3
      <4>5. /\ DOMAIN s = NotesFields /\ s.pressed = ui.pressed /\ s.comments = l
            /\ s.likedComments = IF d THEN ui.likedComments \cup {n} ELSE ui.likedComments \ {n}
        <5>. HIDE DEF n, d
        <5>. QED BY <3>2, <4>1 DEF NotesTyped, NotesFields
      <4>. HIDE DEF s
      <4>6. NotesView(s) = NotesAfter(net[i], NotesView(ui))
        BY <2>4, <4>3, <4>4, <4>5 DEF NotesView, NotesAfter, Data
      <4>. QED BY <2>4, <4>3, <4>5, <4>6 DEF NotesTaken
    <3>. HIDE DEF s
    <3>. QED BY <2>1, <3>1, <3>2, NotesFollows
  <2>. QED BY <1>10, <2>2, <2>3, <2>4 DEF NotesDone, Answered
<1>11. ASSUME NEW i \in 1..Len(net), Deny(i) PROVE NotesState'
  <2>1. Denied(NotesOps, i)
    BY <1>0, <1>11, Denies
  <2>. QED BY <2>1 DEF Denied, NotesState
<1>. QED BY <1>0, <1>4, <1>5, <1>6, <1>7, <1>8, <1>9, <1>10, <1>11, NotesActions

\* The comments of a post (WebPost.CommentsAreCurrent): the comments shown and
\* the answers that are still to be taken lead to those the service holds, each
\* once and with its likes; and every heart that was pressed leads to what the
\* service holds of it, unless a call of its own is still to be answered.
THEOREM CommentsStayCurrent == Spec => []CommentsAreCurrent
<1>. DEFINE Inv == page = "notes" => NotesState
<1>1. Init => Inv
  BY Mounts, NotesStarts
<1>2. Inv /\ [Next]_vars => Inv'
  <2>1. CASE Next
    BY <2>1, PageStays, NotesPageSteps
  <2>2. CASE UNCHANGED vars
    BY <2>2 DEF vars, NotesState, Queue, Calls, InOrder
  <2>. QED BY <2>1, <2>2
<1>3. Inv => CommentsAreCurrent
  <2>. SUFFICES ASSUME NotesState, Quiet, ~mishap
                PROVE  /\ Len(ui.comments) = srv.sent
                       /\ ToSet(ui.comments) = {NoteHeld(n, srv.liked) : n \in 1..srv.sent}
                       /\ ui.likedComments = ui.pressed \cap srv.liked
    BY DEF CommentsAreCurrent
  <2>1. Len(net) = 0
    BY QuietIsEmpty DEF NotesState
  <2>2. PICK b : NotesReplay!Leads(net, NotesView(ui), b) /\ NotesAgree(net, b, ui, srv)
    BY DEF NotesState, NotesLead
  <2>3. b = NotesView(ui)
    BY <2>1, <2>2, NotesReplay!LeadsNowhere
  <2>4. ~NotesToCome(net) /\ \A n : ~LikeToCome(net, n)
    BY <2>1 DEF NotesToCome, LikeToCome
  <2>5. b.len = srv.sent /\ b.shown = NotesHeld(srv) /\ b.hearts \subseteq ui.pressed
        /\ \A n \in ui.pressed : n \in b.hearts <=> n \in srv.liked
    BY <2>2, <2>4 DEF NotesAgree
  <2>6. b.len = Len(ui.comments) /\ b.shown = ItemsOf(ui.comments) /\ b.hearts = ui.likedComments
    BY <2>3 DEF NotesView
  <2>7. ToSet(ui.comments) = ItemsOf(ui.comments)
    <3>1. DOMAIN ui.comments = 1..Len(ui.comments)
      BY DEF NotesState, NotesTyped, IsList
    <3>. QED BY <3>1 DEF ToSet, ItemsOf
  <2>8. ui.likedComments = ui.pressed \cap srv.liked
    BY <2>5, <2>6
  <2>. QED BY <2>5, <2>6, <2>7, <2>8 DEF NotesHeld
<1>. HIDE DEF Inv
<1>. QED BY <1>1, <1>2, <1>3, PTL DEF Spec
-----------------------------------------------------------------------------
(***************************************************************************)
(* The forms.                                                              *)
(***************************************************************************)
FormOps    == {"fill", "check", "store"}
FormUiFields == {"loading", "field", "known", "warned", "busy", "left", "done", "typed", "sent"}

\* The youngest call to op; no call to it, none that is still to be answered.
LastOf(q, op, k) == k \in 1..Len(q) /\ q[k].op = op /\ \A j \in (k + 1)..Len(q) : q[j].op # op
NoneOf(q, op)    == \A k \in 1..Len(q) : q[k].op # op
NoneAsked(q, op) == \A k \in 1..Len(q) : q[k].op = op => q[k].ans # Pending

\* What is said to be stored was, and so was what a call was answered for.
FormSaved(q, u, s) ==
  /\ u.done # NoValue => u.done \in s.ever
  /\ \A k \in 1..Len(q) : q[k].op = "store" /\ q[k].ans.code = "ok" => q[k].arg \in s.ever

\* While a load is pending nothing else is: what would be started meanwhile
\* is a mishap.
FormFills(r, q, u, s) ==
  ~NoneOf(q, "fill") =>
    /\ u.typed = NoValue /\ \A k \in 1..Len(q) : q[k].op = "fill"
    /\ r.checks # "none" => Len(q) = 1 /\ u.field = NoInput
    /\ \A k \in 1..Len(q) : q[k].ans # Pending /\ r.checks # "select" => q[k].ans.data = s.held

\* The youngest call carries what was sent last, and so does the service then.
FormSends(p, q, u, s) ==
  /\ \A k \in 1..Len(q) : LastOf(q, "store", k) => q[k].arg = u.sent
  /\ NoneOf(q, "store") /\ u.sent # NoValue => u.done = u.sent
  /\ NoneAsked(q, "store") /\ u.sent # NoValue => s.held = u.sent \/ (p = "adminRelay" /\ u.sent = NoInput)

\* A form whose button is disabled meanwhile is sent once and then left.
FormOnce(r, q, u, s) ==
  r.busy /\ r.ends = "left" =>
    /\ s.stored \in {0, 1}
    /\ ~u.left /\ NoneOf(q, "store") => s.stored = 0
    /\ u.left => NoneOf(q, "store")
    /\ \A k \in 1..Len(q) : q[k].op = "store" =>
         /\ u.busy /\ \A j \in 1..Len(q) : q[j].op = "store" => j = k
         /\ s.stored = IF q[k].ans = Pending THEN 0 ELSE 1

\* A load that will fill the form is pending; every call carries what is held.
FillToCome(q)    == \E k \in 1..Len(q) : q[k].op = "fill" /\ q[k].arg
SendsHeld(q, v)  == \A k \in 1..Len(q) : q[k].op = "store" => q[k].arg = v

FormHolds(r, q, u, s) ==
  /\ u.typed # NoValue => u.field = u.typed
  /\ u.typed = NoValue /\ r.checks = "none" /\ TRUE \in Range(r.loads) =>
       FillToCome(q) \/ (u.field = s.held /\ SendsHeld(q, s.held))

\* The youngest question is about the value in the form.
FormWarns(r, q, u, s) ==
  r.checks # "none" =>
    /\ \A k \in 1..Len(q) : q[k].op = "check" /\ q[k].ans # Pending => q[k].ans.data = (q[k].arg \notin s.open)
    /\ u.field # NoInput =>
         /\ \A k \in 1..Len(q) : LastOf(q, "check", k) => q[k].arg = u.field
         /\ NoneOf(q, "check") => u.warned = (u.field \notin s.open)

FormGoes(p, q, u, s) ==
  /\ FormFills(FormRows[p], q, u, s) /\ FormSends(p, q, u, s) /\ FormOnce(FormRows[p], q, u, s)
  /\ FormHolds(FormRows[p], q, u, s) /\ FormWarns(FormRows[p], q, u, s)

FormState ==
  /\ Queue(FormOps)
  /\ DOMAIN ui = FormUiFields /\ DOMAIN srv = {"held", "ever", "stored", "open"}
  /\ ui.busy \in BOOLEAN /\ ui.left \in BOOLEAN
  /\ FormSaved(net, ui, srv)
  /\ ~mishap => FormGoes(page, net, ui, srv)

\* What the rows have in common.
RowIsSound(p, r) ==
  /\ r.ends \in {"left", "cleared", "stays"} /\ r.checks \in {"none", "select", "blur"}
  /\ r.busy \in BOOLEAN /\ r.mute \in BOOLEAN /\ r.gone \in BOOLEAN
  /\ r.loads \in {<< >>, <<TRUE>>, <<FALSE>>, <<TRUE, TRUE>>, <<FALSE, TRUE>>}
  /\ r.ends = "cleared" => r.checks = "none" /\ r.loads \in {<< >>, <<FALSE>>}
  /\ r.checks # "none" => r.first = NoInput /\ r.ends = "left" /\ r.loads \in {<< >>, <<TRUE>>}
  /\ p = "adminRelay" => r.ends = "stays"

\* Every row is sound.
LEMMA FormTable ==
  ASSUME NEW p \in FormPages PROVE RowIsSound(p, FormRows[p])
<1>1. /\ p \in {"login", "register", "forgotPassword", "resetPassword", "createSpace", "appeal", "newPoll",
                "publishThread", "profileSettings", "passwordSettings", "adminLimits", "adminRelay", "adminCode"}
  BY DEF FormPages, FormRows
<1>2. CASE p \in {"login", "register", "forgotPassword", "resetPassword", "createSpace"}
  <2>1. FormRows[p] = [loads |-> << >>, hides |-> FALSE, gone |-> FALSE, first |-> NoInput,
              checks |-> "none", needs |-> TRUE, busy |-> TRUE, mute |-> FALSE, ends |-> "left"]
    <3>1. /\ FormRows["login"] = Form /\ FormRows["register"] = Form /\ FormRows["forgotPassword"] = Form
          /\ FormRows["resetPassword"] = Form /\ FormRows["createSpace"] = Form
      BY DEF FormRows, Login, Register, ForgotPassword, ResetPassword, CreateSpace
    <3>2. FormRows[p] = Form
      BY <1>2, <3>1
    <3>. QED BY <3>2 DEF Form
  <2>. QED BY <2>1, <1>2 DEF RowIsSound
<1>3. CASE p = "appeal"
  <2>1. FormRows[p] = [loads |-> << >>, hides |-> FALSE, gone |-> FALSE, first |-> NoInput,
              checks |-> "blur", needs |-> TRUE, busy |-> TRUE, mute |-> FALSE, ends |-> "left"]
    BY <1>3 DEF FormRows, Appeal, Form
  <2>. QED BY <2>1, <1>3 DEF RowIsSound
<1>4. CASE p = "newPoll"
  <2>1. FormRows[p] = [loads |-> <<TRUE>>, hides |-> FALSE, gone |-> FALSE, first |-> NoInput,
              checks |-> "select", needs |-> TRUE, busy |-> FALSE, mute |-> FALSE, ends |-> "left"]
    BY <1>4 DEF FormRows, NewPoll, Form
  <2>. QED BY <2>1, <1>4 DEF RowIsSound
<1>5. CASE p = "publishThread"
  <2>1. FormRows[p] = [loads |-> <<TRUE>>, hides |-> TRUE, gone |-> TRUE, first |-> NoInput,
              checks |-> "none", needs |-> TRUE, busy |-> TRUE, mute |-> FALSE, ends |-> "left"]
    BY <1>5 DEF FormRows, ThreadPublish, Form
  <2>. QED BY <2>1, <1>5 DEF RowIsSound
<1>6. CASE p = "profileSettings"
  <2>1. FormRows[p] = [loads |-> <<TRUE>>, hides |-> TRUE, gone |-> FALSE, first |-> NoInput,
              checks |-> "none", needs |-> FALSE, busy |-> FALSE, mute |-> TRUE, ends |-> "stays"]
    BY <1>6 DEF FormRows, ProfileSettings, Form
  <2>. QED BY <2>1, <1>6 DEF RowIsSound
<1>7. CASE p = "passwordSettings"
  <2>1. FormRows[p] = [loads |-> <<FALSE>>, hides |-> TRUE, gone |-> FALSE, first |-> NoInput,
              checks |-> "none", needs |-> TRUE, busy |-> FALSE, mute |-> TRUE, ends |-> "cleared"]
    BY <1>7 DEF FormRows, PasswordSettings, ProfileSettings, Form
  <2>. QED BY <2>1, <1>7 DEF RowIsSound
<1>8. CASE p = "adminLimits"
  <2>1. FormRows[p] = [loads |-> <<TRUE, TRUE>>, hides |-> TRUE, gone |-> FALSE, first |-> 1,
              checks |-> "none", needs |-> TRUE, busy |-> TRUE, mute |-> FALSE, ends |-> "stays"]
    BY <1>8 DEF FormRows, AdminLimits, Form
  <2>. QED BY <2>1, <1>8 DEF RowIsSound
<1>9. CASE p = "adminRelay"
  <2>1. FormRows[p] = [loads |-> <<FALSE, TRUE>>, hides |-> TRUE, gone |-> FALSE, first |-> NoInput,
              checks |-> "none", needs |-> FALSE, busy |-> TRUE, mute |-> FALSE, ends |-> "stays"]
    BY <1>9 DEF FormRows, AdminRelay, AdminLimits, Form
  <2>. QED BY <2>1, <1>9 DEF RowIsSound
<1>10. CASE p = "adminCode"
  <2>1. FormRows[p] = [loads |-> << >>, hides |-> FALSE, gone |-> FALSE, first |-> NoInput,
              checks |-> "none", needs |-> TRUE, busy |-> TRUE, mute |-> FALSE, ends |-> "cleared"]
    BY <1>10 DEF FormRows, AdminCode, Form
  <2>. QED BY <2>1, <1>10 DEF RowIsSound
<1>. QED BY <1>1, <1>2, <1>3, <1>4, <1>5, <1>6, <1>7, <1>8, <1>9, <1>10

\* What can happen on a form.
LEMMA FormActions ==
  ASSUME page \in FormPages, Queue(FormOps), Next
  PROVE  \/ SendForm \/ \E v \in FormValues : TypeField(v)
         \/ \E i \in 1..Len(net) : \/ FillServed(i) \/ CheckServed(i) \/ FormStored(i)
                                   \/ Deny(i)
                                   \/ FillDone(i) \/ CheckDone(i) \/ FormDone(i)
<1>1. /\ page \notin ListPages /\ page \notin ChatPages /\ page \notin ReactionPages
      /\ page \notin FeedsPages /\ page \notin SpacePages /\ page \notin PostPages /\ page \notin EditorPages
  <2>1. page \notin ListPages
    BY DEF ListPages, Rows, FormPages, FormRows
  <2>2. page \notin ChatPages
    BY DEF FormPages, FormRows, ChatPages
  <2>. QED BY <2>1, <2>2, OtherPages
<1>2. CASE User
  BY <1>1, <1>2, ListSteps, ChatSteps, ReactionsSteps, FeedsSteps, SpaceSteps, PostSteps, EditorSteps
  DEF User, FormsUser
<1>3. ASSUME NEW i \in DOMAIN net, Service(i) \/ Then(i)
      PROVE  FormsService(i) \/ FormsThen(i) \/ Deny(i)
  <2>1. i \in 1..Len(net) /\ net[i].op \in FormOps
    BY InDomain DEF Queue, Calls
  <2>2. /\ net[i].op \notin ChatOps /\ net[i].op \notin ReactionOps
        /\ net[i].op \notin FeedsOps /\ net[i].op \notin SpaceOps
        /\ net[i].op \notin ReadOps /\ net[i].op \notin EditorOps
    BY <2>1 DEF FormOps, ReactionOps, FeedsOps, ChatOps, SpaceOps, ReadOps, EditorOps
  <2>. QED BY <1>1, <1>3, <2>2, ListSteps, ChatSteps, ReactionsSteps, FeedsSteps, SpaceSteps, PostSteps, EditorSteps
         DEF Service, Then
<1>. QED BY <1>2, <1>3, InDomain DEF Next, FormsService, FormsThen

\* A form is mounted in a state of it.
LEMMA FormsStart ==
  ASSUME FormsInit PROVE FormState
<1>1. /\ page \in FormPages /\ mishap = FALSE
      /\ ui = [loading |-> FormRow.loads # <<>>, field |-> FormRow.first, known |-> FALSE, warned |-> FALSE,
               busy |-> FALSE, left |-> FALSE, done |-> NoValue, typed |-> NoValue, sent |-> NoValue]
      /\ net = [k \in DOMAIN FormRow.loads |-> Fetch("fill", FormRow.loads[k])]
  BY DEF FormsInit
<1>2. DOMAIN srv = {"held", "ever", "stored", "open"} /\ srv.stored = 0
  BY DEF FormsInit
<1>. DEFINE r == FormRows[page]
<1>3. RowIsSound(page, r) /\ r = FormRow
  BY <1>1, FormTable DEF FormRow
<1>. HIDE DEF r
<1>4. Len(r.loads) \in Nat /\ DOMAIN r.loads = 1..Len(r.loads)
  BY <1>3 DEF RowIsSound
<1>5. /\ DOMAIN ui = FormUiFields /\ ui.field = r.first /\ ui.known = FALSE /\ ui.warned = FALSE
      /\ ui.busy = FALSE /\ ui.left = FALSE /\ ui.done = NoValue /\ ui.typed = NoValue /\ ui.sent = NoValue
  BY <1>1, <1>3 DEF FormUiFields
<1>6. net = [k \in 1..Len(r.loads) |-> Fetch("fill", r.loads[k])]
  BY <1>1, <1>3, <1>4
<1>7. Len(net) = Len(r.loads)
  BY <1>4, <1>6
<1>8. \A k \in 1..Len(net) : net[k] = Fetch("fill", r.loads[k])
  BY <1>6, <1>7
<1>9. \A k \in 1..Len(net) : /\ IsCall(net[k]) /\ net[k].op = "fill" /\ net[k].op \in FormOps
                             /\ net[k].ans = Pending /\ net[k].arg = r.loads[k]
  <2>. SUFFICES ASSUME NEW k \in 1..Len(net)
                PROVE  /\ IsCall(net[k]) /\ net[k].op = "fill" /\ net[k].op \in FormOps
                       /\ net[k].ans = Pending /\ net[k].arg = r.loads[k]
    OBVIOUS
  <2>1. net[k] \in {Request("fill", r.loads[k]), Fetch("fill", r.loads[k])}
    BY <1>8
  <2>2. IsCall(net[k]) /\ net[k].op = "fill" /\ net[k].arg = r.loads[k] /\ net[k].ans = Pending
    BY <2>1, NewCalls
  <2>. QED BY <2>2 DEF FormOps
<1>10. Queue(FormOps)
  <2>1. net = [k \in 1..Len(net) |-> net[k]] /\ Len(net) \in Nat
    BY <1>4, <1>6, <1>7
  <2>. QED BY <2>1, <1>1, <1>9 DEF Queue, Calls, InOrder
<1>11. FormSaved(net, ui, srv)
  BY <1>5, <1>9 DEF FormSaved
<1>12. FormFills(r, net, ui, srv)
  <2>1. r.checks # "none" => r.first = NoInput /\ (Len(net) = 0 \/ Len(net) = 1)
    BY <1>3, <1>7 DEF RowIsSound
  <2>2. ~NoneOf(net, "fill") => Len(net) # 0
    BY DEF NoneOf
  <2>. QED BY <2>1, <2>2, <1>5, <1>9 DEF FormFills
<1>13. FormSends(page, net, ui, srv)
  BY <1>5, <1>9 DEF FormSends, LastOf
<1>14. FormOnce(r, net, ui, srv)
  BY <1>2, <1>5, <1>9 DEF FormOnce
<1>15. FormHolds(r, net, ui, srv)
  <2>1. ASSUME TRUE \in Range(r.loads) PROVE FillToCome(net)
    <3>1. PICK k \in 1..Len(r.loads) : r.loads[k] = TRUE
      BY <2>1, <1>4 DEF Range
    <3>. QED BY <3>1, <1>7, <1>9 DEF FillToCome
  <2>. QED BY <2>1, <1>5 DEF FormHolds
<1>16. FormWarns(r, net, ui, srv)
  BY <1>3, <1>5, <1>9 DEF FormWarns, RowIsSound
<1>17. FormGoes(page, net, ui, srv)
  BY <1>12, <1>13, <1>14, <1>15, <1>16 DEF FormGoes, r
<1>. QED BY <1>1, <1>2, <1>5, <1>10, <1>11, <1>17 DEF FormState

\* What is the youngest call to op, when c is put behind the others.
Behind(q, t, c) ==
  /\ Len(q) \in Nat /\ Len(t) = Len(q) + 1 /\ t[Len(q) + 1] = c
  /\ \A k \in 1..Len(q) : t[k] = q[k]

\* It is c.
LEMMA LastIsNew ==
  ASSUME NEW q, NEW t, NEW op, NEW c, Behind(q, t, c), c.op = op
  PROVE  ~NoneOf(t, op) /\ \A k \in 1..Len(t) : LastOf(t, op, k) => t[k] = c
<1>. /\ Len(q) \in Nat /\ Len(t) = Len(q) + 1 /\ t[Len(q) + 1] = c
     /\ \A k \in 1..Len(q) : t[k] = q[k]
  BY DEF Behind
<1>1. 1..Len(t) = 1..Len(q) \cup {Len(q) + 1} /\ Len(q) + 1 \in 1..Len(t)
  OBVIOUS
<1>2. ASSUME NEW k \in 1..Len(q) PROVE ~LastOf(t, op, k)
  <2>1. Len(q) + 1 \in (k + 1)..Len(t)
    OBVIOUS
  <2>. QED BY <2>1 DEF LastOf
<1>. QED BY <1>1, <1>2 DEF NoneOf

\* It is what it was, if c is a call to another operation.
LEMMA LastBehind ==
  ASSUME NEW q, NEW t, NEW op, NEW c, Behind(q, t, c), c.op # op
  PROVE  /\ NoneOf(t, op) <=> NoneOf(q, op)
         /\ NoneAsked(t, op) <=> NoneAsked(q, op)
         /\ \A k \in 1..Len(t) : LastOf(t, op, k) => LastOf(q, op, k) /\ t[k] = q[k]
<1>. /\ Len(q) \in Nat /\ Len(t) = Len(q) + 1 /\ t[Len(q) + 1] = c
     /\ \A k \in 1..Len(q) : t[k] = q[k]
  BY DEF Behind
<1>1. 1..Len(t) = 1..Len(q) \cup {Len(q) + 1} /\ Len(q) + 1 \in 1..Len(t)
  OBVIOUS
<1>2. ASSUME NEW k \in 1..Len(t), LastOf(t, op, k) PROVE LastOf(q, op, k) /\ t[k] = q[k]
  <2>1. k \in 1..Len(q) /\ t[k] = q[k]
    BY <1>2, <1>1 DEF LastOf
  <2>2. \A j \in (k + 1)..Len(q) : j \in (k + 1)..Len(t) /\ t[j] = q[j]
    BY <2>1
  <2>. QED BY <1>2, <2>1, <2>2 DEF LastOf
<1>3. NoneOf(t, op) <=> NoneOf(q, op)
  BY <1>1 DEF NoneOf
<1>4. NoneAsked(t, op) <=> NoneAsked(q, op)
  BY <1>1 DEF NoneAsked
<1>. QED BY <1>2, <1>3, <1>4

\* And when the oldest is gone.
LEMMA LastLeft ==
  ASSUME NEW q, NEW t, NEW op, Len(q) \in Nat, Len(q) > 0, Len(t) = Len(q) - 1,
         \A k \in 1..Len(t) : t[k] = q[k + 1]
  PROVE  /\ \A k \in 1..Len(t) : LastOf(t, op, k) => k + 1 \in 1..Len(q) /\ LastOf(q, op, k + 1) /\ t[k] = q[k + 1]
         /\ NoneOf(t, op) => IF q[1].op = op THEN LastOf(q, op, 1) ELSE NoneOf(q, op)
         /\ NoneOf(q, op) => NoneOf(t, op)
         /\ NoneAsked(t, op) /\ (q[1].op = op => q[1].ans # Pending) => NoneAsked(q, op)
<1>1. \A k \in 1..Len(q) : k = 1 \/ (k - 1 \in 1..Len(t) /\ t[k - 1] = q[k])
  OBVIOUS
<1>2. \A k \in 1..Len(t) : k + 1 \in 1..Len(q) /\ t[k] = q[k + 1]
  OBVIOUS
<1>3. ASSUME NEW k \in 1..Len(t), LastOf(t, op, k) PROVE LastOf(q, op, k + 1)
  <2>1. ASSUME NEW j \in (k + 1 + 1)..Len(q) PROVE q[j].op # op
    <3>1. j - 1 \in (k + 1)..Len(t) /\ t[j - 1] = q[j]
      BY <1>1
    <3>. QED BY <3>1, <1>3 DEF LastOf
  <2>. QED BY <2>1, <1>2, <1>3 DEF LastOf
<1>4. ASSUME NoneOf(t, op) PROVE \A k \in 1..Len(q) : k = 1 \/ q[k].op # op
  BY <1>1, <1>4 DEF NoneOf
<1>5. NoneOf(t, op) => IF q[1].op = op THEN LastOf(q, op, 1) ELSE NoneOf(q, op)
  <2>1. 1 \in 1..Len(q) /\ \A j \in (1 + 1)..Len(q) : j \in 1..Len(q) /\ j # 1
    OBVIOUS
  <2>. QED BY <2>1, <1>4 DEF LastOf, NoneOf
<1>6. NoneOf(q, op) => NoneOf(t, op)
  BY <1>2 DEF NoneOf
<1>7. NoneAsked(t, op) /\ (q[1].op = op => q[1].ans # Pending) => NoneAsked(q, op)
  BY <1>1 DEF NoneAsked
<1>. QED BY <1>2, <1>3, <1>5, <1>6, <1>7

\* Nothing is lost of what is said to be stored when calls are started.
LEMMA FormSavedBegins ==
  ASSUME FormState, NEW s, NEW cs, Begun(FormOps, s, cs), NewOnes(cs, FormOps), s.done \in {ui.done, NoValue}
  PROVE  FormSaved(net', s, srv)
<1>1. Len(net) \in Nat /\ Grown(net, net') /\ FormSaved(net, ui, srv)
  BY DEF Begun, FormState
<1>2. \A k \in 1..Len(net') : \/ k \in 1..Len(net) /\ net'[k] = net[k]
                              \/ k \in (Len(net) + 1)..Len(net') /\ net'[k].ans = Pending
  BY <1>1 DEF Grown
<1>3. \A k \in 1..Len(net') : net'[k].ans.code = "ok" => k \in 1..Len(net) /\ net'[k] = net[k]
  BY <1>2 DEF Pending
<1>. QED BY <1>1, <1>3 DEF FormSaved

\* A value is typed.
LEMMA FormTypes ==
  ASSUME page \in FormPages, FormState, NEW v \in FormValues, TypeField(v) PROVE FormState'
<1>. DEFINE r == FormRows[page]
            cs == Check(v)
            s == [ui EXCEPT !.field = v, !.typed = v, !.warned = @ /\ (FormRow.checks = "select" => v # NoInput)]
<1>1. RowIsSound(page, r) /\ r = FormRow
  BY FormTable DEF FormRow
<1>2. /\ net' = net \o cs /\ ui' = s /\ page' = page /\ srv' = srv
      /\ mishap' = (mishap \/ Filling \/ (Sending /\ r.ends = "cleared"))
  BY <1>1 DEF TypeField
<1>3. NewOnes(cs, FormOps)
  <2>. DEFINE c == Request("check", v)
  <2>1. IsCall(c) /\ c.op = "check" /\ c.arg = v /\ c.ans = Pending
    BY NewCalls
  <2>2. NewOnes(<<c>>, FormOps)
    BY <2>1, NewOne DEF FormOps
  <2>. QED BY <2>2, NewNone DEF Check
<1>4. (r.checks = "none" \/ v = NoInput) => cs = << >>
  BY <1>1 DEF Check
<1>5. ~(r.checks = "none" \/ v = NoInput) => cs = <<Request("check", v)>>
  BY <1>1 DEF Check
<1>6. v # NoValue
  BY DEF FormValues, NoValue
<1>7. /\ DOMAIN s = FormUiFields /\ s.field = v /\ s.typed = v /\ s.busy = ui.busy /\ s.left = ui.left
      /\ s.done = ui.done /\ s.sent = ui.sent
  BY DEF FormState, FormUiFields
<1>. HIDE DEF s, cs
<1>8. Queue(FormOps) /\ mishap \in BOOLEAN /\ DOMAIN net = 1..Len(net)
  BY InDomain DEF FormState, Queue
<1>9. mishap' \in BOOLEAN /\ (mishap => mishap')
  <2>. HIDE DEF r
  <2>. QED BY <1>2, <1>8
<1>10. Begun(FormOps, s, cs)
  BY <1>2, <1>3, <1>8, <1>9, Begins
<1>11. ASSUME ~mishap' PROVE FormGoes(page, net', s, srv)
  <2>1. FormGoes(page, net, ui, srv) /\ NoneOf(net, "fill")
    <3>1. ~mishap /\ ~Filling
      <4>. HIDE DEF r
      <4>. QED BY <1>2, <1>11
    <3>. QED BY <3>1, <1>8 DEF FormState, NoneOf, Filling
  <2>. HIDE DEF r
  <2>2. FormSends(page, net, ui, srv) /\ FormOnce(r, net, ui, srv) /\ FormWarns(r, net, ui, srv)
    BY <2>1 DEF FormGoes, r
  <2>3. /\ NoneOf(net', "fill")
        /\ NoneOf(net', "store") <=> NoneOf(net, "store")
        /\ NoneAsked(net', "store") <=> NoneAsked(net, "store")
        /\ \A k \in 1..Len(net') : net'[k].op = "store" => k \in 1..Len(net) /\ net'[k] = net[k]
        /\ \A k \in 1..Len(net') : LastOf(net', "store", k) => LastOf(net, "store", k)
        /\ \A k \in 1..Len(net') : net'[k].op = "check" /\ net'[k].ans # Pending => k \in 1..Len(net) /\ net'[k] = net[k]
        /\ \A k \in 1..Len(net) : net'[k] = net[k] /\ k \in 1..Len(net')
        /\ r.checks # "none" /\ v # NoInput =>
             ~NoneOf(net', "check") /\ \A k \in 1..Len(net') : LastOf(net', "check", k) => net'[k].arg = v
    <3>1. CASE r.checks = "none" \/ v = NoInput
      <4>1. net' = net
        <5>1. net' = net \o << >>
          BY <3>1, <1>2, <1>4
        <5>. QED BY <5>1, <1>8, Elements, ConcatEmptySeq DEF Queue, Calls
      <4>. QED BY <3>1, <4>1, <2>1 DEF LastOf
    <3>2. CASE ~(r.checks = "none" \/ v = NoInput)
      <4>. DEFINE c == Request("check", v)
      <4>1. c.op = "check" /\ c.arg = v /\ c.ans = Pending
        BY NewCalls
      <4>2. cs = <<c>>
        BY <3>2, <1>5
      <4>. HIDE DEF c
      <4>3. Len(cs) = 1 /\ cs[1] = c
        BY <4>2
      <4>4. /\ Len(net) \in Nat /\ Len(net') = Len(net) + 1 /\ net'[Len(net) + 1] = c
            /\ \A k \in 1..Len(net) : net'[k] = net[k]
        BY <1>10, <4>3 DEF Begun
      <4>5. \A k \in 1..Len(net') : (k \in 1..Len(net) /\ net'[k] = net[k]) \/ net'[k] = c
        BY <4>4
      <4>10. Behind(net, net', c)
        BY <4>4 DEF Behind
      <4>11. c.op # "fill" /\ c.op # "store"
        BY <4>1
      <4>6. NoneOf(net', "fill") <=> NoneOf(net, "fill")
        BY <4>10, <4>11, LastBehind
      <4>7. /\ NoneOf(net', "store") <=> NoneOf(net, "store")
            /\ NoneAsked(net', "store") <=> NoneAsked(net, "store")
            /\ \A k \in 1..Len(net') : LastOf(net', "store", k) => LastOf(net, "store", k)
        BY <4>10, <4>11, LastBehind
      <4>8. ~NoneOf(net', "check") /\ \A k \in 1..Len(net') : LastOf(net', "check", k) => net'[k] = c
        BY <4>1, <4>10, LastIsNew
      <4>9. \A k \in 1..Len(net) : k \in 1..Len(net')
        BY <4>4
      <4>. QED BY <4>1, <4>4, <4>5, <4>6, <4>7, <4>8, <4>9, <2>1
    <3>. QED BY <3>1, <3>2
  <2>4. FormFills(r, net', s, srv)
    BY <2>3 DEF FormFills
  <2>5. FormSends(page, net', s, srv)
    <3>1. \A k \in 1..Len(net') : LastOf(net', "store", k) => net'[k].op = "store"
      BY DEF LastOf
    <3>. QED BY <3>1, <2>2, <2>3, <1>7 DEF FormSends
  <2>6. FormOnce(r, net', s, srv)
    BY <2>2, <2>3, <1>7 DEF FormOnce
  <2>7. FormHolds(r, net', s, srv)
    BY <1>6, <1>7 DEF FormHolds
  <2>8. FormWarns(r, net', s, srv)
    BY <2>2, <2>3, <1>7 DEF FormWarns
  <2>. QED BY <2>4, <2>5, <2>6, <2>7, <2>8 DEF FormGoes, r
<1>12. FormSaved(net', s, srv)
  BY <1>3, <1>7, <1>10, FormSavedBegins
<1>13. Queue(FormOps)'
  BY <1>10 DEF Begun
<1>. QED BY <1>2, <1>7, <1>11, <1>12, <1>13 DEF FormState

\* The form is sent.
LEMMA FormIsSent ==
  ASSUME page \in FormPages, FormState, SendForm PROVE FormState'
<1>. DEFINE r == FormRows[page]
            c == Fetch("store", ui.field)
            cs == <<c>>
            s == [ui EXCEPT !.busy = FormRow.busy, !.sent = ui.field, !.done = IF FormRow.mute THEN @ ELSE NoValue]
<1>1. RowIsSound(page, r) /\ r = FormRow
  BY FormTable DEF FormRow
<1>2. /\ net' = net \o cs /\ ui' = s /\ page' = page /\ srv' = srv
      /\ mishap' = (mishap \/ Filling) /\ ~ui.busy /\ ~ui.left
  <2>1. Append(net, c) = net \o cs
    OBVIOUS
  <2>2. net' = Append(net, c) /\ ui' = s /\ page' = page /\ srv' = srv
        /\ mishap' = (mishap \/ Filling) /\ ~ui.busy /\ ~ui.left
    BY DEF SendForm, FormShown
  <2>. QED BY <2>1, <2>2
<1>3. IsCall(c) /\ c.op = "store" /\ c.arg = ui.field /\ c.ans = Pending
  BY NewCalls
<1>4. /\ DOMAIN s = FormUiFields /\ s.field = ui.field /\ s.typed = ui.typed /\ s.busy = r.busy /\ s.left = ui.left
      /\ s.done \in {ui.done, NoValue} /\ s.sent = ui.field /\ s.warned = ui.warned
  BY <1>1 DEF FormState, FormUiFields
<1>. HIDE DEF s, c
<1>5. NewOnes(cs, FormOps) /\ Len(cs) = 1 /\ cs[1] = c
  BY <1>3, NewOne DEF FormOps
<1>. HIDE DEF cs, r
<1>6. Queue(FormOps) /\ mishap \in BOOLEAN /\ DOMAIN net = 1..Len(net)
  BY InDomain DEF FormState, Queue
<1>7. mishap' \in BOOLEAN /\ (mishap => mishap')
  BY <1>2, <1>6
<1>8. Begun(FormOps, s, cs)
  BY <1>2, <1>5, <1>6, <1>7, Begins
<1>9. /\ Len(net) \in Nat /\ Len(net') = Len(net) + 1 /\ net'[Len(net) + 1] = c
      /\ \A k \in 1..Len(net) : net'[k] = net[k]
  BY <1>5, <1>8 DEF Begun
<1>10. \A k \in 1..Len(net') : (k \in 1..Len(net) /\ net'[k] = net[k]) \/ (k = Len(net) + 1 /\ net'[k] = c)
  BY <1>9
<1>11. ASSUME ~mishap' PROVE FormGoes(page, net', s, srv)
  <2>1. FormGoes(page, net, ui, srv) /\ NoneOf(net, "fill")
    <3>1. ~mishap /\ ~Filling
      BY <1>2, <1>11
    <3>. QED BY <3>1, <1>6 DEF FormState, NoneOf, Filling
  <2>2. /\ FormSends(page, net, ui, srv) /\ FormOnce(r, net, ui, srv) /\ FormWarns(r, net, ui, srv)
        /\ FormHolds(r, net, ui, srv)
    BY <2>1 DEF FormGoes, r
  <2>12. Behind(net, net', c)
    BY <1>9 DEF Behind
  <2>13. c.op # "fill" /\ c.op # "check"
    BY <1>3
  <2>3. NoneOf(net', "fill")
    BY <2>1, <2>12, <2>13, LastBehind
  <2>4. /\ NoneOf(net', "check") <=> NoneOf(net, "check")
        /\ \A k \in 1..Len(net') : LastOf(net', "check", k) => LastOf(net, "check", k) /\ net'[k] = net[k]
    BY <2>12, <2>13, LastBehind
  <2>5. ~NoneOf(net', "store") /\ \A k \in 1..Len(net') : LastOf(net', "store", k) => net'[k] = c
    BY <1>3, <2>12, LastIsNew
  <2>6. ~NoneAsked(net', "store")
    <3>1. Len(net) + 1 \in 1..Len(net')
      BY <1>9
    <3>. QED BY <3>1, <1>3, <1>9 DEF NoneAsked
  <2>7. FormFills(r, net', s, srv)
    BY <2>3 DEF FormFills
  <2>8. FormSends(page, net', s, srv)
    BY <2>5, <2>6, <1>3, <1>4 DEF FormSends
  <2>9. FormOnce(r, net', s, srv)
    <3>. SUFFICES ASSUME r.busy, r.ends = "left" PROVE FormOnce(r, net', s, srv)
      BY DEF FormOnce
    <3>1. NoneOf(net, "store") /\ srv.stored = 0
      BY <2>2, <1>2 DEF FormOnce, NoneOf
    <3>2. \A k \in 1..Len(net') : net'[k].op = "store" => k = Len(net) + 1 /\ net'[k] = c
      BY <3>1, <1>10 DEF NoneOf
    <3>. QED BY <3>1, <3>2, <2>5, <1>2, <1>3, <1>4 DEF FormOnce
  <2>10. FormHolds(r, net', s, srv)
    <3>1. ~FillToCome(net)
      BY <2>1 DEF FillToCome, NoneOf
    <3>2. \A v : SendsHeld(net, v) /\ ui.field = v => SendsHeld(net', v)
      BY <1>3, <1>10 DEF SendsHeld
    <3>. QED BY <2>2, <3>1, <3>2, <1>4 DEF FormHolds
  <2>11. FormWarns(r, net', s, srv)
    <3>1. \A k \in 1..Len(net') : net'[k].op = "check" => k \in 1..Len(net) /\ net'[k] = net[k]
      BY <1>3, <1>10
    <3>2. \A k : LastOf(net, "check", k) => k \in 1..Len(net)
      BY DEF LastOf
    <3>. QED BY <2>2, <2>4, <3>1, <3>2, <1>4 DEF FormWarns
  <2>. QED BY <2>7, <2>8, <2>9, <2>10, <2>11 DEF FormGoes, r
<1>12. FormSaved(net', s, srv)
  BY <1>4, <1>5, <1>8, FormSavedBegins
<1>13. Queue(FormOps)'
  BY <1>8 DEF Begun
<1>14. r.busy \in BOOLEAN
  BY <1>1 DEF RowIsSound
<1>. QED BY <1>2, <1>4, <1>11, <1>12, <1>13, <1>14 DEF FormState

\* What call c is answered, and what the service holds then.
FormServedBy(r, c, v, s) ==
  /\ DOMAIN s = DOMAIN srv /\ s.open = srv.open
  /\ c.op = "fill" => /\ s = srv
                      /\ r.checks # "select" => v = srv.held
  /\ c.op = "check" => s = srv /\ v = (c.arg \notin srv.open)
  /\ c.op = "store" => /\ s.held = c.arg \/ (page = "adminRelay" /\ c.arg = NoInput /\ s.held = srv.held)
                       /\ s.ever = srv.ever \cup {c.arg} /\ s.stored = srv.stored + 1

\* A service answers.
LEMMA FormServes ==
  ASSUME page \in FormPages, FormState, NEW i \in 1..Len(net), NEW v, NEW s, Reply(i, v, s),
         FormServedBy(FormRows[page], net[i], v, s)
  PROVE  FormState'
<1>. DEFINE r == FormRows[page]
<1>1. Replied(FormOps, i, v, s)
  BY Replies DEF FormState
<1>2. /\ Queue(FormOps)' /\ Len(net') = Len(net) /\ Len(net) \in Nat
      /\ \A k \in 1..Len(net) : k # i => net'[k] = net[k]
      /\ net'[i].op = net[i].op /\ net'[i].arg = net[i].arg
      /\ net'[i].ans # Pending /\ net[i].ans = Pending
      /\ srv' = s /\ page' = page /\ ui' = ui
      /\ mishap' \in BOOLEAN /\ (mishap => mishap')
      /\ (~mishap' => net'[i].ans = Ok(v) /\ \A k \in i..Len(net) : net[k].ans = Pending)
  BY <1>1 DEF Replied
<1>3. /\ net[i].op \in FormOps /\ DOMAIN s = DOMAIN srv /\ s.open = srv.open
      /\ net[i].op = "fill" => s = srv /\ (r.checks # "select" => v = srv.held)
      /\ net[i].op = "check" => s = srv /\ v = (net[i].arg \notin srv.open)
      /\ net[i].op = "store" =>
           /\ s.held = net[i].arg \/ (page = "adminRelay" /\ net[i].arg = NoInput /\ s.held = srv.held)
           /\ s.ever = srv.ever \cup {net[i].arg} /\ s.stored = srv.stored + 1
  BY DEF FormServedBy, FormState, Queue, Calls
<1>. HIDE DEF r
<1>4. \A k \in 1..Len(net) : net'[k].op = net[k].op /\ net'[k].arg = net[k].arg
  BY <1>2
<1>5. \A op : (NoneOf(net', op) <=> NoneOf(net, op)) /\ \A k : LastOf(net', op, k) <=> LastOf(net, op, k)
  <2>. SUFFICES ASSUME NEW op
                PROVE  (NoneOf(net', op) <=> NoneOf(net, op)) /\ \A k : LastOf(net', op, k) <=> LastOf(net, op, k)
    OBVIOUS
  <2>1. NoneOf(net', op) <=> NoneOf(net, op)
    BY <1>2, <1>4 DEF NoneOf
  <2>2. ASSUME NEW k PROVE LastOf(net', op, k) <=> LastOf(net, op, k)
    <3>1. k \in 1..Len(net) => \A j \in (k + 1)..Len(net) : j \in 1..Len(net)
      BY <1>2
    <3>. QED BY <3>1, <1>2, <1>4 DEF LastOf
  <2>. QED BY <2>1, <2>2
<1>6. FormSaved(net', ui, s)
  <2>1. FormSaved(net, ui, srv)
    BY DEF FormState
  <2>2. srv.ever \subseteq s.ever /\ (net[i].op = "store" => net[i].arg \in s.ever)
    BY <1>3 DEF FormOps
  <2>. QED BY <2>1, <2>2, <1>2, <1>4 DEF FormSaved
<1>7. ASSUME ~mishap' PROVE FormGoes(page, net', ui, s)
  <2>1. FormGoes(page, net, ui, srv)
    BY <1>2, <1>7 DEF FormState
  <2>2. /\ FormFills(r, net, ui, srv) /\ FormSends(page, net, ui, srv) /\ FormOnce(r, net, ui, srv)
        /\ FormHolds(r, net, ui, srv) /\ FormWarns(r, net, ui, srv)
    BY <2>1 DEF FormGoes, r
  <2>3. net'[i].ans = Ok(v) /\ \A k \in i..Len(net) : net[k].ans = Pending
    BY <1>2, <1>7
  <2>4. net'[i].ans.data = v
    BY <2>3 DEF Ok
  <2>5. \A k \in 1..Len(net) : k = i \/ net'[k] = net[k]
    BY <1>2
  <2>6. FormFills(r, net', ui, s)
    <3>. SUFFICES ASSUME ~NoneOf(net', "fill") PROVE FormFills(r, net', ui, s)
      BY DEF FormFills
    <3>1. /\ ui.typed = NoValue /\ \A k \in 1..Len(net) : net[k].op = "fill"
          /\ r.checks # "none" => Len(net) = 1 /\ ui.field = NoInput
          /\ \A k \in 1..Len(net) : net[k].ans # Pending /\ r.checks # "select" => net[k].ans.data = srv.held
      BY <2>2, <1>5 DEF FormFills
    <3>2. s = srv /\ (r.checks # "select" => v = srv.held)
      BY <3>1, <1>3
    <3>3. \A k \in 1..Len(net) : net'[k].ans # Pending /\ r.checks # "select" => net'[k].ans.data = srv.held
      BY <3>1, <3>2, <2>4, <2>5
    <3>4. \A k \in 1..Len(net) : net'[k].op = "fill"
      BY <3>1, <1>4
    <3>. QED BY <3>1, <3>2, <3>3, <3>4, <1>2 DEF FormFills
  <2>7. FormSends(page, net', ui, s)
    <3>1. \A k \in 1..Len(net') : LastOf(net', "store", k) => net'[k].arg = ui.sent
      BY <2>2, <1>2, <1>4, <1>5 DEF FormSends
    <3>2. NoneOf(net', "store") /\ ui.sent # NoValue => ui.done = ui.sent
      BY <2>2, <1>5 DEF FormSends
    <3>3. ASSUME NoneAsked(net', "store"), ui.sent # NoValue
          PROVE  s.held = ui.sent \/ (page = "adminRelay" /\ ui.sent = NoInput)
      <4>1. CASE net[i].op = "store"
        <5>1. ASSUME NEW j \in (i + 1)..Len(net) PROVE net[j].op # "store"
          <6>1. j \in 1..Len(net) /\ j \in i..Len(net) /\ j # i
            BY <1>2
          <6>2. net'[j] = net[j] /\ net[j].ans = Pending
            BY <6>1, <1>2, <2>3
          <6>. QED BY <6>1, <6>2, <3>3, <1>2 DEF NoneAsked
        <5>2. LastOf(net, "store", i)
          BY <5>1, <4>1 DEF LastOf
        <5>3. net[i].arg = ui.sent
          BY <5>2, <2>2 DEF FormSends
        <5>. QED BY <5>3, <4>1, <1>3
      <4>2. CASE net[i].op # "store"
        <5>1. s = srv
          BY <4>2, <1>3 DEF FormOps
        <5>2. NoneAsked(net, "store")
          BY <4>2, <3>3, <2>5, <1>2 DEF NoneAsked
        <5>. QED BY <5>1, <5>2, <3>3, <2>2 DEF FormSends
      <4>. QED BY <4>1, <4>2
    <3>. QED BY <3>1, <3>2, <3>3 DEF FormSends
  <2>8. FormOnce(r, net', ui, s)
    <3>. SUFFICES ASSUME r.busy, r.ends = "left" PROVE FormOnce(r, net', ui, s)
      BY DEF FormOnce
    <3>0. /\ srv.stored \in {0, 1}
          /\ ~ui.left /\ NoneOf(net, "store") => srv.stored = 0
          /\ ui.left => NoneOf(net, "store")
          /\ \A k \in 1..Len(net) : net[k].op = "store" =>
              /\ ui.busy /\ \A j \in 1..Len(net) : net[j].op = "store" => j = k
              /\ srv.stored = IF net[k].ans = Pending THEN 0 ELSE 1
      BY <2>2 DEF FormOnce
    <3>1. CASE net[i].op = "store"
      <4>1. /\ srv.stored = 0 /\ ui.busy /\ ~NoneOf(net, "store") /\ ~ui.left
            /\ \A j \in 1..Len(net) : net[j].op = "store" => j = i
        BY <3>0, <3>1, <1>2 DEF NoneOf
      <4>2. s.stored = 1
        BY <4>1, <3>1, <1>3
      <4>. QED BY <4>1, <4>2, <1>2, <1>4, <1>5 DEF FormOnce
    <3>2. CASE net[i].op # "store"
      <4>1. s = srv
        BY <3>2, <1>3 DEF FormOps
      <4>2. \A k \in 1..Len(net) : net'[k].op = "store" => net'[k] = net[k] /\ net[k].op = "store"
        BY <3>2, <2>5, <1>4
      <4>. QED BY <4>1, <4>2, <3>0, <1>2, <1>4, <1>5 DEF FormOnce
    <3>. QED BY <3>1, <3>2
  <2>9. FormHolds(r, net', ui, s)
    <3>1. FillToCome(net') <=> FillToCome(net)
      BY <1>2, <1>4 DEF FillToCome
    <3>2. \A x : SendsHeld(net', x) <=> SendsHeld(net, x)
      BY <1>2, <1>4 DEF SendsHeld
    <3>3. SendsHeld(net, srv.held) => s.held = srv.held
      BY <1>3 DEF FormOps, SendsHeld
    <3>. QED BY <3>1, <3>2, <3>3, <2>2 DEF FormHolds
  <2>10. FormWarns(r, net', ui, s)
    <3>. SUFFICES ASSUME r.checks # "none" PROVE FormWarns(r, net', ui, s)
      BY DEF FormWarns
    <3>1. \A k \in 1..Len(net) : net'[k].op = "check" /\ net'[k].ans # Pending =>
            net'[k].ans.data = (net'[k].arg \notin s.open)
      <4>1. \A k \in 1..Len(net) : net[k].op = "check" /\ net[k].ans # Pending =>
              net[k].ans.data = (net[k].arg \notin srv.open)
        BY <2>2 DEF FormWarns
      <4>2. net[i].op = "check" => net'[i].ans.data = (net'[i].arg \notin s.open)
        BY <2>4, <1>2, <1>3
      <4>. QED BY <4>1, <4>2, <2>5, <1>3, <1>4
    <3>2. \A k \in 1..Len(net) : LastOf(net', "check", k) => LastOf(net, "check", k) /\ net'[k].arg = net[k].arg
      BY <1>4, <1>5
    <3>. QED BY <3>1, <3>2, <2>2, <1>2, <1>3, <1>5 DEF FormWarns
  <2>. QED BY <2>6, <2>7, <2>8, <2>9, <2>10 DEF FormGoes, r
<1>. QED BY <1>2, <1>3, <1>6, <1>7 DEF FormState

\* Nothing is lost of what is said to be stored when a call is done with.
LEMMA FormSavedFinishes ==
  ASSUME FormState, NEW i \in 1..Len(net), NEW s, NEW cs, Finished(FormOps, i, s, cs), NewOnes(cs, FormOps),
         s.done \in {ui.done, NoValue} \/ (net[i].op = "store" /\ IsOk(i) /\ s.done = net[i].arg)
  PROVE  FormSaved(net', s, srv)
<1>1. FormSaved(net, ui, srv)
  BY DEF FormState
<1>2. /\ Len(net') = (Len(net) - 1) + Len(cs) /\ Len(net) \in Nat
      /\ \A k \in 1..(Len(net) - 1) : net'[k] = net[IF k < i THEN k ELSE k + 1]
      /\ \A k \in 1..Len(cs) : net'[(Len(net) - 1) + k] = cs[k]
  BY DEF Finished
<1>3. Len(cs) \in Nat /\ \A k \in 1..Len(cs) : cs[k].ans = Pending
  BY DEF NewOnes, Calls
<1>4. ASSUME NEW k \in 1..Len(net'), net'[k].ans.code = "ok"
      PROVE  \E j \in 1..Len(net) : net'[k] = net[j]
  <2>1. CASE k \in 1..(Len(net) - 1)
    <3>1. (IF k < i THEN k ELSE k + 1) \in 1..Len(net)
      BY <2>1, <1>2
    <3>. QED BY <3>1, <2>1, <1>2
  <2>2. CASE k \notin 1..(Len(net) - 1)
    <3>1. k - (Len(net) - 1) \in 1..Len(cs) /\ (Len(net) - 1) + (k - (Len(net) - 1)) = k
      BY <2>2, <1>2, <1>3
    <3>2. net'[(Len(net) - 1) + (k - (Len(net) - 1))] = cs[k - (Len(net) - 1)]
      BY <3>1, <1>2
    <3>3. net'[k].ans = Pending
      BY <3>1, <3>2, <1>3
    <3>. QED BY <3>3, <1>4 DEF Pending
  <2>. QED BY <2>1, <2>2
<1>5. s.done # NoValue => s.done \in srv.ever
  BY <1>1 DEF FormSaved, IsOk
<1>. QED BY <1>1, <1>4, <1>5 DEF FormSaved

\* A loaded value, fills, is asked about.
Checked(cs, fills, r, v) ==
  cs = IF fills /\ r.checks # "none" /\ v # NoInput THEN <<Request("check", v)>> ELSE << >>

\* What the continuation of a call that was answered makes of the form.
FormTaken(r, c, s, cs) ==
  /\ s.sent = ui.sent
  /\ c.op = "fill" =>
       /\ s.typed = ui.typed /\ s.left = ui.left /\ s.busy = ui.busy /\ s.done = ui.done
       /\ s.field = IF c.arg THEN c.ans.data ELSE ui.field
       /\ Checked(cs, c.arg, r, s.field)
  /\ c.op = "check" =>
       /\ s.typed = ui.typed /\ s.left = ui.left /\ s.busy = ui.busy /\ s.done = ui.done
       /\ s.field = ui.field /\ s.warned = c.ans.data /\ cs = << >>
  /\ c.op = "store" =>
       /\ s.done = c.arg /\ s.busy = FALSE /\ s.warned = ui.warned /\ cs = << >>
       /\ s.left = (ui.left \/ r.ends = "left")
       /\ r.ends = "cleared" => s.typed = NoValue
       /\ r.ends # "cleared" => s.typed = ui.typed /\ s.field = ui.field

\* The oldest call is gone and calls cs are behind the others.
Moved(q, t, cs) ==
  /\ Len(t) = (Len(q) - 1) + Len(cs)
  /\ \A k \in 1..(Len(q) - 1) : t[k] = q[k + 1]
  /\ \A k \in 1..Len(cs) : t[(Len(q) - 1) + k] = cs[k]

\* A queue of one call, when its last call is done with.
LEMMA OnlyCall ==
  ASSUME NEW cs, NEW c, cs = <<c>>, NEW t, NEW q, Len(q) = 1, Moved(q, t, cs)
  PROVE  Len(t) = 1 /\ t[1] = c /\ 1 \in 1..Len(t) /\ \A k \in 1..Len(t) : t[k] = c
<1>. DEFINE n == Len(q)
<1>0. Len(t) = (n - 1) + Len(cs) /\ (\A k \in 1..Len(cs) : t[(n - 1) + k] = cs[k]) /\ n = 1
  BY DEF Moved
<1>. HIDE DEF n
<1>1. Len(cs) = 1 /\ cs[1] = c
  OBVIOUS
<1>2. Len(t) = 1
  BY <1>0, <1>1
<1>3. 1 \in 1..Len(cs) /\ (n - 1) + 1 = 1
  BY <1>0, <1>1
<1>4. t[1] = c
  <2>1. t[(n - 1) + 1] = cs[1]
    BY <1>0, <1>3
  <2>. QED BY <2>1, <1>1, <1>3
<1>5. \A k \in 1..1 : k = 1
  OBVIOUS
<1>. QED BY <1>2, <1>4, <1>5

\* A load has filled the form.
LEMMA FormFilled ==
  ASSUME NEW p \in FormPages, NEW q, NEW t, NEW u, NEW s, NEW v, NEW cs, NEW r, r = FormRows[p],
         FormGoes(p, q, u, v), Len(q) \in Nat, Len(q) > 0, q[1].op = "fill", q[1].ans # Pending,
         Moved(q, t, cs), s.sent = u.sent, s.typed = u.typed, s.left = u.left, s.busy = u.busy, s.done = u.done,
         s.field = IF q[1].arg THEN q[1].ans.data ELSE u.field, Checked(cs, q[1].arg, r, s.field)
  PROVE  FormGoes(p, t, s, v)
<1>1. /\ FormFills(r, q, u, v) /\ FormSends(p, q, u, v) /\ FormOnce(r, q, u, v)
      /\ FormHolds(r, q, u, v) /\ FormWarns(r, q, u, v)
  BY DEF FormGoes
<1>2. 1 \in 1..Len(q) /\ ~NoneOf(q, "fill")
  BY DEF NoneOf
<1>3. /\ u.typed = NoValue /\ \A k \in 1..Len(q) : q[k].op = "fill"
      /\ r.checks # "none" => Len(q) = 1 /\ u.field = NoInput
      /\ \A k \in 1..Len(q) : q[k].ans # Pending /\ r.checks # "select" => q[k].ans.data = v.held
  BY <1>1, <1>2 DEF FormFills
<1>4. NoneOf(q, "store") /\ NoneAsked(q, "store")
  BY <1>3 DEF NoneOf, NoneAsked
<1>5. RowIsSound(p, r)
  BY FormTable
<1>6. CASE cs = << >>
  <2>1. Len(t) = Len(q) - 1 /\ \A k \in 1..Len(t) : t[k] = q[k + 1] /\ k + 1 \in 1..Len(q)
    <3>1. Len(cs) = 0
      BY <1>6
    <3>. QED BY <3>1 DEF Moved
  <2>2. \A k \in 1..Len(t) : t[k].op = "fill"
    BY <2>1, <1>3
  <2>3. NoneOf(t, "store") /\ NoneOf(t, "check") /\ NoneAsked(t, "store") /\ \A k : ~LastOf(t, "store", k) /\ ~LastOf(t, "check", k)
    BY <2>2 DEF NoneOf, NoneAsked, LastOf
  <2>4. r.checks # "none" => Len(t) = 0 /\ NoneOf(t, "fill")
    BY <2>1, <1>3 DEF NoneOf
  <2>5. FormFills(r, t, s, v)
    BY <2>1, <2>2, <2>4, <1>3 DEF FormFills
  <2>6. FormSends(p, t, s, v)
    BY <2>3, <1>1, <1>4 DEF FormSends
  <2>7. FormOnce(r, t, s, v)
    BY <2>2, <2>3, <1>1, <1>4 DEF FormOnce
  <2>8. FormHolds(r, t, s, v)
    <3>. SUFFICES ASSUME r.checks = "none", TRUE \in Range(r.loads)
                  PROVE  FillToCome(t) \/ (s.field = v.held /\ SendsHeld(t, v.held))
      BY <1>3 DEF FormHolds
    <3>1. SendsHeld(t, v.held)
      BY <2>2 DEF SendsHeld
    <3>2. CASE q[1].arg
      <4>1. q[1].ans.data = v.held
        BY <1>2, <1>3
      <4>. QED BY <3>1, <3>2, <4>1
    <3>3. CASE ~q[1].arg
      <4>1. FillToCome(q) \/ u.field = v.held
        BY <1>1, <1>3 DEF FormHolds
      <4>2. ASSUME FillToCome(q) PROVE FillToCome(t)
        <5>1. PICK k \in 1..Len(q) : q[k].op = "fill" /\ q[k].arg
          BY <4>2 DEF FillToCome
        <5>2. k # 1
          BY <5>1, <3>3
        <5>3. k - 1 \in 1..Len(t) /\ t[k - 1] = q[k]
          <6>1. k - 1 \in 1..Len(t) /\ (k - 1) + 1 = k
            BY <5>2, <2>1
          <6>. QED BY <6>1, <2>1
        <5>. QED BY <5>1, <5>3 DEF FillToCome
      <4>. QED BY <3>1, <3>3, <4>1, <4>2
    <3>. QED BY <3>2, <3>3
  <2>9. FormWarns(r, t, s, v)
    <3>. SUFFICES ASSUME r.checks # "none", s.field # NoInput PROVE FALSE
      BY <2>2 DEF FormWarns
    <3>1. cs = <<Request("check", s.field)>>
      BY <1>3 DEF Checked
    <3>. QED BY <3>1, <1>6
  <2>. QED BY <2>5, <2>6, <2>7, <2>8, <2>9 DEF FormGoes
<1>7. CASE cs # << >>
  <2>. DEFINE c == Request("check", s.field)
  <2>1. r.checks # "none" /\ s.field # NoInput /\ cs = <<c>> /\ Len(q) = 1
    BY <1>3, <1>7 DEF Checked
  <2>2. c.op = "check" /\ c.arg = s.field /\ c.ans = Pending
    BY NewCalls
  <2>. HIDE DEF c
  <2>3. cs = <<c>> /\ Len(q) = 1
    BY <2>1
  <2>4. Len(t) = 1 /\ t[1] = c /\ 1 \in 1..Len(t) /\ \A k \in 1..Len(t) : t[k] = c
    BY <2>3, OnlyCall
  <2>5. \A k \in 1..Len(t) : t[k] = c
    BY <2>4
  <2>6. NoneOf(t, "store") /\ NoneOf(t, "fill") /\ NoneAsked(t, "store") /\ \A k : ~LastOf(t, "store", k)
    BY <2>2, <2>5 DEF NoneOf, NoneAsked, LastOf
  <2>7. ~NoneOf(t, "check")
    BY <2>2, <2>4 DEF NoneOf
  <2>8. FormFills(r, t, s, v)
    BY <2>6 DEF FormFills
  <2>9. FormSends(p, t, s, v)
    BY <2>6, <1>1, <1>4 DEF FormSends
  <2>10. FormOnce(r, t, s, v)
    BY <2>2, <2>5, <2>6, <1>1, <1>4 DEF FormOnce
  <2>11. FormHolds(r, t, s, v)
    BY <2>1, <1>3 DEF FormHolds
  <2>12. FormWarns(r, t, s, v)
    BY <2>2, <2>5, <2>7 DEF FormWarns
  <2>. QED BY <2>8, <2>9, <2>10, <2>11, <2>12 DEF FormGoes
<1>. QED BY <1>6, <1>7

\* No call of the mount fills the form.
LEMMA RangeOfNone == TRUE \notin Range(<< >>) /\ TRUE \notin Range(<<FALSE>>)
<1>1. DOMAIN << >> = {} /\ DOMAIN <<FALSE>> = {1} /\ <<FALSE>>[1] = FALSE
  OBVIOUS
<1>. QED BY <1>1 DEF Range

\* A question is answered, or what was sent.
LEMMA FormAnswered ==
  ASSUME NEW p \in FormPages, NEW q, NEW t, NEW u, NEW s, NEW v, NEW r, r = FormRows[p],
         FormGoes(p, q, u, v), Len(q) \in Nat, Len(q) > 0, q[1].ans # Pending,
         Len(t) = Len(q) - 1, \A k \in 1..Len(t) : t[k] = q[k + 1],
         u.left \in BOOLEAN, s.sent = u.sent,
         \/ /\ q[1].op = "check" /\ s.typed = u.typed /\ s.left = u.left /\ s.busy = u.busy
            /\ s.done = u.done /\ s.field = u.field /\ s.warned = q[1].ans.data
         \/ /\ q[1].op = "store" /\ s.done = q[1].arg /\ s.busy = FALSE /\ s.warned = u.warned
            /\ s.left = (u.left \/ r.ends = "left")
            /\ r.ends = "cleared" => s.typed = NoValue
            /\ r.ends # "cleared" => s.typed = u.typed /\ s.field = u.field
  PROVE  FormGoes(p, t, s, v)
<1>1. /\ FormFills(r, q, u, v) /\ FormSends(p, q, u, v) /\ FormOnce(r, q, u, v)
      /\ FormHolds(r, q, u, v) /\ FormWarns(r, q, u, v)
  BY DEF FormGoes
<1>2. 1 \in 1..Len(q) /\ \A k \in 1..Len(t) : k + 1 \in 1..Len(q)
  OBVIOUS
<1>3. RowIsSound(p, r)
  BY FormTable
<1>4. NoneOf(q, "fill") /\ NoneOf(t, "fill")
  <2>1. NoneOf(q, "fill")
    BY <1>1, <1>2 DEF FormFills, NoneOf
  <2>. QED BY <2>1, LastLeft
<1>5. /\ \A k \in 1..Len(t) : LastOf(t, "store", k) => k + 1 \in 1..Len(q) /\ LastOf(q, "store", k + 1) /\ t[k] = q[k + 1]
      /\ NoneOf(t, "store") => IF q[1].op = "store" THEN LastOf(q, "store", 1) ELSE NoneOf(q, "store")
      /\ NoneOf(q, "store") => NoneOf(t, "store")
      /\ NoneAsked(t, "store") => NoneAsked(q, "store")
  BY LastLeft
<1>6. /\ \A k \in 1..Len(t) : LastOf(t, "check", k) => k + 1 \in 1..Len(q) /\ LastOf(q, "check", k + 1) /\ t[k] = q[k + 1]
      /\ NoneOf(t, "check") => IF q[1].op = "check" THEN LastOf(q, "check", 1) ELSE NoneOf(q, "check")
  BY LastLeft
<1>7. FormFills(r, t, s, v)
  BY <1>4 DEF FormFills
<1>8. FormSends(p, t, s, v)
  <2>1. NoneOf(t, "store") /\ u.sent # NoValue => s.done = u.sent
    <3>1. CASE q[1].op = "store"
      BY <3>1, <1>1, <1>2, <1>5 DEF FormSends
    <3>2. CASE q[1].op # "store"
      BY <3>2, <1>1, <1>5 DEF FormSends
    <3>. QED BY <3>1, <3>2
  <2>. QED BY <2>1, <1>1, <1>5 DEF FormSends
<1>9. FormOnce(r, t, s, v)
  <2>. SUFFICES ASSUME r.busy, r.ends = "left" PROVE FormOnce(r, t, s, v)
    BY DEF FormOnce
  <2>1. /\ v.stored \in {0, 1}
        /\ ~u.left /\ NoneOf(q, "store") => v.stored = 0
        /\ u.left => NoneOf(q, "store")
        /\ \A k \in 1..Len(q) : q[k].op = "store" =>
            /\ u.busy /\ \A j \in 1..Len(q) : q[j].op = "store" => j = k
            /\ v.stored = IF q[k].ans = Pending THEN 0 ELSE 1
    BY <1>1 DEF FormOnce
  <2>2. CASE q[1].op = "store"
    <3>1. \A k \in 1..Len(t) : t[k].op # "store"
      <4>1. \A k \in 1..Len(t) : k + 1 # 1
        OBVIOUS
      <4>. QED BY <4>1, <2>1, <2>2, <1>2
    <3>2. s.left
      BY <2>2
    <3>. QED BY <3>1, <3>2, <2>1 DEF FormOnce, NoneOf
  <2>3. CASE q[1].op # "store"
    <3>1. s.left = u.left /\ s.busy = u.busy
      BY <2>3
    <3>2. NoneOf(t, "store") <=> NoneOf(q, "store")
      BY <2>3, <1>5
    <3>3. \A k \in 1..Len(t) : t[k].op = "store" =>
            /\ u.busy /\ \A j \in 1..Len(t) : t[j].op = "store" => j = k
            /\ v.stored = IF t[k].ans = Pending THEN 0 ELSE 1
      <4>. SUFFICES ASSUME NEW k \in 1..Len(t), t[k].op = "store"
                    PROVE  /\ u.busy /\ \A j \in 1..Len(t) : t[j].op = "store" => j = k
                           /\ v.stored = IF t[k].ans = Pending THEN 0 ELSE 1
        OBVIOUS
      <4>1. k + 1 \in 1..Len(q) /\ t[k] = q[k + 1]
        BY <1>2
      <4>2. \A j \in 1..Len(t) : t[j].op = "store" => j + 1 = k + 1
        BY <4>1, <1>2, <2>1
      <4>. QED BY <4>1, <4>2, <2>1
    <3>. QED BY <2>1, <3>1, <3>2, <3>3 DEF FormOnce
  <2>. QED BY <2>2, <2>3
<1>10. FormHolds(r, t, s, v)
  <2>1. ~FillToCome(q)
    BY <1>4 DEF FillToCome, NoneOf
  <2>2. \A x : SendsHeld(q, x) => SendsHeld(t, x)
    BY <1>2 DEF SendsHeld
  <2>3. CASE q[1].op = "store" /\ r.ends = "cleared"
    <3>1. TRUE \notin Range(r.loads)
      <4>1. r.loads = << >> \/ r.loads = <<FALSE>>
        BY <2>3, <1>3 DEF RowIsSound
      <4>2. TRUE \notin Range(<< >>) /\ TRUE \notin Range(<<FALSE>>)
        BY RangeOfNone
      <4>. QED BY <4>1, <4>2
    <3>2. s.typed = NoValue
      BY <2>3
    <3>. QED BY <3>1, <3>2 DEF FormHolds
  <2>4. CASE ~(q[1].op = "store" /\ r.ends = "cleared")
    <3>1. s.typed = u.typed /\ s.field = u.field
      BY <2>4
    <3>. QED BY <3>1, <2>1, <2>2, <1>1 DEF FormHolds
  <2>. QED BY <2>3, <2>4
<1>11. FormWarns(r, t, s, v)
  <2>. SUFFICES ASSUME r.checks # "none" PROVE FormWarns(r, t, s, v)
    BY DEF FormWarns
  <2>1. s.field = u.field
    BY <1>3 DEF RowIsSound
  <2>2. \A k \in 1..Len(t) : t[k].op = "check" /\ t[k].ans # Pending => t[k].ans.data = (t[k].arg \notin v.open)
    BY <1>1, <1>2 DEF FormWarns
  <2>3. \A k \in 1..Len(t) : LastOf(t, "check", k) /\ u.field # NoInput => t[k].arg = u.field
    BY <1>1, <1>6 DEF FormWarns
  <2>4. ASSUME NoneOf(t, "check"), u.field # NoInput PROVE s.warned = (u.field \notin v.open)
    <3>1. CASE q[1].op = "check"
      <4>1. q[1].arg = u.field
        BY <3>1, <2>4, <1>1, <1>2, <1>6 DEF FormWarns
      <4>2. q[1].ans.data = (q[1].arg \notin v.open)
        BY <3>1, <1>1, <1>2 DEF FormWarns
      <4>. QED BY <4>1, <4>2, <3>1
    <3>2. CASE q[1].op # "check"
      <4>1. NoneOf(q, "check") /\ s.warned = u.warned
        BY <3>2, <2>4, <1>6
      <4>. QED BY <4>1, <2>4, <1>1 DEF FormWarns
    <3>. QED BY <3>1, <3>2
  <2>. QED BY <2>1, <2>2, <2>3, <2>4 DEF FormWarns
<1>. QED BY <1>7, <1>8, <1>9, <1>10, <1>11 DEF FormGoes

\* A form that has its fields.
FormTyped(s) ==
  /\ DOMAIN s = FormUiFields
  /\ s.busy \in BOOLEAN /\ s.left \in BOOLEAN

\* A continuation runs.
LEMMA FormFollows ==
  ASSUME page \in FormPages, FormState, NEW i \in 1..Len(net), net[i].ans # Pending, NEW s, NEW cs,
         NewOnes(cs, FormOps), Settle(i, s, cs), FormTyped(s),
         s.done \in {ui.done, NoValue} \/ (net[i].op = "store" /\ IsOk(i) /\ s.done = net[i].arg),
         ~mishap /\ IsOk(i) => FormTaken(FormRows[page], net[i], s, cs)
  PROVE  FormState'
<1>. DEFINE r == FormRows[page]
<1>1. Finished(FormOps, i, s, cs)
  BY SettleFinishes DEF FormState
<1>2. /\ Queue(FormOps)' /\ ui' = s /\ page' = page /\ srv' = srv /\ Len(net) \in Nat
      /\ Len(net') = (Len(net) - 1) + Len(cs)
      /\ \A k \in 1..(Len(net) - 1) : net'[k] = net[IF k < i THEN k ELSE k + 1]
      /\ \A k \in 1..Len(cs) : net'[(Len(net) - 1) + k] = cs[k]
      /\ ~mishap' => ~mishap /\ i = 1 /\ IsOk(1)
  BY <1>1 DEF Finished
<1>3. FormSaved(net', s, srv)
  BY <1>1, FormSavedFinishes
<1>4. ASSUME ~mishap' PROVE FormGoes(page, net', s, srv)
  <2>1. i = 1 /\ FormGoes(page, net, ui, srv) /\ FormTaken(r, net[1], s, cs)
    BY <1>2, <1>4 DEF FormState
  <2>. HIDE DEF r
  <2>2. Moved(net, net', cs)
    BY <1>2, <2>1 DEF Moved
  <2>3. Len(net) > 0 /\ net[1].ans # Pending /\ net[1].op \in FormOps /\ ui.left \in BOOLEAN
    BY <1>2, <2>1 DEF FormState, Queue, Calls
  <2>4. CASE net[1].op = "fill"
    <3>1. /\ s.sent = ui.sent /\ s.typed = ui.typed /\ s.left = ui.left /\ s.busy = ui.busy /\ s.done = ui.done
          /\ s.field = IF net[1].arg THEN net[1].ans.data ELSE ui.field
          /\ Checked(cs, net[1].arg, r, s.field)
      BY <2>1, <2>4 DEF FormTaken
    <3>. QED BY <3>1, <2>1, <2>2, <2>3, <2>4, <1>2, FormFilled DEF r
  <2>5. CASE net[1].op # "fill"
    <3>1. /\ s.sent = ui.sent /\ cs = << >>
          /\ \/ /\ net[1].op = "check" /\ s.typed = ui.typed /\ s.left = ui.left /\ s.busy = ui.busy
                /\ s.done = ui.done /\ s.field = ui.field /\ s.warned = net[1].ans.data
             \/ /\ net[1].op = "store" /\ s.done = net[1].arg /\ s.busy = FALSE /\ s.warned = ui.warned
                /\ s.left = (ui.left \/ r.ends = "left")
                /\ r.ends = "cleared" => s.typed = NoValue
                /\ r.ends # "cleared" => s.typed = ui.typed /\ s.field = ui.field
      BY <2>1, <2>3, <2>5 DEF FormTaken, FormOps
    <3>2. Len(net') = Len(net) - 1 /\ \A k \in 1..Len(net') : net'[k] = net[k + 1]
      <4>1. Len(cs) = 0
        BY <3>1
      <4>. QED BY <4>1, <2>2, <1>2 DEF Moved
    <3>. QED BY <3>1, <3>2, <2>1, <2>3, <1>2, FormAnswered DEF r
  <2>. QED BY <2>4, <2>5
<1>5. DOMAIN srv = {"held", "ever", "stored", "open"}
  BY DEF FormState
<1>. QED BY <1>2, <1>3, <1>4, <1>5 DEF FormState, FormTyped

\* Every step of a form.
LEMMA FormPageSteps ==
  ASSUME page \in FormPages, FormState, Next PROVE FormState'
<1>0. /\ Queue(FormOps) /\ DOMAIN ui = FormUiFields /\ DOMAIN srv = {"held", "ever", "stored", "open"}
      /\ ui.busy \in BOOLEAN /\ ui.left \in BOOLEAN
  BY DEF FormState
<1>. DEFINE r == FormRows[page]
<1>1. r = FormRow /\ RowIsSound(page, r)
  BY FormTable DEF FormRow
<1>2. NewOnes(<< >>, FormOps)
  BY NewNone
<1>. HIDE DEF r
<1>3. ASSUME NEW i \in 1..Len(net), FillServed(i) PROVE FormState'
  <2>1. PICK v \in IF FormRow.checks = "select" THEN FormValues ELSE {srv.held} : Reply(i, v, srv)
    BY <1>3 DEF FillServed
  <2>2. net[i].op = "fill"
    BY <1>3 DEF FillServed, Asked
  <2>3. FormServedBy(r, net[i], v, srv)
    BY <1>1, <2>1, <2>2 DEF FormServedBy
  <2>. QED BY <2>1, <2>3, FormServes DEF r
<1>4. ASSUME NEW i \in 1..Len(net), CheckServed(i) PROVE FormState'
  <2>. DEFINE v == net[i].arg \notin srv.open
  <2>1. net[i].op = "check" /\ Reply(i, v, srv)
    BY <1>4 DEF CheckServed, Asked
  <2>2. FormServedBy(r, net[i], v, srv)
    BY <2>1 DEF FormServedBy
  <2>. HIDE DEF v
  <2>. QED BY <2>1, <2>2, FormServes DEF r
<1>5. ASSUME NEW i \in 1..Len(net), FormStored(i) PROVE FormState'
  <2>. DEFINE v == net[i].arg
              s == [srv EXCEPT !.held = IF LeftOut(v) THEN @ ELSE v, !.ever = @ \cup {v}, !.stored = @ + 1]
  <2>1. net[i].op = "store" /\ Reply(i, TRUE, s)
    BY <1>5 DEF FormStored, Asked
  <2>2. /\ DOMAIN s = DOMAIN srv /\ s.open = srv.open /\ s.ever = srv.ever \cup {v} /\ s.stored = srv.stored + 1
        /\ s.held = v \/ (page = "adminRelay" /\ v = NoInput /\ s.held = srv.held)
    BY <1>0 DEF LeftOut
  <2>. HIDE DEF s
  <2>3. FormServedBy(r, net[i], TRUE, s)
    BY <2>1, <2>2 DEF FormServedBy
  <2>. QED BY <2>1, <2>3, FormServes DEF r
<1>6. ASSUME NEW i \in 1..Len(net), Deny(i) PROVE FormState'
  <2>1. Denied(FormOps, i)
    BY <1>0, <1>6, Denies
  <2>2. /\ Queue(FormOps)' /\ mishap' = TRUE /\ page' = page /\ ui' = ui /\ srv' = srv /\ Len(net') = Len(net)
        /\ \A k \in 1..Len(net) : net'[k].ans.code = "ok" => net'[k] = net[k]
    BY <2>1 DEF Denied
  <2>3. FormSaved(net', ui, srv)
    BY <2>2 DEF FormState, FormSaved
  <2>. QED BY <2>2, <2>3, <1>0 DEF FormState
<1>7. ASSUME NEW i \in 1..Len(net), FillDone(i) PROVE FormState'
  <2>. DEFINE fills == IsOk(i) /\ net[i].arg
              s == [ui EXCEPT !.loading = FALSE, !.known = @ \/ IsOk(i), !.field = IF fills THEN Data(i) ELSE @,
                              !.left = @ \/ (FormRow.gone /\ ~IsOk(i))]
              cs == IF fills THEN Check(Data(i)) ELSE <<>>
  <2>1. net[i].op = "fill" /\ net[i].ans # Pending /\ Settle(i, s, cs)
    BY <1>7 DEF FillDone, Answered
  <2>2. NewOnes(cs, FormOps)
    <3>. DEFINE c == Request("check", Data(i))
    <3>1. IsCall(c) /\ c.op = "check" /\ c.ans = Pending
      BY NewCalls
    <3>2. NewOnes(<<c>>, FormOps)
      BY <3>1, NewOne DEF FormOps
    <3>. QED BY <3>2, <1>2 DEF Check
  <2>3. (FormRow.gone /\ ~IsOk(i)) \in BOOLEAN /\ IsOk(i) \in BOOLEAN
    BY DEF IsOk
  <2>4. /\ DOMAIN s = FormUiFields /\ s.busy = ui.busy /\ s.warned = ui.warned /\ s.done = ui.done
        /\ s.sent = ui.sent /\ s.typed = ui.typed
        /\ s.left = (ui.left \/ (FormRow.gone /\ ~IsOk(i)))
        /\ s.field = IF IsOk(i) /\ net[i].arg THEN Data(i) ELSE ui.field
    <3>. HIDE DEF fills
    <3>1. s.field = IF fills THEN Data(i) ELSE ui.field
      BY <1>0 DEF FormUiFields
    <3>2. s.field = IF IsOk(i) /\ net[i].arg THEN Data(i) ELSE ui.field
      BY <3>1 DEF fills
    <3>. QED BY <1>0, <3>2 DEF FormUiFields
  <2>5. s.left \in BOOLEAN /\ (IsOk(i) => s.left = ui.left)
    <3>. HIDE DEF s
    <3>. QED BY <2>3, <2>4, <1>0
  <2>6. cs = IF IsOk(i) /\ net[i].arg THEN Check(Data(i)) ELSE << >>
    BY DEF fills
  <2>. HIDE DEF s, cs, fills
  <2>7. FormTyped(s)
    BY <2>4, <2>5, <1>0 DEF FormTyped
  <2>8. ASSUME IsOk(i) PROVE FormTaken(r, net[i], s, cs)
    <3>1. s.field = IF net[i].arg THEN net[i].ans.data ELSE ui.field
      BY <2>4, <2>8 DEF Data
    <3>2. Checked(cs, net[i].arg, r, s.field)
      <4>1. CASE net[i].arg
        <5>1. s.field = Data(i) /\ cs = Check(Data(i))
          BY <4>1, <2>4, <2>6, <2>8
        <5>. QED BY <4>1, <5>1, <1>1 DEF Checked, Check
      <4>2. CASE ~net[i].arg
        BY <4>2, <2>6 DEF Checked
      <4>. QED BY <4>1, <4>2
    <3>. QED BY <3>1, <3>2, <2>1, <2>4, <2>5, <2>8 DEF FormTaken
  <2>. QED BY <2>1, <2>2, <2>4, <2>7, <2>8, FormFollows DEF r
<1>8. ASSUME NEW i \in 1..Len(net), CheckDone(i) PROVE FormState'
  <2>. DEFINE s == IF IsOk(i) THEN [ui EXCEPT !.warned = Data(i)] ELSE ui
  <2>1. net[i].op = "check" /\ net[i].ans # Pending /\ Settle(i, s, << >>)
    BY <1>8 DEF CheckDone, Answered
  <2>2. /\ DOMAIN s = FormUiFields /\ s.busy = ui.busy /\ s.done = ui.done /\ s.left = ui.left
        /\ s.sent = ui.sent /\ s.typed = ui.typed /\ s.field = ui.field
        /\ s.warned = IF IsOk(i) THEN Data(i) ELSE ui.warned
    BY <1>0 DEF FormUiFields
  <2>. HIDE DEF s
  <2>4. FormTyped(s)
    BY <2>2, <1>0 DEF FormTyped
  <2>5. IsOk(i) => FormTaken(r, net[i], s, << >>)
    BY <2>1, <2>2 DEF FormTaken, Data
  <2>. QED BY <2>1, <2>2, <2>4, <2>5, <1>2, FormFollows DEF r
<1>9. ASSUME NEW i \in 1..Len(net), FormDone(i) PROVE FormState'
  <2>. DEFINE d == [ui EXCEPT !.busy = FALSE, !.done = net[i].arg]
              f == [ui EXCEPT !.busy = FALSE, !.done = IF FormRow.mute /\ net[i].ans = Failed THEN @ ELSE NoValue]
              s == IF IsOk(i) THEN Stored(ui, net[i].arg) ELSE f
  <2>1. net[i].op = "store" /\ net[i].ans # Pending /\ Settle(i, s, << >>)
    BY <1>9 DEF FormDone, Answered
  <2>2. ASSUME IsOk(i)
        PROVE  /\ DOMAIN s = FormUiFields /\ s.busy = FALSE /\ s.done = net[i].arg
               /\ s.warned = ui.warned /\ s.sent = ui.sent
               /\ s.left = (ui.left \/ r.ends = "left")
               /\ r.ends = "cleared" => s.typed = NoValue
               /\ r.ends # "cleared" => s.typed = ui.typed /\ s.field = ui.field
    <3>1. /\ DOMAIN d = FormUiFields /\ d.busy = FALSE /\ d.done = net[i].arg /\ d.left = ui.left
          /\ d.warned = ui.warned /\ d.sent = ui.sent /\ d.typed = ui.typed /\ d.field = ui.field
      BY <1>0 DEF FormUiFields
    <3>2. s = CASE r.ends = "left"    -> [d EXCEPT !.left = TRUE]
                [] r.ends = "cleared" -> [d EXCEPT !.field = NoInput, !.typed = NoValue]
                [] r.ends = "stays"   -> d
      BY <2>2, <1>1 DEF Stored
    <3>. HIDE DEF d, s
    <3>3. CASE r.ends = "left"
      <4>1. s = [d EXCEPT !.left = TRUE]
        BY <3>2, <3>3
      <4>. QED BY <4>1, <3>1, <3>3 DEF FormUiFields
    <3>4. CASE r.ends = "cleared"
      <4>1. s = [d EXCEPT !.field = NoInput, !.typed = NoValue]
        BY <3>2, <3>4
      <4>2. s.left = ui.left /\ (ui.left \/ r.ends = "left") = ui.left
        <5>1. s.left = ui.left
          BY <4>1, <3>1 DEF FormUiFields
        <5>2. (ui.left \/ r.ends = "left") = ui.left
          BY <3>4, <1>0
        <5>. QED BY <5>1, <5>2
      <4>. QED BY <4>1, <4>2, <3>1, <3>4 DEF FormUiFields
    <3>5. CASE r.ends = "stays"
      <4>1. s = d
        BY <3>2, <3>5
      <4>2. (ui.left \/ r.ends = "left") = ui.left
        BY <3>5, <1>0
      <4>. QED BY <4>1, <4>2, <3>1, <3>5
    <3>. QED BY <3>3, <3>4, <3>5, <1>1 DEF RowIsSound
  <2>3. ASSUME ~IsOk(i)
        PROVE  /\ DOMAIN s = FormUiFields /\ s.busy = FALSE /\ s.done \in {ui.done, NoValue}
               /\ s.warned = ui.warned /\ s.left = ui.left
    BY <2>3, <1>0 DEF FormUiFields
  <2>. HIDE DEF s
  <2>4. FormTyped(s)
    <3>1. (ui.left \/ r.ends = "left") \in BOOLEAN
      BY <1>0
    <3>. QED BY <3>1, <2>2, <2>3, <1>0 DEF FormTyped
  <2>5. IsOk(i) => FormTaken(r, net[i], s, << >>)
    BY <2>1, <2>2 DEF FormTaken
  <2>6. s.done \in {ui.done, NoValue} \/ (net[i].op = "store" /\ IsOk(i) /\ s.done = net[i].arg)
    BY <2>1, <2>2, <2>3
  <2>. QED BY <2>1, <2>4, <2>5, <2>6, <1>2, FormFollows DEF r
<1>. QED BY <1>0, <1>3, <1>4, <1>5, <1>6, <1>7, <1>8, <1>9, FormActions, FormTypes, FormIsSent

\* The forms (WebForms.FormIsSaved): what a page says is stored was stored,
\* whatever was lost or overtaken.  Without such a mishap the last form sent is
\* the one that is held, the form holds what was typed last or what is stored,
\* a form whose button is disabled meanwhile is stored once, and the warning is
\* about the value in the form.
THEOREM FormsStaySaved == Spec => []FormIsSaved
<1>. DEFINE Inv == page \in FormPages => FormState
<1>1. Init => Inv
  BY Mounts, FormsStart
<1>2. Inv /\ [Next]_vars => Inv'
  <2>1. CASE Next
    BY <2>1, PageStays, FormPageSteps
  <2>2. CASE UNCHANGED vars
    BY <2>2 DEF vars, FormState, Queue, Calls, InOrder
  <2>. QED BY <2>1, <2>2
<1>3. Inv => FormIsSaved
  <2>. SUFFICES ASSUME page \in FormPages, FormState PROVE FormIsSaved
    BY DEF FormIsSaved
  <2>. DEFINE r == FormRows[page]
  <2>1. ui.done # NoValue => ui.done \in srv.ever
    BY DEF FormState, FormSaved
  <2>2. r = FormRow
    BY DEF FormRow
  <2>3. ~mishap => /\ FormFills(r, net, ui, srv) /\ FormSends(page, net, ui, srv) /\ FormOnce(r, net, ui, srv)
                   /\ FormHolds(r, net, ui, srv) /\ FormWarns(r, net, ui, srv)
    BY DEF FormState, FormGoes
  <2>. HIDE DEF r
  <2>4. ~mishap /\ r.busy /\ r.ends = "left" => srv.stored <= 1
    BY <2>3 DEF FormOnce
  <2>5. ASSUME Quiet, ~mishap
        PROVE  /\ ui.sent # NoValue => ui.done = ui.sent /\ (srv.held = ui.sent \/ LeftOut(ui.sent))
               /\ ~ui.left /\ ui.typed # NoValue => ui.field = ui.typed
               /\ ~ui.left /\ ui.typed = NoValue /\ r.checks = "none" /\ TRUE \in Range(r.loads)
                    => ui.field = srv.held
               /\ r.checks # "none" /\ ui.field # NoInput => ui.warned = (ui.field \notin srv.open)
    <3>1. Len(net) = 0
      BY <2>5, QuietIsEmpty DEF FormState
    <3>2. NoneOf(net, "store") /\ NoneAsked(net, "store") /\ NoneOf(net, "check") /\ ~FillToCome(net)
      BY <3>1 DEF NoneOf, NoneAsked, FillToCome
    <3>3. ui.sent # NoValue => ui.done = ui.sent /\ (srv.held = ui.sent \/ LeftOut(ui.sent))
      BY <2>3, <2>5, <3>2 DEF FormSends, LeftOut
    <3>4. /\ ui.typed # NoValue => ui.field = ui.typed
          /\ ui.typed = NoValue /\ r.checks = "none" /\ TRUE \in Range(r.loads) => ui.field = srv.held
      BY <2>3, <2>5, <3>2 DEF FormHolds
    <3>5. r.checks # "none" /\ ui.field # NoInput => ui.warned = (ui.field \notin srv.open)
      BY <2>3, <2>5, <3>2 DEF FormWarns
    <3>. QED BY <3>3, <3>4, <3>5
  <2>. QED BY <2>1, <2>2, <2>4, <2>5 DEF FormIsSaved
<1>. HIDE DEF Inv
<1>. QED BY <1>1, <1>2, <1>3, PTL DEF Spec
-----------------------------------------------------------------------------
(***************************************************************************)
(* The lists: one machine for every row of WebLists.                       *)
(***************************************************************************)
ListOps  == {"list", "act", "batch"}
ListUi   == {"key", "of", "shown", "total", "loading", "error", "picked", "busy"}

\* What an answered act makes of what is shown.
ActShown(c, shown) ==
  LET a == c.arg.act IN
  IF a = "all" THEN ListEffect(shown, a, 0)
  ELSE IF a = "toggle" THEN ListEffect(shown, "drop", c.arg.id)
  ELSE IF a = "add" THEN ListEffect(shown, a, c.ans.data)
  ELSE ListEffect(shown, a, c.arg.id)

\* What of the page the property is about, beside what its row patches; and
\* what an answer makes of it.
ListViewed(r, of, shown) == [of |-> of, shown |-> shown, patched |-> r.patched, drops |-> (r.picks = "drop")]
ListView(r, s) == ListViewed(r, s.of, s.shown)

ListAfter(c, v) ==
  IF c.op = "list" THEN [of |-> c.ans.data.of, shown |-> c.ans.data.shown, patched |-> v.patched, drops |-> v.drops]
  ELSE IF c.op = "act" /\ c.arg.act \in v.patched
  THEN [of |-> v.of, shown |-> ActShown(c, v.shown), patched |-> v.patched, drops |-> v.drops]
  ELSE IF c.op = "batch" /\ v.drops
  THEN [of |-> v.of, shown |-> {e \in v.shown : e.id \notin c.arg.ids}, patched |-> v.patched, drops |-> v.drops]
  ELSE v

ListReplay == INSTANCE Replay WITH After <- ListAfter

\* What a row's service answers for a key.
HeldFor(r, h, k) == IF r.paged THEN {e \in h : Cardinality({x \in h : x.id <= e.id}) = k} ELSE h

\* A call whose continuation fetches the list again.
Reloads(r, c) == (c.op = "act" /\ c.arg.act \notin r.patched) \/ (c.op = "batch" /\ r.picks # "drop")

\* The list is still to be answered.
ListToCome(r, q) == \E k \in 1..Len(q) : (q[k].op = "list" /\ q[k].ans = Pending) \/ Reloads(r, q[k])

\* Unless it is, the answers lead to what the service holds for the key.
ListLeads(r, q, s, h) ==
  \E b : ListReplay!Leads(q, ListView(r, s), b) /\ (ListToCome(r, q) \/ b = ListViewed(r, s.key, HeldFor(r, h, s.key)))

\* The youngest fetch, the acts and the batches are for the key chosen last.
ListKeyed(r, q, s) ==
  /\ s.key \in r.keys
  /\ \A k \in 1..Len(q) : q[k].op = "act" => q[k].arg.act \in r.acts /\ q[k].arg.key = s.key
  /\ \A k \in 1..Len(q) : q[k].op = "batch" => /\ r.picks # "none" /\ DOMAIN q[k].arg = {"ids", "key"}
                                                /\ q[k].arg.key = s.key
  /\ \A k \in 1..Len(q) :
       q[k].op = "list" /\ (\A j \in (k + 1)..Len(q) : q[j].op # "list") => q[k].arg = s.key

\* Marking all starts from what is shown; nothing is in between.
AllSeen(r, q, s) ==
  "all" \in r.acts =>
    \A k \in 1..Len(q) : /\ q[k].op = "list" => k = 1 /\ s.shown = {}
                         /\ q[k].op = "act" /\ q[k].arg.act = "all" => k = 1 /\ q[k].arg.seen = s.shown

\* An entry that is toggled is held until then, and toggled once.
TogglesOnce(r, q, s, h) ==
  "toggle" \in r.acts =>
    /\ \A k \in 1..Len(q) : q[k].op = "list" => Len(q) = 1 /\ s.shown = {}
    /\ \A k \in 1..Len(q) : q[k].op = "act" /\ q[k].ans = Pending => q[k].arg.id \in Ids(h)
    /\ \A j, k \in 1..Len(q) : q[j].op = "act" /\ q[k].op = "act" /\ q[j].arg.id = q[k].arg.id => j = k
    /\ \A e \in s.shown : \/ e.id \in Ids(h)
                          \/ \E k \in 1..Len(q) : q[k].op = "act" /\ q[k].ans # Pending /\ q[k].arg.id = e.id

ListGoes(r, q, s, h) ==
  ListLeads(r, q, s, h) /\ ListKeyed(r, q, s) /\ AllSeen(r, q, s) /\ TogglesOnce(r, q, s, h)

ListState ==
  /\ Queue(ListOps) /\ DOMAIN ui = ListUi
  /\ ~mishap => ListGoes(Rows[page], net, ui, srv)

\* What the rows have in common.
RowIsPlain(r) ==
  /\ 1 \in r.keys
  /\ r.paged => r.patched = {} /\ r.picks # "drop"
  /\ "all" \in r.acts => r.keys = {1} /\ ~r.refresh /\ r.acts \subseteq r.patched /\ r.picks = "drop"
  /\ "toggle" \in r.acts => /\ r.acts = {"toggle"} /\ r.patched = {"toggle"} /\ r.picks = "none"
                            /\ r.keys = {1} /\ ~r.refresh

\* Every row is so.
LEMMA ListTable ==
  ASSUME NEW p \in ListPages PROVE RowIsPlain(Rows[p])
<1>1. RowIsPlain(Hot)
  BY DEF RowIsPlain, Hot, Plain
<1>2. RowIsPlain(Trending)
  BY DEF RowIsPlain, Trending, Plain
<1>3. RowIsPlain(Explore)
  BY DEF RowIsPlain, Explore, Plain
<1>4. RowIsPlain(Events)
  BY DEF RowIsPlain, Events, Plain
<1>5. RowIsPlain(Drafts)
  BY DEF RowIsPlain, Drafts, Plain
<1>6. RowIsPlain(HashtagPosts)
  BY DEF RowIsPlain, HashtagPosts, Plain
<1>7. RowIsPlain(Followers)
  BY DEF RowIsPlain, Followers, Plain
<1>8. RowIsPlain(Following)
  BY DEF RowIsPlain, Following, Plain
<1>9. RowIsPlain(Leaderboard)
  BY DEF RowIsPlain, Leaderboard, Tabbed, Plain, ListKeys
<1>10. RowIsPlain(Series)
  BY DEF RowIsPlain, Series, Plain
<1>11. RowIsPlain(Polls)
  BY DEF RowIsPlain, Polls, Tabbed, Plain, ListKeys
<1>12. RowIsPlain(SpaceVideos)
  BY DEF RowIsPlain, SpaceVideos, Plain
<1>13. RowIsPlain(Recommendations)
  BY DEF RowIsPlain, Recommendations, Drafts, Plain
<1>14. RowIsPlain(EditorPicks)
  BY DEF RowIsPlain, EditorPicks, Drafts, Plain
<1>15. RowIsPlain(TrendingHashtags)
  BY DEF RowIsPlain, TrendingHashtags, Drafts, Plain
<1>16. RowIsPlain(WeeklyTopic)
  BY DEF RowIsPlain, WeeklyTopic, Drafts, Plain
<1>17. RowIsPlain(LeaderboardCard)
  BY DEF RowIsPlain, LeaderboardCard, Tabbed, Plain, ListKeys
<1>18. RowIsPlain(PostRefs)
  BY DEF RowIsPlain, PostRefs, Drafts, Plain
<1>19. RowIsPlain(PostRelated)
  BY DEF RowIsPlain, PostRelated, Drafts, Plain
<1>20. RowIsPlain(Search)
  BY DEF RowIsPlain, Search, Tabbed, Plain, ListKeys
<1>21. RowIsPlain(Saved)
  BY DEF RowIsPlain, Saved, Drafts, Plain
<1>22. RowIsPlain(ProfileBookmarks)
  BY DEF RowIsPlain, ProfileBookmarks, Plain
<1>23. RowIsPlain(ProfileLikes)
  BY DEF RowIsPlain, ProfileLikes, Plain
<1>24. RowIsPlain(ProfileVideos)
  BY DEF RowIsPlain, ProfileVideos, Plain
<1>25. RowIsPlain(ProfileContents)
  BY DEF RowIsPlain, ProfileContents, Plain
<1>26. RowIsPlain(ProfileWorks)
  BY DEF RowIsPlain, ProfileWorks, ProfileWorksData, Plain
<1>27. RowIsPlain(ProfileSpaces)
  BY DEF RowIsPlain, ProfileSpaces, Drafts, Plain
<1>28. RowIsPlain(Conversations)
  BY DEF RowIsPlain, Conversations, ConversationsData, Plain
<1>29. RowIsPlain(Notifications)
  BY DEF RowIsPlain, Notifications, NotificationsData, Drafts, Plain
<1>30. RowIsPlain(ReceivedPosts)
  BY DEF RowIsPlain, ReceivedPosts, Plain
<1>31. RowIsPlain(Received)
  BY DEF RowIsPlain, Received, ReceivedData, Tabbed, Plain, ListKeys
<1>32. RowIsPlain(MemberActs)
  BY DEF RowIsPlain, MemberActs, Members, MembersData, Plain
<1>33. RowIsPlain(JoinRequests)
  BY DEF RowIsPlain, JoinRequests, Plain
<1>34. RowIsPlain(Modules)
  BY DEF RowIsPlain, Modules, ModulesData, Plain
<1>35. RowIsPlain(Repos)
  BY DEF RowIsPlain, Repos, ReposData, Plain
<1>36. RowIsPlain(RepoFiles)
  BY DEF RowIsPlain, RepoFiles, Tabbed, Plain, ListKeys
<1>37. RowIsPlain(Products)
  BY DEF RowIsPlain, Products, ProductsData, Plain
<1>38. RowIsPlain(SpaceOverview)
  BY DEF RowIsPlain, SpaceOverview, Plain
<1>39. RowIsPlain(SpaceAnnouncements)
  BY DEF RowIsPlain, SpaceAnnouncements, Plain
<1>40. RowIsPlain(SpaceMembers)
  BY DEF RowIsPlain, SpaceMembers, MemberActs, Members, MembersData, Plain
<1>41. RowIsPlain(SpaceSeries)
  BY DEF RowIsPlain, SpaceSeries, Plain
<1>42. RowIsPlain(SpaceTiers)
  BY DEF RowIsPlain, SpaceTiers, Plain
<1>43. RowIsPlain(SpaceStats)
  BY DEF RowIsPlain, SpaceStats, Plain
<1>44. RowIsPlain(SpaceStatsMini)
  BY DEF RowIsPlain, SpaceStatsMini, SpaceStats, Plain
<1>45. RowIsPlain(AdminDashboard)
  BY DEF RowIsPlain, AdminDashboard, AdminDashboardData, Plain
<1>46. RowIsPlain(AdminComments)
  BY DEF RowIsPlain, AdminComments, AdminCommentsData, AdminPaged, Tabbed, Plain, ListKeys
<1>47. RowIsPlain(AdminTransactions)
  BY DEF RowIsPlain, AdminTransactions, AdminPaged, Tabbed, Plain, ListKeys
<1>48. RowIsPlain(AdminAuditLogs)
  BY DEF RowIsPlain, AdminAuditLogs, AdminPaged, Tabbed, Plain, ListKeys
<1>49. RowIsPlain(AdminReports)
  BY DEF RowIsPlain, AdminReports, AdminReportsData, AdminPaged, Tabbed, Plain, ListKeys
<1>50. RowIsPlain(AdminUsers)
  BY DEF RowIsPlain, AdminUsers, AdminUsersData, AdminPaged, Tabbed, Plain, ListKeys
<1>51. RowIsPlain(AdminSpaces)
  BY DEF RowIsPlain, AdminSpaces, Plain
<1>52. RowIsPlain(AdminPosts)
  BY DEF RowIsPlain, AdminPosts, Plain
<1>53. RowIsPlain(AdminPostsBatch)
  BY DEF RowIsPlain, AdminPostsBatch, Plain
<1>54. RowIsPlain(AdminQueue)
  BY DEF RowIsPlain, AdminQueue, AdminQueueData, AdminPaged, Tabbed, Plain, ListKeys
<1>55. RowIsPlain(AdminQueueBatch)
  BY DEF RowIsPlain, AdminQueueBatch, AdminPaged, Tabbed, Plain, ListKeys
<1>56. RowIsPlain(AdminRules)
  BY DEF RowIsPlain, AdminRules, AdminRulesData, Plain
<1>57. RowIsPlain(AdminAnalytics)
  BY DEF RowIsPlain, AdminAnalytics, Tabbed, Plain, ListKeys
<1>58. ASSUME p \in {"hot", "trending", "explore", "events", "drafts", "hashtag", "followers", "following",
            "leaderboard", "series", "polls"}
      PROVE  RowIsPlain(Rows[p])
  <2>1. /\ Rows["hot"] = Hot
        /\ Rows["trending"] = Trending
        /\ Rows["explore"] = Explore
        /\ Rows["events"] = Events
        /\ Rows["drafts"] = Drafts
        /\ Rows["hashtag"] = HashtagPosts
        /\ Rows["followers"] = Followers
        /\ Rows["following"] = Following
        /\ Rows["leaderboard"] = Leaderboard
        /\ Rows["series"] = Series
        /\ Rows["polls"] = Polls
    BY DEF Rows
  <2>. QED
    BY <1>58, <2>1, <1>1, <1>2, <1>3, <1>4, <1>5, <1>6, <1>7, <1>8, <1>9, <1>10, <1>11
<1>59. ASSUME p \in {"spaceVideos", "recommendations", "editorPicks", "trendingHashtags", "weeklyTopic",
            "leaderboardCard", "postRefs", "postRelated", "search", "saved", "profileBookmarks"}
      PROVE  RowIsPlain(Rows[p])
  <2>1. /\ Rows["spaceVideos"] = SpaceVideos
        /\ Rows["recommendations"] = Recommendations
        /\ Rows["editorPicks"] = EditorPicks
        /\ Rows["trendingHashtags"] = TrendingHashtags
        /\ Rows["weeklyTopic"] = WeeklyTopic
        /\ Rows["leaderboardCard"] = LeaderboardCard
        /\ Rows["postRefs"] = PostRefs
        /\ Rows["postRelated"] = PostRelated
        /\ Rows["search"] = Search
        /\ Rows["saved"] = Saved
        /\ Rows["profileBookmarks"] = ProfileBookmarks
    BY DEF Rows
  <2>. QED
    BY <1>59, <2>1, <1>12, <1>13, <1>14, <1>15, <1>16, <1>17, <1>18, <1>19, <1>20, <1>21, <1>22
<1>60. ASSUME p \in {"profileLikes", "profileVideos", "profileContents", "profileWorks", "profileSpaces",
            "conversations", "notifications", "receivedPosts", "received", "members", "joinRequests"}
      PROVE  RowIsPlain(Rows[p])
  <2>1. /\ Rows["profileLikes"] = ProfileLikes
        /\ Rows["profileVideos"] = ProfileVideos
        /\ Rows["profileContents"] = ProfileContents
        /\ Rows["profileWorks"] = ProfileWorks
        /\ Rows["profileSpaces"] = ProfileSpaces
        /\ Rows["conversations"] = Conversations
        /\ Rows["notifications"] = Notifications
        /\ Rows["receivedPosts"] = ReceivedPosts
        /\ Rows["received"] = Received
        /\ Rows["members"] = MemberActs
        /\ Rows["joinRequests"] = JoinRequests
    BY DEF Rows
  <2>. QED
    BY <1>60, <2>1, <1>23, <1>24, <1>25, <1>26, <1>27, <1>28, <1>29, <1>30, <1>31, <1>32, <1>33
<1>61. ASSUME p \in {"modules", "repos", "repoFiles", "products", "spaceOverview", "spaceAnnouncements",
            "spaceMembers", "spaceSeries", "spaceTiers", "spaceStats", "spaceStatsMini"}
      PROVE  RowIsPlain(Rows[p])
  <2>1. /\ Rows["modules"] = Modules
        /\ Rows["repos"] = Repos
        /\ Rows["repoFiles"] = RepoFiles
        /\ Rows["products"] = Products
        /\ Rows["spaceOverview"] = SpaceOverview
        /\ Rows["spaceAnnouncements"] = SpaceAnnouncements
        /\ Rows["spaceMembers"] = SpaceMembers
        /\ Rows["spaceSeries"] = SpaceSeries
        /\ Rows["spaceTiers"] = SpaceTiers
        /\ Rows["spaceStats"] = SpaceStats
        /\ Rows["spaceStatsMini"] = SpaceStatsMini
    BY DEF Rows
  <2>. QED
    BY <1>61, <2>1, <1>34, <1>35, <1>36, <1>37, <1>38, <1>39, <1>40, <1>41, <1>42, <1>43, <1>44
<1>62. ASSUME p \in {"adminDashboard", "adminComments", "adminTransactions", "adminAuditLogs", "adminReports",
            "adminUsers", "adminSpaces", "adminPosts", "adminPostsBatch", "adminQueue", "adminQueueBatch"}
      PROVE  RowIsPlain(Rows[p])
  <2>1. /\ Rows["adminDashboard"] = AdminDashboard
        /\ Rows["adminComments"] = AdminComments
        /\ Rows["adminTransactions"] = AdminTransactions
        /\ Rows["adminAuditLogs"] = AdminAuditLogs
        /\ Rows["adminReports"] = AdminReports
        /\ Rows["adminUsers"] = AdminUsers
        /\ Rows["adminSpaces"] = AdminSpaces
        /\ Rows["adminPosts"] = AdminPosts
        /\ Rows["adminPostsBatch"] = AdminPostsBatch
        /\ Rows["adminQueue"] = AdminQueue
        /\ Rows["adminQueueBatch"] = AdminQueueBatch
    BY DEF Rows
  <2>. QED
    BY <1>62, <2>1, <1>45, <1>46, <1>47, <1>48, <1>49, <1>50, <1>51, <1>52, <1>53, <1>54, <1>55
<1>63. ASSUME p \in {"adminRules", "adminAnalytics"}
      PROVE  RowIsPlain(Rows[p])
  <2>1. /\ Rows["adminRules"] = AdminRules
        /\ Rows["adminAnalytics"] = AdminAnalytics
    BY DEF Rows
  <2>. QED
    BY <1>63, <2>1, <1>56, <1>57
<1>64. p \in DOMAIN Rows
  BY DEF ListPages
<1>65. p \in {"hot", "trending", "explore", "events", "drafts", "hashtag", "followers", "following",
            "leaderboard", "series", "polls", "spaceVideos", "recommendations", "editorPicks",
            "trendingHashtags", "weeklyTopic", "leaderboardCard", "postRefs", "postRelated", "search",
            "saved", "profileBookmarks", "profileLikes", "profileVideos", "profileContents",
            "profileWorks", "profileSpaces", "conversations", "notifications", "receivedPosts", "received",
            "members", "joinRequests", "modules", "repos", "repoFiles", "products", "spaceOverview",
            "spaceAnnouncements", "spaceMembers", "spaceSeries", "spaceTiers", "spaceStats",
            "spaceStatsMini", "adminDashboard", "adminComments", "adminTransactions", "adminAuditLogs",
            "adminReports", "adminUsers", "adminSpaces", "adminPosts", "adminPostsBatch", "adminQueue",
            "adminQueueBatch", "adminRules", "adminAnalytics"}
  BY <1>64 DEF Rows
<1>. QED
  BY <1>58, <1>59, <1>60, <1>61, <1>62, <1>63, <1>65

\* What can happen on a list.
LEMMA ListActions ==
  ASSUME page \in ListPages, Queue(ListOps), Next
  PROVE  ListUser \/ \E i \in 1..Len(net) : ListService(i) \/ ListThen(i) \/ Deny(i)
<1>1. /\ page \notin FormPages /\ page \notin ChatPages /\ page \notin ReactionPages
      /\ page \notin FeedsPages /\ page \notin SpacePages /\ page \notin PostPages /\ page \notin EditorPages
  <2>1. page \notin FormPages
    BY DEF ListPages, Rows, FormPages, FormRows
  <2>2. page \notin ChatPages
    BY DEF ListPages, Rows, ChatPages
  <2>. QED BY <2>1, <2>2, OtherPages
<1>2. CASE User
  BY <1>1, <1>2, FormsSteps, ChatSteps, ReactionsSteps, FeedsSteps, SpaceSteps, PostSteps, EditorSteps DEF User
<1>3. ASSUME NEW i \in DOMAIN net, Service(i) \/ Then(i)
      PROVE  ListService(i) \/ ListThen(i) \/ Deny(i)
  <2>1. i \in 1..Len(net) /\ net[i].op \in ListOps
    BY InDomain DEF Queue, Calls
  <2>2. /\ net[i].op \notin ChatOps /\ net[i].op \notin ReactionOps
        /\ net[i].op \notin FeedsOps /\ net[i].op \notin SpaceOps
        /\ net[i].op \notin ReadOps /\ net[i].op \notin EditorOps
    BY <2>1 DEF ListOps, ReactionOps, FeedsOps, ChatOps, SpaceOps, ReadOps, EditorOps
  <2>. QED BY <1>1, <1>3, <2>2, FormsSteps, ChatSteps, ReactionsSteps, FeedsSteps, SpaceSteps, PostSteps, EditorSteps
         DEF Service, Then
<1>. QED BY <1>2, <1>3, InDomain DEF Next

\* A list is mounted with its first fetch.
LEMMA ListStarts ==
  ASSUME ListInit PROVE ListState
<1>. DEFINE c == FetchList(1)
            r == Rows[page]
<1>1. IsCall(c) /\ c.op = "list" /\ c.op \in ListOps /\ c.ans = Pending /\ c.arg = 1
  BY NewCalls DEF ListOps, FetchList
<1>2. net = <<c>> /\ mishap = FALSE /\ page \in ListPages
  BY DEF ListInit
<1>3. RowIsPlain(r)
  BY <1>2, ListTable
<1>. HIDE DEF c, r
<1>4. Queue(ListOps) /\ Len(net) = 1 /\ net[1] = c
  BY <1>1, <1>2, FirstCall
<1>5. DOMAIN ui = ListUi /\ ui.key = 1 /\ ui.shown = {}
  BY DEF ListInit, ListUi
<1>6. ListLeads(r, net, ui, srv)
  <2>1. ListToCome(r, net)
    BY <1>1, <1>4 DEF ListToCome
  <2>2. PICK b : ListReplay!Leads(net, ListView(r, ui), b)
    BY <1>4, ListReplay!LeadsOn
  <2>. QED BY <2>1, <2>2 DEF ListLeads
<1>7. ListKeyed(r, net, ui)
  BY <1>1, <1>3, <1>4, <1>5 DEF ListKeyed, RowIsPlain
<1>8. AllSeen(r, net, ui) /\ TogglesOnce(r, net, ui, srv)
  BY <1>1, <1>4, <1>5 DEF AllSeen, TogglesOnce
<1>. QED BY <1>4, <1>5, <1>6, <1>7, <1>8 DEF ListState, ListGoes, r

\* The list is fetched, for another key or once more.
LEMMA ListIsFetched ==
  ASSUME ListState, NEW r, r = Rows[page], "all" \notin r.acts, "toggle" \notin r.acts,
         NEW s, DOMAIN s = ListUi, s.key \in r.keys, Begun(ListOps, s, <<FetchList(s.key)>>),
         ~mishap' => s.key = ui.key \/ \A k \in 1..Len(net) : net[k].op = "list"
  PROVE  ListState'
<1>. DEFINE c == FetchList(s.key)
            n == Len(net) + 1
<1>1. IsCall(c) /\ c.op = "list" /\ c.ans = Pending /\ c.arg = s.key
  BY NewCalls DEF FetchList
<1>. HIDE DEF c
<1>2. /\ Queue(ListOps)' /\ ui' = s /\ srv' = srv /\ page' = page /\ (mishap => mishap')
      /\ Len(net') = n /\ Len(net) \in Nat /\ n \in Nat /\ mishap \in BOOLEAN
      /\ net'[n] = c /\ \A k \in 1..Len(net) : net'[k] = net[k]
  <2>1. Len(<<c>>) = 1 /\ <<c>>[1] = c /\ 1 \in 1..1
    OBVIOUS
  <2>2. Begun(ListOps, s, <<c>>)
    BY DEF c
  <2>. QED BY <2>1, <2>2 DEF Begun, ListState, Queue
<1>3. ASSUME ~mishap' PROVE ListGoes(r, net', s, srv)
  <2>0. ListKeyed(r, net, ui)
    BY <1>2, <1>3 DEF ListState, ListGoes
  <2>1. n \in 1..Len(net') /\ \A k \in 1..Len(net') : k = n \/ (k \in 1..Len(net) /\ net'[k] = net[k] /\ n > k)
    BY <1>2
  <2>. HIDE DEF n
  <2>2. ListToCome(r, net')
    BY <1>1, <1>2, <2>1 DEF ListToCome
  <2>3. PICK b : ListReplay!Leads(net', ListView(r, s), b)
    BY <1>2, ListReplay!LeadsOn
  <2>4. \A k \in 1..Len(net') : net'[k].op = "act" => net'[k].arg.act \in r.acts /\ net'[k].arg.key = s.key
    BY <1>1, <1>2, <1>3, <2>0, <2>1 DEF ListKeyed
  <2>5. \A k \in 1..Len(net') : net'[k].op = "batch" => /\ r.picks # "none" /\ DOMAIN net'[k].arg = {"ids", "key"}
                                                /\ net'[k].arg.key = s.key
    BY <1>1, <1>2, <1>3, <2>0, <2>1 DEF ListKeyed
  <2>6. \A k \in 1..Len(net') :
          net'[k].op = "list" /\ (\A j \in (k + 1)..Len(net') : net'[j].op # "list") => net'[k].arg = s.key
    <3>1. \A k \in 1..Len(net') : k = n \/ n \in (k + 1)..Len(net')
      BY <2>1, <1>2
    <3>. QED BY <3>1, <1>1, <1>2
  <2>7. ListKeyed(r, net', s)
    BY <2>4, <2>5, <2>6 DEF ListKeyed
  <2>. QED BY <2>2, <2>3, <2>7 DEF ListGoes, ListLeads, AllSeen, TogglesOnce
<1>. QED BY <1>2, <1>3 DEF ListState

\* An act or a batch is started.
LEMMA ListIsActedOn ==
  ASSUME ListState, NEW r, r = Rows[page], RowIsPlain(r),
         NEW s, DOMAIN s = ListUi, s.key = ui.key, s.of = ui.of, s.shown = ui.shown,
         NEW c, Begun(ListOps, s, <<c>>), c.ans = Pending, c.op \in {"act", "batch"}, c.arg.key = ui.key,
         c.op = "act" => c.arg.act \in r.acts,
         c.op = "batch" => r.picks # "none" /\ DOMAIN c.arg = {"ids", "key"},
         ~mishap' /\ c.op = "act" /\ c.arg.act = "all" =>
           /\ c.arg.seen = ui.shown /\ ui.shown # {}
           /\ \A k \in 1..Len(net) : net[k].op = "list",
         ~mishap' /\ c.op = "act" /\ c.arg.act = "toggle" =>
           /\ \E e \in ui.shown : e.id = c.arg.id
           /\ \A k \in 1..Len(net) : net[k].op = "act" => net[k].arg.id # c.arg.id
  PROVE  ListState'
<1>. DEFINE n == Len(net) + 1
<1>1. /\ Queue(ListOps)' /\ ui' = s /\ srv' = srv /\ page' = page /\ (mishap => mishap')
      /\ Len(net') = n /\ Len(net) \in Nat /\ n \in Nat /\ mishap \in BOOLEAN
      /\ net'[n] = c /\ Grown(net, net') /\ \A k \in 1..Len(net) : net'[k] = net[k]
  <2>1. Len(<<c>>) = 1 /\ <<c>>[1] = c /\ 1 \in 1..1
    OBVIOUS
  <2>. QED BY <2>1 DEF Begun, ListState, Queue
<1>2. ASSUME ~mishap' PROVE ListGoes(r, net', s, srv)
  <2>0. ListLeads(r, net, ui, srv) /\ ListKeyed(r, net, ui) /\ AllSeen(r, net, ui) /\ TogglesOnce(r, net, ui, srv)
    BY <1>1, <1>2 DEF ListState, ListGoes
  <2>1. n \in 1..Len(net') /\ \A k \in 1..Len(net') : k = n \/ (k \in 1..Len(net) /\ net'[k] = net[k])
    BY <1>1
  <2>2. \A k \in 1..Len(net) : k \in 1..Len(net')
    BY <1>1
  <2>3. ListLeads(r, net', s, srv)
    <3>1. PICK b : /\ ListReplay!Leads(net, ListView(r, ui), b)
                   /\ ListToCome(r, net) \/ b = ListViewed(r, ui.key, HeldFor(r, srv, ui.key))
      BY <2>0 DEF ListLeads
    <3>2. ListView(r, s) = ListView(r, ui)
      BY DEF ListView
    <3>3. ListReplay!Leads(net', ListView(r, s), b)
      BY <1>1, <3>1, <3>2, ListReplay!LeadsGrow DEF Grown
    <3>4. ListToCome(r, net) => ListToCome(r, net')
      BY <1>1, <2>2 DEF ListToCome
    <3>. QED BY <3>1, <3>3, <3>4 DEF ListLeads
  <2>4. ListKeyed(r, net', s)
    <3>1. \A k \in 1..Len(net') : net'[k].op = "act" => net'[k].arg.act \in r.acts /\ net'[k].arg.key = s.key
      BY <1>1, <2>0, <2>1 DEF ListKeyed
    <3>2. \A k \in 1..Len(net') : net'[k].op = "batch" => /\ r.picks # "none" /\ DOMAIN net'[k].arg = {"ids", "key"}
                                                  /\ net'[k].arg.key = s.key
      BY <1>1, <2>0, <2>1 DEF ListKeyed
    <3>3. ASSUME NEW k \in 1..Len(net'), net'[k].op = "list", \A j \in (k + 1)..Len(net') : net'[j].op # "list"
          PROVE  net'[k].arg = s.key
      <4>1. k # n
        BY <3>3, <1>1
      <4>2. k \in 1..Len(net) /\ net'[k] = net[k]
        BY <4>1, <2>1
      <4>3. \A j \in (k + 1)..Len(net) : j \in (k + 1)..Len(net') /\ net'[j] = net[j]
        BY <4>2, <1>1
      <4>. QED BY <3>3, <4>2, <4>3, <2>0 DEF ListKeyed
    <3>. QED BY <3>1, <3>2, <3>3, <2>0 DEF ListKeyed
  <2>5. AllSeen(r, net', s)
    <3>. SUFFICES ASSUME "all" \in r.acts PROVE AllSeen(r, net', s)
      BY DEF AllSeen
    <3>1. \A k \in 1..Len(net) : /\ net[k].op = "list" => k = 1 /\ ui.shown = {}
                                 /\ net[k].op = "act" /\ net[k].arg.act = "all" => k = 1 /\ net[k].arg.seen = ui.shown
      BY <2>0 DEF AllSeen
    <3>2. ASSUME c.op = "act", c.arg.act = "all" PROVE n = 1 /\ c.arg.seen = ui.shown
      <4>1. /\ c.arg.seen = ui.shown /\ ui.shown # {}
            /\ \A k \in 1..Len(net) : net[k].op = "list"
        BY <1>2, <3>2
      <4>2. \A k \in 1..Len(net) : FALSE
        BY <4>1, <3>1
      <4>3. Len(net) = 0
        <5>1. Len(net) > 0 => 1 \in 1..Len(net)
          BY <1>1
        <5>2. ~(Len(net) > 0)
          BY <5>1, <4>2
        <5>. QED BY <5>2, <1>1
      <4>. QED BY <4>1, <4>3
    <3>. HIDE DEF n
    <3>. QED BY <1>1, <2>1, <3>1, <3>2 DEF AllSeen
  <2>6. TogglesOnce(r, net', s, srv)
    <3>. SUFFICES ASSUME "toggle" \in r.acts PROVE TogglesOnce(r, net', s, srv)
      BY DEF TogglesOnce
    <3>1. c.op = "act" /\ c.arg.act = "toggle"
      BY DEF RowIsPlain
    <3>2. /\ \E e \in ui.shown : e.id = c.arg.id
          /\ \A k \in 1..Len(net) : net[k].op = "act" => net[k].arg.id # c.arg.id
      BY <1>2, <3>1
    <3>3. /\ \A k \in 1..Len(net) : net[k].op = "list" => Len(net) = 1 /\ ui.shown = {}
          /\ \A k \in 1..Len(net) : net[k].op = "act" /\ net[k].ans = Pending => net[k].arg.id \in Ids(srv)
          /\ \A j, k \in 1..Len(net) : net[j].op = "act" /\ net[k].op = "act" /\ net[j].arg.id = net[k].arg.id => j = k
          /\ \A e \in ui.shown : \/ e.id \in Ids(srv)
                                 \/ \E k \in 1..Len(net) : net[k].op = "act" /\ net[k].ans # Pending /\ net[k].arg.id = e.id
      BY <2>0 DEF TogglesOnce
    <3>. HIDE DEF n
    <3>4. \A k \in 1..Len(net') : net'[k].op # "list"
      BY <1>1, <2>1, <3>1, <3>2, <3>3
    <3>5. c.arg.id \in Ids(srv)
      BY <3>2, <3>3
    <3>6. \A k \in 1..Len(net') : net'[k].op = "act" /\ net'[k].ans = Pending => net'[k].arg.id \in Ids(srv)
      BY <1>1, <2>1, <3>3, <3>5
    <3>7. \A j, k \in 1..Len(net') : net'[j].op = "act" /\ net'[k].op = "act" /\ net'[j].arg.id = net'[k].arg.id => j = k
      BY <1>1, <2>1, <3>2, <3>3
    <3>8. \A e \in s.shown : \/ e.id \in Ids(srv)
                             \/ \E k \in 1..Len(net') : net'[k].op = "act" /\ net'[k].ans # Pending /\ net'[k].arg.id = e.id
      BY <1>1, <2>2, <3>3
    <3>. QED BY <3>4, <3>6, <3>7, <3>8 DEF TogglesOnce
  <2>. QED BY <2>3, <2>4, <2>5, <2>6 DEF ListGoes
<1>. QED BY <1>1, <1>2 DEF ListState
\* The answers leave what the row patches.
LEMMA ListKeepsRow ==
  ASSUME NEW q, Len(q) \in Nat, NEW r, NEW s, NEW b, ListReplay!Leads(q, ListView(r, s), b)
  PROVE  b.patched = r.patched /\ b.drops = (r.picks = "drop")
<1>1. PICK w : ListReplay!Walk(q, Len(q), ListView(r, s), w) /\ w[Len(q)] = b
  BY DEF ListReplay!Leads
<1>. DEFINE T == {k \in 0..Len(q) : w[k].patched = r.patched /\ w[k].drops = (r.picks = "drop")}
<1>2. 0 \in T
  BY <1>1 DEF ListReplay!Walk, ListView, ListViewed
<1>3. \A c, v : ListAfter(c, v).patched = v.patched /\ ListAfter(c, v).drops = v.drops
  BY DEF ListAfter
<1>4. ASSUME NEW k \in 1..Len(q), k - 1 \in T PROVE k \in T
  <2>1. w[k] = ListReplay!Step(q[k], w[k - 1])
    BY <1>1 DEF ListReplay!Walk
  <2>2. w[k].patched = w[k - 1].patched /\ w[k].drops = w[k - 1].drops
    BY <2>1, <1>3 DEF ListReplay!Step
  <2>. QED BY <2>2, <1>4
<1>5. Len(q) \in T
  <2>. HIDE DEF T
  <2>1. \A k \in 0..Len(q) : k \in T
    BY <1>2, <1>4, ListReplay!Reaches
  <2>. QED BY <2>1
<1>. QED BY <1>1, <1>5


\* What the service answers call c, and holds then.
ListServedBy(r, c, v, h, d) ==
  /\ c.op = "list" => d = h /\ v.of = c.arg /\ v.shown = HeldFor(r, h, c.arg)
  /\ c.op = "act"  => d = ListEffect(h, c.arg.act, IF c.arg.act = "add" THEN v ELSE c.arg.id)
  /\ c.op = "batch" /\ r.picks = "drop" => d = {e \in h : e.id \notin c.arg.ids}

\* Toggling or dropping an entry that is held drops it.
LEMMA Drops ==
  ASSUME NEW h, NEW id
  PROVE  /\ ListEffect(h, "drop", id) = {e \in h : e.id # id}
         /\ id \in Ids(h) => ListEffect(h, "toggle", id) = {e \in h : e.id # id}
BY DEF ListEffect

\* An act that is answered does to what it leads to what it did at the service.
LEMMA ActLeads ==
  ASSUME NEW r, RowIsPlain(r), NEW c, c.op = "act", c.arg.act \in r.patched, NEW v, c.ans = Ok(v), NEW h, NEW d,
         ListServedBy(r, c, v, h, d), c.arg.act = "toggle" => c.arg.id \in Ids(h), NEW k
  PROVE  ListAfter(c, ListViewed(r, k, HeldFor(r, h, k))) = ListViewed(r, k, HeldFor(r, d, k))
<1>1. ~r.paged
  BY DEF RowIsPlain
<1>2. HeldFor(r, h, k) = h /\ HeldFor(r, d, k) = d
  BY <1>1 DEF HeldFor
<1>3. ListAfter(c, ListViewed(r, k, h)) = ListViewed(r, k, ActShown(c, h))
  BY DEF ListAfter, ListViewed
<1>4. d = ListEffect(h, c.arg.act, IF c.arg.act = "add" THEN v ELSE c.arg.id) /\ c.ans.data = v
  BY DEF ListServedBy, Ok
<1>5. ActShown(c, h) = d
  <2>1. CASE c.arg.act = "all"
    <3>1. \A id : ListEffect(h, "all", id) = {[e EXCEPT !.mark = TRUE] : e \in h}
      BY DEF ListEffect
    <3>. QED BY <2>1, <3>1, <1>4 DEF ActShown
  <2>2. CASE c.arg.act = "toggle"
    <3>1. ActShown(c, h) = ListEffect(h, "drop", c.arg.id)
      BY <2>2 DEF ActShown
    <3>2. c.arg.id \in Ids(h) /\ d = ListEffect(h, "toggle", c.arg.id)
      BY <2>2, <1>4
    <3>3. ListEffect(h, "drop", c.arg.id) = ListEffect(h, "toggle", c.arg.id)
      BY <3>2 DEF ListEffect
    <3>. QED BY <3>1, <3>2, <3>3
  <2>3. CASE c.arg.act \notin {"all", "toggle"}
    BY <2>3, <1>4 DEF ActShown
  <2>. QED BY <2>1, <2>2, <2>3
<1>. QED BY <1>2, <1>3, <1>5

\* So does a batch that drops.
LEMMA BatchLeads ==
  ASSUME NEW r, RowIsPlain(r), NEW c, c.op = "batch", r.picks = "drop", NEW v, NEW h, NEW d,
         ListServedBy(r, c, v, h, d), NEW k
  PROVE  ListAfter(c, ListViewed(r, k, HeldFor(r, h, k))) = ListViewed(r, k, HeldFor(r, d, k))
<1>1. ~r.paged
  BY DEF RowIsPlain
<1>2. HeldFor(r, h, k) = h /\ HeldFor(r, d, k) = d
  BY <1>1 DEF HeldFor
<1>3. d = {e \in h : e.id \notin c.arg.ids}
  BY DEF ListServedBy
<1>4. ListAfter(c, ListViewed(r, k, h)) = ListViewed(r, k, d)
  BY <1>3 DEF ListAfter, ListViewed
<1>. QED BY <1>2, <1>4

\* The service does what it is asked.
LEMMA ListServes ==
  ASSUME ListState, NEW r, r = Rows[page], RowIsPlain(r), NEW i \in 1..Len(net), NEW v, NEW d,
         Reply(i, v, d), ListServedBy(r, net[i], v, srv, d)
  PROVE  ListState'
<1>1. Replied(ListOps, i, v, d)
  BY Replies DEF ListState
<1>2. /\ Queue(ListOps)' /\ ui' = ui /\ srv' = d /\ page' = page /\ DOMAIN ui = ListUi
      /\ Len(net') = Len(net) /\ Len(net) \in Nat
      /\ \A k \in 1..Len(net) : k # i => net'[k] = net[k]
      /\ \A k \in 1..Len(net) : net'[k].op = net[k].op /\ net'[k].arg = net[k].arg
      /\ net[i].op \in ListOps
  BY <1>1 DEF Replied, ListState, Queue, Calls
<1>3. ASSUME ~mishap' PROVE ListGoes(r, net', ui, d)
  <2>1. AnsweredNext(net, net', i) /\ net'[i].ans = Ok(v) /\ ~mishap /\ Ok(v) # Pending
    BY <1>1, <1>3, RepliedNext DEF Ok, Pending
  <2>2. ListLeads(r, net, ui, srv) /\ ListKeyed(r, net, ui) /\ AllSeen(r, net, ui) /\ TogglesOnce(r, net, ui, srv)
    BY <2>1 DEF ListState, ListGoes
  <2>3. ListKeyed(r, net', ui)
    BY <1>2, <2>2 DEF ListKeyed
  <2>4. AllSeen(r, net', ui)
    BY <1>2, <2>2 DEF AllSeen
  <2>5. net[i].ans = Pending /\ \A k \in i..Len(net) : net[k].ans = Pending
    BY <2>1 DEF AnsweredNext
  <2>6. TogglesOnce(r, net', ui, d)
    <3>. SUFFICES ASSUME "toggle" \in r.acts PROVE TogglesOnce(r, net', ui, d)
      BY DEF TogglesOnce
    <3>1. r.acts = {"toggle"} /\ r.picks = "none"
      BY DEF RowIsPlain
    <3>2. /\ \A k \in 1..Len(net) : net[k].op = "list" => Len(net) = 1 /\ ui.shown = {}
          /\ \A k \in 1..Len(net) : net[k].op = "act" /\ net[k].ans = Pending => net[k].arg.id \in Ids(srv)
          /\ \A j, k \in 1..Len(net) : net[j].op = "act" /\ net[k].op = "act" /\ net[j].arg.id = net[k].arg.id => j = k
          /\ \A e \in ui.shown : \/ e.id \in Ids(srv)
                                 \/ \E k \in 1..Len(net) : net[k].op = "act" /\ net[k].ans # Pending /\ net[k].arg.id = e.id
      BY <2>2 DEF TogglesOnce
    <3>3. net[i].op # "batch"
      BY <3>1, <2>2 DEF ListKeyed
    <3>4. CASE net[i].op = "list"
      <4>1. d = srv
        BY <3>4 DEF ListServedBy
      <4>2. Len(net) = 1 /\ ui.shown = {} /\ i = 1
        BY <3>4, <3>2
      <4>3. \A k \in 1..Len(net') : k = i /\ net'[k].op = "list"
        BY <4>2, <3>4, <1>2
      <4>. QED BY <4>1, <4>2, <4>3, <1>2 DEF TogglesOnce
    <3>5. CASE net[i].op = "act"
      <4>1. net[i].arg.act = "toggle" /\ net[i].arg.id \in Ids(srv)
        BY <3>1, <3>2, <3>5, <2>2, <2>5 DEF ListKeyed
      <4>2. d = {e \in srv : e.id # net[i].arg.id}
        BY <3>5, <4>1, Drops DEF ListServedBy
      <4>3. \A x : x \in Ids(srv) /\ x # net[i].arg.id => x \in Ids(d)
        BY <4>2 DEF Ids
      <4>4. \A k \in 1..Len(net') : net'[k].op = "act" /\ net'[k].ans = Pending => net'[k].arg.id \in Ids(d)
        <5>. SUFFICES ASSUME NEW k \in 1..Len(net'), net'[k].op = "act", net'[k].ans = Pending
                      PROVE  net'[k].arg.id \in Ids(d)
          OBVIOUS
        <5>1. k \in 1..Len(net) /\ k # i /\ net'[k] = net[k]
          BY <1>2, <2>1
        <5>2. net[k].arg.id \in Ids(srv) /\ net[k].arg.id # net[i].arg.id
          BY <5>1, <3>2, <3>5
        <5>. QED BY <5>1, <5>2, <4>3
      <4>5. \A e \in ui.shown : \/ e.id \in Ids(d)
                                \/ \E k \in 1..Len(net') : net'[k].op = "act" /\ net'[k].ans # Pending /\ net'[k].arg.id = e.id
        <5>. SUFFICES ASSUME NEW e \in ui.shown, e.id \notin Ids(d)
                      PROVE  \E k \in 1..Len(net') : net'[k].op = "act" /\ net'[k].ans # Pending /\ net'[k].arg.id = e.id
          OBVIOUS
        <5>1. CASE e.id = net[i].arg.id
          <6>1. i \in 1..Len(net') /\ net'[i].op = "act" /\ net'[i].ans # Pending /\ net'[i].arg.id = e.id
            BY <5>1, <1>2, <2>1, <3>5
          <6>. QED BY <6>1
        <5>2. CASE e.id # net[i].arg.id
          <6>1. PICK k \in 1..Len(net) : net[k].op = "act" /\ net[k].ans # Pending /\ net[k].arg.id = e.id
            BY <5>2, <4>3, <3>2
          <6>2. k # i /\ k \in 1..Len(net') /\ net'[k] = net[k]
            BY <6>1, <2>5, <1>2
          <6>. QED BY <6>1, <6>2
        <5>. QED BY <5>1, <5>2
      <4>6. \A k \in 1..Len(net') : net'[k].op = "list" => Len(net') = 1 /\ ui.shown = {}
        BY <3>2, <1>2
      <4>7. \A j, k \in 1..Len(net') : net'[j].op = "act" /\ net'[k].op = "act" /\ net'[j].arg.id = net'[k].arg.id => j = k
        BY <3>2, <1>2
      <4>. QED BY <4>4, <4>5, <4>6, <4>7 DEF TogglesOnce
    <3>. QED BY <3>3, <3>4, <3>5, <1>2 DEF ListOps
  <2>7. ListLeads(r, net', ui, d)
    <3>1. PICK b : /\ ListReplay!Leads(net, ListView(r, ui), b)
                   /\ ListToCome(r, net) \/ b = ListViewed(r, ui.key, HeldFor(r, srv, ui.key))
      BY <2>2 DEF ListLeads
    <3>2. ListReplay!Leads(net', ListView(r, ui), ListAfter(net'[i], b))
      BY <2>1, <3>1, ListReplay!LeadsAnswered DEF AnsweredNext
    <3>3. ASSUME ~ListToCome(r, net') PROVE ListAfter(net'[i], b) = ListViewed(r, ui.key, HeldFor(r, d, ui.key))
      <4>1. \A k \in 1..Len(net) : Reloads(r, net'[k]) <=> Reloads(r, net[k])
        BY <1>2 DEF Reloads
      <4>2. \A k \in 1..Len(net) : /\ ~Reloads(r, net[k]) /\ (net'[k].op = "list" => net'[k].ans # Pending)
        BY <3>3, <1>2, <4>1 DEF ListToCome
      <4>3. ~Reloads(r, net[i]) /\ net'[i].op = net[i].op /\ net'[i].arg = net[i].arg
        BY <4>2, <1>2
      <4>4. CASE net[i].op = "list"
        <5>1. \A j \in (i + 1)..Len(net) : j \in 1..Len(net) /\ j # i /\ net[j].ans = Pending
          BY <2>5
        <5>2. \A j \in (i + 1)..Len(net) : net[j].op # "list"
          BY <5>1, <4>2, <1>2
        <5>3. net[i].arg = ui.key
          BY <4>4, <5>2, <2>2 DEF ListKeyed
        <5>4. d = srv /\ v.of = ui.key /\ v.shown = HeldFor(r, srv, ui.key)
          BY <4>4, <5>3 DEF ListServedBy
        <5>5. ListAfter(net'[i], b) = [of |-> v.of, shown |-> v.shown, patched |-> b.patched, drops |-> b.drops]
          BY <4>3, <4>4, <2>1 DEF ListAfter, Ok
        <5>6. b.patched = r.patched /\ b.drops = (r.picks = "drop")
          BY <3>1, ListKeepsRow, <1>2
        <5>. QED BY <5>4, <5>5, <5>6 DEF ListViewed
      <4>5. CASE net[i].op # "list"
        <5>1. \A k \in 1..Len(net) : net[k].op = "list" => net[k].ans # Pending
          BY <4>2, <4>5, <1>2
        <5>2. ~ListToCome(r, net)
          BY <5>1, <4>2 DEF ListToCome
        <5>3. b = ListViewed(r, ui.key, HeldFor(r, srv, ui.key))
          BY <5>2, <3>1
        <5>4. ListServedBy(r, net'[i], v, srv, d)
          BY <4>3 DEF ListServedBy
        <5>5. CASE net[i].op = "act"
          <6>1. net'[i].arg.act \in r.patched
            BY <4>3, <5>5 DEF Reloads
          <6>2. ASSUME net'[i].arg.act = "toggle" PROVE net'[i].arg.id \in Ids(srv)
            <7>1. "toggle" \in r.acts
              BY <6>2, <4>3, <5>5, <2>2 DEF ListKeyed
            <7>. QED BY <7>1, <4>3, <5>5, <2>2, <2>5 DEF TogglesOnce
          <6>. QED BY <5>3, <5>4, <5>5, <6>1, <6>2, <4>3, <2>1, ActLeads
        <5>6. CASE net[i].op = "batch"
          <6>1. r.picks = "drop"
            BY <4>3, <5>6 DEF Reloads
          <6>. QED BY <5>3, <5>4, <5>6, <6>1, <4>3, BatchLeads
        <5>. QED BY <4>5, <5>5, <5>6, <1>2 DEF ListOps
      <4>. QED BY <4>4, <4>5
    <3>. QED BY <3>2, <3>3 DEF ListLeads
  <2>. QED BY <2>3, <2>4, <2>6, <2>7 DEF ListGoes
<1>. QED BY <1>2, <1>3 DEF ListState
\* A continuation that fetches nothing does what the queue leads to.
LEMMA ListSettles ==
  ASSUME ListState, NEW r, r = Rows[page], RowIsPlain(r), NEW i \in 1..Len(net), net[i].ans # Pending,
         NEW s, DOMAIN s = ListUi, s.key = ui.key, Settle(i, s, << >>),
         ~mishap' => ListView(r, s) = ListAfter(net[i], ListView(r, ui)) /\ ~Reloads(r, net[i])
  PROVE  ListState'
<1>0. NewOnes(<< >>, ListOps) /\ Len(<< >>) = 0
  BY NewNone
<1>1. Finished(ListOps, i, s, << >>)
  BY <1>0, SettleFinishes DEF ListState
<1>2. /\ Queue(ListOps)' /\ ui' = s /\ srv' = srv /\ page' = page
      /\ Len(net') = Len(net) - 1 /\ Len(net) \in Nat
      /\ ~mishap' => ~mishap /\ i = 1 /\ Shifted(net, net')
  BY <1>0, <1>1 DEF Finished, ListState, Queue
<1>3. ASSUME ~mishap' PROVE ListGoes(r, net', s, srv)
  <2>1. ListLeads(r, net, ui, srv) /\ ListKeyed(r, net, ui) /\ AllSeen(r, net, ui) /\ TogglesOnce(r, net, ui, srv)
    BY <1>2, <1>3 DEF ListState, ListGoes
  <2>2. /\ i = 1 /\ Shifted(net, net') /\ 1 \in 1..Len(net) /\ net[1].ans # Pending
        /\ ListView(r, s) = ListAfter(net[1], ListView(r, ui)) /\ ~Reloads(r, net[1])
    BY <1>2, <1>3
  <2>3. \A k \in 1..Len(net') : k + 1 \in 1..Len(net) /\ k + 1 # 1 /\ net'[k] = net[k + 1]
    BY <1>2, <2>2 DEF Shifted
  <2>4. \A k \in 1..Len(net) : k = 1 \/ (k - 1 \in 1..Len(net') /\ net'[k - 1] = net[k])
    <3>1. ASSUME NEW k \in 1..Len(net), k # 1 PROVE k - 1 \in 1..Len(net') /\ net'[k - 1] = net[k]
      <4>1. k - 1 \in 1..Len(net') /\ (k - 1) + 1 = k
        BY <1>2, <3>1
      <4>. QED BY <4>1, <2>3
    <3>. QED BY <3>1
  <2>5. PICK b : /\ ListReplay!Leads(net, ListView(r, ui), b)
                 /\ ListToCome(r, net) \/ b = ListViewed(r, ui.key, HeldFor(r, srv, ui.key))
    BY <2>1 DEF ListLeads
  <2>6. ListReplay!Leads(net', ListView(r, s), b)
    <3>1. ListReplay!Step(net[1], ListView(r, ui)) = ListView(r, s)
      BY <2>2 DEF ListReplay!Step
    <3>. QED BY <3>1, <2>2, <2>5, ListReplay!LeadsSettled DEF Shifted
  <2>7. ListToCome(r, net) => ListToCome(r, net')
    BY <2>2, <2>4 DEF ListToCome
  <2>8. ListLeads(r, net', s, srv)
    BY <2>5, <2>6, <2>7 DEF ListLeads
  <2>9. ListKeyed(r, net', s)
    <3>1. \A k \in 1..Len(net') : net'[k].op = "act" => net'[k].arg.act \in r.acts /\ net'[k].arg.key = s.key
      BY <2>1, <2>3 DEF ListKeyed
    <3>2. \A k \in 1..Len(net') : net'[k].op = "batch" => /\ r.picks # "none" /\ DOMAIN net'[k].arg = {"ids", "key"}
                                                  /\ net'[k].arg.key = s.key
      BY <2>1, <2>3 DEF ListKeyed
    <3>3. ASSUME NEW k \in 1..Len(net'), net'[k].op = "list", \A j \in (k + 1)..Len(net') : net'[j].op # "list"
          PROVE  net'[k].arg = s.key
      <4>1. k + 1 \in 1..Len(net) /\ net'[k] = net[k + 1]
        BY <2>3
      <4>2. \A j \in ((k + 1) + 1)..Len(net) : j - 1 \in (k + 1)..Len(net') /\ j \in 1..Len(net) /\ j # 1
        BY <1>2
      <4>3. \A j \in ((k + 1) + 1)..Len(net) : net[j].op # "list"
        BY <4>2, <2>4, <3>3
      <4>. QED BY <3>3, <4>1, <4>3, <2>1 DEF ListKeyed
    <3>. QED BY <3>1, <3>2, <3>3, <2>1 DEF ListKeyed
  <2>10. AllSeen(r, net', s)
    BY <2>1, <2>3 DEF AllSeen
  <2>11. TogglesOnce(r, net', s, srv)
    <3>. SUFFICES ASSUME "toggle" \in r.acts PROVE TogglesOnce(r, net', s, srv)
      BY DEF TogglesOnce
    <3>1. r.acts = {"toggle"} /\ r.patched = {"toggle"} /\ r.picks = "none" /\ ~r.paged
      BY DEF RowIsPlain
    <3>2. /\ \A k \in 1..Len(net) : net[k].op = "list" => Len(net) = 1 /\ ui.shown = {}
          /\ \A k \in 1..Len(net) : net[k].op = "act" /\ net[k].ans = Pending => net[k].arg.id \in Ids(srv)
          /\ \A j, k \in 1..Len(net) : net[j].op = "act" /\ net[k].op = "act" /\ net[j].arg.id = net[k].arg.id => j = k
          /\ \A e \in ui.shown : \/ e.id \in Ids(srv)
                                 \/ \E k \in 1..Len(net) : net[k].op = "act" /\ net[k].ans # Pending /\ net[k].arg.id = e.id
      BY <2>1 DEF TogglesOnce
    <3>3. \A k \in 1..Len(net') : net'[k].op # "list"
      <4>1. ASSUME NEW k \in 1..Len(net'), net'[k].op = "list" PROVE FALSE
        <5>1. Len(net) = 1
          BY <4>1, <2>3, <3>2
        <5>. QED BY <5>1, <1>2
      <4>. QED BY <4>1
    <3>4. \A k \in 1..Len(net') : net'[k].op = "act" /\ net'[k].ans = Pending => net'[k].arg.id \in Ids(srv)
      BY <2>3, <3>2
    <3>5. ASSUME NEW j \in 1..Len(net'), NEW k \in 1..Len(net'),
                 net'[j].op = "act", net'[k].op = "act", net'[j].arg.id = net'[k].arg.id
          PROVE  j = k
      <4>1. j + 1 = k + 1
        BY <3>5, <2>3, <3>2
      <4>. QED BY <4>1
    <3>6. \A e \in s.shown : \/ e.id \in Ids(srv)
                             \/ \E k \in 1..Len(net') : net'[k].op = "act" /\ net'[k].ans # Pending /\ net'[k].arg.id = e.id
      <4>1. CASE net[1].op = "list"
        <5>1. Len(net) = 1
          BY <4>1, <2>2, <3>2
        <5>2. Len(net') = 0 /\ \A k \in 1..Len(net) : k = 1
          BY <5>1, <1>2
        <5>3. ~ListToCome(r, net)
          BY <5>2, <2>2 DEF ListToCome
        <5>4. ListView(r, s) = ListViewed(r, ui.key, srv)
          BY <5>2, <5>3, <2>5, <2>6, <3>1, ListReplay!LeadsNowhere DEF HeldFor
        <5>5. s.shown = srv
          BY <5>4 DEF ListView, ListViewed
        <5>. QED BY <5>5 DEF Ids
      <4>2. CASE net[1].op = "act"
        <5>1. net[1].arg.act = "toggle"
          BY <4>2, <2>1, <2>2, <3>1 DEF ListKeyed
        <5>2. ListAfter(net[1], ListView(r, ui)).shown = ListEffect(ui.shown, "drop", net[1].arg.id)
          BY <5>1, <4>2, <3>1 DEF ListAfter, ListView, ListViewed, ActShown
        <5>3. s.shown = {e \in ui.shown : e.id # net[1].arg.id}
          <6>1. s.shown = ListEffect(ui.shown, "drop", net[1].arg.id)
            BY <5>2, <2>2 DEF ListView, ListViewed
          <6>2. ListEffect(ui.shown, "drop", net[1].arg.id) = {e \in ui.shown : e.id # net[1].arg.id}
            BY Drops
          <6>. QED BY <6>1, <6>2
        <5>. SUFFICES ASSUME NEW e \in s.shown, e.id \notin Ids(srv)
                      PROVE  \E k \in 1..Len(net') : net'[k].op = "act" /\ net'[k].ans # Pending /\ net'[k].arg.id = e.id
          OBVIOUS
        <5>4. e \in ui.shown /\ e.id # net[1].arg.id
          BY <5>3
        <5>5. PICK k \in 1..Len(net) : net[k].op = "act" /\ net[k].ans # Pending /\ net[k].arg.id = e.id
          BY <5>4, <3>2
        <5>6. k - 1 \in 1..Len(net') /\ net'[k - 1] = net[k]
          BY <5>4, <5>5, <2>4
        <5>. QED BY <5>5, <5>6
      <4>3. net[1].op # "batch"
        BY <2>1, <2>2, <3>1 DEF ListKeyed
      <4>4. net[1].op \in ListOps
        BY <2>2 DEF ListState, Queue, Calls
      <4>. QED BY <4>1, <4>2, <4>3, <4>4 DEF ListOps
    <3>. QED BY <3>3, <3>4, <3>5, <3>6 DEF TogglesOnce
  <2>. QED BY <2>8, <2>9, <2>10, <2>11 DEF ListGoes
<1>. QED BY <1>2, <1>3 DEF ListState

\* A continuation fetches the list again, or goes on with its batch.
LEMMA ListReloads ==
  ASSUME ListState, NEW r, r = Rows[page], NEW i \in 1..Len(net), net[i].ans # Pending,
         NEW s, DOMAIN s = ListUi, s.key = ui.key,
         NEW c, IsCall(c), c.op \in ListOps, c.ans = Pending, Settle(i, s, <<c>>),
         ~mishap' => /\ "all" \notin r.acts /\ "toggle" \notin r.acts
                     /\ \/ c.op = "list" /\ c.arg = ui.key
                        \/ c.op = "batch" /\ r.picks = "each" /\ DOMAIN c.arg = {"ids", "key"} /\ c.arg.key = ui.key
  PROVE  ListState'
<1>0. NewOnes(<<c>>, ListOps) /\ Len(<<c>>) = 1 /\ <<c>>[1] = c /\ 1 \in 1..1
  BY NewOne
<1>1. Finished(ListOps, i, s, <<c>>)
  BY <1>0, SettleFinishes DEF ListState
<1>2. /\ Queue(ListOps)' /\ ui' = s /\ srv' = srv /\ page' = page
      /\ Len(net') = Len(net) /\ Len(net) \in Nat /\ net'[Len(net)] = c
      /\ ~mishap' => ~mishap /\ i = 1 /\ Shifted(net, net')
  <2>1. Len(net') = (Len(net) - 1) + 1 /\ Len(net) \in Nat /\ net'[(Len(net) - 1) + 1] = c
    BY <1>0, <1>1 DEF Finished
  <2>2. (Len(net) - 1) + 1 = Len(net)
    BY <2>1
  <2>. QED BY <1>1, <2>1, <2>2 DEF Finished, ListState, Queue
<1>3. ASSUME ~mishap' PROVE ListGoes(r, net', s, srv)
  <2>1. ListKeyed(r, net, ui)
    BY <1>2, <1>3 DEF ListState, ListGoes
  <2>2. Shifted(net, net') /\ Len(net) \in 1..Len(net')
    BY <1>2, <1>3 DEF Shifted
  <2>3. \A k \in 1..Len(net') : \/ k = Len(net) /\ net'[k] = c
                                \/ k # Len(net) /\ k + 1 \in 1..Len(net) /\ net'[k] = net[k + 1]
    <3>1. ASSUME NEW k \in 1..Len(net'), k # Len(net) PROVE k + 1 \in 1..Len(net) /\ net'[k] = net[k + 1]
      <4>1. k + 1 \in 1..Len(net) /\ k \in 1..(Len(net) - 1)
        BY <1>2, <3>1
      <4>. QED BY <4>1, <2>2 DEF Shifted
    <3>. QED BY <3>1, <1>2
  <2>4. /\ "all" \notin r.acts /\ "toggle" \notin r.acts
        /\ \/ c.op = "list" /\ c.arg = ui.key
           \/ c.op = "batch" /\ r.picks = "each" /\ DOMAIN c.arg = {"ids", "key"} /\ c.arg.key = ui.key
    BY <1>3
  <2>5. ListToCome(r, net')
    BY <1>0, <1>2, <2>2, <2>4 DEF ListToCome, Reloads
  <2>6. \E b : ListReplay!Leads(net', ListView(r, s), b)
    BY <1>2, ListReplay!LeadsOn
  <2>7. \A k \in 1..Len(net') : net'[k].op = "act" => net'[k].arg.act \in r.acts /\ net'[k].arg.key = s.key
    BY <2>1, <2>3, <2>4 DEF ListKeyed
  <2>8. \A k \in 1..Len(net') : net'[k].op = "batch" => /\ r.picks # "none" /\ DOMAIN net'[k].arg = {"ids", "key"}
                                                /\ net'[k].arg.key = s.key
    BY <2>1, <2>3, <2>4 DEF ListKeyed
  <2>9. ASSUME NEW k \in 1..Len(net'), net'[k].op = "list", \A j \in (k + 1)..Len(net') : net'[j].op # "list"
        PROVE  net'[k].arg = s.key
    <3>1. CASE k = Len(net)
      BY <3>1, <1>2, <2>4, <2>9
    <3>2. CASE k # Len(net)
      <4>1. k + 1 \in 1..Len(net) /\ net'[k] = net[k + 1]
        BY <3>2, <2>3
      <4>2. \A j \in ((k + 1) + 1)..Len(net) : j - 1 \in (k + 1)..Len(net') /\ j - 1 \in 1..Len(net') /\ j - 1 # Len(net)
                                               /\ (j - 1) + 1 = j
        BY <1>2
      <4>3. \A j \in ((k + 1) + 1)..Len(net) : net[j].op # "list"
        <5>. SUFFICES ASSUME NEW j \in ((k + 1) + 1)..Len(net) PROVE net[j].op # "list"
          OBVIOUS
        <5>1. net'[j - 1] = net[j]
          BY <4>2, <2>3
        <5>. QED BY <5>1, <4>2, <2>9
      <4>. QED BY <2>9, <4>1, <4>3, <2>1 DEF ListKeyed
    <3>. QED BY <3>1, <3>2
  <2>10. ListKeyed(r, net', s)
    BY <2>1, <2>7, <2>8, <2>9 DEF ListKeyed
  <2>. QED BY <2>4, <2>5, <2>6, <2>10 DEF ListGoes, ListLeads, AllSeen, TogglesOnce
<1>. QED BY <1>2, <1>3 DEF ListState

\* The user changes the key, fetches again or acts on the list.
LEMMA ListUserSteps ==
  ASSUME ListState, page \in ListPages, ListUser PROVE ListState'
<1>. DEFINE r == Rows[page]
<1>0. /\ Queue(ListOps) /\ DOMAIN ui = ListUi /\ r = Row /\ RowIsPlain(r) /\ ~mishap
      /\ DOMAIN net = 1..Len(net) /\ Len(net) \in Nat /\ Calls(net, ListOps)
  BY ListTable, InDomain DEF ListState, ListUser, Row, Queue, Calls
<1>1. ListKeyed(r, net, ui)
  BY <1>0 DEF ListState, ListGoes
<1>2. \A c : Append(net, c) = net \o <<c>>
  OBVIOUS
<1>. HIDE DEF r
<1>3. ASSUME NEW k \in ListKeys, ListGo(k) PROVE ListState'
  <2>. DEFINE s == [ui EXCEPT !.key = k, !.loading = @ \/ Row.again,
                       !.error = IF Row.again THEN FALSE ELSE @,
                       !.shown = IF Row.clears THEN {} ELSE @]
              c == FetchList(k)
  <2>1. /\ k \in r.keys \ {ui.key} /\ ui' = s /\ net' = net \o <<c>> /\ page' = page /\ srv' = srv
        /\ mishap' = (mishap \/ \E i \in DOMAIN net : net[i].op # "list")
    BY <1>0, <1>2, <1>3 DEF ListGo
  <2>2. DOMAIN s = ListUi /\ s.key = k
    BY <1>0 DEF ListUi
  <2>3. IsCall(c) /\ c.op \in ListOps /\ c.ans = Pending
    BY NewCalls DEF FetchList, ListOps
  <2>. HIDE DEF s, c
  <2>4. NewOnes(<<c>>, ListOps) /\ mishap' \in BOOLEAN /\ (mishap => mishap')
    BY <1>0, <2>1, <2>3, NewOne
  <2>5. Begun(ListOps, s, <<c>>)
    BY <1>0, <2>1, <2>4, Begins
  <2>6. Begun(ListOps, s, <<FetchList(s.key)>>)
    BY <2>2, <2>5 DEF c
  <2>7. "all" \notin r.acts /\ "toggle" \notin r.acts
    <3>1. r.keys # {1}
      BY <1>1, <2>1 DEF ListKeyed
    <3>. QED BY <1>0, <3>1 DEF RowIsPlain
  <2>8. ~mishap' => \A j \in 1..Len(net) : net[j].op = "list"
    BY <1>0, <2>1
  <2>9. r = Rows[page] /\ s.key \in r.keys
    BY <2>1, <2>2 DEF r
  <2>. QED BY <2>2, <2>6, <2>7, <2>8, <2>9, ListIsFetched
<1>4. ASSUME Refresh PROVE ListState'
  <2>. DEFINE s == [ui EXCEPT !.loading = @ \/ Row.again]
              c == FetchList(ui.key)
  <2>1. r.refresh /\ Handle(s, <<c>>)
    BY <1>0, <1>4 DEF Refresh
  <2>2. DOMAIN s = ListUi /\ s.key = ui.key
    BY <1>0 DEF ListUi
  <2>3. IsCall(c) /\ c.op \in ListOps /\ c.ans = Pending
    BY NewCalls DEF FetchList, ListOps
  <2>. HIDE DEF s, c
  <2>4. Begun(ListOps, s, <<c>>)
    BY <1>0, <2>1, <2>3, NewOne, HandleBegins
  <2>5. Begun(ListOps, s, <<FetchList(s.key)>>)
    BY <2>2, <2>4 DEF c
  <2>6. "all" \notin r.acts /\ "toggle" \notin r.acts
    BY <1>0, <2>1 DEF RowIsPlain
  <2>7. r = Rows[page] /\ s.key \in r.keys
    BY <1>1, <2>2 DEF r, ListKeyed
  <2>. QED BY <2>2, <2>5, <2>6, <2>7, ListIsFetched
<1>5. ASSUME ChooseAgain PROVE ListState'
  <2>1. net' = net /\ mishap' = TRUE /\ DOMAIN ui' = ListUi
    BY <1>0, <1>5 DEF ChooseAgain, ListUi
  <2>2. Queue(ListOps)'
    BY <1>0, <2>1 DEF Queue
  <2>. QED BY <2>1, <2>2 DEF ListState
<1>6. ASSUME DoAct PROVE ListState'
  <2>1. PICK offer \in ActsShown :
          LET a == offer[1]
              id == offer[2]
          IN /\ ui' = [ui EXCEPT !.busy = BusyWith(id)]
             /\ net' = Append(net, ListAct(a, id))
             /\ mishap' = (\/ mishap
                           \/ (a = "toggle" /\ \E x \in ActPending : x.id = id)
                           \/ (a = "all" /\ (ActPending # {} \/ BatchPending)))
    BY <1>6 DEF DoAct
  <2>. DEFINE a == offer[1]
              id == offer[2]
              s == [ui EXCEPT !.busy = BusyWith(id)]
              c == ListAct(a, id)
  <2>2. /\ ui' = s /\ net' = net \o <<c>> /\ page' = page /\ srv' = srv
        /\ mishap' = (\/ mishap
                      \/ (a = "toggle" /\ \E x \in ActPending : x.id = id)
                      \/ (a = "all" /\ (ActPending # {} \/ BatchPending)))
    BY <1>2, <1>6, <2>1 DEF DoAct
  <2>3. DOMAIN s = ListUi /\ s.key = ui.key /\ s.of = ui.of /\ s.shown = ui.shown
    BY <1>0 DEF ListUi
  <2>4. /\ IsCall(c) /\ c.op = "act" /\ c.ans = Pending /\ c.op \in ListOps
        /\ c.arg.act = a /\ c.arg.id = id /\ c.arg.key = ui.key /\ (a = "all" => c.arg.seen = ui.shown)
    <3>1. IsCall(c) /\ c.op = "act" /\ c.ans = Pending
      BY DEF ListAct, Fetch, IsCall
    <3>2. c.arg = [act |-> a, id |-> id, key |-> ui.key, seen |-> IF a = "all" THEN ui.shown ELSE {}]
      BY DEF ListAct, Fetch
    <3>. HIDE DEF c, a, id
    <3>. QED BY <3>1, <3>2 DEF ListOps
  <2>5. /\ a \in r.acts
        /\ a = "all" => ui.shown # {}
        /\ a = "toggle" => \E e \in ui.shown : e.id = id
    <3>1. \/ \E e \in ui.shown : offer \in ActsOffered(e) \X {e.id}
          \/ offer \in {x \in Row.acts : x = "add" \/ (x = "all" /\ \E e \in ui.shown : ~e.mark)} \X {0}
      BY <2>1 DEF ActsShown
    <3>2. CASE \E e \in ui.shown : offer \in ActsOffered(e) \X {e.id}
      <4>1. PICK e \in ui.shown : offer \in ActsOffered(e) \X {e.id}
        BY <3>2
      <4>2. a \in ActsOffered(e) /\ id = e.id
        BY <4>1
      <4>3. a \in Row.acts /\ a # "all"
        BY <4>2 DEF ActsOffered
      <4>. QED BY <4>2, <4>3, <1>0
    <3>3. CASE offer \in {x \in Row.acts : x = "add" \/ (x = "all" /\ \E e \in ui.shown : ~e.mark)} \X {0}
      <4>1. a \in Row.acts /\ (a = "add" \/ (a = "all" /\ \E e \in ui.shown : ~e.mark))
        BY <3>3
      <4>. QED BY <4>1, <1>0
    <3>. QED BY <3>1, <3>2, <3>3
  <2>. HIDE DEF s, c, a, id
  <2>6. NewOnes(<<c>>, ListOps) /\ mishap' \in BOOLEAN /\ (mishap => mishap')
    BY <1>0, <2>2, <2>4, NewOne
  <2>7. Begun(ListOps, s, <<c>>)
    BY <1>0, <2>2, <2>6, Begins
  <2>8. ASSUME ~mishap', a = "all" PROVE \A k \in 1..Len(net) : net[k].op = "list"
    <3>1. ActPending = {} /\ ~BatchPending
      BY <2>2, <2>8
    <3>2. \A k \in 1..Len(net) : net[k].op # "act" /\ net[k].op # "batch"
      BY <3>1, <1>0 DEF ActPending, BatchPending
    <3>. QED BY <3>2, <1>0 DEF Calls, ListOps
  <2>9. ASSUME ~mishap', a = "toggle" PROVE \A k \in 1..Len(net) : net[k].op = "act" => net[k].arg.id # id
    <3>1. \A x \in ActPending : x.id # id
      BY <2>2, <2>9
    <3>. QED BY <3>1, <1>0 DEF ActPending
  <2>10. r = Rows[page]
    BY DEF r
  <2>. QED BY <1>0, <2>3, <2>4, <2>5, <2>7, <2>8, <2>9, <2>10, ListIsActedOn
<1>7. ASSUME ToggleSelect \/ ToggleAll PROVE ListState'
  <2>1. PICK p : Update([ui EXCEPT !.picked = p])
    BY <1>7 DEF ToggleSelect, ToggleAll
  <2>. DEFINE s == [ui EXCEPT !.picked = p]
  <2>2. DOMAIN s = ListUi /\ s.key = ui.key /\ s.of = ui.of /\ s.shown = ui.shown
    BY <1>0 DEF ListUi
  <2>. HIDE DEF s
  <2>3. Updated(ListOps, s)
    BY <1>0, <2>1, HandlesNone DEF s
  <2>4. Queue(ListOps)' /\ ui' = s /\ net' = net /\ page' = page /\ srv' = srv
    BY <2>3 DEF Updated
  <2>5. ListGoes(r, net, ui, srv)
    BY <1>0 DEF ListState, r
  <2>6. ListGoes(r, net, s, srv)
    BY <2>2, <2>5 DEF ListGoes, ListLeads, ListView, ListKeyed, AllSeen, TogglesOnce
  <2>. QED BY <2>2, <2>4, <2>6 DEF ListState, r
<1>8. ASSUME StartBatch PROVE ListState'
  <2>1. PICK ids : r.picks # "none" /\ Handle(ui, <<BatchCall(ids)>>)
    BY <1>0, <1>8 DEF StartBatch
  <2>. DEFINE c == BatchCall(ids)
  <2>2. /\ IsCall(c) /\ c.op = "batch" /\ c.ans = Pending /\ c.op \in ListOps
        /\ DOMAIN c.arg = {"ids", "key"} /\ c.arg.key = ui.key
    BY DEF BatchCall, Fetch, IsCall, ListOps
  <2>. HIDE DEF c
  <2>3. Begun(ListOps, ui, <<c>>)
    BY <1>0, <2>1, <2>2, NewOne, HandleBegins DEF c
  <2>4. r = Rows[page]
    BY DEF r
  <2>. QED BY <1>0, <2>1, <2>2, <2>3, <2>4, ListIsActedOn
<1>. QED BY <1>3, <1>4, <1>5, <1>6, <1>7, <1>8 DEF ListUser

\* The services answer.
LEMMA ListServiceSteps ==
  ASSUME ListState, page \in ListPages, NEW i \in 1..Len(net), ListService(i) PROVE ListState'
<1>. DEFINE r == Rows[page]
<1>0. r = Row /\ r = Rows[page] /\ RowIsPlain(r)
  BY ListTable DEF Row
<1>. HIDE DEF r
<1>1. CASE ListServed(i)
  <2>. DEFINE v == [of |-> net[i].arg, shown |-> ListHeld(srv, net[i].arg), total |-> Cardinality(srv)]
  <2>1. net[i].op = "list" /\ Reply(i, v, srv)
    BY <1>1 DEF ListServed, Asked
  <2>2. v.of = net[i].arg /\ v.shown = HeldFor(r, srv, net[i].arg)
    BY <1>0 DEF ListHeld, HeldFor
  <2>. HIDE DEF v
  <2>3. ListServedBy(r, net[i], v, srv, srv)
    BY <2>1, <2>2 DEF ListServedBy
  <2>. QED BY <1>0, <2>1, <2>3, ListServes
<1>2. CASE ActServed(i)
  <2>1. PICK id \in IF net[i].arg.act = "add" THEN ListIds \ Ids(srv) ELSE {net[i].arg.id} :
          Reply(i, id, ListEffect(srv, net[i].arg.act, id))
    BY <1>2 DEF ActServed
  <2>. DEFINE d == ListEffect(srv, net[i].arg.act, id)
  <2>2. net[i].op = "act"
    BY <1>2 DEF ActServed, Asked
  <2>3. id = IF net[i].arg.act = "add" THEN id ELSE net[i].arg.id
    BY <2>1
  <2>4. ListServedBy(r, net[i], id, srv, d)
    BY <2>2, <2>3 DEF ListServedBy
  <2>. HIDE DEF d
  <2>. QED BY <1>0, <2>1, <2>4, ListServes DEF d
<1>3. CASE BatchServed(i)
  <2>. DEFINE ids == BatchNow(net[i].arg.ids)
              d == IF Row.picks = "drop" THEN {e \in srv : e.id \notin ids}
                   ELSE {IF e.id \in ids THEN [e EXCEPT !.mark = TRUE] ELSE e : e \in srv}
  <2>1. net[i].op = "batch" /\ Reply(i, TRUE, d)
    BY <1>3 DEF BatchServed, Asked
  <2>2. ListServedBy(r, net[i], TRUE, srv, d)
    BY <1>0, <2>1 DEF ListServedBy, BatchNow
  <2>. HIDE DEF d, ids
  <2>. QED BY <1>0, <2>1, <2>2, ListServes
<1>. QED BY <1>1, <1>2, <1>3 DEF ListService

\* Without a mishap it is the oldest call whose answer is taken, and no refusal.
LEMMA OldestIsDone ==
  ASSUME NEW ops, Queue(ops), NEW i \in 1..Len(net), net[i].ans # Pending, NEW s, NEW cs, Settle(i, s, cs), ~mishap'
  PROVE  ~mishap /\ i = 1 /\ IsOk(i)
<1>1. ~mishap /\ ~(i > 1)
  BY DEF Settle
<1>2. i \in Nat /\ i >= 1
  BY DEF Queue, Calls
<1>3. i = 1
  BY <1>1, <1>2
<1>. QED BY <1>1, <1>3 DEF Queue, InOrder, IsOk

\* An act is answered.
LEMMA ListActDone ==
  ASSUME ListState, page \in ListPages, NEW i \in 1..Len(net), ActDone(i) PROVE ListState'
<1>. DEFINE r == Rows[page]
            idle == [ui EXCEPT !.busy = 0]
            a == net[i].arg.act
            fail == [idle EXCEPT !.error = @ \/ Row.onError = "error"]
            kept == [idle EXCEPT !.shown = Patched(i),
                                 !.picked = IF Row.unpicks THEN @ \ {net[i].arg.id} ELSE @]
            more == [idle EXCEPT !.loading = @ \/ Row.again]
            c    == FetchList(net[i].arg.key)
<1>0. /\ Queue(ListOps) /\ DOMAIN ui = ListUi /\ r = Row /\ r = Rows[page] /\ RowIsPlain(r)
  BY ListTable DEF ListState, Row
<1>1. net[i].op = "act" /\ net[i].ans # Pending
  BY DEF ActDone, Answered
<1>2. /\ ~ActTaken(i) => Settle(i, fail, << >>)
      /\ ActTaken(i) /\ a \in r.patched => Settle(i, kept, << >>)
      /\ ActTaken(i) /\ a \notin r.patched => Settle(i, more, <<c>>)
  BY <1>0 DEF ActDone
<1>3. DOMAIN fail = ListUi /\ fail.key = ui.key
  BY <1>0 DEF ListUi
<1>4. DOMAIN kept = ListUi /\ kept.key = ui.key /\ kept.of = ui.of /\ kept.shown = Patched(i)
  BY <1>0 DEF ListUi
<1>5. DOMAIN more = ListUi /\ more.key = ui.key
  BY <1>0 DEF ListUi
<1>. HIDE DEF r, fail, kept, more
<1>6. ASSUME NEW s, NEW cs, Settle(i, s, cs), ~mishap'
      PROVE  /\ IsOk(i) /\ i = 1 /\ ListKeyed(r, net, ui) /\ AllSeen(r, net, ui)
             /\ a \in r.acts /\ net[i].arg.key = ui.key
  <2>2. ~mishap /\ i = 1
    BY <1>0, <1>1, <1>6, OldestIsDone
  <2>3. IsOk(i)
    BY <1>0, <1>1, <1>6, OldestIsDone
  <2>4. ListKeyed(r, net, ui) /\ AllSeen(r, net, ui)
    BY <2>2 DEF ListState, ListGoes, r
  <2>. QED BY <2>2, <2>3, <2>4, <1>1 DEF ListKeyed
<1>7. CASE ~ActTaken(i)
  <2>1. Settle(i, fail, << >>)
    BY <1>2, <1>7
  <2>2. mishap'
    BY <2>1, <1>6, <1>7 DEF ActTaken
  <2>. QED BY <1>0, <1>1, <1>3, <2>1, <2>2, ListSettles
<1>8. CASE ActTaken(i) /\ a \in r.patched
  <2>1. Settle(i, kept, << >>)
    BY <1>2, <1>8
  <2>2. ASSUME ~mishap' PROVE ListView(r, kept) = ListAfter(net[i], ListView(r, ui))
    <3>1. AllSeen(r, net, ui) /\ a \in r.acts /\ i = 1
      BY <2>1, <2>2, <1>6
    <3>2. a = "all" => net[i].arg.seen = ui.shown
      BY <3>1, <1>1 DEF AllSeen
    <3>3. Patched(i) = ActShown(net[i], ui.shown)
      <4>1. CASE a = "all"
        BY <4>1, <3>2 DEF Patched, ActShown
      <4>2. CASE a = "toggle"
        BY <4>2 DEF Patched, ActShown
      <4>3. CASE a = "add"
        BY <4>3 DEF Patched, ActShown, Data
      <4>4. CASE a \notin {"all", "toggle", "add"}
        BY <4>4 DEF Patched, ActShown
      <4>. QED BY <4>1, <4>2, <4>3, <4>4
    <3>4. ListAfter(net[i], ListView(r, ui)) = ListViewed(r, ui.of, ActShown(net[i], ui.shown))
      BY <1>1, <1>8 DEF ListAfter, ListView, ListViewed
    <3>5. ListView(r, kept) = ListViewed(r, ui.of, Patched(i))
      BY <1>4 DEF ListView
    <3>. QED BY <3>3, <3>4, <3>5
  <2>3. ~Reloads(r, net[i])
    BY <1>1, <1>8 DEF Reloads
  <2>. QED BY <1>0, <1>1, <1>4, <2>1, <2>2, <2>3, ListSettles
<1>9. CASE ActTaken(i) /\ a \notin r.patched
  <2>1. Settle(i, more, <<c>>)
    BY <1>2, <1>9
  <2>2. IsCall(c) /\ c.op = "list" /\ c.op \in ListOps /\ c.ans = Pending /\ c.arg = net[i].arg.key
    BY NewCalls DEF FetchList, ListOps
  <2>. HIDE DEF c
  <2>3. ASSUME ~mishap' PROVE "all" \notin r.acts /\ "toggle" \notin r.acts /\ c.arg = ui.key
    <3>1. a \in r.acts /\ net[i].arg.key = ui.key
      BY <2>1, <2>3, <1>6
    <3>2. "all" \notin r.acts /\ "toggle" \notin r.acts
      BY <3>1, <1>0, <1>9 DEF RowIsPlain
    <3>. QED BY <3>1, <3>2, <2>2
  <2>. QED BY <1>0, <1>1, <1>5, <2>1, <2>2, <2>3, ListReloads
<1>. QED BY <1>7, <1>8, <1>9

\* A call sent again for other ids.
LEMMA SentAgain ==
  ASSUME NEW d, IsCall(d), NEW ids
  PROVE  LET c == [d EXCEPT !.arg.ids = ids, !.ans = Pending] IN
         /\ IsCall(c) /\ c.op = d.op /\ c.ans = Pending
         /\ DOMAIN c.arg = DOMAIN d.arg
         /\ "key" \in DOMAIN d.arg => c.arg.key = d.arg.key
<1>. DEFINE c == [d EXCEPT !.arg.ids = ids, !.ans = Pending]
<1>1. DOMAIN d = {"op", "arg", "ans", "bare"}
  BY DEF IsCall
<1>2. c.arg = [d.arg EXCEPT !.ids = ids] /\ c.op = d.op /\ c.ans = Pending /\ c.bare = d.bare
  BY <1>1
<1>3. c = [op |-> d.op, arg |-> [d.arg EXCEPT !.ids = ids], ans |-> Pending, bare |-> d.bare]
  <2>1. DOMAIN c = {"op", "arg", "ans", "bare"} /\ c = [k \in DOMAIN c |-> c[k]]
    BY <1>1
  <2>. HIDE DEF c
  <2>. QED BY <2>1, <1>2
<1>4. IsCall(c)
  <2>. HIDE DEF c
  <2>. QED BY <1>3 DEF IsCall
<1>. QED BY <1>2, <1>4

\* A batch is answered, or its next call.
LEMMA ListBatchSteps ==
  ASSUME ListState, page \in ListPages, NEW i \in 1..Len(net), BatchGoesOn(i) \/ BatchDone(i) PROVE ListState'
<1>. DEFINE r == Rows[page]
<1>0. /\ Queue(ListOps) /\ DOMAIN ui = ListUi /\ r = Row /\ r = Rows[page] /\ RowIsPlain(r)
  BY ListTable DEF ListState, Row
<1>1. net[i].op = "batch" /\ net[i].ans # Pending /\ IsCall(net[i])
  BY DEF BatchGoesOn, BatchDone, Answered, ListState, Queue, Calls
<1>. HIDE DEF r
<1>2. ASSUME NEW s, NEW cs, Settle(i, s, cs), ~mishap'
      PROVE  /\ IsOk(i) /\ i = 1 /\ r.picks # "none"
             /\ DOMAIN net[i].arg = {"ids", "key"} /\ net[i].arg.key = ui.key
  <2>2. ~mishap /\ i = 1
    BY <1>0, <1>1, <1>2, OldestIsDone
  <2>3. IsOk(i)
    BY <1>0, <1>1, <1>2, OldestIsDone
  <2>4. ListKeyed(r, net, ui)
    BY <2>2 DEF ListState, ListGoes, r
  <2>. QED BY <2>2, <2>3, <2>4, <1>1 DEF ListKeyed
<1>3. CASE BatchGoesOn(i)
  <2>. DEFINE c == [net[i] EXCEPT !.arg.ids = @ \ BatchNow(@), !.ans = Pending]
  <2>1. r.picks = "each" /\ Settle(i, ui, <<c>>)
    BY <1>0, <1>3 DEF BatchGoesOn
  <2>3. /\ IsCall(c) /\ c.op = "batch" /\ c.ans = Pending
        /\ "key" \in DOMAIN net[i].arg => c.arg.key = net[i].arg.key
        /\ DOMAIN c.arg = DOMAIN net[i].arg
    BY <1>1, SentAgain
  <2>. HIDE DEF c
  <2>4. ASSUME ~mishap' PROVE /\ "all" \notin r.acts /\ "toggle" \notin r.acts
                              /\ DOMAIN c.arg = {"ids", "key"} /\ c.arg.key = ui.key
    <3>1. DOMAIN net[i].arg = {"ids", "key"} /\ net[i].arg.key = ui.key
      BY <1>2, <2>1, <2>4
    <3>2. "all" \notin r.acts /\ "toggle" \notin r.acts
      BY <1>0, <2>1 DEF RowIsPlain
    <3>. QED BY <2>3, <3>1, <3>2
  <2>5. c.op \in ListOps
    BY <2>3 DEF ListOps
  <2>. QED BY <1>0, <1>1, <2>1, <2>3, <2>4, <2>5, ListReloads
<1>4. CASE BatchDone(i)
  <2>. DEFINE fail == [ui EXCEPT !.error = @ \/ Row.onError = "error"]
              kept == [ui EXCEPT !.picked = {}, !.shown = {e \in @ : e.id \notin net[i].arg.ids}]
              more == [ui EXCEPT !.picked = {}, !.loading = @ \/ Row.again]
              c    == FetchList(net[i].arg.key)
              none == ~(IsOk(i) \/ r.picks = "each" \/ (net[i].ans = Refused /\ "batch" \in Row.deaf))
  <2>1. /\ none => Settle(i, fail, << >>)
        /\ ~none /\ r.picks = "drop" => Settle(i, kept, << >>)
        /\ ~none /\ r.picks # "drop" => Settle(i, more, <<c>>)
    BY <1>0, <1>4 DEF BatchDone
  <2>2. DOMAIN fail = ListUi /\ fail.key = ui.key
    BY <1>0 DEF ListUi
  <2>3. /\ DOMAIN kept = ListUi /\ kept.key = ui.key /\ kept.of = ui.of
        /\ kept.shown = {e \in ui.shown : e.id \notin net[i].arg.ids}
    BY <1>0 DEF ListUi
  <2>4. DOMAIN more = ListUi /\ more.key = ui.key
    BY <1>0 DEF ListUi
  <2>5. none => ~IsOk(i)
    OBVIOUS
  <2>. HIDE DEF fail, kept, more, none
  <2>6. CASE none
    <3>1. Settle(i, fail, << >>)
      BY <2>1, <2>6
    <3>2. mishap'
      BY <3>1, <1>2, <2>5, <2>6
    <3>. QED BY <1>0, <1>1, <2>2, <3>1, <3>2, ListSettles
  <2>7. CASE ~none /\ r.picks = "drop"
    <3>1. Settle(i, kept, << >>)
      BY <2>1, <2>7
    <3>2. ListView(r, kept) = ListAfter(net[i], ListView(r, ui))
      <4>1. ListAfter(net[i], ListView(r, ui)) = ListViewed(r, ui.of, {e \in ui.shown : e.id \notin net[i].arg.ids})
        BY <1>1, <2>7 DEF ListAfter, ListView, ListViewed
      <4>2. ListView(r, kept) = ListViewed(r, ui.of, {e \in ui.shown : e.id \notin net[i].arg.ids})
        BY <2>3 DEF ListView
      <4>. QED BY <4>1, <4>2
    <3>3. ~Reloads(r, net[i])
      BY <1>1, <2>7 DEF Reloads
    <3>. QED BY <1>0, <1>1, <2>3, <3>1, <3>2, <3>3, ListSettles
  <2>8. CASE ~none /\ r.picks # "drop"
    <3>1. Settle(i, more, <<c>>)
      BY <2>1, <2>8
    <3>2. IsCall(c) /\ c.op = "list" /\ c.op \in ListOps /\ c.ans = Pending /\ c.arg = net[i].arg.key
      BY NewCalls DEF FetchList, ListOps
    <3>. HIDE DEF c
    <3>3. ASSUME ~mishap' PROVE "all" \notin r.acts /\ "toggle" \notin r.acts /\ c.arg = ui.key
      <4>1. r.picks # "none" /\ net[i].arg.key = ui.key
        BY <3>1, <3>3, <1>2
      <4>2. "all" \notin r.acts /\ "toggle" \notin r.acts
        BY <4>1, <1>0, <2>8 DEF RowIsPlain
      <4>. QED BY <4>1, <4>2, <3>2
    <3>. QED BY <1>0, <1>1, <2>4, <3>1, <3>2, <3>3, ListReloads
  <2>. QED BY <2>6, <2>7, <2>8
<1>. QED BY <1>3, <1>4

\* The fetch is answered.
LEMMA ListIsLoaded ==
  ASSUME ListState, page \in ListPages, NEW i \in 1..Len(net), ListFetched(i) PROVE ListState'
<1>. DEFINE r == Rows[page]
            full == [ui EXCEPT !.of = Data(i).of, !.shown = Data(i).shown,
                               !.total = Data(i).total, !.loading = FALSE]
            fail == [ui EXCEPT !.loading = FALSE, !.error = @ \/ Row.onError = "error",
                               !.shown = IF Row.onError = "empty" THEN {} ELSE @]
<1>0. /\ Queue(ListOps) /\ DOMAIN ui = ListUi /\ r = Row /\ r = Rows[page] /\ RowIsPlain(r)
  BY ListTable DEF ListState, Row
<1>1. /\ net[i].op = "list" /\ net[i].ans # Pending
      /\ IsOk(i) => Settle(i, full, << >>)
      /\ ~IsOk(i) => Settle(i, fail, << >>)
  BY DEF ListFetched, Answered
<1>2. DOMAIN fail = ListUi /\ fail.key = ui.key
  BY <1>0 DEF ListUi
<1>3. DOMAIN full = ListUi /\ full.key = ui.key /\ full.of = Data(i).of /\ full.shown = Data(i).shown
  BY <1>0 DEF ListUi
<1>. HIDE DEF r, full, fail
<1>4. CASE IsOk(i)
  <2>1. ListView(r, full) = ListAfter(net[i], ListView(r, ui))
    BY <1>1, <1>3 DEF ListView, ListViewed, ListAfter, Data
  <2>2. ~Reloads(r, net[i])
    BY <1>1 DEF Reloads
  <2>. QED BY <1>0, <1>1, <1>3, <1>4, <2>1, <2>2, ListSettles
<1>5. CASE ~IsOk(i)
  <2>1. mishap'
    BY <1>0, <1>1, <1>5, OldestIsDone
  <2>. QED BY <1>0, <1>1, <1>2, <1>5, <2>1, ListSettles
<1>. QED BY <1>4, <1>5

\* The steps of a list keep it in a state of it.
LEMMA ListPageSteps ==
  ASSUME page \in ListPages, ListState, Next PROVE ListState'
<1>1. ASSUME NEW i \in 1..Len(net), Deny(i) PROVE ListState'
  <2>1. Denied(ListOps, i)
    BY <1>1, Denies DEF ListState
  <2>2. Queue(ListOps)' /\ ui' = ui /\ mishap'
    BY <2>1 DEF Denied
  <2>. QED BY <2>2 DEF ListState
<1>2. ASSUME NEW i \in 1..Len(net), ListThen(i) PROVE ListState'
  BY <1>2, ListIsLoaded, ListActDone, ListBatchSteps DEF ListThen
<1>. QED BY <1>1, <1>2, ListActions, ListUserSteps, ListServiceSteps DEF ListState

\* The lists, every row of the table (WebLists.ListIsCurrent): what is shown
\* and the answers still to be taken lead to what the service holds for the key
\* chosen last, unless a fetch is still to be answered; marking all and toggling,
\* which put back or undo what was shown at the click, find it unchanged.
THEOREM ListsStayCurrent == Spec => []ListIsCurrent
<1>. DEFINE Inv == page \in ListPages => ListState
<1>1. Init => Inv
  <2>. SUFFICES ASSUME Init, page \in ListPages PROVE ListState
    OBVIOUS
  <2>1. ListInit
    BY Mounts
  <2>. QED BY <2>1, ListStarts
<1>2. Inv /\ [Next]_vars => Inv'
  <2>1. CASE Next
    BY <2>1, PageStays, ListPageSteps
  <2>2. CASE UNCHANGED vars
    BY <2>2 DEF vars, ListState, Queue, Calls, InOrder
  <2>. QED BY <2>1, <2>2
<1>3. Inv => ListIsCurrent
  <2>. SUFFICES ASSUME page \in ListPages, ListState, Quiet, ~mishap
                PROVE  ui.of = ui.key /\ ui.shown = ListHeld(srv, ui.key)
    BY DEF ListIsCurrent
  <2>. DEFINE r == Rows[page]
  <2>1. Len(net) = 0
    BY QuietIsEmpty DEF ListState
  <2>2. PICK b : /\ ListReplay!Leads(net, ListView(r, ui), b)
                 /\ ListToCome(r, net) \/ b = ListViewed(r, ui.key, HeldFor(r, srv, ui.key))
    BY DEF ListState, ListGoes, ListLeads
  <2>3. ~ListToCome(r, net)
    BY <2>1 DEF ListToCome
  <2>4. ListView(r, ui) = ListViewed(r, ui.key, HeldFor(r, srv, ui.key))
    BY <2>1, <2>2, <2>3, ListReplay!LeadsNowhere
  <2>5. ListHeld(srv, ui.key) = HeldFor(r, srv, ui.key)
    BY DEF ListHeld, HeldFor, Row
  <2>. HIDE DEF r
  <2>. QED BY <2>4, <2>5 DEF ListView, ListViewed
<1>. HIDE DEF Inv
<1>. QED BY <1>1, <1>2, <1>3, PTL DEF Spec
=============================================================================
