--------------------------- MODULE WebFeedProofs ----------------------------
(***************************************************************************)
(* Pages with a list that is changed while it is loaded: the home feed,    *)
(* the posts of a space, the conversations and the creation center.        *)
(***************************************************************************)
EXTENDS WebReplayProofs

(***************************************************************************)
(* The home feed.                                                          *)
(***************************************************************************)
FeedOps    == {"feed"}
FeedFields == {"tab", "page", "items", "hasMore", "loading", "loadingMore", "totalPages"}

\* What the service answers call c.
FeedHeld(c) == [items |-> IF c.arg.p <= FeedPages THEN <<<<c.arg.tab, c.arg.p>>>> ELSE <<>>,
                short |-> c.arg.p >= FeedPages]

\* The page of a tab that is the last one when n pages have been counted.
LastPage(n) == IF n <= FeedPages THEN n ELSE FeedPages

\* items are pages of the tab, one after the other, the last of them page n.
Seamless(items, tab, n) ==
  /\ Len(items) \in Nat /\ Len(items) > 0 /\ items = [k \in 1..Len(items) |-> items[k]]
  /\ \A k \in 1..Len(items) : items[k] = <<tab, (LastPage(n) - Len(items)) + k>>

\* Call l is the youngest that replaces the feed; the calls behind it add the
\* pages that follow, up to the one the pager names.  With l = 0 all calls add.
FeedTail(q, s, l) ==
  /\ l \in 0..Len(q)
  /\ \A k \in 1..Len(q) : k > l => q[k].arg.append = TRUE
  /\ l > 0 => q[l].arg.append = FALSE /\ q[l].arg.p \in 1..FeedPages
  /\ l = 0 => Seamless(s.items, s.tab, s.page - Len(q))
  /\ \A k \in 1..Len(q) : k >= l => q[k].arg.tab = s.tab /\ q[k].arg.p = (s.page - Len(q)) + k

FeedGoes(q, s) ==
  /\ \A k \in 1..Len(q) : q[k].ans # Pending => q[k].ans = Ok(FeedHeld(q[k]))
  /\ \E l \in 0..Len(q) : FeedTail(q, s, l)

FeedState ==
  /\ Queue(FeedOps) /\ DOMAIN ui = FeedFields /\ ui.page \in Nat
  /\ ~mishap => FeedGoes(net, ui)

\* What can happen on this page.
LEMMA FeedActions ==
  ASSUME page = "feed", Queue(FeedOps), Next
  PROVE  \/ \E t \in FeedTabs : FeedTab(t)
         \/ FeedScroll
         \/ \E p \in 1..FeedPages : GoToPage(p)
         \/ \E i \in 1..Len(net) : FeedServed(i) \/ FeedLoaded(i) \/ Deny(i)
<1>1. page \in FeedsPages /\ Queue(FeedsOps)
  BY QueueOf DEF FeedsPages, FeedOps, FeedsOps
<1>2. CASE FeedsUser
  BY <1>2 DEF FeedsUser, SetFilter, LoadMoreCreations, ActOnCreation, InteractionTab, FollowToggle, HandleFollow
<1>3. ASSUME NEW i \in 1..Len(net), FeedsService(i) \/ FeedsThen(i)
      PROVE  FeedServed(i) \/ FeedLoaded(i)
  <2>1. net[i].op = "feed"
    BY DEF Queue, Calls, FeedOps
  <2>. QED BY <1>3, <2>1 DEF FeedsService, CreationsServed, CreationActServed, InteractionsServed,
         FollowToggleServed, ProfileServed, FollowServed, Asked, FeedsThen, CreationsLoaded,
         CreationActDone, Reloading, InteractionsLoaded, FollowToggled, ProfileLoaded, FollowDone, Answered
<1>. QED BY <1>1, <1>2, <1>3, FeedsNext

\* One page more.
LEMMA SeamGrows ==
  ASSUME NEW items, NEW tab, NEW n \in Int, Seamless(items, tab, n)
  PROVE  Seamless(items \o (IF n + 1 <= FeedPages THEN <<<<tab, n + 1>>>> ELSE <<>>), tab, n + 1)
<1>. DEFINE S == {items[k] : k \in 1..Len(items)} \cup {<<tab, n + 1>>}
<1>1. items \in Seq({items[k] : k \in 1..Len(items)}) /\ Len(items) \in Nat
  BY Elements DEF Seamless
<1>2. items \in Seq(S)
  BY <1>1
<1>3. CASE n + 1 <= FeedPages
  <2>. DEFINE c == <<<<tab, n + 1>>>>
              t == items \o c
  <2>1. c \in Seq(S) /\ Len(c) = 1 /\ c[1] = <<tab, n + 1>>
    OBVIOUS
  <2>2. LastPage(n) = n /\ LastPage(n + 1) = n + 1
    BY <1>3 DEF LastPage, FeedPages
  <2>. HIDE DEF c, S
  <2>3. /\ t \in Seq(S) /\ Len(t) = Len(items) + 1
        /\ \A k \in 1..(Len(items) + 1) : t[k] = IF k <= Len(items) THEN items[k] ELSE c[k - Len(items)]
    <3>1. /\ t \in Seq(S) /\ Len(t) = Len(items) + Len(c)
          /\ \A k \in 1..(Len(items) + Len(c)) : t[k] = IF k <= Len(items) THEN items[k] ELSE c[k - Len(items)]
      BY <1>2, <2>1, ConcatProperties
    <3>. QED BY <3>1, <2>1
  <2>4. t = [k \in 1..Len(t) |-> t[k]]
    BY <2>3, ByElements
  <2>. HIDE DEF t
  <2>5. ASSUME NEW k \in 1..Len(t) PROVE t[k] = <<tab, (LastPage(n + 1) - Len(t)) + k>>
    <3>1. CASE k <= Len(items)
      <4>1. k \in 1..Len(items) /\ t[k] = items[k]
        BY <2>3, <3>1, <1>1
      <4>2. items[k] = <<tab, (LastPage(n) - Len(items)) + k>>
        BY <4>1 DEF Seamless
      <4>3. (LastPage(n) - Len(items)) + k = (LastPage(n + 1) - Len(t)) + k
        BY <1>1, <2>2, <2>3
      <4>. QED BY <4>1, <4>2, <4>3
    <3>2. CASE ~(k <= Len(items))
      <4>1. k = Len(items) + 1 /\ k - Len(items) = 1
        BY <2>3, <3>2, <1>1
      <4>2. t[k] = <<tab, n + 1>>
        <5>1. k \in 1..(Len(items) + 1)
          BY <4>1, <1>1
        <5>2. t[k] = c[k - Len(items)]
          BY <5>1, <3>2, <2>3
        <5>3. t[k] = c[1]
          BY <5>2, <4>1
        <5>. QED BY <5>3, <2>1
      <4>3. (LastPage(n + 1) - Len(t)) + k = n + 1
        BY <1>1, <2>2, <2>3, <4>1
      <4>. QED BY <4>2, <4>3
    <3>. QED BY <3>1, <3>2
  <2>6. Len(t) \in Nat /\ Len(t) > 0
    BY <2>3, <1>1
  <2>7. Seamless(t, tab, n + 1)
    BY <2>4, <2>5, <2>6 DEF Seamless
  <2>. QED BY <1>3, <2>7 DEF t, c
<1>4. CASE ~(n + 1 <= FeedPages)
  <2>1. items \o << >> = items
    BY <1>2, ConcatEmptySeq
  <2>2. LastPage(n) = LastPage(n + 1)
    BY <1>4 DEF LastPage, FeedPages
  <2>. QED BY <1>4, <2>1, <2>2 DEF Seamless
<1>. QED BY <1>3, <1>4

\* The feed starts with its first page on its way.
LEMMA FeedStarts ==
  ASSUME FeedInit PROVE FeedState
<1>. DEFINE a == [p |-> 1, append |-> FALSE, tab |-> 1]
            c == Fetch("feed", a)
<1>1. IsCall(c) /\ c.op \in FeedOps /\ c.ans = Pending /\ c.arg = a
  BY NewCalls DEF FeedOps
<1>2. net = <<c>> /\ mishap = FALSE
  BY DEF FeedInit, FetchFeed
<1>. HIDE DEF c
<1>3. Queue(FeedOps) /\ Len(net) = 1 /\ net[1] = c
  BY <1>1, <1>2, FirstCall
<1>4. DOMAIN ui = FeedFields /\ ui.page = 1 /\ ui.tab = 1
  BY DEF FeedInit, FeedFields
<1>5. FeedTail(net, ui, 1)
  BY <1>1, <1>3, <1>4 DEF FeedTail, FeedPages
<1>6. \A k \in 1..Len(net) : net[k].ans = Pending
  BY <1>1, <1>3
<1>7. FeedGoes(net, ui)
  BY <1>3, <1>5, <1>6 DEF FeedGoes
<1>. QED BY <1>3, <1>4, <1>7 DEF FeedState

\* A new tab, or a page chosen in the pager, replaces the feed.
LEMMA FeedReplaced ==
  ASSUME FeedState, NEW s, DOMAIN s = FeedFields, NEW p \in 1..FeedPages, s.page = p,
         Handle(s, <<FetchFeed(p, FALSE, s.tab)>>)
  PROVE  FeedState'
<1>. DEFINE a == [p |-> p, append |-> FALSE, tab |-> s.tab]
            c == Fetch("feed", a)
            n == Len(net) + 1
<1>1. IsCall(c) /\ c.op \in FeedOps /\ c.ans = Pending /\ c.arg = a
  BY NewCalls DEF FeedOps
<1>2. Handle(s, <<c>>)
  BY DEF FetchFeed
<1>. HIDE DEF c
<1>3. Started(FeedOps, s, c)
  BY <1>1, <1>2, HandlesOne DEF FeedState
<1>4. /\ Queue(FeedOps)' /\ ui' = s /\ mishap' = mishap /\ Len(net') = n /\ n \in Nat /\ Len(net) \in Nat
      /\ net'[n] = c /\ \A k \in 1..Len(net) : net'[k] = net[k]
  BY <1>3 DEF Started
<1>5. p \in Nat /\ s.page \in Nat
  BY DEF FeedPages
<1>6. FeedTail(net', s, n)
  <2>1. \A k \in 1..n : k >= n => k = n
    BY <1>4
  <2>2. \A k \in 1..n : ~(k > n)
    BY <1>4
  <2>3. (s.page - n) + n = p
    BY <1>4, <1>5
  <2>4. n > 0 /\ n \in 0..n
    BY <1>4
  <2>5. net'[n].arg.tab = s.tab /\ net'[n].arg.p = p /\ net'[n].arg.append = FALSE
    BY <1>1, <1>4
  <2>. HIDE DEF n
  <2>6. \A k \in 1..n : k >= n => net'[k].arg.tab = s.tab /\ net'[k].arg.p = (s.page - n) + k
    BY <2>1, <2>3, <2>5
  <2>7. Len(net') = n /\ ~(n = 0)
    BY <1>4, <2>4
  <2>. QED BY <2>2, <2>4, <2>5, <2>6, <2>7 DEF FeedTail
<1>7. ASSUME ~mishap PROVE FeedGoes(net', s)
  <2>1. \A k \in 1..Len(net') : k = n \/ (k \in 1..Len(net) /\ net'[k] = net[k])
    BY <1>4
  <2>2. \A k \in 1..Len(net') : net'[k].ans # Pending => net'[k].ans = Ok(FeedHeld(net'[k]))
    BY <1>1, <1>4, <1>7, <2>1 DEF FeedState, FeedGoes
  <2>3. n \in 0..Len(net')
    BY <1>4
  <2>. QED BY <1>6, <2>2, <2>3 DEF FeedGoes
<1>. QED BY <1>4, <1>5, <1>7 DEF FeedState

\* Scrolling adds the page behind the one that was counted last.
LEMMA FeedExtended ==
  ASSUME FeedState, NEW s, DOMAIN s = FeedFields, s.page = ui.page + 1, s.tab = ui.tab, s.items = ui.items,
         Handle(s, <<FetchFeed(ui.page + 1, TRUE, ui.tab)>>)
  PROVE  FeedState'
<1>. DEFINE a == [p |-> ui.page + 1, append |-> TRUE, tab |-> ui.tab]
            c == Fetch("feed", a)
            n == Len(net) + 1
<1>1. IsCall(c) /\ c.op \in FeedOps /\ c.ans = Pending /\ c.arg = a
  BY NewCalls DEF FeedOps
<1>2. Handle(s, <<c>>)
  BY DEF FetchFeed
<1>. HIDE DEF c
<1>3. Started(FeedOps, s, c)
  BY <1>1, <1>2, HandlesOne DEF FeedState
<1>4. /\ Queue(FeedOps)' /\ ui' = s /\ mishap' = mishap /\ Len(net') = n /\ n \in Nat /\ Len(net) \in Nat
      /\ net'[n] = c /\ \A k \in 1..Len(net) : net'[k] = net[k]
  BY <1>3 DEF Started
<1>5. ui.page \in Nat /\ s.page \in Nat
  BY DEF FeedState
<1>6. ASSUME ~mishap PROVE FeedGoes(net', s)
  <2>0. FeedGoes(net, ui)
    BY <1>6 DEF FeedState
  <2>1. \A k \in 1..Len(net') : k = n \/ (k \in 1..Len(net) /\ net'[k] = net[k])
    BY <1>4
  <2>2. \A k \in 1..Len(net') : net'[k].ans # Pending => net'[k].ans = Ok(FeedHeld(net'[k]))
    BY <1>1, <1>4, <2>0, <2>1 DEF FeedGoes
  <2>3. PICK l \in 0..Len(net) : FeedTail(net, ui, l)
    BY <2>0 DEF FeedGoes
  <2>4. FeedTail(net', s, l)
    <3>1. l \in 0..Len(net') /\ (l > 0 => l \in 1..Len(net))
      BY <1>4
    <3>2. s.page - Len(net') = ui.page - Len(net)
      BY <1>4, <1>5
    <3>3. (s.page - Len(net')) + n = ui.page + 1
      BY <1>4, <1>5
    <3>4. \A k \in 1..Len(net') : k > l => net'[k].arg.append = TRUE
      BY <1>1, <1>4, <2>1, <2>3 DEF FeedTail
    <3>5. ASSUME NEW k \in 1..Len(net'), k >= l
          PROVE  net'[k].arg.tab = s.tab /\ net'[k].arg.p = (s.page - Len(net')) + k
      <4>1. CASE k = n
        BY <1>1, <1>4, <3>3, <4>1
      <4>2. CASE k \in 1..Len(net) /\ net'[k] = net[k]
        BY <4>2, <3>2, <3>5, <2>3 DEF FeedTail
      <4>. QED BY <4>1, <4>2, <2>1
    <3>6. l > 0 => net'[l].arg.append = FALSE /\ net'[l].arg.p \in 1..FeedPages
      BY <1>4, <3>1, <2>3 DEF FeedTail
    <3>7. l = 0 => Seamless(s.items, s.tab, s.page - Len(net'))
      BY <3>2, <2>3 DEF FeedTail
    <3>. QED BY <3>1, <3>4, <3>5, <3>6, <3>7 DEF FeedTail
  <2>5. l \in 0..Len(net')
    BY <1>4
  <2>. QED BY <2>2, <2>4, <2>5 DEF FeedGoes
<1>. QED BY <1>4, <1>5, <1>6 DEF FeedState

\* The oldest call, answered: its page is behind those on display, or is the
\* only one.
LEMMA FeedTaken ==
  ASSUME FeedState, NEW i \in 1..Len(net), net[i].ans # Pending, NEW s, DOMAIN s = FeedFields,
         s.page = ui.page, s.tab = ui.tab,
         IsOk(i) => s.items = IF net[i].arg.append THEN ui.items \o Data(i).items ELSE Data(i).items,
         Settle(i, s, <<>>)
  PROVE  FeedState'
<1>1. Settled(FeedOps, i, s)
  BY SettlesNone DEF FeedState
<1>2. /\ Queue(FeedOps)' /\ ui' = s /\ (mishap => mishap') /\ (~mishap' => i = 1 /\ IsOk(1))
      /\ mishap \in BOOLEAN /\ Len(net') = Len(net) - 1 /\ Len(net) \in Nat
      /\ \A k \in 1..(Len(net) - 1) : net'[k] = net[IF k < i THEN k ELSE k + 1]
  BY <1>1 DEF Settled, FeedState, Queue
<1>3. ui.page \in Nat
  BY DEF FeedState
<1>4. ASSUME ~mishap' PROVE FeedGoes(net', s)
  <2>0. FeedGoes(net, ui) /\ i = 1 /\ IsOk(1)
    BY <1>2, <1>4 DEF FeedState
  <2>1. \A k \in 1..Len(net') : k + 1 \in 1..Len(net) /\ net'[k] = net[k + 1]
    BY <1>2, <2>0
  <2>2. \A k \in 1..Len(net') : net'[k].ans # Pending => net'[k].ans = Ok(FeedHeld(net'[k]))
    BY <2>0, <2>1 DEF FeedGoes
  <2>3. PICK l \in 0..Len(net) : FeedTail(net, ui, l)
    BY <2>0 DEF FeedGoes
  <2>4. Data(1) = FeedHeld(net[1]) /\ 1 \in 1..Len(net)
    <3>1. net[1].ans # Pending /\ 1 \in 1..Len(net)
      BY <2>0
    <3>2. net[1].ans = Ok(FeedHeld(net[1]))
      BY <2>0, <3>1 DEF FeedGoes
    <3>. QED BY <3>1, <3>2 DEF Data, Ok
  <2>. DEFINE m == ui.page - Len(net)
              items == IF m + 1 <= FeedPages THEN <<<<ui.tab, m + 1>>>> ELSE <<>>
  <2>5. m \in Int /\ s.page - Len(net') = m + 1
    <3>1. s.page - (Len(net) - 1) = (ui.page - Len(net)) + 1 /\ ui.page - Len(net) \in Int
      BY <1>2, <1>3
    <3>. QED BY <3>1, <1>2
  <2>6. CASE l > 1
    <3>1. l - 1 \in 1..Len(net') /\ l \in 1..Len(net) /\ net'[l - 1] = net[l]
      BY <2>1, <2>6, <1>2
    <3>2. \A k \in 1..Len(net') : k > l - 1 => net'[k].arg.append = TRUE
      <4>1. \A k \in 1..Len(net') : k > l - 1 => k + 1 > l
        BY <1>2
      <4>. QED BY <2>1, <2>3, <4>1 DEF FeedTail
    <3>3. ASSUME NEW k \in 1..Len(net'), k >= l - 1
          PROVE  net'[k].arg.tab = s.tab /\ net'[k].arg.p = (s.page - Len(net')) + k
      <4>1. k + 1 >= l /\ k + 1 \in 1..Len(net) /\ net'[k] = net[k + 1]
        BY <2>1, <3>3, <1>2
      <4>2. net[k + 1].arg.tab = ui.tab /\ net[k + 1].arg.p = m + (k + 1)
        BY <4>1, <2>3 DEF FeedTail
      <4>3. m + (k + 1) = (s.page - Len(net')) + k
        BY <2>5
      <4>. QED BY <4>1, <4>2, <4>3
    <3>4. net'[l - 1].arg.append = FALSE /\ net'[l - 1].arg.p \in 1..FeedPages
      BY <3>1, <2>3, <2>6 DEF FeedTail
    <3>5. FeedTail(net', s, l - 1)
      BY <3>1, <3>2, <3>3, <3>4 DEF FeedTail
    <3>6. l - 1 \in 0..Len(net')
      BY <3>1
    <3>. QED BY <2>2, <3>5, <3>6 DEF FeedGoes
  <2>7. CASE ~(l > 1)
    <3>1. net[1].arg.tab = ui.tab /\ net[1].arg.p = m + 1
      <4>1. 1 >= l
        BY <2>7
      <4>. QED BY <4>1, <2>3, <2>4 DEF FeedTail
    <3>2. Data(1).items = items
      BY <2>4, <3>1 DEF FeedHeld
    <3>3. Seamless(s.items, s.tab, m + 1)
      <4>1. CASE l = 0
        <5>1. net[1].arg.append = TRUE /\ Seamless(ui.items, ui.tab, m)
          BY <4>1, <2>3, <2>4 DEF FeedTail
        <5>2. s.items = ui.items \o items
          BY <5>1, <3>2, <2>0
        <5>. HIDE DEF m
        <5>. QED BY <5>1, <5>2, <2>5, SeamGrows
      <4>2. CASE l = 1
        <5>1. net[1].arg.append = FALSE /\ net[1].arg.p \in 1..FeedPages
          BY <4>2, <2>3 DEF FeedTail
        <5>2. s.items = items /\ m + 1 <= FeedPages
          BY <5>1, <3>1, <3>2, <2>0 DEF FeedPages
        <5>. HIDE DEF m
        <5>3. s.items = <<<<s.tab, m + 1>>>> /\ LastPage(m + 1) = m + 1
          BY <5>2 DEF LastPage
        <5>4. /\ Len(s.items) = 1 /\ s.items = [k \in 1..Len(s.items) |-> s.items[k]]
              /\ s.items[1] = <<s.tab, m + 1>>
          BY <5>3
        <5>5. (LastPage(m + 1) - Len(s.items)) + 1 = m + 1
          BY <5>3, <5>4, <2>5
        <5>6. \A k \in 1..1 : k = 1
          OBVIOUS
        <5>. QED BY <5>4, <5>5, <5>6 DEF Seamless
      <4>. QED BY <4>1, <4>2, <2>7
    <3>4. \A k \in 1..Len(net') : net'[k].arg.append = TRUE
      <4>1. \A k \in 1..Len(net') : k + 1 > l
        BY <2>7
      <4>. QED BY <2>1, <2>3, <4>1 DEF FeedTail
    <3>5. ASSUME NEW k \in 1..Len(net')
          PROVE  net'[k].arg.tab = s.tab /\ net'[k].arg.p = (s.page - Len(net')) + k
      <4>1. k + 1 >= l /\ k + 1 \in 1..Len(net) /\ net'[k] = net[k + 1]
        BY <2>1, <2>7, <1>2
      <4>2. net[k + 1].arg.tab = ui.tab /\ net[k + 1].arg.p = m + (k + 1)
        BY <4>1, <2>3 DEF FeedTail
      <4>3. m + (k + 1) = (s.page - Len(net')) + k
        BY <2>5
      <4>. QED BY <4>1, <4>2, <4>3
    <3>6. 0 \in 0..Len(net') /\ ~(0 > 0)
      BY <1>2, <2>0
    <3>7. FeedTail(net', s, 0)
      BY <3>3, <3>4, <3>5, <3>6, <2>5 DEF FeedTail
    <3>. QED BY <2>2, <3>6, <3>7 DEF FeedGoes
  <2>. QED BY <2>6, <2>7
<1>. QED BY <1>2, <1>3, <1>4 DEF FeedState

\* Every step of the feed.
LEMMA FeedPageSteps ==
  ASSUME page = "feed", FeedState, Next PROVE FeedState'
<1>0. Queue(FeedOps) /\ DOMAIN ui = FeedFields /\ ui.page \in Nat
  BY DEF FeedState
<1>1. ASSUME NEW t \in FeedTabs, FeedTab(t) PROVE FeedState'
  <2>. DEFINE s == [ui EXCEPT !.tab = t, !.page = 1, !.items = <<>>, !.hasMore = TRUE, !.loading = TRUE]
  <2>1. Handle(s, <<FetchFeed(1, FALSE, t)>>)
    BY <1>1 DEF FeedTab
  <2>2. DOMAIN s = FeedFields /\ s.page = 1 /\ s.tab = t
    BY <1>0 DEF FeedFields
  <2>. HIDE DEF s
  <2>3. 1 \in 1..FeedPages
    BY DEF FeedPages
  <2>. QED BY <2>1, <2>2, <2>3, FeedReplaced
<1>2. CASE FeedScroll
  <2>. DEFINE s == [ui EXCEPT !.loadingMore = TRUE, !.page = @ + 1]
  <2>1. Handle(s, <<FetchFeed(ui.page + 1, TRUE, ui.tab)>>)
    BY <1>2 DEF FeedScroll
  <2>2. DOMAIN s = FeedFields /\ s.page = ui.page + 1 /\ s.tab = ui.tab /\ s.items = ui.items
    BY <1>0 DEF FeedFields
  <2>. HIDE DEF s
  <2>. QED BY <2>1, <2>2, FeedExtended
<1>3. ASSUME NEW p \in 1..FeedPages, GoToPage(p) PROVE FeedState'
  <2>. DEFINE s == [ui EXCEPT !.loading = TRUE, !.items = <<>>, !.page = p, !.hasMore = TRUE]
  <2>1. Handle(s, <<FetchFeed(p, FALSE, ui.tab)>>)
    BY <1>3 DEF GoToPage
  <2>2. DOMAIN s = FeedFields /\ s.page = p /\ s.tab = ui.tab
    BY <1>0 DEF FeedFields
  <2>. HIDE DEF s
  <2>. QED BY <2>1, <2>2, FeedReplaced
<1>4. ASSUME NEW i \in 1..Len(net), FeedServed(i) PROVE FeedState'
  <2>1. Reply(i, FeedHeld(net[i]), srv)
    BY <1>4 DEF FeedServed, FeedHeld
  <2>2. Replied(FeedOps, i, FeedHeld(net[i]), srv)
    BY <1>0, <2>1, Replies
  <2>3. /\ Queue(FeedOps)' /\ ui' = ui /\ Len(net') = Len(net) /\ Len(net) \in Nat
        /\ \A k \in 1..Len(net) : k # i => net'[k] = net[k]
        /\ net'[i].arg = net[i].arg
    BY <2>2 DEF Replied
  <2>4. ASSUME ~mishap' PROVE FeedGoes(net', ui)
    <3>1. net'[i].ans = Ok(FeedHeld(net[i])) /\ ~mishap
      BY <2>2, <2>4 DEF Replied
    <3>2. FeedHeld(net'[i]) = FeedHeld(net[i])
      BY <2>3 DEF FeedHeld
    <3>3. FeedGoes(net, ui)
      BY <3>1 DEF FeedState
    <3>4. \A k \in 1..Len(net) : net'[k].arg = net[k].arg
      BY <2>3
    <3>5. PICK l \in 0..Len(net) : FeedTail(net, ui, l)
      BY <3>3 DEF FeedGoes
    <3>6. FeedTail(net', ui, l)
      <4>1. l > 0 => l \in 1..Len(net)
        BY <2>3
      <4>. QED BY <2>3, <3>4, <3>5, <4>1 DEF FeedTail
    <3>7. \A k \in 1..Len(net') : net'[k].ans # Pending => net'[k].ans = Ok(FeedHeld(net'[k]))
      BY <2>3, <3>1, <3>2, <3>3 DEF FeedGoes
    <3>. QED BY <2>3, <3>6, <3>7 DEF FeedGoes
  <2>. QED BY <2>3, <2>4, <1>0 DEF FeedState
<1>5. ASSUME NEW i \in 1..Len(net), FeedLoaded(i) PROVE FeedState'
  <2>. DEFINE done == [ui EXCEPT !.loading = FALSE, !.loadingMore = FALSE]
              more == [done EXCEPT !.items = IF net[i].arg.append THEN @ \o Data(i).items ELSE Data(i).items,
                                   !.totalPages = FeedPages, !.hasMore = @ /\ ~Data(i).short]
              none == [done EXCEPT !.hasMore = FALSE]
              s == CASE IsOk(i) -> more [] net[i].ans = Refused -> none [] OTHER -> done
  <2>1. net[i].ans # Pending /\ Settle(i, s, <<>>)
    BY <1>5 DEF FeedLoaded, Answered
  <2>2. /\ DOMAIN done = FeedFields /\ done.page = ui.page /\ done.tab = ui.tab /\ done.items = ui.items
    BY <1>0 DEF FeedFields
  <2>3. /\ DOMAIN more = FeedFields /\ more.page = ui.page /\ more.tab = ui.tab
        /\ more.items = IF net[i].arg.append THEN ui.items \o Data(i).items ELSE Data(i).items
    BY <2>2 DEF FeedFields
  <2>4. DOMAIN none = FeedFields /\ none.page = ui.page /\ none.tab = ui.tab
    BY <2>2 DEF FeedFields
  <2>. HIDE DEF done, more, none
  <2>5. DOMAIN s = FeedFields /\ s.page = ui.page /\ s.tab = ui.tab /\ (IsOk(i) => s = more)
    <3>0. IsOk(i) => net[i].ans # Refused
      BY DEF IsOk, Refused
    <3>1. CASE IsOk(i)
      BY <3>0, <3>1, <2>3
    <3>2. CASE ~IsOk(i) /\ net[i].ans = Refused
      BY <3>2, <2>4
    <3>3. CASE ~IsOk(i) /\ net[i].ans # Refused
      BY <3>3, <2>2
    <3>. QED BY <3>1, <3>2, <3>3
  <2>. HIDE DEF s
  <2>. QED BY <2>1, <2>3, <2>5, FeedTaken
<1>6. ASSUME NEW i \in 1..Len(net), Deny(i) PROVE FeedState'
  <2>1. Denied(FeedOps, i)
    BY <1>0, <1>6, Denies
  <2>. QED BY <2>1, <1>0 DEF Denied, FeedState
<1>. QED BY <1>0, <1>1, <1>2, <1>3, <1>4, <1>5, <1>6, FeedActions

\* The home feed (WebFeeds.FeedIsSeamless): behind the youngest call that
\* replaces what is shown, or behind what is shown, the calls under way add the
\* pages that follow one another up to the page that the pager names.
THEOREM FeedStaysSeamless == Spec => []FeedIsSeamless
<1>. DEFINE Inv == page = "feed" => FeedState
<1>1. Init => Inv
  BY Mounts, FeedStarts
<1>2. Inv /\ [Next]_vars => Inv'
  <2>1. CASE Next
    BY <2>1, PageStays, FeedPageSteps
  <2>2. CASE UNCHANGED vars
    BY <2>2 DEF vars, FeedState, Queue, Calls, InOrder
  <2>. QED BY <2>1, <2>2
<1>3. Inv => FeedIsSeamless
  <2>. SUFFICES ASSUME FeedState, Quiet, ~mishap
                PROVE  /\ ui.items # <<>>
                       /\ \A k \in DOMAIN ui.items :
                            ui.items[k] = <<ui.tab, Min({ui.page, FeedPages}) - Len(ui.items) + k>>
    BY DEF FeedIsSeamless
  <2>1. Len(net) = 0
    BY QuietIsEmpty DEF FeedState
  <2>2. PICK l \in 0..Len(net) : FeedTail(net, ui, l)
    BY DEF FeedState, FeedGoes
  <2>3. ui.page \in Nat /\ l = 0 /\ ui.page - Len(net) = ui.page
    BY <2>1 DEF FeedState
  <2>4. Seamless(ui.items, ui.tab, ui.page)
    BY <2>2, <2>3 DEF FeedTail
  <2>5. Min({ui.page, FeedPages}) = LastPage(ui.page)
    <3>1. \A m, n \in Int : (m <= n => Min({m, n}) = m) /\ (n <= m => Min({m, n}) = n)
      <4>. SUFFICES ASSUME NEW m \in Int, NEW n \in Int
                    PROVE  (m <= n => Min({m, n}) = m) /\ (n <= m => Min({m, n}) = n)
        OBVIOUS
      <4>1. ASSUME NEW x \in {m, n}, \A y \in {m, n} : x <= y PROVE Min({m, n}) = x
        <5>1. \A z \in {m, n} : (\A y \in {m, n} : z <= y) => z = x
          BY <4>1
        <5>. QED BY <4>1, <5>1 DEF Min
      <4>. QED BY <4>1
    <3>2. FeedPages \in Int /\ ui.page \in Int
      BY <2>3 DEF FeedPages
    <3>. QED BY <3>1, <3>2 DEF LastPage
  <2>6. DOMAIN ui.items = 1..Len(ui.items) /\ Len(ui.items) > 0
    BY <2>4 DEF Seamless
  <2>7. ui.items # <<>>
    BY <2>6
  <2>. QED BY <2>4, <2>5, <2>6, <2>7 DEF Seamless
<1>. HIDE DEF Inv
<1>. QED BY <1>1, <1>2, <1>3, PTL DEF Spec
-----------------------------------------------------------------------------
(***************************************************************************)
(* The owner's posts of a space.                                           *)
(***************************************************************************)
PostsOps    == {"posts", "pin", "feature", "hide", "unhide"}
PostsFields == {"key", "of", "posts", "featured", "loading", "fetching"}

\* The two lists, and what an answer makes of them.
ActedPosts(c, ps) ==
  IF c.op = "hide" THEN {p \in ps : p.id # c.arg} ELSE {PostPatched(p, c.op, c.ans.data) : p \in ps}

ActedFeatured(c, f) ==
  IF c.op = "hide" THEN [f EXCEPT ![c.arg] = 0]
  ELSE IF c.op = "feature" THEN [f EXCEPT ![c.arg] = IF c.ans.data.featured THEN f[c.arg] + 1 ELSE 0]
  ELSE f

ActsView(u) == [posts |-> u.posts, featured |-> u.featured]

ActsAfter(c, v) == [posts |-> ActedPosts(c, v.posts), featured |-> ActedFeatured(c, v.featured)]

ActsReplay == INSTANCE Replay WITH After <- ActsAfter

\* Every post once.
OneEach(h) ==
  /\ h \subseteq SpacePost
  /\ \A p, q \in h : p.id = q.id => p = q
  /\ \A n \in PostIds : \E p \in h : p.id = n

\* What is on display is the service's.
PostsAgree(b, h, k) ==
  /\ b.posts \subseteq SpacePostsHeld(h, k)
  /\ b.featured \in [PostIds -> Nat]
  /\ \A n \in PostIds : b.featured[n] <= 1
  /\ \A n \in PostIds : b.featured[n] = 1 => \E p \in h : p.id = n /\ p.featured

\* An answered act says what its post has become.
ActsTyped(q) ==
  \A k \in 1..Len(q) : q[k].op \in PostOps =>
    q[k].arg \in PostIds /\ (q[k].ans # Pending => q[k].ans.data \in SpacePost /\ q[k].ans.data.id = q[k].arg)

\* A post is hidden while it is shown, and shown while it is hidden, the
\* latter by one call.
ActsFit(q, u, h) ==
  /\ \A k \in 1..Len(q) : q[k].op = "hide" => \A p \in u.posts : p.id = q[k].arg => ~p.hidden
  /\ \A k \in 1..Len(q) : q[k].op = "unhide" => \A p \in u.posts : p.id = q[k].arg => p.hidden
  /\ \A k \in 1..Len(q) : q[k].op = "unhide" /\ q[k].ans = Pending => \A p \in h : p.id = q[k].arg => p.hidden
  /\ \A j, k \in 1..Len(q) : q[j].op \in {"hide", "unhide"} /\ q[k].op = "unhide" /\ q[j].arg = q[k].arg => j = k

PostsTyped(u, h) ==
  /\ DOMAIN u = PostsFields
  /\ u.key \in BOOLEAN
  /\ u.featured \in [PostIds -> Nat]
  /\ u.posts \subseteq SpacePost /\ \A p, q \in u.posts : p.id = q.id => p = q
  /\ OneEach(h)

\* A fetch for the key is behind all other calls.
PostsToCome(q, u, h) ==
  /\ u.fetching /\ u.loading
  /\ Len(q) > 0 /\ q[Len(q)].op = "posts" /\ q[Len(q)].arg = u.key
  /\ \A k \in 1..Len(q) : k # Len(q) => q[k].op # "posts"
  /\ q[Len(q)].ans # Pending =>
       q[Len(q)].ans.data = [posts |-> SpacePostsHeld(h, u.key), featured |-> FeaturedHeld(h)]

\* The acts lead to what the service holds.
PostsLead(q, u, h) == \E b : ActsReplay!Leads(q, ActsView(u), b) /\ PostsAgree(b, h, u.key)

PostsThere(q, u, h) ==
  /\ ~u.fetching /\ u.of = u.key
  /\ \A k \in 1..Len(q) : q[k].op # "posts"
  /\ ActsFit(q, u, h)
  /\ PostsLead(q, u, h)

PostsGo(q, u, h) == PostsTyped(u, h) /\ ActsTyped(q) /\ (PostsToCome(q, u, h) \/ PostsThere(q, u, h))

PostsState == Queue(PostsOps) /\ (~mishap => PostsGo(net, ui, srv))

\* The page is mounted in a state of it.
LEMMA PostsStarts ==
  ASSUME SpacePostsInit PROVE PostsState
<1>. DEFINE c == FetchPosts(FALSE)
<1>1. IsCall(c) /\ c.op = "posts" /\ c.op \in PostsOps /\ c.ans = Pending /\ c.arg = FALSE
  BY NewCalls DEF PostsOps, FetchPosts
<1>2. net = <<c>> /\ mishap = FALSE
  BY DEF SpacePostsInit
<1>. HIDE DEF c
<1>3. Queue(PostsOps) /\ Len(net) = 1 /\ net[1] = c
  BY <1>1, <1>2, FirstCall
<1>4. \A k \in 1..Len(net) : k = Len(net) /\ net[k].op = "posts" /\ net[k].ans = Pending
  BY <1>1, <1>3
<1>5. /\ DOMAIN ui = PostsFields /\ ui.key = FALSE /\ ui.posts = {} /\ ui.featured = Unfeatured
      /\ ui.fetching /\ ui.loading
  BY DEF SpacePostsInit, PostsFields
<1>6. OneEach(srv)
  <2>1. srv = {[id |-> n, pinned |-> FALSE, featured |-> n = 2, hidden |-> FALSE] : n \in PostIds}
    BY DEF SpacePostsInit
  <2>. DEFINE one(n) == [id |-> n, pinned |-> FALSE, featured |-> n = 2, hidden |-> FALSE]
  <2>2. \A n \in PostIds : one(n) \in SpacePost /\ one(n).id = n
    <3>1. \A n \in PostIds : (n = 2) \in BOOLEAN
      OBVIOUS
    <3>. QED BY <3>1, Zenon DEF SpacePost
  <2>3. (\A p \in srv : \E n \in PostIds : p = one(n)) /\ \A n \in PostIds : one(n) \in srv
    BY <2>1, Zenon
  <2>. HIDE DEF one
  <2>4. srv \subseteq SpacePost /\ \A p, q \in srv : p.id = q.id => p = q
    BY <2>2, <2>3
  <2>5. \A n \in PostIds : \E p \in srv : p.id = n
    BY <2>2, <2>3
  <2>. QED BY <2>4, <2>5 DEF OneEach
<1>7. PostsTyped(ui, srv)
  <2>1. Unfeatured \in [PostIds -> Nat]
    BY DEF Unfeatured
  <2>. QED BY <2>1, <1>5, <1>6 DEF PostsTyped
<1>8. ActsTyped(net)
  BY <1>4 DEF ActsTyped, PostOps
<1>9. PostsToCome(net, ui, srv)
  <2>1. net[Len(net)] = c /\ Len(net) > 0
    BY <1>3
  <2>. QED BY <1>1, <1>4, <1>5, <2>1 DEF PostsToCome
<1>. QED BY <1>3, <1>7, <1>8, <1>9 DEF PostsState, PostsGo

\* What can happen on this page.
LEMMA PostsActions ==
  ASSUME page = "spacePosts", Queue(PostsOps), Next
  PROVE  \/ \E k \in BOOLEAN : SetPostKey(k)
         \/ \E op \in PostOps, p \in ui.posts : PostAct(op, p)
         \/ \E i \in 1..Len(net) : PostsServed(i) \/ PostActServed(i) \/ PostsFetched(i) \/ PostActDone(i) \/ Deny(i)
<1>1. page \in SpacePages /\ Queue(SpaceOps)
  BY QueueOf DEF SpacePages, PostsOps, SpaceOps
<1>2. CASE SpaceUser
  BY <1>2 DEF SpaceUser, HandleToggle, HandleJoinSpace, SpaceShown, HandleSubscribe, OpenEdit, EditField, CloseEdit,
    HandleSaveSpaceEdit, HandleUploadIcon
<1>3. ASSUME NEW i \in 1..Len(net), SpaceService(i) \/ SpaceThen(i)
      PROVE  PostsServed(i) \/ PostActServed(i) \/ PostsFetched(i) \/ PostActDone(i)
  <2>1. net[i].op \in PostsOps
    BY DEF Queue, Calls
  <2>2. SpaceService(i) => PostsServed(i) \/ PostActServed(i)
    BY <2>1 DEF PostsOps, SpaceService, SpaceServed, ToggleServed, JoinSpaceServed, GetSubServed, SubscribeServed,
      UploadServed, SaveSpaceServed, Asked
  <2>3. SpaceThen(i) => PostsFetched(i) \/ PostActDone(i)
    BY <2>1 DEF PostsOps, SpaceThen, SpaceFetched, ToggleDone, JoinSpaceDone, GetSubDone, SubscribeDone,
      UploadDone, SaveSpaceDone, Answered
  <2>. QED BY <1>3, <2>2, <2>3
<1>. QED BY <1>1, <1>2, <1>3, SpaceNext
------------------------------------------------------------------------------
\* Act op on post id.
Flipped(h, id, op) == {IF p.id = id THEN PostFlip(p, op) ELSE p : p \in h}

\* What a flip makes of a post.
LEMMA FlipsPost ==
  ASSUME NEW p \in SpacePost, NEW op \in PostOps
  PROVE  /\ PostFlip(p, op) \in SpacePost /\ PostFlip(p, op).id = p.id
         /\ op = "pin" => PostFlip(p, op) = [p EXCEPT !.pinned = ~p.pinned]
         /\ op = "feature" => PostFlip(p, op) = [p EXCEPT !.featured = ~p.featured]
         /\ op \in {"hide", "unhide"} => PostFlip(p, op) = [p EXCEPT !.hidden = ~p.hidden]
BY DEF PostFlip, PostOps, SpacePost

\* The service still has every post once; the others are as they were.
LEMMA FlipsHeld ==
  ASSUME NEW h, OneEach(h), NEW id \in PostIds, NEW op \in PostOps, NEW t, t = Flipped(h, id, op)
  PROVE  /\ OneEach(t)
         /\ \A p \in h : p.id # id => p \in t
         /\ \A p \in h : p.id = id => PostFlip(p, op) \in t
         /\ \E d \in t : d.id = id
         /\ \A d \in t : d.id = id => d \in SpacePost /\ \A p \in h : p.id = id => d = PostFlip(p, op)
<1>1. h \subseteq SpacePost /\ (\A p, q \in h : p.id = q.id => p = q) /\ \A n \in PostIds : \E p \in h : p.id = n
  BY DEF OneEach
<1>2. \A x \in t : \E p \in h : x = IF p.id = id THEN PostFlip(p, op) ELSE p
  BY DEF Flipped
<1>3. \A p \in h : (IF p.id = id THEN PostFlip(p, op) ELSE p) \in t
  BY DEF Flipped
<1>4. \A p \in h : PostFlip(p, op) \in SpacePost /\ PostFlip(p, op).id = p.id
  BY <1>1, FlipsPost
<1>5. \A p \in h : p.id # id => p \in t
  BY <1>3
<1>6. \A p \in h : p.id = id => PostFlip(p, op) \in t
  BY <1>3
<1>7. t \subseteq SpacePost
  BY <1>1, <1>2, <1>4
<1>8. \A d \in t : d.id = id => \A p \in h : p.id = id => d = PostFlip(p, op)
  BY <1>1, <1>2, <1>4
<1>9. \A x, y \in t : x.id = y.id => x = y
  BY <1>1, <1>2, <1>4
<1>10. \A n \in PostIds : \E x \in t : x.id = n
  BY <1>1, <1>4, <1>5, <1>6
<1>. QED BY <1>5, <1>6, <1>7, <1>8, <1>9, <1>10 DEF OneEach

\* What an answer makes of a post on display.
LEMMA PatchesPost ==
  ASSUME NEW p \in SpacePost, NEW op \in PostOps, NEW d \in SpacePost
  PROVE  LET x == PostPatched(p, op, d) IN
         /\ x \in SpacePost /\ x.id = p.id
         /\ p.id # d.id => x = p
         /\ p.id = d.id /\ op = "pin" => x = [p EXCEPT !.pinned = d.pinned]
         /\ p.id = d.id /\ op = "feature" => x = [p EXCEPT !.featured = d.featured]
         /\ p.id = d.id /\ op \in {"hide", "unhide"} => x = [p EXCEPT !.hidden = FALSE]
         /\ op \in {"pin", "feature"} => x.hidden = p.hidden
BY DEF PostPatched, PostOps, SpacePost

\* A patched post is the flipped one; a post to be shown was hidden.
LEMMA PatchIsFlip ==
  ASSUME NEW p \in SpacePost, NEW op \in PostOps, op # "hide", op = "unhide" => p.hidden, NEW d, d = PostFlip(p, op)
  PROVE  PostPatched(p, op, d) = d /\ (~p.hidden => ~d.hidden)
<1>1. /\ d \in SpacePost /\ d.id = p.id
      /\ op = "pin" => d = [p EXCEPT !.pinned = ~p.pinned]
      /\ op = "feature" => d = [p EXCEPT !.featured = ~p.featured]
      /\ op = "unhide" => d = [p EXCEPT !.hidden = ~p.hidden]
  BY FlipsPost
<1>2. op \in {"pin", "feature", "unhide"}
  BY DEF PostOps
<1>3. CASE op = "pin"
  BY <1>1, <1>3 DEF PostPatched, SpacePost
<1>4. CASE op = "feature"
  BY <1>1, <1>4 DEF PostPatched, SpacePost
<1>5. CASE op = "unhide"
  BY <1>1, <1>5 DEF PostPatched, SpacePost
<1>. QED BY <1>2, <1>3, <1>4, <1>5

\* An act that is answered keeps what its answer leads to in agreement.
LEMMA ActedPostsAgree ==
  ASSUME NEW h, OneEach(h), NEW b, NEW k \in BOOLEAN, PostsAgree(b, h, k), NEW c, c.op \in PostOps,
         c.arg \in PostIds, c.op = "unhide" => \A p \in h : p.id = c.arg => p.hidden,
         NEW t, t = Flipped(h, c.arg, c.op), c.ans.data \in t, c.ans.data.id = c.arg
  PROVE  ActedPosts(c, b.posts) \subseteq SpacePostsHeld(t, k)
<1>. DEFINE d == c.ans.data
<1>1. /\ h \subseteq SpacePost /\ b.posts \subseteq h
      /\ \A p \in b.posts : k \/ ~p.hidden
  BY DEF OneEach, PostsAgree, SpacePostsHeld
<1>2. /\ \A p \in h : p.id # c.arg => p \in t
      /\ d \in t /\ d.id = c.arg /\ d \in SpacePost
      /\ \A p \in h : p.id = c.arg => d = PostFlip(p, c.op)
  BY FlipsHeld
<1>3. CASE c.op = "hide"
  <2>1. ActedPosts(c, b.posts) = {p \in b.posts : p.id # c.arg}
    BY <1>3 DEF ActedPosts
  <2>. QED BY <2>1, <1>1, <1>2 DEF SpacePostsHeld
<1>4. CASE c.op # "hide"
  <2>1. ActedPosts(c, b.posts) = {PostPatched(p, c.op, d) : p \in b.posts}
    BY <1>4 DEF ActedPosts
  <2>2. ASSUME NEW p \in b.posts PROVE PostPatched(p, c.op, d) \in t /\ (k \/ ~PostPatched(p, c.op, d).hidden)
    <3>1. CASE p.id # c.arg
      <4>1. PostPatched(p, c.op, d) = p
        BY <3>1, <1>2 DEF PostPatched
      <4>. QED BY <4>1, <3>1, <1>1, <1>2
    <3>2. CASE p.id = c.arg
      <4>1. p \in SpacePost /\ d = PostFlip(p, c.op) /\ (c.op = "unhide" => p.hidden)
        BY <3>2, <1>1, <1>2
      <4>2. PostPatched(p, c.op, d) = d /\ (~p.hidden => ~d.hidden)
        BY <4>1, <1>4, PatchIsFlip
      <4>. QED BY <4>2, <1>1, <1>2
    <3>. QED BY <3>1, <3>2
  <2>. HIDE DEF d
  <2>. QED BY <2>1, <2>2 DEF SpacePostsHeld
<1>. QED BY <1>3, <1>4

\* The same for the featured ones.
LEMMA ActedFeaturedAgree ==
  ASSUME NEW h, OneEach(h), NEW b, NEW k \in BOOLEAN, PostsAgree(b, h, k), NEW c, c.op \in PostOps,
         c.arg \in PostIds, NEW t, t = Flipped(h, c.arg, c.op), c.ans.data \in t, c.ans.data.id = c.arg,
         NEW f, f = ActedFeatured(c, b.featured)
  PROVE  /\ f \in [PostIds -> Nat] /\ \A n \in PostIds : f[n] <= 1
         /\ \A n \in PostIds : f[n] = 1 => \E p \in t : p.id = n /\ p.featured
<1>. DEFINE d == c.ans.data
            g == b.featured
<1>1. /\ h \subseteq SpacePost /\ \A n \in PostIds : \E p \in h : p.id = n
      /\ g \in [PostIds -> Nat]
      /\ \A n \in PostIds : g[n] <= 1
      /\ \A n \in PostIds : g[n] = 1 => \E p \in h : p.id = n /\ p.featured
  BY DEF OneEach, PostsAgree
<1>2. /\ \A p \in h : p.id # c.arg => p \in t
      /\ \A p \in h : p.id = c.arg => PostFlip(p, c.op) \in t /\ d = PostFlip(p, c.op)
      /\ d \in t /\ d.id = c.arg /\ d \in SpacePost
  BY FlipsHeld
<1>3. /\ c.op = "hide" => f = [g EXCEPT ![c.arg] = 0]
      /\ c.op = "feature" => f = [g EXCEPT ![c.arg] = IF d.featured THEN g[c.arg] + 1 ELSE 0]
      /\ c.op \in {"pin", "unhide"} => f = g
  BY DEF ActedFeatured
<1>. HIDE DEF d, g
<1>4. c.op \in {"hide", "feature", "pin", "unhide"}
  BY DEF PostOps
<1>5. PICK q \in h : q.id = c.arg
  BY <1>1
<1>6. q \in SpacePost /\ d = PostFlip(q, c.op)
  BY <1>1, <1>2, <1>5
<1>7. c.op = "feature" => d.featured = ~q.featured
  BY <1>6, FlipsPost DEF SpacePost
<1>8. c.op \in {"pin", "unhide"} => d.featured = q.featured
  BY <1>6, FlipsPost DEF SpacePost
<1>9. c.op = "feature" /\ d.featured => g[c.arg] = 0
  <2>1. ASSUME c.op = "feature", d.featured, g[c.arg] = 1 PROVE FALSE
    <3>1. PICK p \in h : p.id = c.arg /\ p.featured
      BY <2>1, <1>1
    <3>2. p = q
      BY <3>1, <1>5 DEF OneEach
    <3>. QED BY <3>1, <3>2, <2>1, <1>7
  <2>2. g[c.arg] \in Nat /\ g[c.arg] <= 1
    BY <1>1
  <2>. QED BY <2>1, <2>2
<1>10. f \in [PostIds -> Nat]
  <2>1. CASE c.op = "feature"
    <3>1. (IF d.featured THEN g[c.arg] + 1 ELSE 0) \in Nat
      BY <1>1
    <3>. QED BY <3>1, <2>1, <1>1, <1>3
  <2>2. CASE c.op = "hide"
    <3>1. f = [g EXCEPT ![c.arg] = 0]
      BY <2>2, <1>3
    <3>. QED BY <3>1, <1>1
  <2>3. CASE c.op \in {"pin", "unhide"}
    <3>1. f = g
      BY <2>3, <1>3
    <3>. QED BY <3>1, <1>1
  <2>. QED BY <2>1, <2>2, <2>3, <1>4
<1>11. \A n \in PostIds : n # c.arg => f[n] = g[n]
  BY <1>1, <1>3, <1>4
<1>12. ASSUME NEW n \in PostIds, n # c.arg
       PROVE  f[n] <= 1 /\ (f[n] = 1 => \E p \in t : p.id = n /\ p.featured)
  BY <1>12, <1>11, <1>1, <1>2
<1>13. f[c.arg] <= 1 /\ (f[c.arg] = 1 => \E p \in t : p.id = c.arg /\ p.featured)
  <2>1. CASE c.op = "hide"
    <3>1. f[c.arg] = 0
      BY <2>1, <1>1, <1>3
    <3>. QED BY <3>1
  <2>2. CASE c.op = "feature"
    <3>1. CASE d.featured
      <4>1. f[c.arg] = 1
        <5>1. g[c.arg] + 1 = 1
          BY <3>1, <2>2, <1>9
        <5>. QED BY <5>1, <3>1, <2>2, <1>1, <1>3
      <4>. QED BY <4>1, <3>1, <1>2
    <3>2. CASE ~d.featured
      <4>1. f[c.arg] = 0
        BY <3>2, <2>2, <1>1, <1>3
      <4>. QED BY <4>1
    <3>. QED BY <3>1, <3>2
  <2>3. CASE c.op \in {"pin", "unhide"}
    <3>1. f[c.arg] = g[c.arg]
      BY <2>3, <1>3
    <3>2. ASSUME g[c.arg] = 1 PROVE d.featured
      <4>1. PICK p \in h : p.id = c.arg /\ p.featured
        BY <3>2, <1>1
      <4>2. p = q
        BY <4>1, <1>5 DEF OneEach
      <4>. QED BY <4>1, <4>2, <2>3, <1>8
    <3>. QED BY <3>1, <3>2, <1>1, <1>2
  <2>. QED BY <2>1, <2>2, <2>3, <1>4
<1>. QED BY <1>10, <1>12, <1>13

\* What acts keep of the lists.
LEMMA ActsKeepType ==
  ASSUME NEW c, c.op \in PostOps, c.arg \in PostIds, c.ans.data \in SpacePost, c.ans.data.id = c.arg,
         NEW ps, ps \subseteq SpacePost, \A p, q \in ps : p.id = q.id => p = q,
         NEW f \in [PostIds -> Nat]
  PROVE  /\ ActedPosts(c, ps) \subseteq SpacePost
         /\ \A p, q \in ActedPosts(c, ps) : p.id = q.id => p = q
         /\ ActedFeatured(c, f) \in [PostIds -> Nat]
         /\ \A x \in ActedPosts(c, ps) : \E p \in ps :
              /\ x.id = p.id /\ (c.op = "hide" => p.id # c.arg)
              /\ p.id # c.arg \/ c.op \in {"pin", "feature"} => x.hidden = p.hidden
<1>1. CASE c.op = "hide"
  <2>1. ActedPosts(c, ps) = {p \in ps : p.id # c.arg}
    BY <1>1 DEF ActedPosts
  <2>. HIDE DEF ActedPosts
  <2>2. ActedFeatured(c, f) \in [PostIds -> Nat]
    BY <1>1 DEF ActedFeatured
  <2>. QED BY <2>1, <2>2, <1>1
<1>2. CASE c.op # "hide"
  <2>. DEFINE d == c.ans.data
              S == ActedPosts(c, ps)
  <2>1. S = {PostPatched(p, c.op, d) : p \in ps}
    BY <1>2 DEF ActedPosts
  <2>2. \A p \in ps : /\ PostPatched(p, c.op, d) \in SpacePost /\ PostPatched(p, c.op, d).id = p.id
                      /\ p.id # c.arg \/ c.op \in {"pin", "feature"} => PostPatched(p, c.op, d).hidden = p.hidden
    <3>1. TAKE p \in ps
    <3>2. p \in SpacePost /\ d \in SpacePost /\ d.id = c.arg
      OBVIOUS
    <3>. HIDE DEF d
    <3>3. PostPatched(p, c.op, d) \in SpacePost /\ PostPatched(p, c.op, d).id = p.id
      <4>1. \A op \in PostOps : PostPatched(p, op, d) \in SpacePost /\ PostPatched(p, op, d).id = p.id
        BY <3>2, PatchesPost
      <4>. QED BY <4>1
    <3>4. ASSUME p.id # c.arg PROVE PostPatched(p, c.op, d) = p
      BY <3>4, <3>2 DEF PostPatched
    <3>5. ASSUME c.op \in {"pin", "feature"} PROVE PostPatched(p, c.op, d).hidden = p.hidden
      BY <3>5, <3>2, PatchesPost
    <3>. QED BY <3>3, <3>4, <3>5
  <2>3. ActedFeatured(c, f) \in [PostIds -> Nat]
    <3>1. CASE c.op = "feature"
      <4>1. f[c.arg] + 1 \in Nat
        OBVIOUS
      <4>. QED BY <4>1, <3>1 DEF ActedFeatured
    <3>2. CASE c.op # "feature"
      BY <3>2, <1>2 DEF ActedFeatured
    <3>. QED BY <3>1, <3>2
  <2>. HIDE DEF d, S
  <2>4. \A x \in S : \E p \in ps : x = PostPatched(p, c.op, d)
    BY <2>1
  <2>5. /\ S \subseteq SpacePost /\ \A x, y \in S : x.id = y.id => x = y
        /\ \A x \in S : \E p \in ps : x.id = p.id /\ (p.id # c.arg \/ c.op \in {"pin", "feature"} => x.hidden = p.hidden)
    BY <2>2, <2>4
  <2>. QED BY <2>3, <2>5, <1>2 DEF S
<1>. QED BY <1>1, <1>2
------------------------------------------------------------------------------
\* Another key is chosen.
LEMMA PostKeyChosen ==
  ASSUME PostsState, NEW k \in BOOLEAN, SetPostKey(k) PROVE PostsState'
<1>. DEFINE c == FetchPosts(k)
            s == [ui EXCEPT !.key = k, !.loading = TRUE, !.fetching = TRUE]
<1>1. IsCall(c) /\ c.op = "posts" /\ c.op \in PostsOps /\ c.ans = Pending /\ c.arg = k
  BY NewCalls DEF PostsOps, FetchPosts
<1>2. /\ ~mishap /\ ui' = s /\ page' = page /\ srv' = srv /\ mishap' = ui.fetching
      /\ net' = IF ui.fetching THEN net ELSE Append(net, c)
  BY DEF SetPostKey
<1>3. Append(net, c) = net \o <<c>>
  OBVIOUS
<1>4. Queue(PostsOps) /\ PostsGo(net, ui, srv)
  BY <1>2 DEF PostsState
<1>5. /\ DOMAIN s = PostsFields /\ s.key = k /\ s.posts = ui.posts /\ s.featured = ui.featured
      /\ s.fetching /\ s.loading
  BY <1>4 DEF PostsGo, PostsTyped, PostsFields
<1>. HIDE DEF c, s
<1>6. CASE ui.fetching
  <2>1. net' = net /\ mishap' = TRUE
    BY <1>2, <1>6
  <2>. QED BY <1>4, <2>1 DEF PostsState, Queue, Calls
<1>7. CASE ~ui.fetching
  <2>1. NewOnes(<<c>>, PostsOps) /\ Len(<<c>>) = 1 /\ <<c>>[1] = c
    BY <1>1, NewOne
  <2>2. net' = net \o <<c>>
    BY <1>2, <1>3, <1>7
  <2>3. mishap' = FALSE
    BY <1>2, <1>7
  <2>4. Begun(PostsOps, s, <<c>>)
    BY <1>2, <1>4, <2>1, <2>2, <2>3, Begins
  <2>5. /\ Queue(PostsOps)' /\ Len(net') = Len(net) + 1 /\ Len(net) \in Nat
        /\ \A j \in 1..Len(net) : net'[j] = net[j]
        /\ net'[Len(net')] = c /\ Len(net') > 0
    BY <2>4, <2>1 DEF Begun
  <2>6. PostsTyped(ui, srv) /\ ActsTyped(net) /\ PostsThere(net, ui, srv)
    BY <1>4, <1>7 DEF PostsGo, PostsToCome
  <2>7. \A j \in 1..Len(net') : j # Len(net') => j \in 1..Len(net) /\ net'[j] = net[j]
    BY <2>5
  <2>8. PostsTyped(s, srv)
    BY <2>6, <1>5 DEF PostsTyped
  <2>9. ActsTyped(net')
    <3>1. ASSUME NEW j \in 1..Len(net'), net'[j].op \in PostOps PROVE j # Len(net')
      BY <3>1, <2>5, <1>1 DEF PostOps
    <3>. QED BY <3>1, <2>6, <2>7 DEF ActsTyped
  <2>10. \A j \in 1..Len(net') : j # Len(net') => net'[j].op # "posts"
    BY <2>6, <2>7 DEF PostsThere
  <2>11. PostsToCome(net', s, srv)
    BY <2>5, <2>10, <1>1, <1>5 DEF PostsToCome
  <2>. QED BY <2>5, <2>8, <2>9, <2>11, <1>2 DEF PostsState, PostsGo
<1>. QED BY <1>6, <1>7

\* A post is hidden in what the acts lead to if no call is to hide it or to
\* show it.
LEMMA StaysHidden ==
  ASSUME NEW q, Len(q) \in Nat, \A k \in 1..Len(q) : q[k].op \in PostOps, ActsTyped(q),
         NEW p \in SpacePost, p.hidden,
         \A k \in 1..Len(q) : q[k].op \in {"hide", "unhide"} => q[k].arg # p.id,
         NEW u, u.posts \subseteq SpacePost, p \in u.posts,
         NEW b, ActsReplay!Leads(q, ActsView(u), b)
  PROVE  \E x \in b.posts : x.id = p.id /\ x.hidden
<1>. DEFINE H(v) == v.posts \subseteq SpacePost /\ \E x \in v.posts : x.id = p.id /\ x.hidden
<1>1. PICK w : ActsReplay!Walk(q, Len(q), ActsView(u), w) /\ w[Len(q)] = b
  BY DEF ActsReplay!Leads
<1>. DEFINE S == {k \in 0..Len(q) : H(w[k])}
<1>2. 0 \in S
  <2>1. w[0] = ActsView(u)
    BY <1>1 DEF ActsReplay!Walk
  <2>2. w[0].posts = u.posts
    BY <2>1 DEF ActsView
  <2>3. H(w[0])
    BY <2>2
  <2>. QED BY <2>3
<1>3. ASSUME NEW k \in 1..Len(q), k - 1 \in S PROVE k \in S
  <2>. DEFINE v == w[k - 1]
              c == q[k]
  <2>1. w[k] = IF c.ans = Pending THEN v ELSE ActsAfter(c, v)
    BY <1>1 DEF ActsReplay!Walk, ActsReplay!Step
  <2>2. H(v)
    BY <1>3
  <2>3. CASE c.ans = Pending
    BY <2>1, <2>2, <2>3
  <2>4. CASE c.ans # Pending
    <3>1. w[k].posts = ActedPosts(c, v.posts)
      BY <2>1, <2>4 DEF ActsAfter
    <3>2. c.op \in PostOps /\ c.arg \in PostIds /\ c.ans.data \in SpacePost /\ c.ans.data.id = c.arg
      BY <2>4 DEF ActsTyped
    <3>3. PICK x \in v.posts : x.id = p.id /\ x.hidden
      BY <2>2
    <3>4. x \in SpacePost /\ (c.op \in {"hide", "unhide"} => x.id # c.arg)
      BY <2>2, <3>3
    <3>. HIDE DEF c, v
    <3>5. ActedPosts(c, v.posts) \subseteq SpacePost
      <4>1. \A y \in v.posts : PostPatched(y, c.op, c.ans.data) \in SpacePost
        <5>1. \A y \in SpacePost : \A o \in PostOps : PostPatched(y, o, c.ans.data) \in SpacePost
          BY <3>2, PatchesPost
        <5>. QED BY <5>1, <3>2, <2>2
      <4>2. \A y \in v.posts : y \in SpacePost
        BY <2>2
      <4>3. CASE c.op = "hide"
        BY <4>2, <4>3 DEF ActedPosts
      <4>4. CASE c.op # "hide"
        BY <4>1, <4>4 DEF ActedPosts
      <4>. QED BY <4>3, <4>4
    <3>6. \E y \in ActedPosts(c, v.posts) : y.id = p.id /\ y.hidden
      <4>1. CASE c.op = "hide"
        <5>1. x \in ActedPosts(c, v.posts)
          BY <3>4, <4>1 DEF ActedPosts
        <5>. QED BY <5>1, <3>3
      <4>2. CASE c.op # "hide"
        <5>1. PostPatched(x, c.op, c.ans.data) \in ActedPosts(c, v.posts)
          BY <4>2 DEF ActedPosts
        <5>2. PostPatched(x, c.op, c.ans.data).id = x.id
          BY <3>2, <3>4, PatchesPost
        <5>3. PostPatched(x, c.op, c.ans.data).hidden = x.hidden
          <6>1. CASE x.id # c.arg
            <7>1. PostPatched(x, c.op, c.ans.data) = x
              BY <6>1, <3>2 DEF PostPatched
            <7>. QED BY <7>1
          <6>2. CASE x.id = c.arg
            <7>1. c.op \in {"pin", "feature"}
              BY <6>2, <3>2, <3>4 DEF PostOps
            <7>. QED BY <7>1, <3>4 DEF PostPatched, SpacePost
          <6>. QED BY <6>1, <6>2
        <5>. QED BY <5>1, <5>2, <5>3, <3>3
      <4>. QED BY <4>1, <4>2
    <3>. QED BY <3>1, <3>5, <3>6
  <2>. QED BY <2>3, <2>4
<1>4. H(w[Len(q)])
  <2>. HIDE DEF S
  <2>1. \A k \in 0..Len(q) : k \in S
    BY <1>2, <1>3, ActsReplay!Reaches
  <2>2. Len(q) \in S
    BY <2>1
  <2>. QED BY <2>2 DEF S
<1>. QED BY <1>1, <1>4

\* A post on display is acted on.
LEMMA PostIsActedOn ==
  ASSUME PostsState, NEW op \in PostOps, NEW p \in ui.posts, PostAct(op, p) PROVE PostsState'
<1>. DEFINE c == Fetch(op, p.id)
            again == op \in {"hide", "unhide"} /\ \E i \in DOMAIN net : net[i].op = op /\ net[i].arg = p.id
<1>1. IsCall(c) /\ c.op = op /\ c.ans = Pending /\ c.arg = p.id
  BY NewCalls
<1>2. /\ ~mishap /\ ~ui.loading /\ op \in PostActs(p)
      /\ ui' = ui /\ page' = page /\ srv' = srv /\ mishap' = again /\ net' = Append(net, c)
  BY DEF PostAct
<1>3. Append(net, c) = net \o <<c>> /\ again \in BOOLEAN
  OBVIOUS
<1>4. ~again /\ op \in {"hide", "unhide"} => \A i \in DOMAIN net : ~(net[i].op = op /\ net[i].arg = p.id)
  OBVIOUS
<1>5. Queue(PostsOps) /\ PostsTyped(ui, srv) /\ ActsTyped(net) /\ PostsThere(net, ui, srv)
  BY <1>2 DEF PostsState, PostsGo, PostsToCome
<1>6. /\ p \in SpacePost /\ p.id \in PostIds
      /\ op = "hide" => ~p.hidden
      /\ op = "unhide" => p.hidden
  BY <1>2, <1>5 DEF PostActs, PostsTyped, SpacePost
<1>7. /\ ~ui.fetching /\ ui.of = ui.key
      /\ \A k \in 1..Len(net) : net[k].op # "posts"
      /\ ActsFit(net, ui, srv) /\ PostsLead(net, ui, srv)
  BY <1>5 DEF PostsThere
<1>8. Len(net) \in Nat /\ \A k \in 1..Len(net) : net[k].op \in PostOps /\ k \in DOMAIN net
  BY <1>5, <1>7 DEF Queue, Calls, PostsOps, PostOps
<1>. HIDE DEF c, again
<1>9. NewOnes(<<c>>, PostsOps) /\ Len(<<c>>) = 1 /\ <<c>>[1] = c
  BY <1>1, NewOne DEF PostsOps, PostOps
<1>10. Begun(PostsOps, ui, <<c>>)
  BY <1>2, <1>3, <1>5, <1>9, Begins
<1>11. /\ Queue(PostsOps)' /\ Len(net') = Len(net) + 1
       /\ \A k \in 1..Len(net) : net'[k] = net[k]
       /\ net'[Len(net')] = c /\ Grown(net, net')
  BY <1>8, <1>9, <1>10 DEF Begun
<1>12. \A k \in 1..Len(net') : k = Len(net') \/ (k # Len(net') /\ k \in 1..Len(net) /\ net'[k] = net[k])
  BY <1>8, <1>11
<1>13. ASSUME ~mishap' PROVE PostsGo(net', ui, srv)
  <2>1. op \in {"hide", "unhide"} => \A k \in 1..Len(net) : ~(net[k].op = op /\ net[k].arg = p.id)
    BY <1>2, <1>4, <1>8, <1>13
  <2>2. ActsTyped(net')
    BY <1>1, <1>5, <1>6, <1>11, <1>12 DEF ActsTyped
  <2>3. /\ \A k \in 1..Len(net) : net[k].op = "hide" => \A x \in ui.posts : x.id = net[k].arg => ~x.hidden
        /\ \A k \in 1..Len(net) : net[k].op = "unhide" => \A x \in ui.posts : x.id = net[k].arg => x.hidden
        /\ \A k \in 1..Len(net) : net[k].op = "unhide" /\ net[k].ans = Pending => \A x \in srv : x.id = net[k].arg => x.hidden
        /\ \A j, k \in 1..Len(net) : net[j].op \in {"hide", "unhide"} /\ net[k].op = "unhide" /\ net[j].arg = net[k].arg => j = k
    BY <1>7 DEF ActsFit
  <2>4. op \in {"hide", "unhide"} => \A k \in 1..Len(net) :
          (net[k].op = "unhide" => net[k].arg # p.id) /\ (op = "unhide" /\ net[k].op = "hide" => net[k].arg # p.id)
    BY <1>6, <2>1, <2>3
  <2>5. \A x \in ui.posts : x.id = p.id => x = p
    BY <1>5 DEF PostsTyped
  <2>6. ASSUME op = "unhide" PROVE \A x \in srv : x.id = p.id => x.hidden
    <3>1. PICK b : ActsReplay!Leads(net, ActsView(ui), b) /\ PostsAgree(b, srv, ui.key)
      BY <1>7 DEF PostsLead
    <3>2. \A k \in 1..Len(net) : net[k].op \in {"hide", "unhide"} => net[k].arg # p.id
      BY <2>4, <2>6
    <3>3. p.hidden /\ ui.posts \subseteq SpacePost
      BY <1>5, <1>6, <2>6 DEF PostsTyped
    <3>4. PICK x \in b.posts : x.id = p.id /\ x.hidden
      BY <1>5, <1>6, <1>8, <3>1, <3>2, <3>3, StaysHidden
    <3>5. x \in srv /\ OneEach(srv)
      BY <1>5, <3>1, <3>4 DEF PostsAgree, SpacePostsHeld, PostsTyped
    <3>6. \A y \in srv : y.id = p.id => y = x
      BY <3>4, <3>5 DEF OneEach
    <3>. QED BY <3>4, <3>6
  <2>7. ActsFit(net', ui, srv)
    <3>1. ASSUME NEW k \in 1..Len(net'), net'[k].op = "hide", NEW x \in ui.posts, x.id = net'[k].arg PROVE ~x.hidden
      BY <3>1, <1>1, <1>6, <1>11, <1>12, <2>3, <2>5
    <3>2. ASSUME NEW k \in 1..Len(net'), net'[k].op = "unhide", NEW x \in ui.posts, x.id = net'[k].arg PROVE x.hidden
      BY <3>2, <1>1, <1>6, <1>11, <1>12, <2>3, <2>5
    <3>3. ASSUME NEW k \in 1..Len(net'), net'[k].op = "unhide", net'[k].ans = Pending, NEW x \in srv, x.id = net'[k].arg
          PROVE  x.hidden
      BY <3>3, <1>1, <1>11, <1>12, <2>3, <2>6
    <3>4. ASSUME NEW j \in 1..Len(net'), NEW k \in 1..Len(net'), net'[j].op \in {"hide", "unhide"}, net'[k].op = "unhide",
                 net'[j].arg = net'[k].arg
          PROVE  j = k
      <4>1. CASE j = Len(net') /\ k = Len(net')
        BY <4>1
      <4>2. CASE j = Len(net') /\ k # Len(net')
        <5>1. k \in 1..Len(net) /\ net'[k] = net[k] /\ net'[j] = c
          BY <4>2, <1>11, <1>12
        <5>. QED BY <5>1, <3>4, <1>1, <2>4
      <4>3. CASE j # Len(net') /\ k = Len(net')
        <5>1. j \in 1..Len(net) /\ net'[j] = net[j] /\ net'[k] = c
          BY <4>3, <1>11, <1>12
        <5>. QED BY <5>1, <3>4, <1>1, <2>4
      <4>4. CASE j # Len(net') /\ k # Len(net')
        <5>1. j \in 1..Len(net) /\ net'[j] = net[j] /\ k \in 1..Len(net) /\ net'[k] = net[k]
          BY <4>4, <1>12
        <5>. QED BY <5>1, <3>4, <2>3
      <4>. QED BY <4>1, <4>2, <4>3, <4>4
    <3>. QED BY <3>1, <3>2, <3>3, <3>4 DEF ActsFit
  <2>8. PostsLead(net', ui, srv)
    <3>1. PICK b : ActsReplay!Leads(net, ActsView(ui), b) /\ PostsAgree(b, srv, ui.key)
      BY <1>7 DEF PostsLead
    <3>2. ActsReplay!Leads(net', ActsView(ui), b)
      BY <1>11, <3>1, ActsReplay!LeadsGrow DEF Grown
    <3>. QED BY <3>1, <3>2 DEF PostsLead
  <2>9. \A k \in 1..Len(net') : net'[k].op # "posts"
    BY <1>1, <1>7, <1>11, <1>12 DEF PostOps
  <2>. QED BY <1>5, <1>7, <2>2, <2>7, <2>8, <2>9 DEF PostsGo, PostsThere
<1>. QED BY <1>2, <1>11, <1>13 DEF PostsState

\* The lists are fetched.
LEMMA PostsAreServed ==
  ASSUME PostsState, NEW i \in 1..Len(net), PostsServed(i) PROVE PostsState'
<1>. DEFINE v == [posts |-> SpacePostsHeld(srv, net[i].arg), featured |-> FeaturedHeld(srv)]
            w == Ok([posts |-> SpacePostsHeld(srv, net[i].arg), featured |-> Unfeatured])
<1>1. net[i].op = "posts" /\ net[i].ans = Pending
  BY DEF PostsServed, Asked
<1>2. \/ Reply(i, v, srv)
      \/ net' = [net EXCEPT ![i].ans = w] /\ mishap' = TRUE /\ page' = page /\ ui' = ui /\ srv' = srv
  BY DEF PostsServed
<1>. HIDE DEF v, w
<1>3. CASE Reply(i, v, srv)
  <2>1. Replied(PostsOps, i, v, srv)
    BY <1>3, Replies DEF PostsState
  <2>2. /\ Queue(PostsOps)' /\ ui' = ui /\ srv' = srv /\ page' = page
        /\ Len(net') = Len(net) /\ Len(net) \in Nat
        /\ \A k \in 1..Len(net) : k # i => net'[k] = net[k]
        /\ net'[i].op = "posts" /\ net'[i].arg = net[i].arg
    BY <1>1, <2>1 DEF Replied
  <2>3. ASSUME ~mishap' PROVE PostsGo(net', ui, srv)
    <3>1. ~mishap /\ net'[i].ans = Ok(v)
      BY <2>1, <2>3, RepliedNext
    <3>2. PostsTyped(ui, srv) /\ ActsTyped(net) /\ PostsToCome(net, ui, srv)
      BY <3>1, <1>1 DEF PostsState, PostsGo, PostsThere
    <3>3. i = Len(net) /\ net[i].arg = ui.key
      BY <3>2, <1>1 DEF PostsToCome
    <3>4. ActsTyped(net')
      BY <2>2, <3>2 DEF ActsTyped, PostOps
    <3>5. net'[i].ans.data = [posts |-> SpacePostsHeld(srv, ui.key), featured |-> FeaturedHeld(srv)]
      BY <3>1, <3>3 DEF v, Ok
    <3>6. PostsToCome(net', ui, srv)
      BY <2>2, <3>2, <3>3, <3>5 DEF PostsToCome
    <3>. QED BY <3>2, <3>4, <3>6 DEF PostsGo
  <2>. QED BY <2>2, <2>3 DEF PostsState
<1>4. CASE net' = [net EXCEPT ![i].ans = w] /\ mishap' = TRUE /\ page' = page /\ ui' = ui /\ srv' = srv
  <2>1. net' = Answer(net, i, w)
    BY <1>4 DEF Answer
  <2>2. Calls(net, PostsOps)
    BY DEF PostsState, Queue
  <2>3. Calls(net', PostsOps)
    BY <2>1, <2>2, CallAnswered
  <2>. QED BY <2>3, <1>4 DEF PostsState, Queue
<1>. QED BY <1>2, <1>3, <1>4

\* An act is answered.
LEMMA PostActIsServed ==
  ASSUME PostsState, NEW i \in 1..Len(net), PostActServed(i) PROVE PostsState'
<1>. DEFINE op == net[i].op
            id == net[i].arg
            t == Flipped(srv, id, op)
            d == CHOOSE p \in t : p.id = id
<1>1. op \in PostOps /\ net[i].ans = Pending /\ Reply(i, d, t)
  BY DEF PostActServed, Asked, Flipped
<1>. HIDE DEF t, d
<1>2. Replied(PostsOps, i, d, t)
  BY <1>1, Replies DEF PostsState
<1>3. /\ Queue(PostsOps)' /\ ui' = ui /\ srv' = t /\ page' = page
      /\ Len(net') = Len(net) /\ Len(net) \in Nat
      /\ \A k \in 1..Len(net) : k # i => net'[k] = net[k]
      /\ net'[i].op = op /\ net'[i].arg = id
  BY <1>2 DEF Replied
<1>4. ASSUME ~mishap' PROVE PostsGo(net', ui, t)
  <2>1. AnsweredNext(net, net', i) /\ ~mishap /\ net'[i].ans = Ok(d) /\ net'[i].ans.data = d
    BY <1>2, <1>4, RepliedNext DEF Ok
  <2>2. PostsTyped(ui, srv) /\ ActsTyped(net) /\ (PostsToCome(net, ui, srv) \/ PostsThere(net, ui, srv))
    BY <2>1 DEF PostsState, PostsGo
  <2>3. OneEach(srv) /\ id \in PostIds
    BY <1>1, <2>2 DEF PostsTyped, ActsTyped
  <2>4. /\ OneEach(t)
        /\ \A p \in srv : p.id # id => p \in t
        /\ \E p \in t : p.id = id
        /\ \A p \in t : p.id = id => p \in SpacePost
    BY <1>1, <2>3, FlipsHeld DEF t
  <2>5. d \in t /\ d.id = id /\ d \in SpacePost
    BY <2>4 DEF d
  <2>6. \A x \in t : \E p \in srv : x = IF p.id = id THEN PostFlip(p, op) ELSE p
    BY DEF t, Flipped
  <2>7. PostsTyped(ui, t)
    BY <2>2, <2>4 DEF PostsTyped
  <2>8. ActsTyped(net')
    <3>. SUFFICES ASSUME NEW k \in 1..Len(net'), net'[k].op \in PostOps
                  PROVE  /\ net'[k].arg \in PostIds
                         /\ net'[k].ans # Pending => net'[k].ans.data \in SpacePost /\ net'[k].ans.data.id = net'[k].arg
      BY DEF ActsTyped
    <3>1. CASE k = i
      BY <3>1, <1>3, <2>1, <2>3, <2>5
    <3>2. CASE k # i
      BY <3>2, <1>3, <2>2 DEF ActsTyped
    <3>. QED BY <3>1, <3>2
  <2>9. CASE PostsToCome(net, ui, srv)
    <3>1. net[Len(net)].op = "posts" /\ Len(net) > 0
      BY <2>9 DEF PostsToCome
    <3>2. i # Len(net) /\ Len(net) \in i..Len(net) /\ Len(net) \in 1..Len(net)
      BY <3>1, <1>1, <1>3 DEF PostOps
    <3>3. net'[Len(net)] = net[Len(net)] /\ net[Len(net)].ans = Pending
      BY <3>2, <1>3, <2>1 DEF AnsweredNext
    <3>4. \A k \in 1..Len(net') : k # Len(net') => net'[k].op # "posts"
      BY <2>9, <1>1, <1>3 DEF PostsToCome, PostOps
    <3>5. PostsToCome(net', ui, t)
      BY <2>9, <3>3, <3>4, <1>3 DEF PostsToCome
    <3>. QED BY <2>7, <2>8, <3>5 DEF PostsGo
  <2>10. CASE PostsThere(net, ui, srv)
    <3>1. /\ \A k \in 1..Len(net) : net[k].op # "posts"
          /\ ActsFit(net, ui, srv) /\ PostsLead(net, ui, srv)
      BY <2>10 DEF PostsThere
    <3>2. /\ \A k \in 1..Len(net) : net[k].op = "hide" => \A x \in ui.posts : x.id = net[k].arg => ~x.hidden
          /\ \A k \in 1..Len(net) : net[k].op = "unhide" => \A x \in ui.posts : x.id = net[k].arg => x.hidden
          /\ \A k \in 1..Len(net) : net[k].op = "unhide" /\ net[k].ans = Pending => \A x \in srv : x.id = net[k].arg => x.hidden
          /\ \A j, k \in 1..Len(net) : net[j].op \in {"hide", "unhide"} /\ net[k].op = "unhide" /\ net[j].arg = net[k].arg => j = k
      BY <3>1 DEF ActsFit
    <3>3. \A k \in 1..Len(net) : net'[k].op = net[k].op /\ net'[k].arg = net[k].arg
      BY <1>3
    <3>4. ASSUME NEW k \in 1..Len(net), net'[k].op = "unhide", net'[k].ans = Pending, NEW x \in t, x.id = net[k].arg
          PROVE  x.hidden
      <4>1. k # i /\ net[k].op = "unhide" /\ net[k].ans = Pending
        BY <3>4, <2>1, <1>3 DEF Ok, Pending
      <4>2. PICK p \in srv : x = IF p.id = id THEN PostFlip(p, op) ELSE p
        BY <2>6
      <4>3. p \in SpacePost
        BY <2>3 DEF OneEach
      <4>4. CASE p.id # id
        BY <4>1, <4>2, <4>4, <3>2, <3>4
      <4>5. CASE p.id = id
        <5>1. x = PostFlip(p, op) /\ x.id = p.id
          BY <4>2, <4>3, <4>5, <1>1, FlipsPost
        <5>2. op \notin {"hide", "unhide"}
          BY <5>1, <4>1, <4>5, <3>2, <3>4
        <5>3. x.hidden = p.hidden
          BY <5>1, <5>2, <4>3, <1>1 DEF PostFlip, PostOps, SpacePost
        <5>4. p.hidden
          BY <5>1, <4>1, <3>2, <3>4
        <5>. QED BY <5>3, <5>4
      <4>. QED BY <4>4, <4>5
    <3>5. ActsFit(net', ui, t)
      BY <1>3, <3>2, <3>3, <3>4 DEF ActsFit
    <3>6. PICK b : ActsReplay!Leads(net, ActsView(ui), b) /\ PostsAgree(b, srv, ui.key)
      BY <3>1 DEF PostsLead
    <3>7. ActsReplay!Leads(net', ActsView(ui), ActsAfter(net'[i], b))
      BY <2>1, <3>6, ActsReplay!LeadsAnswered DEF AnsweredNext
    <3>8. PostsAgree(ActsAfter(net'[i], b), t, ui.key)
      <4>. DEFINE c == net'[i]
      <4>1. /\ c.op \in PostOps /\ c.arg \in PostIds /\ c.ans.data \in t /\ c.ans.data.id = c.arg
            /\ t = Flipped(srv, c.arg, c.op) /\ ui.key \in BOOLEAN
            /\ c.op = "unhide" => \A p \in srv : p.id = c.arg => p.hidden
        BY <1>1, <1>3, <2>1, <2>2, <2>3, <2>5, <3>2 DEF PostsTyped, t
      <4>. HIDE DEF c
      <4>2. ActedPosts(c, b.posts) \subseteq SpacePostsHeld(t, ui.key)
        BY <4>1, <2>3, <3>6, ActedPostsAgree
      <4>3. LET f == ActedFeatured(c, b.featured) IN
              /\ f \in [PostIds -> Nat] /\ \A n \in PostIds : f[n] <= 1
              /\ \A n \in PostIds : f[n] = 1 => \E p \in t : p.id = n /\ p.featured
        BY <4>1, <2>3, <3>6, ActedFeaturedAgree
      <4>. QED BY <4>2, <4>3 DEF PostsAgree, ActsAfter, c
    <3>9. \A k \in 1..Len(net') : net'[k].op # "posts"
      BY <3>1, <3>3, <1>3
    <3>10. PostsLead(net', ui, t)
      BY <3>7, <3>8 DEF PostsLead
    <3>11. PostsThere(net', ui, t)
      BY <2>10, <3>5, <3>9, <3>10 DEF PostsThere
    <3>. QED BY <2>7, <2>8, <3>11 DEF PostsGo
  <2>. QED BY <2>2, <2>9, <2>10
<1>. QED BY <1>3, <1>4 DEF PostsState

\* The service's lists agree with it.
LEMMA HeldAgrees ==
  ASSUME NEW h, OneEach(h), NEW k \in BOOLEAN, NEW b, b.posts = SpacePostsHeld(h, k), b.featured = FeaturedHeld(h)
  PROVE  PostsAgree(b, h, k)
<1>1. b.featured = [n \in PostIds |-> IF \E p \in h : p.id = n /\ p.featured /\ ~p.hidden THEN 1 ELSE 0]
  BY DEF FeaturedHeld
<1>2. b.featured \in [PostIds -> Nat] /\ \A n \in PostIds : b.featured[n] <= 1
  BY <1>1
<1>3. \A n \in PostIds : b.featured[n] = 1 => \E p \in h : p.id = n /\ p.featured
  BY <1>1
<1>. QED BY <1>2, <1>3 DEF PostsAgree

\* The fetched lists are shown.
LEMMA PostsAreFetched ==
  ASSUME PostsState, NEW i \in 1..Len(net), PostsFetched(i) PROVE PostsState'
<1>. DEFINE done == [ui EXCEPT !.loading = FALSE, !.fetching = FALSE]
            full == [done EXCEPT !.of = net[i].arg, !.posts = Data(i).posts, !.featured = Data(i).featured]
            s == IF IsOk(i) THEN full ELSE done
<1>1. net[i].op = "posts" /\ net[i].ans # Pending /\ Settle(i, s, << >>)
  BY DEF PostsFetched, Answered
<1>2. DOMAIN ui = PostsFields =>
        /\ DOMAIN full = PostsFields /\ full.key = ui.key /\ full.of = net[i].arg
        /\ full.posts = Data(i).posts /\ full.featured = Data(i).featured
        /\ ~full.fetching
  BY DEF PostsFields
<1>3. IsOk(i) => s = full
  OBVIOUS
<1>. HIDE DEF done, full, s
<1>4. NewOnes(<< >>, PostsOps) /\ Len(<< >>) = 0
  BY NewNone
<1>5. Finished(PostsOps, i, s, << >>)
  BY <1>1, <1>4, SettleFinishes DEF PostsState
<1>6. /\ Queue(PostsOps)' /\ ui' = s /\ srv' = srv /\ page' = page
      /\ Len(net') = Len(net) - 1 /\ Len(net) \in Nat
      /\ ~mishap' => ~mishap /\ i = 1 /\ IsOk(1)
  BY <1>4, <1>5 DEF Finished, PostsState, Queue
<1>7. ASSUME ~mishap' PROVE PostsGo(net', s, srv)
  <2>1. PostsTyped(ui, srv) /\ PostsToCome(net, ui, srv) /\ i = 1 /\ s = full
    BY <1>1, <1>3, <1>6, <1>7 DEF PostsState, PostsGo, PostsThere
  <2>2. Len(net) = 1 /\ net[i].arg = ui.key /\ Data(i) = [posts |-> SpacePostsHeld(srv, ui.key), featured |-> FeaturedHeld(srv)]
    BY <1>1, <1>6, <2>1 DEF PostsToCome, Data
  <2>3. /\ DOMAIN s = PostsFields /\ s.key = ui.key /\ s.of = ui.key /\ ~s.fetching
        /\ s.posts = SpacePostsHeld(srv, ui.key) /\ s.featured = FeaturedHeld(srv)
    BY <1>2, <2>1, <2>2 DEF PostsTyped
  <2>4. Len(net') = 0 /\ 1..Len(net') = {}
    BY <1>6, <2>2
  <2>5. OneEach(srv) /\ ui.key \in BOOLEAN
    BY <2>1 DEF PostsTyped
  <2>6. PostsAgree(ActsView(s), srv, s.key)
    <3>1. ActsView(s).posts = SpacePostsHeld(srv, ui.key) /\ ActsView(s).featured = FeaturedHeld(srv)
      BY <2>3 DEF ActsView
    <3>. QED BY <2>3, <2>5, <3>1, HeldAgrees
  <2>7. PostsTyped(s, srv)
    <3>1. s.featured \in [PostIds -> Nat]
      BY <2>6 DEF PostsAgree, ActsView
    <3>2. s.posts \subseteq srv
      BY <2>3 DEF SpacePostsHeld
    <3>. QED BY <2>3, <2>5, <3>1, <3>2 DEF PostsTyped, OneEach
  <2>8. ActsTyped(net') /\ ActsFit(net', s, srv) /\ \A k \in 1..Len(net') : net'[k].op # "posts"
    BY <2>4 DEF ActsTyped, ActsFit
  <2>9. PostsLead(net', s, srv)
    BY <2>4, <2>6, ActsReplay!LeadsNowhere DEF PostsLead
  <2>. QED BY <2>3, <2>7, <2>8, <2>9 DEF PostsGo, PostsThere
<1>. QED BY <1>6, <1>7 DEF PostsState

\* The page takes an act's answer over.
LEMMA PostActIsDone ==
  ASSUME PostsState, NEW i \in 1..Len(net), PostActDone(i) PROVE PostsState'
<1>. DEFINE c == net[i]
            shown == IF c.op = "hide" THEN {p \in ui.posts : p.id # c.arg}
                     ELSE {PostPatched(p, c.op, Data(i)) : p \in ui.posts}
            times == CASE c.op = "hide" -> 0
                       [] c.op = "feature" -> IF Data(i).featured THEN ui.featured[c.arg] + 1 ELSE 0
                       [] OTHER -> ui.featured[c.arg]
            full == [ui EXCEPT !.posts = shown, !.featured[c.arg] = times]
            s == IF IsOk(i) THEN full ELSE ui
<1>1. c.op \in PostOps /\ c.ans # Pending /\ Settle(i, s, << >>)
  BY DEF PostActDone, Answered
<1>2. shown = ActedPosts(c, ui.posts)
  BY DEF ActedPosts, Data
<1>3. ui.featured \in [PostIds -> Nat] /\ c.arg \in PostIds => [ui.featured EXCEPT ![c.arg] = times] = ActedFeatured(c, ui.featured)
  <2>. SUFFICES ASSUME ui.featured \in [PostIds -> Nat], c.arg \in PostIds
                PROVE  [ui.featured EXCEPT ![c.arg] = times] = ActedFeatured(c, ui.featured)
    OBVIOUS
  <2>1. CASE c.op = "hide"
    BY <2>1 DEF ActedFeatured
  <2>2. CASE c.op = "feature"
    BY <2>2 DEF ActedFeatured, Data
  <2>3. CASE c.op \notin {"hide", "feature"}
    <3>1. times = ui.featured[c.arg]
      BY <2>3
    <3>2. ActedFeatured(c, ui.featured) = ui.featured
      BY <2>3 DEF ActedFeatured
    <3>. HIDE DEF times
    <3>. QED BY <3>1, <3>2
  <2>. QED BY <2>1, <2>2, <2>3
<1>. HIDE DEF shown, times
<1>4. DOMAIN ui = PostsFields =>
        /\ DOMAIN full = PostsFields /\ full.key = ui.key /\ full.of = ui.of
        /\ full.fetching = ui.fetching /\ full.loading = ui.loading
        /\ full.posts = shown /\ full.featured = [ui.featured EXCEPT ![c.arg] = times]
  BY DEF PostsFields
<1>5. IsOk(i) => s = full
  OBVIOUS
<1>. HIDE DEF full, s
<1>6. NewOnes(<< >>, PostsOps) /\ Len(<< >>) = 0
  BY NewNone
<1>7. Finished(PostsOps, i, s, << >>)
  BY <1>1, <1>6, SettleFinishes DEF PostsState
<1>8. /\ Queue(PostsOps)' /\ ui' = s /\ srv' = srv /\ page' = page
      /\ Len(net') = Len(net) - 1 /\ Len(net) \in Nat
      /\ ~mishap' => ~mishap /\ i = 1 /\ IsOk(1) /\ Shifted(net, net')
  BY <1>6, <1>7 DEF Finished, PostsState, Queue
<1>9. ASSUME ~mishap' PROVE PostsGo(net', s, srv)
  <2>1. /\ PostsTyped(ui, srv) /\ ActsTyped(net) /\ (PostsToCome(net, ui, srv) \/ PostsThere(net, ui, srv))
        /\ i = 1 /\ s = full /\ Shifted(net, net')
    BY <1>5, <1>8, <1>9 DEF PostsState, PostsGo
  <2>2. /\ c.arg \in PostIds /\ c.ans.data \in SpacePost /\ c.ans.data.id = c.arg
        /\ ui.featured \in [PostIds -> Nat] /\ ui.posts \subseteq SpacePost
        /\ \A p, q \in ui.posts : p.id = q.id => p = q
    BY <1>1, <2>1 DEF PostsTyped, ActsTyped
  <2>3. /\ DOMAIN s = PostsFields /\ s.key = ui.key /\ s.of = ui.of /\ s.fetching = ui.fetching /\ s.loading = ui.loading
        /\ s.posts = ActedPosts(c, ui.posts) /\ s.featured = ActedFeatured(c, ui.featured)
    BY <1>2, <1>3, <1>4, <2>1, <2>2 DEF PostsTyped
  <2>4. \A k \in 1..Len(net') : k + 1 \in 1..Len(net) /\ k + 1 # 1 /\ net'[k] = net[k + 1]
    BY <1>8, <2>1 DEF Shifted
  <2>. HIDE DEF c
  <2>5. /\ s.posts \subseteq SpacePost
        /\ \A p, q \in s.posts : p.id = q.id => p = q
        /\ s.featured \in [PostIds -> Nat]
        /\ \A x \in s.posts : \E p \in ui.posts :
             /\ x.id = p.id /\ (c.op = "hide" => p.id # c.arg)
             /\ p.id # c.arg \/ c.op \in {"pin", "feature"} => x.hidden = p.hidden
    BY <1>1, <2>2, <2>3, ActsKeepType
  <2>6. PostsTyped(s, srv)
    BY <2>1, <2>3, <2>5 DEF PostsTyped
  <2>7. ActsTyped(net')
    BY <2>1, <2>4 DEF ActsTyped
  <2>8. CASE PostsToCome(net, ui, srv)
    <3>1. Len(net) # 1 /\ Len(net) > 0
      BY <2>1, <2>8, <1>1 DEF PostsToCome, PostOps, c
    <3>2. Len(net') > 0 /\ net'[Len(net')] = net[Len(net)] /\ Len(net') + 1 = Len(net)
      BY <3>1, <2>4, <1>8
    <3>3. \A k \in 1..Len(net') : k # Len(net') => net'[k].op # "posts"
      <4>1. TAKE k \in 1..Len(net')
      <4>2. k + 1 \in 1..Len(net) /\ net'[k] = net[k + 1] /\ (k # Len(net') => k + 1 # Len(net))
        BY <2>4, <3>2, <1>8
      <4>. QED BY <4>2, <2>8 DEF PostsToCome
    <3>4. PostsToCome(net', s, srv)
      BY <2>3, <2>8, <3>2, <3>3 DEF PostsToCome
    <3>. QED BY <2>6, <2>7, <3>4 DEF PostsGo
  <2>9. CASE PostsThere(net, ui, srv)
    <3>1. /\ \A k \in 1..Len(net) : net[k].op # "posts"
          /\ ActsFit(net, ui, srv) /\ PostsLead(net, ui, srv)
      BY <2>9 DEF PostsThere
    <3>2. /\ \A k \in 1..Len(net) : net[k].op = "hide" => \A x \in ui.posts : x.id = net[k].arg => ~x.hidden
          /\ \A k \in 1..Len(net) : net[k].op = "unhide" => \A x \in ui.posts : x.id = net[k].arg => x.hidden
          /\ \A k \in 1..Len(net) : net[k].op = "unhide" /\ net[k].ans = Pending => \A x \in srv : x.id = net[k].arg => x.hidden
          /\ \A j, k \in 1..Len(net) : net[j].op \in {"hide", "unhide"} /\ net[k].op = "unhide" /\ net[j].arg = net[k].arg => j = k
      BY <3>1 DEF ActsFit
    <3>3. 1 \in 1..Len(net) /\ c = net[1] /\ c.op \in {"pin", "feature", "hide", "unhide"}
      BY <1>1, <2>1 DEF c, PostOps
    <3>4. ASSUME NEW k \in 1..Len(net'), net'[k].op = "unhide", NEW x \in s.posts, x.id = net'[k].arg PROVE x.hidden
      <4>1. k + 1 \in 1..Len(net) /\ k + 1 # 1 /\ net'[k] = net[k + 1]
        BY <2>4
      <4>2. PICK p \in ui.posts : /\ x.id = p.id
                                  /\ p.id # c.arg \/ c.op \in {"pin", "feature"} => x.hidden = p.hidden
        BY <2>5
      <4>3. p.hidden
        BY <3>2, <3>4, <4>1, <4>2
      <4>4. c.op \in {"hide", "unhide"} => p.id # c.arg
        BY <3>2, <3>3, <3>4, <4>1, <4>2
      <4>. QED BY <3>3, <4>2, <4>3, <4>4
    <3>5. ASSUME NEW k \in 1..Len(net'), net'[k].op = "hide", NEW x \in s.posts, x.id = net'[k].arg PROVE ~x.hidden
      <4>1. k + 1 \in 1..Len(net) /\ k + 1 # 1 /\ net'[k] = net[k + 1]
        BY <2>4
      <4>2. PICK p \in ui.posts : /\ x.id = p.id /\ (c.op = "hide" => p.id # c.arg)
                                  /\ p.id # c.arg \/ c.op \in {"pin", "feature"} => x.hidden = p.hidden
        BY <2>5
      <4>3. ~p.hidden
        BY <3>2, <3>5, <4>1, <4>2
      <4>4. c.op = "unhide" => p.id # c.arg
        BY <3>2, <3>3, <3>5, <4>1, <4>2
      <4>. QED BY <3>3, <4>2, <4>3, <4>4
    <3>6. ActsFit(net', s, srv)
      <4>1. ASSUME NEW k \in 1..Len(net'), net'[k].op = "unhide", net'[k].ans = Pending, NEW x \in srv, x.id = net'[k].arg
            PROVE  x.hidden
        BY <4>1, <2>4, <3>2
      <4>2. ASSUME NEW j \in 1..Len(net'), NEW k \in 1..Len(net'), net'[j].op \in {"hide", "unhide"},
                   net'[k].op = "unhide", net'[j].arg = net'[k].arg
            PROVE  j = k
        <5>1. j + 1 \in 1..Len(net) /\ net'[j] = net[j + 1] /\ k + 1 \in 1..Len(net) /\ net'[k] = net[k + 1]
          BY <2>4
        <5>2. j + 1 = k + 1
          BY <5>1, <4>2, <3>2
        <5>. QED BY <5>2
      <4>. QED BY <3>4, <3>5, <4>1, <4>2 DEF ActsFit
    <3>7. PICK b : ActsReplay!Leads(net, ActsView(ui), b) /\ PostsAgree(b, srv, ui.key)
      BY <3>1 DEF PostsLead
    <3>8. ActsReplay!Leads(net', ActsReplay!Step(net[1], ActsView(ui)), b)
      BY <2>1, <3>7, ActsReplay!LeadsSettled DEF Shifted
    <3>9. ActsReplay!Step(net[1], ActsView(ui)) = ActsView(s)
      <4>1. net[1].ans # Pending
        BY <1>1, <3>3
      <4>2. ActsReplay!Step(net[1], ActsView(ui)) = ActsAfter(c, ActsView(ui))
        BY <3>3, <4>1 DEF ActsReplay!Step
      <4>. QED BY <4>2, <2>3 DEF ActsAfter, ActsView
    <3>10. PostsLead(net', s, srv)
      BY <2>3, <3>7, <3>8, <3>9 DEF PostsLead
    <3>11. \A k \in 1..Len(net') : net'[k].op # "posts"
      BY <2>4, <3>1
    <3>12. PostsThere(net', s, srv)
      BY <2>3, <2>9, <3>6, <3>10, <3>11 DEF PostsThere
    <3>. QED BY <2>6, <2>7, <3>12 DEF PostsGo
  <2>. QED BY <2>1, <2>8, <2>9
<1>. QED BY <1>8, <1>9 DEF PostsState

\* The steps of the page keep it in a state of it.
LEMMA PostsPageSteps ==
  ASSUME page = "spacePosts", PostsState, Next PROVE PostsState'
<1>1. ASSUME NEW i \in 1..Len(net), Deny(i) PROVE PostsState'
  <2>1. Denied(PostsOps, i)
    BY <1>1, Denies DEF PostsState
  <2>2. Queue(PostsOps)' /\ mishap'
    BY <2>1 DEF Denied
  <2>. QED BY <2>2 DEF PostsState
<1>. QED BY <1>1, PostsActions, PostKeyChosen, PostIsActedOn, PostsAreServed, PostActIsServed, PostsAreFetched,
       PostActIsDone DEF PostsState

\* The owner's posts (WebSpace.SpacePostsAreCurrent): the acts lead to lists
\* that agree with the service's, or a fetch for the key is behind them; a
\* post that is to be shown again is hidden until that call is answered, as no
\* other call is to hide or to show it.
THEOREM SpacePostsStayCurrent == Spec => []SpacePostsAreCurrent
<1>. DEFINE Inv == page = "spacePosts" => PostsState
<1>1. Init => Inv
  BY Mounts, PostsStarts
<1>2. Inv /\ [Next]_vars => Inv'
  <2>1. CASE Next
    BY <2>1, PageStays, PostsPageSteps
  <2>2. CASE UNCHANGED vars
    BY <2>2 DEF vars, PostsState, Queue, Calls, InOrder
  <2>. QED BY <2>1, <2>2
<1>3. Inv => SpacePostsAreCurrent
  <2>. SUFFICES ASSUME page = "spacePosts", PostsState, Quiet, ~mishap
                PROVE  /\ ui.of = ui.key
                       /\ ui.posts \subseteq SpacePostsHeld(srv, ui.key)
                       /\ \A n \in PostIds : /\ ui.featured[n] <= 1
                                             /\ ui.featured[n] = 1 => \E p \in srv : p.id = n /\ p.featured
    BY DEF SpacePostsAreCurrent
  <2>1. Len(net) = 0
    BY QuietIsEmpty DEF PostsState
  <2>2. ui.of = ui.key /\ PostsLead(net, ui, srv)
    BY <2>1 DEF PostsState, PostsGo, PostsToCome, PostsThere
  <2>3. PICK b : ActsReplay!Leads(net, ActsView(ui), b) /\ PostsAgree(b, srv, ui.key)
    BY <2>2 DEF PostsLead
  <2>4. ActsView(ui) = b
    BY <2>1, <2>3, ActsReplay!LeadsNowhere
  <2>5. b.posts = ui.posts /\ b.featured = ui.featured
    BY <2>4 DEF ActsView
  <2>. QED BY <2>2, <2>3, <2>5 DEF PostsAgree
<1>. HIDE DEF Inv
<1>. QED BY <1>1, <1>2, <1>3, PTL DEF Spec
-----------------------------------------------------------------------------
(***************************************************************************)
(* What the answers make of the messages a conversation shows.  (Where the *)
(* messages are fetched once more, it does not matter.)                    *)
(***************************************************************************)
ChatAfter(c, v) ==
  CASE c.op \in {"load", "poll"} -> c.ans.data
    [] c.op = "send" -> <<c.ans.data>> \o v
    [] c.op = "drop" -> Without(v, c.arg)
    [] c.op = "clear" -> << >>
    [] OTHER -> v

ChatReplay == INSTANCE Replay WITH After <- ChatAfter
-----------------------------------------------------------------------------
(***************************************************************************)
(* Lists, the newest first.                                                *)
(***************************************************************************)
\* s lists h.
Lists(s, h) == s \in Seq(h) /\ NewestFirst(s) /\ ToSet(s) = h

\* What the services list.
LEMMA ListingLists ==
  ASSUME NEW n \in Nat, NEW h, NEW s \in Listings(h, n) PROVE Lists(s, h)
<1>1. PICK m \in 0..n : s \in [1..m -> h]
  BY DEF Listings
<1>2. s \in Seq(h)
  BY <1>1
<1>3. NewestFirst(s) /\ ToSet(s) = h
  BY DEF Listings
<1>. QED BY <1>2, <1>3 DEF Lists

\* The elements of a list.
LEMMA ListElements ==
  ASSUME NEW h, NEW s \in Seq(h)
  PROVE  /\ Len(s) \in Nat /\ DOMAIN s = 1..Len(s)
         /\ \A x : x \in ToSet(s) <=> \E k \in 1..Len(s) : s[k] = x
         /\ ToSet(s) \subseteq h /\ \A k \in 1..Len(s) : s[k] \in ToSet(s) /\ s[k] \in h
<1>1. Len(s) \in Nat /\ DOMAIN s = 1..Len(s) /\ \A k \in 1..Len(s) : s[k] \in h
  OBVIOUS
<1>2. \A x : x \in ToSet(s) <=> \E k \in 1..Len(s) : s[k] = x
  BY <1>1 DEF ToSet
<1>. QED BY <1>1, <1>2

\* A list of members of g.
LEMMA ListOf == ASSUME NEW h, NEW s \in Seq(h), NEW g, ToSet(s) \subseteq g PROVE s \in Seq(g)
<1>1. Len(s) \in Nat /\ s = [k \in 1..Len(s) |-> s[k]]
  BY ByElements
<1>2. \A k \in 1..Len(s) : s[k] \in g
  BY ListElements
<1>. QED BY <1>1, <1>2

\* The empty list.
LEMMA EmptyList == ASSUME NEW h PROVE << >> \in Seq(h) /\ NewestFirst(<< >>) /\ ToSet(<< >>) = {}
<1>1. << >> \in Seq(h) /\ DOMAIN << >> = {}
  OBVIOUS
<1>. QED BY <1>1 DEF NewestFirst, ToSet

\* A list of one.
LEMMA OneListed ==
  ASSUME NEW x PROVE <<x>> \in Seq({x}) /\ NewestFirst(<<x>>) /\ ToSet(<<x>>) = {x}
<1>1. <<x>> \in Seq({x}) /\ DOMAIN <<x>> = 1..1 /\ <<x>>[1] = x
  OBVIOUS
<1>2. \A j, k \in 1..1 : ~(j < k)
  OBVIOUS
<1>. QED BY <1>1, <1>2 DEF NewestFirst, ToSet

\* What is older than all of a list goes behind it.
LEMMA OldestLast ==
  ASSUME NEW h, NEW s \in Seq(h), NewestFirst(s), NEW x \in h, \A y \in ToSet(s) : y.id > x.id
  PROVE  Append(s, x) \in Seq(h) /\ NewestFirst(Append(s, x)) /\ ToSet(Append(s, x)) = ToSet(s) \cup {x}
<1>. DEFINE t == Append(s, x)
<1>1. /\ t \in Seq(h) /\ Len(s) \in Nat /\ DOMAIN s = 1..Len(s) /\ DOMAIN t = 1..(Len(s) + 1)
      /\ \A k \in 1..Len(s) : t[k] = s[k]
      /\ t[Len(s) + 1] = x
  OBVIOUS
<1>. HIDE DEF t
<1>2. NewestFirst(t)
  <2>1. SUFFICES ASSUME NEW j \in 1..(Len(s) + 1), NEW k \in 1..(Len(s) + 1), j < k PROVE t[j].id > t[k].id
    BY <1>1 DEF NewestFirst
  <2>2. j \in 1..Len(s) /\ t[j] = s[j] /\ s[j] \in ToSet(s)
    <3>1. j \in 1..Len(s)
      BY <1>1, <2>1
    <3>. QED BY <3>1, <1>1 DEF ToSet
  <2>3. CASE k = Len(s) + 1
    BY <2>2, <2>3, <1>1
  <2>4. CASE k # Len(s) + 1
    <3>1. k \in 1..Len(s)
      BY <1>1, <2>4
    <3>. QED BY <3>1, <2>1, <2>2, <1>1 DEF NewestFirst
  <2>. QED BY <2>3, <2>4
<1>3. ToSet(t) = ToSet(s) \cup {x}
  <2>1. \A k \in 1..(Len(s) + 1) : k \in 1..Len(s) \/ k = Len(s) + 1
    BY <1>1
  <2>2. 1..Len(s) \subseteq 1..(Len(s) + 1) /\ Len(s) + 1 \in 1..(Len(s) + 1)
    BY <1>1
  <2>. QED BY <2>1, <2>2, <1>1 DEF ToSet
<1>. QED BY <1>1, <1>2, <1>3 DEF t

\* What is newer than all of a list goes before it.
LEMMA NewestPut ==
  ASSUME NEW h, NEW s \in Seq(h), NewestFirst(s), NEW x \in h, \A y \in ToSet(s) : x.id > y.id
  PROVE  <<x>> \o s \in Seq(h) /\ NewestFirst(<<x>> \o s) /\ ToSet(<<x>> \o s) = ToSet(s) \cup {x}
<1>. DEFINE t == <<x>> \o s
<1>1. Len(s) \in Nat /\ DOMAIN s = 1..Len(s) /\ <<x>> \in Seq(h) /\ Len(<<x>>) = 1 /\ <<x>>[1] = x
  OBVIOUS
<1>2. /\ t \in Seq(h) /\ Len(t) = 1 + Len(s)
      /\ \A k \in 1..(1 + Len(s)) : t[k] = IF k <= 1 THEN <<x>>[k] ELSE s[k - 1]
  BY <1>1, ConcatProperties
<1>3. DOMAIN t = 1..(1 + Len(s)) /\ t[1] = x /\ \A k \in 1..Len(s) : t[k + 1] = s[k]
  <2>1. DOMAIN t = 1..(1 + Len(s))
    BY <1>2
  <2>2. t[1] = x
    BY <1>1, <1>2
  <2>3. ASSUME NEW k \in 1..Len(s) PROVE t[k + 1] = s[k]
    <3>1. k + 1 \in 1..(1 + Len(s)) /\ ~(k + 1 <= 1) /\ (k + 1) - 1 = k
      BY <1>1
    <3>. QED BY <3>1, <1>2
  <2>. QED BY <2>1, <2>2, <2>3
<1>. HIDE DEF t
<1>4. \A k \in 1..(1 + Len(s)) : k = 1 \/ (k - 1 \in 1..Len(s) /\ t[k] = s[k - 1])
  <2>1. ASSUME NEW k \in 1..(1 + Len(s)), k # 1 PROVE k - 1 \in 1..Len(s) /\ t[k] = s[k - 1]
    <3>1. k - 1 \in 1..Len(s) /\ (k - 1) + 1 = k
      BY <1>1, <2>1
    <3>. QED BY <3>1, <1>3
  <2>. QED BY <2>1
<1>5. NewestFirst(t)
  <2>1. SUFFICES ASSUME NEW j \in 1..(1 + Len(s)), NEW k \in 1..(1 + Len(s)), j < k PROVE t[j].id > t[k].id
    BY <1>3 DEF NewestFirst
  <2>2. k - 1 \in 1..Len(s) /\ t[k] = s[k - 1] /\ s[k - 1] \in ToSet(s)
    <3>1. k # 1
      BY <2>1
    <3>. QED BY <3>1, <1>4, <1>1 DEF ToSet
  <2>3. CASE j = 1
    BY <2>2, <2>3, <1>3
  <2>4. CASE j # 1
    <3>1. j - 1 \in 1..Len(s) /\ t[j] = s[j - 1]
      BY <2>4, <1>4
    <3>2. j - 1 < k - 1
      BY <2>1
    <3>. QED BY <3>1, <3>2, <2>2, <1>1 DEF NewestFirst
  <2>. QED BY <2>3, <2>4
<1>6. ToSet(t) = ToSet(s) \cup {x}
  <2>1. \A y : y \in ToSet(t) => y = x \/ y \in ToSet(s)
    BY <1>3, <1>4, <1>1 DEF ToSet
  <2>2. ASSUME NEW y \in ToSet(s) PROVE y \in ToSet(t)
    <3>1. PICK k \in 1..Len(s) : y = s[k]
      BY <1>1 DEF ToSet
    <3>2. k + 1 \in 1..(1 + Len(s)) /\ t[k + 1] = y
      BY <3>1, <1>1, <1>3
    <3>. QED BY <3>2, <1>3 DEF ToSet
  <2>3. x \in ToSet(t)
    <3>1. 1 \in 1..(1 + Len(s))
      BY <1>1
    <3>. QED BY <3>1, <1>3 DEF ToSet
  <2>. QED BY <2>1, <2>2, <2>3
<1>. QED BY <1>2, <1>5, <1>6 DEF t

\* The filter goes through the list from its head.
Filtered(s, n, id, w) ==
  w[0] = << >> /\ \A k \in 1..n : w[k] = IF s[k].id = id THEN w[k - 1] ELSE Append(w[k - 1], s[k])

LEMMA WithoutFilters ==
  ASSUME NEW s, Len(s) \in Nat, NEW id
  PROVE  \E w : Filtered(s, Len(s), id, w) /\ Without(s, id) = w[Len(s)]
<1>. DEFINE N == Len(s)
            T == {n \in 0..N : \E w : Filtered(s, n, id, w)}
            kept[k \in 0..Len(s)] ==
              IF k = 0 THEN <<>>
              ELSE IF s[k].id = id THEN kept[k - 1] ELSE Append(kept[k - 1], s[k])
<1>1. 0 \in T
  <2>. DEFINE w == [k \in {0} |-> << >>]
  <2>1. w[0] = << >> /\ \A k \in 1..0 : FALSE
    OBVIOUS
  <2>2. Filtered(s, 0, id, w)
    <3>. HIDE DEF w
    <3>. QED BY <2>1 DEF Filtered
  <2>. QED BY <2>2
<1>2. ASSUME NEW n \in 1..N, n - 1 \in T PROVE n \in T
  <2>1. PICK w : Filtered(s, n - 1, id, w)
    BY <1>2
  <2>. DEFINE e == IF s[n].id = id THEN w[n - 1] ELSE Append(w[n - 1], s[n])
              r == [k \in 0..n |-> IF k < n THEN w[k] ELSE e]
  <2>2. /\ r[0] = w[0] /\ r[n] = e
        /\ \A k \in 1..n : (k < n => r[k] = w[k]) /\ r[k - 1] = w[k - 1]
    <3>. HIDE DEF e
    <3>. QED OBVIOUS
  <2>. HIDE DEF r
  <2>3. ASSUME NEW k \in 1..n PROVE r[k] = IF s[k].id = id THEN r[k - 1] ELSE Append(r[k - 1], s[k])
    <3>1. CASE k < n
      <4>1. k \in 1..(n - 1)
        BY <3>1
      <4>. QED BY <4>1, <3>1, <2>1, <2>2 DEF Filtered
    <3>2. CASE k = n
      BY <3>2, <2>2
    <3>. QED BY <3>1, <3>2
  <2>4. Filtered(s, n, id, r)
    BY <2>1, <2>2, <2>3 DEF Filtered
  <2>. QED BY <2>4
<1>3. PICK w : Filtered(s, N, id, w)
  <2>. HIDE DEF T
  <2>1. \A k \in 0..N : k \in T
    BY <1>1, <1>2, ChatReplay!Reaches
  <2>2. N \in T
    BY <2>1
  <2>. QED BY <2>2 DEF T
<1>. DEFINE u == [k \in 0..N |-> w[k]]
<1>4. u = [k \in 0..Len(s) |-> IF k = 0 THEN <<>>
            ELSE IF s[k].id = id THEN u[k - 1] ELSE Append(u[k - 1], s[k])]
  <2>1. ASSUME NEW k \in 0..N
        PROVE  u[k] = IF k = 0 THEN <<>>
            ELSE IF s[k].id = id THEN u[k - 1] ELSE Append(u[k - 1], s[k])
    <3>1. CASE k = 0
      BY <3>1, <1>3 DEF Filtered
    <3>2. CASE k # 0
      <4>1. k \in 1..N /\ k - 1 \in 0..N
        BY <3>2
      <4>2. u[k] = w[k] /\ u[k - 1] = w[k - 1]
        BY <4>1
      <4>. HIDE DEF u
      <4>. QED BY <3>2, <4>1, <4>2, <1>3 DEF Filtered
    <3>. QED BY <3>1, <3>2
  <2>2. u = [k \in 0..N |-> u[k]]
    OBVIOUS
  <2>. HIDE DEF u
  <2>. QED BY <2>1, <2>2
<1>5. kept = [k \in 0..Len(s) |-> IF k = 0 THEN <<>>
            ELSE IF s[k].id = id THEN kept[k - 1] ELSE Append(kept[k - 1], s[k])]
  <2>. HIDE DEF u
  <2>. QED BY <1>4
<1>6. Filtered(s, N, id, kept)
  <2>. HIDE DEF kept
  <2>1. kept[0] = << >>
    BY <1>5
  <2>2. ASSUME NEW k \in 1..N PROVE kept[k] = IF s[k].id = id THEN kept[k - 1] ELSE Append(kept[k - 1], s[k])
    <3>1. k \in 0..Len(s) /\ k # 0
      OBVIOUS
    <3>. QED BY <3>1, <1>5
  <2>. QED BY <2>1, <2>2 DEF Filtered
<1>7. Without(s, id) = kept[Len(s)]
  BY DEF Without
<1>. HIDE DEF kept
<1>. QED BY <1>6, <1>7

\* A list without one entry.
LEMMA WithoutLists ==
  ASSUME NEW h, \A x \in h : x.id \in Int, NEW s \in Seq(h), NewestFirst(s), NEW id
  PROVE  /\ Without(s, id) \in Seq(h) /\ NewestFirst(Without(s, id))
         /\ ToSet(Without(s, id)) = {x \in ToSet(s) : x.id # id}
<1>1. Len(s) \in Nat /\ DOMAIN s = 1..Len(s) /\ \A k \in 1..Len(s) : s[k] \in h
  OBVIOUS
<1>2. PICK w : Filtered(s, Len(s), id, w) /\ Without(s, id) = w[Len(s)]
  BY <1>1, WithoutFilters
<1>. DEFINE part(n) == {s[k] : k \in 1..n}
            good(n) == w[n] \in Seq(h) /\ NewestFirst(w[n]) /\ ToSet(w[n]) = {x \in part(n) : x.id # id}
            T == {n \in 0..Len(s) : good(n)}
<1>3. 0 \in T
  <2>1. w[0] = << >> /\ part(0) = {}
    BY <1>2 DEF Filtered
  <2>2. good(0)
    <3>. HIDE DEF part
    <3>. QED BY <2>1, EmptyList
  <2>. QED BY <2>2, <1>1
<1>4. ASSUME NEW n \in 1..Len(s), n - 1 \in T PROVE n \in T
  <2>1. w[n] = IF s[n].id = id THEN w[n - 1] ELSE Append(w[n - 1], s[n])
    BY <1>2 DEF Filtered
  <2>2. good(n - 1)
    BY <1>4
  <2>3. part(n) = part(n - 1) \cup {s[n]}
    <3>1. \A k \in 1..n : k \in 1..(n - 1) \/ k = n
      OBVIOUS
    <3>2. 1..(n - 1) \subseteq 1..n /\ n \in 1..n
      OBVIOUS
    <3>. QED BY <3>1, <3>2
  <2>4. ASSUME NEW x \in part(n - 1) PROVE x.id > s[n].id
    <3>1. PICK k \in 1..(n - 1) : x = s[k]
      OBVIOUS
    <3>2. k \in DOMAIN s /\ n \in DOMAIN s /\ k < n
      BY <3>1, <1>1
    <3>. QED BY <3>1, <3>2 DEF NewestFirst
  <2>. HIDE DEF part
  <2>5. CASE s[n].id = id
    BY <2>1, <2>2, <2>3, <2>5
  <2>6. CASE s[n].id # id
    <3>1. w[n] = Append(w[n - 1], s[n]) /\ s[n] \in h
      BY <2>1, <2>6, <1>1
    <3>2. \A y \in ToSet(w[n - 1]) : y.id > s[n].id
      BY <2>2, <2>4
    <3>3. w[n] \in Seq(h) /\ NewestFirst(w[n]) /\ ToSet(w[n]) = ToSet(w[n - 1]) \cup {s[n]}
      BY <2>2, <3>1, <3>2, OldestLast
    <3>. QED BY <3>3, <2>2, <2>3, <2>6
  <2>. QED BY <2>5, <2>6
<1>5. good(Len(s))
  <2>. HIDE DEF T
  <2>1. \A k \in 0..Len(s) : k \in T
    BY <1>1, <1>3, <1>4, ChatReplay!Reaches
  <2>2. Len(s) \in T
    BY <1>1, <2>1
  <2>. HIDE DEF good
  <2>. QED BY <2>2 DEF T
<1>6. part(Len(s)) = ToSet(s)
  BY <1>1 DEF ToSet
<1>. QED BY <1>2, <1>5, <1>6
-----------------------------------------------------------------------------
(***************************************************************************)
(* The two conversations.                                                  *)
(***************************************************************************)
MsgOps    == {"load", "markRead", "poll", "send", "pin", "drop", "clear"}
MsgFields == {"msgs", "loading", "sending", "newMsg"}

\* A page of conversations is stepped by its own actions.
LEMMA ChatNext ==
  ASSUME page \in ChatPages, Queue(MsgOps), Next
  PROVE  \/ ChatUser
         \/ \E i \in 1..Len(net) : ChatService(i) \/ ChatThen(i) \/ Deny(i)
<1>1. /\ page \notin ReactionPages /\ page \notin FeedsPages /\ page \notin SpacePages
      /\ page \notin PostPages /\ page \notin EditorPages
  BY OtherPages
<1>2. page \notin ListPages /\ page \notin FormPages
  BY DEF ChatPages, ListPages, Rows, FormPages, FormRows
<1>3. CASE User
  BY <1>1, <1>2, <1>3, ListSteps, FormsSteps, ReactionsSteps, FeedsSteps, SpaceSteps, PostSteps, EditorSteps DEF User
<1>4. ASSUME NEW i \in DOMAIN net, Service(i) \/ Then(i)
      PROVE  ChatService(i) \/ ChatThen(i) \/ Deny(i)
  <2>1. i \in 1..Len(net) /\ net[i].op \in MsgOps
    BY InDomain DEF Queue, Calls
  <2>2. /\ net[i].op \notin ReactionOps /\ net[i].op \notin FeedsOps
        /\ net[i].op \notin ReadOps /\ net[i].op \notin EditorOps
        /\ net[i].op \in SpaceOps => net[i].op = "pin"
    BY <2>1 DEF MsgOps, ReactionOps, FeedsOps, SpaceOps, ReadOps, EditorOps
  <2>3. ~(SpaceService(i) \/ SpaceThen(i))
    <3>1. SpaceService(i) => page \in SpacePages
      <4>1. ASSUME SpaceService(i), net[i].op = "pin" PROVE page \in SpacePages
        BY <4>1 DEF SpaceService, PostsServed, PostActServed, SpaceServed, ToggleServed, JoinSpaceServed, GetSubServed,
          SubscribeServed, UploadServed, SaveSpaceServed, Asked, SpacePages
      <4>. QED BY <4>1, <2>2, SpaceSteps
    <3>2. SpaceThen(i) => page \in SpacePages
      <4>1. ASSUME SpaceThen(i), net[i].op = "pin" PROVE page \in SpacePages
        BY <4>1 DEF SpaceThen, PostsFetched, PostActDone, SpaceFetched, ToggleDone, JoinSpaceDone, GetSubDone,
          SubscribeDone, UploadDone, SaveSpaceDone, Answered, SpacePages
      <4>. QED BY <4>1, <2>2, SpaceSteps
    <3>. QED BY <3>1, <3>2, <1>1
  <2>. QED BY <1>1, <1>2, <1>4, <2>2, <2>3, ListSteps, FormsSteps, ReactionsSteps, FeedsSteps, PostSteps, EditorSteps
         DEF Service, Then
<1>. QED BY <1>3, <1>4, InDomain DEF Next

\* The messages will be fetched once more.
MsgsToCome(q, p) ==
  \E k \in 1..Len(q) : \/ q[k].op \in {"load", "poll"} /\ q[k].ans = Pending
                       \/ q[k].op = "pin"
                       \/ q[k].op = "send" /\ p # "thread"

\* The answers lead to the service's messages.
MsgsLead(q, u, h) == \E b : ChatReplay!Leads(q, u.msgs, b) /\ Lists(b, h)

ChatHeld(s) ==
  /\ s = [held |-> s.held, sent |-> s.sent]
  /\ s.held \subseteq Messages /\ s.sent \in Nat
  /\ \A m \in s.held : m.id <= s.sent

ChatGo(q, u, s, p) == DOMAIN u = MsgFields /\ ChatHeld(s) /\ (MsgsToCome(q, p) \/ MsgsLead(q, u, s.held))

ChatState == Queue(MsgOps) /\ (~mishap => ChatGo(net, ui, srv, page))

\* The page is mounted in a state of it.
LEMMA ChatStarts ==
  ASSUME ChatInit PROVE ChatState
<1>. DEFINE c == LoadData
<1>1. IsCall(c) /\ c.op = "load" /\ c.op \in MsgOps /\ c.ans = Pending
  BY NewCalls DEF MsgOps, LoadData
<1>2. net = <<c>> /\ mishap = FALSE
  BY DEF ChatInit
<1>. HIDE DEF c
<1>3. Queue(MsgOps) /\ Len(net) = 1 /\ net[1] = c
  BY <1>1, <1>2, FirstCall
<1>4. DOMAIN ui = MsgFields
  BY DEF ChatInit, MsgFields
<1>5. ChatHeld(srv)
  BY DEF ChatInit, ChatHeld, Messages, MessageBound
<1>6. MsgsToCome(net, page)
  <2>1. 1 \in 1..Len(net)
    BY <1>3
  <2>. QED BY <2>1, <1>1, <1>3 DEF MsgsToCome
<1>. QED BY <1>3, <1>4, <1>5, <1>6 DEF ChatState, ChatGo

\* New calls lead to the same.
LEMMA ChatBegins ==
  ASSUME ChatState, NEW s, NEW cs, NewOnes(cs, MsgOps), Handle(s, cs),
         DOMAIN ui = MsgFields => DOMAIN s = MsgFields /\ s.msgs = ui.msgs
  PROVE  ChatState'
<1>1. Begun(MsgOps, s, cs) /\ mishap' = mishap
  BY HandleBegins DEF ChatState
<1>2. /\ Queue(MsgOps)' /\ ui' = s /\ srv' = srv /\ page' = page /\ Grown(net, net')
  BY <1>1 DEF Begun
<1>3. ASSUME ~mishap PROVE ChatGo(net', s, srv, page)
  <2>1. DOMAIN ui = MsgFields /\ ChatHeld(srv) /\ (MsgsToCome(net, page) \/ MsgsLead(net, ui, srv.held))
    BY <1>3 DEF ChatState, ChatGo
  <2>2. DOMAIN s = MsgFields /\ s.msgs = ui.msgs
    BY <2>1
  <2>3. CASE MsgsToCome(net, page)
    <3>1. \A k \in 1..Len(net) : k \in 1..Len(net') /\ net'[k] = net[k]
      BY <1>2 DEF Grown
    <3>2. MsgsToCome(net', page)
      BY <2>3, <3>1 DEF MsgsToCome
    <3>. QED BY <2>1, <2>2, <3>2 DEF ChatGo
  <2>4. CASE MsgsLead(net, ui, srv.held)
    <3>1. PICK b : ChatReplay!Leads(net, ui.msgs, b) /\ Lists(b, srv.held)
      BY <2>4 DEF MsgsLead
    <3>2. ChatReplay!Leads(net', ui.msgs, b)
      BY <1>2, <3>1, ChatReplay!LeadsGrow DEF Grown
    <3>. QED BY <2>1, <2>2, <3>1, <3>2 DEF ChatGo, MsgsLead
  <2>. QED BY <2>1, <2>3, <2>4
<1>. QED BY <1>1, <1>2, <1>3 DEF ChatState

\* What the user and the timer do.
LEMMA ChatIsUsed ==
  ASSUME ChatState, ChatUser PROVE ChatState'
<1>0. /\ NewOnes(<< >>, MsgOps)
      /\ \A op \in MsgOps : \A arg : NewOnes(<<Request(op, arg)>>, MsgOps)
  <2>1. ASSUME NEW op \in MsgOps, NEW arg PROVE NewOnes(<<Request(op, arg)>>, MsgOps)
    BY NewCalls, NewOne
  <2>. QED BY <2>1, NewNone
<1>1. CASE Interval
  <2>1. Handle(ui, <<Poll>>) /\ NewOnes(<<Poll>>, MsgOps)
    BY <1>0, <1>1 DEF Interval, Poll, MsgOps
  <2>. QED BY <2>1, ChatBegins
<1>2. CASE TypeMessage
  <2>. DEFINE s == [ui EXCEPT !.newMsg = TRUE]
  <2>1. Handle(s, << >>)
    BY <1>2 DEF TypeMessage, Update
  <2>2. DOMAIN ui = MsgFields => DOMAIN s = MsgFields /\ s.msgs = ui.msgs
    BY DEF MsgFields
  <2>. HIDE DEF s
  <2>. QED BY <1>0, <2>1, <2>2, ChatBegins
<1>3. CASE HandleSend
  <2>. DEFINE s == [ui EXCEPT !.sending = TRUE]
              cs == <<Request("send", 0)>>
  <2>1. Handle(s, cs) /\ NewOnes(cs, MsgOps)
    BY <1>0, <1>3 DEF HandleSend, MsgOps
  <2>2. DOMAIN ui = MsgFields => DOMAIN s = MsgFields /\ s.msgs = ui.msgs
    BY DEF MsgFields
  <2>. HIDE DEF s, cs
  <2>. QED BY <2>1, <2>2, ChatBegins
<1>4. ASSUME NEW op \in {"pin", "drop", "clear"}, NEW id, ThreadDo(op, id) PROVE ChatState'
  <2>1. Handle(ui, <<Request(op, id)>>) /\ NewOnes(<<Request(op, id)>>, MsgOps)
    BY <1>0, <1>4 DEF ThreadDo, MsgOps
  <2>. QED BY <2>1, ChatBegins
<1>. QED BY <1>1, <1>2, <1>3, <1>4 DEF ChatUser, OnThread

\* A call is answered: where the queue leads is what the service holds then.
LEMMA ChatReplied ==
  ASSUME ChatState, NEW i \in 1..Len(net), net[i].ans = Pending, NEW v, NEW t, Reply(i, v, t),
         ~mishap => ChatHeld(t),
         ~mishap /\ net[i].op \in {"load", "poll"} => Lists(v, t.held),
         ~mishap /\ net[i].op \notin {"load", "poll"} =>
           \A b, c : Lists(b, srv.held) /\ c.op = net[i].op /\ c.arg = net[i].arg /\ c.ans = Ok(v) /\ ~MsgsToCome(net, page)
             => Lists(ChatAfter(c, b), t.held)
  PROVE  ChatState'
<1>1. Replied(MsgOps, i, v, t)
  BY Replies DEF ChatState
<1>2. /\ Queue(MsgOps)' /\ ui' = ui /\ srv' = t /\ page' = page
      /\ Len(net') = Len(net) /\ Len(net) \in Nat
      /\ \A k \in 1..Len(net) : k # i => net'[k] = net[k]
      /\ net'[i].op = net[i].op /\ net'[i].arg = net[i].arg
  BY <1>1 DEF Replied
<1>3. ASSUME ~mishap' PROVE ChatGo(net', ui, t, page)
  <2>1. AnsweredNext(net, net', i) /\ net'[i].ans = Ok(v) /\ ~mishap
    BY <1>1, <1>3, RepliedNext
  <2>2. DOMAIN ui = MsgFields /\ ChatHeld(t) /\ (MsgsToCome(net, page) \/ MsgsLead(net, ui, srv.held))
    BY <2>1 DEF ChatState, ChatGo
  <2>3. CASE net[i].op \in {"load", "poll"}
    <3>1. PICK b : ChatReplay!Leads(net, ui.msgs, b)
      BY <1>2, ChatReplay!LeadsOn
    <3>2. ChatReplay!Leads(net', ui.msgs, ChatAfter(net'[i], b))
      BY <2>1, <3>1, ChatReplay!LeadsAnswered DEF AnsweredNext
    <3>3. ChatAfter(net'[i], b) = v
      BY <1>2, <2>1, <2>3 DEF ChatAfter, Ok
    <3>. QED BY <2>1, <2>2, <2>3, <3>2, <3>3 DEF ChatGo, MsgsLead
  <2>4. CASE net[i].op \notin {"load", "poll"}
    <3>1. CASE MsgsToCome(net, page)
      <4>1. \A k \in 1..Len(net) : net'[k].op = net[k].op /\ (net[k].op \in {"load", "poll"} => net'[k] = net[k])
        BY <1>2, <2>4
      <4>2. MsgsToCome(net', page)
        BY <1>2, <3>1, <4>1 DEF MsgsToCome
      <4>. QED BY <2>2, <4>2 DEF ChatGo
    <3>2. CASE ~MsgsToCome(net, page)
      <4>1. PICK b : ChatReplay!Leads(net, ui.msgs, b) /\ Lists(b, srv.held)
        BY <2>2, <3>2 DEF MsgsLead
      <4>2. ChatReplay!Leads(net', ui.msgs, ChatAfter(net'[i], b))
        BY <2>1, <4>1, ChatReplay!LeadsAnswered DEF AnsweredNext
      <4>3. Lists(ChatAfter(net'[i], b), t.held)
        BY <1>2, <2>1, <2>4, <3>2, <4>1
      <4>. QED BY <2>2, <4>2, <4>3 DEF ChatGo, MsgsLead
    <3>. QED BY <3>1, <3>2
  <2>. QED BY <2>3, <2>4
<1>. QED BY <1>2, <1>3 DEF ChatState

\* The services answer.
LEMMA ChatIsServed ==
  ASSUME ChatState, NEW i \in 1..Len(net), ChatService(i) PROVE ChatState'
<1>1. CASE LoadServed(i)
  <2>1. PICK s \in Listings(srv.held, MessageBound) : Reply(i, s, srv)
    BY <1>1 DEF LoadServed
  <2>2. net[i].op \in {"load", "poll"} /\ net[i].ans = Pending
    BY <1>1 DEF LoadServed, Asked
  <2>3. Lists(s, srv.held)
    BY ListingLists DEF MessageBound
  <2>4. ~mishap => ChatHeld(srv)
    BY DEF ChatState, ChatGo
  <2>. QED BY <2>1, <2>2, <2>3, <2>4, ChatReplied
<1>2. CASE MarkServed(i)
  <2>1. Reply(i, TRUE, srv) /\ net[i].op = "markRead" /\ net[i].ans = Pending
    BY <1>2 DEF MarkServed, Asked
  <2>2. ~mishap => ChatHeld(srv)
    BY DEF ChatState, ChatGo
  <2>3. \A b, c : c.op = "markRead" => ChatAfter(c, b) = b
    BY DEF ChatAfter
  <2>. QED BY <2>1, <2>2, <2>3, ChatReplied
<1>3. CASE SendServed(i)
  <2>. DEFINE m == [id |-> srv.sent + 1, pinned |-> FALSE]
              t == [held |-> srv.held \cup {m}, sent |-> srv.sent + 1]
  <2>1. Reply(i, m, t) /\ net[i].op = "send" /\ net[i].ans = Pending /\ srv.sent < MessageBound
    BY <1>3 DEF SendServed, Asked
  <2>2. ~mishap => ChatHeld(srv)
    BY DEF ChatState, ChatGo
  <2>3. m.id = srv.sent + 1 /\ t.held = srv.held \cup {m} /\ t.sent = srv.sent + 1 /\ t = [held |-> t.held, sent |-> t.sent]
    OBVIOUS
  <2>4. srv.sent \in Nat => m \in Messages
    BY <2>1 DEF Messages, MessageBound
  <2>. HIDE DEF m, t
  <2>5. ASSUME ~mishap PROVE ChatHeld(t)
    <3>1. srv.held \subseteq Messages /\ srv.sent \in Nat /\ \A x \in srv.held : x.id <= srv.sent
      BY <2>2, <2>5 DEF ChatHeld
    <3>2. \A x \in srv.held : x.id \in Nat
      BY <3>1 DEF Messages, MessageBound
    <3>3. \A x \in t.held : x.id <= t.sent
      BY <2>3, <3>1, <3>2
    <3>. QED BY <2>3, <2>4, <3>1, <3>3 DEF ChatHeld
  <2>6. ASSUME ~mishap, NEW b, NEW c, Lists(b, srv.held), c.op = "send", c.ans = Ok(m) PROVE Lists(ChatAfter(c, b), t.held)
    <3>1. srv.held \subseteq Messages /\ srv.sent \in Nat /\ \A x \in srv.held : x.id <= srv.sent
      BY <2>2, <2>6 DEF ChatHeld
    <3>2. ChatAfter(c, b) = <<m>> \o b
      BY <2>6 DEF ChatAfter, Ok
    <3>3. b \in Seq(srv.held) /\ NewestFirst(b) /\ ToSet(b) = srv.held
      BY <2>6 DEF Lists
    <3>4. b \in Seq(t.held) /\ m \in t.held
      BY <2>3, <3>3
    <3>5. \A y \in ToSet(b) : m.id > y.id
      <4>1. \A x \in srv.held : x.id \in Nat
        BY <3>1 DEF Messages, MessageBound
      <4>. QED BY <4>1, <2>3, <3>1, <3>3
    <3>6. /\ <<m>> \o b \in Seq(t.held) /\ NewestFirst(<<m>> \o b)
          /\ ToSet(<<m>> \o b) = ToSet(b) \cup {m}
      <4>1. \A g : b \in Seq(g) /\ m \in g =>
              /\ <<m>> \o b \in Seq(g) /\ NewestFirst(<<m>> \o b)
              /\ ToSet(<<m>> \o b) = ToSet(b) \cup {m}
        BY <3>3, <3>5, NewestPut
      <4>. QED BY <3>4, <4>1
    <3>. QED BY <2>3, <3>2, <3>3, <3>6 DEF Lists
  <2>. QED BY <2>1, <2>5, <2>6, ChatReplied
<1>4. CASE ThreadServed(i)
  <2>. DEFINE id == net[i].arg
              op == net[i].op
              h == srv.held
              after == CASE op = "pin"  -> {IF m.id = id THEN [m EXCEPT !.pinned = ~@] ELSE m : m \in h}
                         [] op = "drop" -> {m \in h : m.id # id}
                         [] OTHER -> {}
              t == [srv EXCEPT !.held = after]
  <2>1. Reply(i, TRUE, t) /\ op \in {"pin", "drop", "clear"} /\ net[i].ans = Pending
    BY <1>4 DEF ThreadServed, Asked
  <2>2. ~mishap => ChatHeld(srv)
    BY DEF ChatState, ChatGo
  <2>3. ~mishap => t = [held |-> after, sent |-> srv.sent]
    <3>. HIDE DEF after
    <3>. QED BY <2>2 DEF ChatHeld
  <2>4. /\ op = "pin" => after = {IF m.id = id THEN [m EXCEPT !.pinned = ~@] ELSE m : m \in h}
        /\ op = "drop" => after = {m \in h : m.id # id}
        /\ op = "clear" => after = {}
    OBVIOUS
  <2>. HIDE DEF after, t
  <2>5. ASSUME ~mishap PROVE ChatHeld(t)
    <3>1. h \subseteq Messages /\ srv.sent \in Nat /\ \A x \in h : x.id <= srv.sent
      BY <2>2, <2>5 DEF ChatHeld
    <3>2. CASE op = "pin"
      <4>1. \A m \in h : [m EXCEPT !.pinned = ~@] \in Messages /\ [m EXCEPT !.pinned = ~@].id = m.id
        BY <3>1 DEF Messages
      <4>2. \A x \in after : \E m \in h : x = IF m.id = id THEN [m EXCEPT !.pinned = ~@] ELSE m
        BY <2>4, <3>2
      <4>3. ASSUME NEW x \in after PROVE x \in Messages /\ x.id <= srv.sent
        <5>1. PICK m \in h : x = IF m.id = id THEN [m EXCEPT !.pinned = ~@] ELSE m
          BY <4>2
        <5>2. x \in Messages /\ x.id = m.id
          <6>1. CASE m.id = id
            <7>1. x = [m EXCEPT !.pinned = ~@]
              BY <5>1, <6>1
            <7>. QED BY <4>1, <7>1
          <6>2. CASE m.id # id
            <7>1. x = m
              BY <5>1, <6>2
            <7>. QED BY <3>1, <7>1
          <6>. QED BY <6>1, <6>2
        <5>. QED BY <5>2, <3>1
      <4>. QED BY <4>3, <3>1, <2>3, <2>5 DEF ChatHeld
    <3>3. CASE op # "pin"
      <4>1. after \subseteq h
        BY <3>3, <2>1, <2>4
      <4>. QED BY <4>1, <3>1, <2>3, <2>5 DEF ChatHeld
    <3>. QED BY <3>2, <3>3
  <2>6. ASSUME ~mishap, NEW b, NEW c, Lists(b, h), c.op = op, c.arg = id, ~MsgsToCome(net, page)
        PROVE  Lists(ChatAfter(c, b), t.held)
    <3>1. t.held = after
      BY <2>3, <2>6
    <3>2. CASE op = "pin"
      BY <2>6, <3>2 DEF MsgsToCome
    <3>3. CASE op = "drop"
      <4>1. b \in Seq(h) /\ NewestFirst(b) /\ ToSet(b) = h
        BY <2>6 DEF Lists
      <4>2. \A x \in h : x.id \in Int
        BY <2>2, <2>6 DEF ChatHeld, Messages, MessageBound
      <4>3. ChatAfter(c, b) = Without(b, id)
        BY <2>6, <3>3 DEF ChatAfter
      <4>4. /\ Without(b, id) \in Seq(h) /\ NewestFirst(Without(b, id))
            /\ ToSet(Without(b, id)) = {x \in h : x.id # id}
        BY <4>1, <4>2, WithoutLists
      <4>5. ToSet(Without(b, id)) = after
        BY <4>4, <3>3, <2>4
      <4>6. Without(b, id) \in Seq(after)
        BY <4>4, <4>5, ListOf
      <4>. QED BY <4>3, <4>4, <4>5, <4>6, <3>1 DEF Lists
    <3>4. CASE op = "clear"
      <4>1. ChatAfter(c, b) = << >>
        BY <2>6, <3>4 DEF ChatAfter
      <4>. QED BY <4>1, <3>1, <3>4, <2>4, EmptyList DEF Lists
    <3>. QED BY <2>1, <3>2, <3>3, <3>4
  <2>7. op \notin {"load", "poll"}
    BY <2>1
  <2>8. \A b, c : ~mishap /\ Lists(b, h) /\ c.op = op /\ c.arg = id /\ ~MsgsToCome(net, page)
          => Lists(ChatAfter(c, b), t.held)
    BY <2>6
  <2>. QED BY <2>1, <2>5, <2>7, <2>8, ChatReplied
<1>. QED BY <1>1, <1>2, <1>3, <1>4 DEF ChatService

\* A continuation makes of the messages what Replay says, or fetches them.
LEMMA ChatFinishes ==
  ASSUME ChatState, NEW i \in 1..Len(net), net[i].ans # Pending, NEW s, NEW cs, NewOnes(cs, MsgOps), Settle(i, s, cs),
         DOMAIN ui = MsgFields /\ IsOk(i) => DOMAIN s = MsgFields,
         DOMAIN ui = MsgFields /\ IsOk(i) =>
           \/ s.msgs = ChatAfter(net[i], ui.msgs) /\ net[i].op # "pin" /\ (net[i].op = "send" => page = "thread")
           \/ Len(cs) = 1 /\ cs[1].op \in {"load", "poll"}
  PROVE  ChatState'
<1>1. Finished(MsgOps, i, s, cs)
  BY SettleFinishes DEF ChatState
<1>2. /\ Queue(MsgOps)' /\ ui' = s /\ srv' = srv /\ page' = page
      /\ Len(net') = (Len(net) - 1) + Len(cs) /\ Len(net) \in Nat
      /\ \A k \in 1..Len(cs) : net'[(Len(net) - 1) + k] = cs[k]
      /\ (mishap => mishap') /\ (~mishap' => i = 1 /\ IsOk(1) /\ Shifted(net, net'))
  BY <1>1 DEF Finished
<1>3. ASSUME ~mishap' PROVE ChatGo(net', s, srv, page)
  <2>1. ~mishap /\ i = 1 /\ IsOk(i) /\ Shifted(net, net')
    BY <1>2, <1>3 DEF ChatState, Queue
  <2>2. DOMAIN ui = MsgFields /\ ChatHeld(srv) /\ (MsgsToCome(net, page) \/ MsgsLead(net, ui, srv.held))
    BY <2>1 DEF ChatState, ChatGo
  <2>3. DOMAIN s = MsgFields
    BY <2>1, <2>2
  <2>4. CASE Len(cs) = 1 /\ cs[1].op \in {"load", "poll"}
    <3>1. 1 \in 1..Len(cs) /\ Len(net) - 1 + 1 = Len(net) /\ Len(net') = Len(net) /\ Len(net) \in 1..Len(net')
      BY <2>1, <2>4, <1>2 DEF Shifted
    <3>2. net'[Len(net)] = cs[1] /\ cs[1].ans = Pending
      BY <3>1, <1>2 DEF NewOnes
    <3>3. MsgsToCome(net', page)
      BY <2>4, <3>1, <3>2 DEF MsgsToCome
    <3>. QED BY <2>2, <2>3, <3>3 DEF ChatGo
  <2>5. CASE s.msgs = ChatAfter(net[i], ui.msgs) /\ net[i].op # "pin" /\ (net[i].op = "send" => page = "thread")
    <3>1. CASE MsgsToCome(net, page)
      <4>1. PICK k \in 1..Len(net) : \/ net[k].op \in {"load", "poll"} /\ net[k].ans = Pending
                                     \/ net[k].op = "pin"
                                     \/ net[k].op = "send" /\ page # "thread"
        BY <3>1 DEF MsgsToCome
      <4>2. k # 1
        BY <4>1, <2>1, <2>5
      <4>3. k - 1 \in 1..(Len(net) - 1) /\ (k - 1) + 1 = k /\ k - 1 \in 1..Len(net')
        BY <4>2, <2>1 DEF Shifted
      <4>4. net'[k - 1] = net[k]
        BY <4>3, <2>1 DEF Shifted
      <4>5. MsgsToCome(net', page)
        BY <4>1, <4>3, <4>4 DEF MsgsToCome
      <4>. QED BY <2>2, <2>3, <4>5 DEF ChatGo
    <3>2. CASE MsgsLead(net, ui, srv.held)
      <4>1. PICK b : ChatReplay!Leads(net, ui.msgs, b) /\ Lists(b, srv.held)
        BY <3>2 DEF MsgsLead
      <4>2. ChatReplay!Leads(net', ChatReplay!Step(net[1], ui.msgs), b)
        BY <2>1, <4>1, ChatReplay!LeadsSettled DEF Shifted
      <4>3. ChatReplay!Step(net[1], ui.msgs) = s.msgs
        BY <2>1, <2>5 DEF ChatReplay!Step
      <4>. QED BY <2>2, <2>3, <4>1, <4>2, <4>3 DEF ChatGo, MsgsLead
    <3>. QED BY <2>2, <3>1, <3>2
  <2>. QED BY <2>1, <2>2, <2>4, <2>5
<1>. QED BY <1>2, <1>3 DEF ChatState

\* The continuations.
LEMMA ChatGoesOn ==
  ASSUME ChatState, NEW i \in 1..Len(net), ChatThen(i) PROVE ChatState'
<1>0. /\ NewOnes(<< >>, MsgOps)
      /\ NewOnes(<<MarkRead>>, MsgOps)
      /\ NewOnes(<<LoadData>>, MsgOps) /\ Len(<<LoadData>>) = 1 /\ <<LoadData>>[1] = LoadData /\ LoadData.op = "load"
      /\ NewOnes(<<Poll>>, MsgOps) /\ Len(<<Poll>>) = 1 /\ <<Poll>>[1] = Poll /\ Poll.op = "poll"
  <2>1. IsCall(LoadData) /\ LoadData.op = "load" /\ LoadData.op \in MsgOps /\ LoadData.ans = Pending
    BY NewCalls DEF LoadData, MsgOps
  <2>2. IsCall(Poll) /\ Poll.op = "poll" /\ Poll.op \in MsgOps /\ Poll.ans = Pending
    BY NewCalls DEF Poll, MsgOps
  <2>3. IsCall(MarkRead) /\ MarkRead.op \in MsgOps /\ MarkRead.ans = Pending
    BY NewCalls DEF MarkRead, MsgOps
  <2>. QED BY <2>1, <2>2, <2>3, NewNone, NewOne
<1>1. CASE LoadAnswered(i)
  <2>. DEFINE s == [ui EXCEPT !.msgs = IF IsOk(i) THEN Data(i) ELSE @]
              r == [s EXCEPT !.loading = FALSE]
  <2>1. /\ net[i].op \in {"load", "poll"} /\ net[i].ans # Pending
        /\ Settle(i, s, << >>) \/ Settle(i, s, <<MarkRead>>) \/ Settle(i, r, << >>)
    BY <1>1 DEF LoadAnswered, Answered
  <2>2. DOMAIN ui = MsgFields /\ IsOk(i) =>
          /\ DOMAIN s = MsgFields /\ s.msgs = Data(i)
          /\ DOMAIN r = MsgFields /\ r.msgs = Data(i)
    BY DEF MsgFields
  <2>3. ChatAfter(net[i], ui.msgs) = Data(i)
    BY <2>1 DEF ChatAfter, Data
  <2>4. net[i].op # "pin" /\ net[i].op # "send"
    BY <2>1
  <2>. HIDE DEF s, r
  <2>5. CASE Settle(i, s, << >>)
    BY <1>0, <2>1, <2>2, <2>3, <2>4, <2>5, ChatFinishes
  <2>6. CASE Settle(i, s, <<MarkRead>>)
    BY <1>0, <2>1, <2>2, <2>3, <2>4, <2>6, ChatFinishes
  <2>7. CASE Settle(i, r, << >>)
    BY <1>0, <2>1, <2>2, <2>3, <2>4, <2>7, ChatFinishes
  <2>. QED BY <2>1, <2>5, <2>6, <2>7
<1>4. CASE MarkDone(i)
  <2>. DEFINE s == [ui EXCEPT !.loading = FALSE]
  <2>1. Settle(i, s, << >>) /\ net[i].op = "markRead" /\ net[i].ans # Pending
    BY <1>4 DEF MarkDone, Answered
  <2>2. DOMAIN ui = MsgFields /\ IsOk(i) => DOMAIN s = MsgFields /\ s.msgs = ui.msgs
    BY DEF MsgFields
  <2>3. ChatAfter(net[i], ui.msgs) = ui.msgs
    BY <2>1 DEF ChatAfter
  <2>. HIDE DEF s
  <2>. QED BY <1>0, <2>1, <2>2, <2>3, ChatFinishes
<1>2. CASE SendDone(i)
  <2>. DEFINE idle == [ui EXCEPT !.sending = FALSE]
              put == [idle EXCEPT !.newMsg = FALSE, !.msgs = <<Data(i)>> \o @]
              again == [idle EXCEPT !.newMsg = FALSE]
  <2>1. /\ net[i].op = "send" /\ net[i].ans # Pending
        /\ IF ~IsOk(i) THEN Settle(i, idle, << >>)
           ELSE IF page = "thread" THEN Settle(i, put, << >>) ELSE Settle(i, again, <<Poll>>)
    BY <1>2 DEF SendDone, Answered
  <2>2. DOMAIN ui = MsgFields =>
          /\ DOMAIN put = MsgFields /\ put.msgs = <<Data(i)>> \o ui.msgs
          /\ DOMAIN again = MsgFields
    BY DEF MsgFields
  <2>3. ChatAfter(net[i], ui.msgs) = <<Data(i)>> \o ui.msgs
    BY <2>1 DEF ChatAfter, Data
  <2>. HIDE DEF idle, put, again
  <2>4. CASE ~IsOk(i)
    <3>1. Settle(i, idle, << >>)
      BY <2>1, <2>4
    <3>. QED BY <1>0, <2>1, <2>4, <3>1, ChatFinishes
  <2>5. CASE IsOk(i) /\ page = "thread"
    <3>1. Settle(i, put, << >>) /\ net[i].op # "pin"
      BY <2>1, <2>5
    <3>. QED BY <1>0, <2>1, <2>2, <2>3, <2>5, <3>1, ChatFinishes
  <2>6. CASE IsOk(i) /\ page # "thread"
    <3>1. Settle(i, again, <<Poll>>)
      BY <2>1, <2>6
    <3>2. <<Poll>>[1].op \in {"load", "poll"}
      BY <1>0
    <3>. QED BY <1>0, <2>1, <2>2, <3>1, <3>2, ChatFinishes
  <2>. QED BY <2>4, <2>5, <2>6
<1>3. CASE ThreadDone(i)
  <2>. DEFINE fresh == [ui EXCEPT !.loading = TRUE]
              less == [ui EXCEPT !.msgs = IF net[i].op = "drop" THEN Without(@, net[i].arg) ELSE <<>>]
  <2>1. /\ net[i].op \in {"pin", "drop", "clear"} /\ net[i].ans # Pending
        /\ IF ~IsOk(i) THEN Settle(i, ui, << >>)
           ELSE IF net[i].op = "pin" THEN Settle(i, fresh, <<LoadData>>) ELSE Settle(i, less, << >>)
    BY <1>3 DEF ThreadDone, Answered
  <2>2. DOMAIN ui = MsgFields =>
          /\ DOMAIN fresh = MsgFields /\ DOMAIN less = MsgFields
          /\ less.msgs = IF net[i].op = "drop" THEN Without(ui.msgs, net[i].arg) ELSE << >>
    BY DEF MsgFields
  <2>3. net[i].op # "pin" => ChatAfter(net[i], ui.msgs) = IF net[i].op = "drop" THEN Without(ui.msgs, net[i].arg) ELSE << >>
    BY <2>1 DEF ChatAfter
  <2>. HIDE DEF fresh, less
  <2>4. CASE ~IsOk(i)
    <3>1. Settle(i, ui, << >>)
      BY <2>1, <2>4
    <3>. QED BY <1>0, <2>1, <2>4, <3>1, ChatFinishes
  <2>5. CASE IsOk(i) /\ net[i].op = "pin"
    <3>1. Settle(i, fresh, <<LoadData>>)
      BY <2>1, <2>5
    <3>2. <<LoadData>>[1].op \in {"load", "poll"}
      BY <1>0
    <3>. QED BY <1>0, <2>1, <2>2, <3>1, <3>2, ChatFinishes
  <2>6. CASE IsOk(i) /\ net[i].op # "pin"
    <3>1. Settle(i, less, << >>) /\ net[i].op # "send"
      BY <2>1, <2>6
    <3>. QED BY <1>0, <2>1, <2>2, <2>3, <2>6, <3>1, ChatFinishes
  <2>. QED BY <2>4, <2>5, <2>6
<1>. QED BY <1>1, <1>2, <1>3, <1>4 DEF ChatThen

\* The steps of a conversation keep it in a state of it.
LEMMA ChatPageSteps ==
  ASSUME page \in ChatPages, ChatState, Next PROVE ChatState'
<1>1. ASSUME NEW i \in 1..Len(net), Deny(i) PROVE ChatState'
  <2>1. Denied(MsgOps, i)
    BY <1>1, Denies DEF ChatState
  <2>2. Queue(MsgOps)' /\ mishap'
    BY <2>1 DEF Denied
  <2>. QED BY <2>2 DEF ChatState
<1>. QED BY <1>1, ChatNext, ChatIsUsed, ChatIsServed, ChatGoesOn DEF ChatState

\* The conversations (WebMessages.ConversationIsCurrent): the messages will be
\* fetched once more, or the answers of what was sent, deleted and cleared
\* lead to the service's messages, the newest first.
THEOREM ConversationStaysCurrent == Spec => []ConversationIsCurrent
<1>. DEFINE Inv == page \in ChatPages => ChatState
<1>1. Init => Inv
  BY Mounts, ChatStarts
<1>2. Inv /\ [Next]_vars => Inv'
  <2>1. CASE Next
    BY <2>1, PageStays, ChatPageSteps
  <2>2. CASE UNCHANGED vars
    BY <2>2 DEF vars, ChatState, Queue, Calls, InOrder
  <2>. QED BY <2>1, <2>2
<1>3. Inv => ConversationIsCurrent
  <2>. SUFFICES ASSUME page \in ChatPages, ChatState, Quiet, ~mishap
                PROVE  NewestFirst(ui.msgs) /\ ToSet(ui.msgs) = srv.held
    BY DEF ConversationIsCurrent
  <2>1. Len(net) = 0 /\ 1..Len(net) = {}
    <3>1. Len(net) = 0
      BY QuietIsEmpty DEF ChatState
    <3>. QED BY <3>1
  <2>2. MsgsLead(net, ui, srv.held)
    BY <2>1 DEF ChatState, ChatGo, MsgsToCome
  <2>3. PICK b : ChatReplay!Leads(net, ui.msgs, b) /\ Lists(b, srv.held)
    BY <2>2 DEF MsgsLead
  <2>4. ui.msgs = b
    BY <2>1, <2>3, ChatReplay!LeadsNowhere
  <2>. QED BY <2>3, <2>4 DEF Lists
<1>. HIDE DEF Inv
<1>. QED BY <1>1, <1>2, <1>3, PTL DEF Spec
-----------------------------------------------------------------------------
(***************************************************************************)
(* The creation center's list, and what the answers make of it.            *)
(***************************************************************************)
ChangedCreation(c, x) == CreationEffect(x, "visibility", c.arg)

Changed(c, s) == [k \in DOMAIN s |-> ChangedCreation(c, s[k])]

ChangedAll(c, h) == {ChangedCreation(c, x) : x \in h}

Grows(c, v) ==
  IF c.arg.reset THEN [creations |-> c.ans.data, page |-> 2]
  ELSE [creations |-> v.creations \o c.ans.data, page |-> v.page + 1]

OwnAfter(c, v) ==
  CASE c.op = "creations" -> Grows(c, v)
    [] c.op = "delete" -> [creations |-> Without(v.creations, c.arg.id), page |-> v.page]
    [] c.op = "visibility" -> [creations |-> Changed(c, v.creations), page |-> v.page]
    [] OTHER -> v

OwnReplay == INSTANCE Replay WITH After <- OwnAfter

OwnView(u) == [creations |-> u.creations, page |-> u.page]

\* b shows some of h, all of them newer than what is on page b.page or on a
\* later one.
Paged(b, h) ==
  /\ b.page \in Nat \ {0}
  /\ b.creations \in Seq(h) /\ NewestFirst(b.creations)
  /\ \E s : Lists(s, h) /\ \A x \in ToSet(b.creations) : \A k \in 1..Len(s) : k >= b.page => x.id > s[k].id

\* What a list has lost does not move the others down.
LEMMA SparserList ==
  ASSUME NEW h, \A x \in h : x.id \in Int, NEW s \in Seq(h), NewestFirst(s), NEW t \in Seq(h), NewestFirst(t),
         ToSet(t) \subseteq ToSet(s)
  PROVE  \A k \in 1..Len(t) : \E n \in 1..Len(s) : n >= k /\ s[n] = t[k]
<1>1. /\ Len(s) \in Nat /\ DOMAIN s = 1..Len(s) /\ \A k \in 1..Len(s) : s[k].id \in Int
      /\ Len(t) \in Nat /\ DOMAIN t = 1..Len(t) /\ \A k \in 1..Len(t) : t[k].id \in Int
  BY ListElements
<1>2. \A k \in 1..Len(t) : \E n \in 1..Len(s) : s[n] = t[k]
  <2>1. \A k \in 1..Len(t) : t[k] \in ToSet(s)
    BY ListElements
  <2>. QED BY <2>1, ListElements
<1>. DEFINE T == {k \in 0..Len(t) : k = 0 \/ \A n \in 1..Len(s) : s[n] = t[k] => n >= k}
<1>3. ASSUME NEW k \in 1..Len(t), k - 1 \in T PROVE k \in T
  <2>1. SUFFICES ASSUME NEW n \in 1..Len(s), s[n] = t[k] PROVE n >= k
    OBVIOUS
  <2>2. CASE k = 1
    BY <2>2
  <2>3. CASE k # 1
    <3>1. k - 1 \in 1..Len(t) /\ k - 1 < k
      BY <2>3, <1>1
    <3>2. PICK m \in 1..Len(s) : s[m] = t[k - 1]
      BY <3>1, <1>2
    <3>3. m >= k - 1
      BY <3>1, <3>2, <1>3
    <3>4. s[m].id > s[n].id
      BY <2>1, <3>1, <3>2, <1>1 DEF NewestFirst
    <3>5. ~(n < m)
      <4>1. ASSUME n < m PROVE FALSE
        <5>1. s[n].id > s[m].id
          BY <4>1, <1>1 DEF NewestFirst
        <5>. QED BY <5>1, <3>4, <1>1
      <4>. QED BY <4>1
    <3>6. n # m
      BY <3>4, <1>1
    <3>. QED BY <3>3, <3>5, <3>6, <1>1
  <2>. QED BY <2>2, <2>3
<1>4. \A k \in 0..Len(t) : k \in T
  <2>1. 0 \in T
    BY <1>1
  <2>. HIDE DEF T
  <2>. QED BY <2>1, <1>1, <1>3, OwnReplay!Reaches
<1>5. ASSUME NEW k \in 1..Len(t) PROVE \E n \in 1..Len(s) : n >= k /\ s[n] = t[k]
  <2>1. PICK n \in 1..Len(s) : s[n] = t[k]
    BY <1>2
  <2>2. k \in T /\ k # 0
    BY <1>1, <1>4
  <2>. QED BY <2>1, <2>2
<1>. QED BY <1>5

\* The first page.
LEMMA FirstPage ==
  ASSUME NEW h, NEW s, Lists(s, h), NEW b,
         b = [creations |-> IF 1 <= Len(s) THEN <<s[1]>> ELSE << >>, page |-> 2]
  PROVE  Paged(b, h)
<1>1. s \in Seq(h) /\ NewestFirst(s)
  BY DEF Lists
<1>2. Len(s) \in Nat /\ DOMAIN s = 1..Len(s) /\ \A k \in 1..Len(s) : s[k] \in h
  BY <1>1, ListElements
<1>3. CASE Len(s) = 0
  <2>1. b.creations = << >> /\ b.page = 2
    BY <1>3
  <2>. QED BY <2>1, EmptyList DEF Paged
<1>4. CASE Len(s) # 0
  <2>1. 1 \in 1..Len(s)
    BY <1>2, <1>4
  <2>2. b.creations = <<s[1]>> /\ b.page = 2
    BY <2>1
  <2>3. <<s[1]>> \in Seq(h) /\ NewestFirst(<<s[1]>>) /\ ToSet(<<s[1]>>) = {s[1]}
    BY <2>1, <1>2, OneListed, ListOf
  <2>4. \A k \in 1..Len(s) : k >= 2 => s[1].id > s[k].id
    BY <2>1, <1>1, <1>2 DEF NewestFirst
  <2>5. \A x \in ToSet(b.creations) : \A k \in 1..Len(s) : k >= b.page => x.id > s[k].id
    BY <2>2, <2>3, <2>4
  <2>. QED BY <2>2, <2>3, <2>5 DEF Paged
<1>. QED BY <1>3, <1>4

\* Two lists of the same.
LEMMA SparserLists ==
  ASSUME NEW h, \A x \in h : x.id \in Int, NEW s, Lists(s, h), NEW t, Lists(t, h)
  PROVE  \A k \in 1..Len(t) : \E n \in 1..Len(s) : n >= k /\ s[n] = t[k]
<1>1. /\ s \in Seq(h) /\ NewestFirst(s) /\ t \in Seq(h) /\ NewestFirst(t)
      /\ ToSet(t) \subseteq ToSet(s)
  BY DEF Lists
<1>. QED BY <1>1, SparserList

\* One page more.
LEMMA NextPage ==
  ASSUME NEW h, \A x \in h : x.id \in Int, NEW b, Paged(b, h), NEW t, Lists(t, h), NEW d,
         d = [creations |-> b.creations \o (IF b.page <= Len(t) THEN <<t[b.page]>> ELSE << >>), page |-> b.page + 1]
  PROVE  Paged(d, h)
<1>1. PICK s : Lists(s, h) /\ \A x \in ToSet(b.creations) : \A k \in 1..Len(s) : k >= b.page => x.id > s[k].id
  BY DEF Paged
<1>2. /\ b.page \in Nat \ {0} /\ b.creations \in Seq(h) /\ NewestFirst(b.creations)
      /\ s \in Seq(h) /\ NewestFirst(s) /\ ToSet(s) = h
      /\ t \in Seq(h) /\ NewestFirst(t) /\ ToSet(t) = h
  BY <1>1 DEF Paged, Lists
<1>3. /\ Len(s) \in Nat /\ \A k \in 1..Len(s) : s[k].id \in Int
      /\ Len(t) \in Nat /\ DOMAIN t = 1..Len(t) /\ \A k \in 1..Len(t) : t[k] \in h /\ t[k].id \in Int
  BY <1>2, ListElements
<1>4. \A k \in 1..Len(t) : \E n \in 1..Len(s) : n >= k /\ s[n] = t[k]
  BY <1>1, SparserLists
<1>5. ASSUME NEW x \in ToSet(b.creations), NEW k \in 1..Len(t), k >= b.page PROVE x.id > t[k].id
  <2>1. PICK n \in 1..Len(s) : n >= k /\ s[n] = t[k]
    BY <1>4
  <2>2. n >= b.page
    BY <1>2, <1>3, <1>5, <2>1
  <2>. QED BY <1>1, <2>1, <2>2
<1>6. CASE b.page <= Len(t)
  <2>. DEFINE y == t[b.page]
  <2>1. b.page \in 1..Len(t) /\ y \in h
    BY <1>2, <1>3, <1>6
  <2>2. \A x \in ToSet(b.creations) : x.id > y.id
    BY <1>5, <1>2, <2>1
  <2>3. ASSUME NEW k \in 1..Len(t), k >= b.page + 1 PROVE y.id > t[k].id
    <3>1. b.page \in DOMAIN t /\ k \in DOMAIN t /\ b.page < k
      BY <1>2, <1>3, <2>1, <2>3
    <3>2. \A j, n \in DOMAIN t : j < n => t[j].id > t[n].id
      BY <1>2 DEF NewestFirst
    <3>3. t[b.page].id > t[k].id
      BY <3>1, <3>2
    <3>. QED BY <3>3
  <2>4. \A x \in ToSet(b.creations) : \A k \in 1..Len(t) : k >= b.page + 1 => x.id > t[k].id
    BY <1>5, <1>2, <1>3
  <2>5. d.creations = b.creations \o <<y>> /\ d.page = b.page + 1
    BY <1>6
  <2>. HIDE DEF y
  <2>6. b.creations \o <<y>> = Append(b.creations, y)
    BY <1>2, <2>1
  <2>7. d.creations \in Seq(h) /\ NewestFirst(d.creations) /\ ToSet(d.creations) = ToSet(b.creations) \cup {y}
    <3>1. b.creations \in Seq(h) /\ NewestFirst(b.creations) /\ y \in h
      BY <1>2, <2>1
    <3>. DEFINE r == b.creations
    <3>. HIDE DEF r
    <3>2. Append(r, y) \in Seq(h) /\ NewestFirst(Append(r, y)) /\ ToSet(Append(r, y)) = ToSet(r) \cup {y}
      BY <3>1, <2>2, OldestLast DEF r
    <3>. QED BY <3>2, <2>5, <2>6 DEF r
  <2>8. \A x \in ToSet(d.creations) : \A k \in 1..Len(t) : k >= d.page => x.id > t[k].id
    BY <2>3, <2>4, <2>5, <2>7
  <2>9. d.page \in Nat \ {0}
    BY <1>2, <2>5
  <2>. QED BY <2>7, <2>8, <2>9 DEF Paged
<1>7. CASE ~(b.page <= Len(t))
  <2>1. d.creations = b.creations \o << >> /\ d.page = b.page + 1
    BY <1>7
  <2>2. d.creations = b.creations
    BY <2>1, <1>2, ConcatEmptySeq
  <2>3. d.page \in Nat \ {0} /\ \A k \in 1..Len(t) : ~(k >= d.page)
    BY <1>2, <1>3, <1>7, <2>1
  <2>. QED BY <1>2, <2>2, <2>3 DEF Paged
<1>. QED BY <1>6, <1>7

\* One creation less.
LEMMA LessPaged ==
  ASSUME NEW h, \A x \in h : x.id \in Int, NEW b, Paged(b, h), NEW id, NEW d,
         d = [creations |-> Without(b.creations, id), page |-> b.page]
  PROVE  Paged(d, {x \in h : x.id # id})
<1>. DEFINE g == {x \in h : x.id # id}
<1>1. PICK s : Lists(s, h) /\ \A x \in ToSet(b.creations) : \A k \in 1..Len(s) : k >= b.page => x.id > s[k].id
  BY DEF Paged
<1>2. /\ b.page \in Nat \ {0} /\ b.creations \in Seq(h) /\ NewestFirst(b.creations)
      /\ s \in Seq(h) /\ NewestFirst(s) /\ ToSet(s) = h
  BY <1>1 DEF Paged, Lists
<1>3. /\ Without(b.creations, id) \in Seq(h) /\ NewestFirst(Without(b.creations, id))
      /\ ToSet(Without(b.creations, id)) = {x \in ToSet(b.creations) : x.id # id}
  BY <1>2, WithoutLists
<1>4. /\ Without(s, id) \in Seq(h) /\ NewestFirst(Without(s, id))
      /\ ToSet(Without(s, id)) = {x \in ToSet(s) : x.id # id}
  BY <1>2, WithoutLists
<1>5. ToSet(b.creations) \subseteq h
  BY <1>2, ListElements
<1>. DEFINE t == Without(s, id)
<1>6. Lists(t, g)
  BY <1>2, <1>4, ListOf DEF Lists
<1>7. d.creations \in Seq(g) /\ NewestFirst(d.creations) /\ ToSet(d.creations) \subseteq ToSet(b.creations) /\ d.page = b.page
  <2>1. d.creations = Without(b.creations, id) /\ d.page = b.page
    OBVIOUS
  <2>2. ToSet(Without(b.creations, id)) \subseteq g
    BY <1>3, <1>5
  <2>. HIDE DEF g
  <2>. QED BY <2>1, <2>2, <1>3, ListOf
<1>8. Len(s) \in Nat /\ Len(t) \in Nat /\ \A k \in 1..Len(t) : \E n \in 1..Len(s) : n >= k /\ s[n] = t[k]
  <2>1. /\ s \in Seq(h) /\ NewestFirst(s) /\ t \in Seq(h) /\ NewestFirst(t)
        /\ ToSet(t) \subseteq ToSet(s)
    BY <1>2, <1>4
  <2>. HIDE DEF t
  <2>2. Len(s) \in Nat /\ Len(t) \in Nat
    BY <2>1
  <2>. QED BY <2>1, <2>2, SparserList
<1>. HIDE DEF t, g
<1>9. ASSUME NEW x \in ToSet(d.creations), NEW k \in 1..Len(t), k >= d.page PROVE x.id > t[k].id
  <2>1. PICK n \in 1..Len(s) : n >= k /\ s[n] = t[k]
    BY <1>8
  <2>2. n >= b.page
    BY <1>2, <1>7, <1>8, <1>9, <2>1
  <2>3. x \in ToSet(b.creations)
    BY <1>7
  <2>. QED BY <1>1, <2>1, <2>2, <2>3
<1>10. Paged(d, g)
  BY <1>2, <1>6, <1>7, <1>9 DEF Paged
<1>. QED BY <1>10 DEF g

\* A change of a creation leaves its place.
LEMMA ChangesList ==
  ASSUME NEW h, h \subseteq Creation, NEW c, NEW s \in Seq(h), NewestFirst(s)
  PROVE  /\ Changed(c, s) \in Seq(ChangedAll(c, h)) /\ NewestFirst(Changed(c, s))
         /\ ToSet(Changed(c, s)) = ChangedAll(c, ToSet(s))
         /\ Len(Changed(c, s)) = Len(s) /\ \A k \in 1..Len(s) : Changed(c, s)[k].id = s[k].id
<1>. DEFINE t == Changed(c, s)
<1>1. Len(s) \in Nat /\ DOMAIN s = 1..Len(s) /\ \A k \in 1..Len(s) : s[k] \in h
  BY ListElements
<1>2. \A x \in Creation : ChangedCreation(c, x).id = x.id
  BY DEF ChangedCreation, CreationEffect, Creation
<1>3. \A x \in h : ChangedCreation(c, x) \in ChangedAll(c, h)
  BY DEF ChangedAll
<1>4. t \in Seq(ChangedAll(c, h)) /\ Len(t) = Len(s) /\ DOMAIN t = 1..Len(s) /\ \A k \in 1..Len(s) : t[k] = ChangedCreation(c, s[k])
  <2>1. t = [k \in 1..Len(s) |-> ChangedCreation(c, s[k])]
    BY <1>1 DEF Changed
  <2>. HIDE DEF t
  <2>2. \A k \in 1..Len(s) : t[k] = ChangedCreation(c, s[k]) /\ t[k] \in ChangedAll(c, h)
    BY <2>1, <1>1, <1>3
  <2>3. t \in [1..Len(s) -> ChangedAll(c, h)]
    BY <2>1, <2>2
  <2>. QED BY <2>2, <2>3, <1>1
<1>. HIDE DEF t
<1>5. \A k \in 1..Len(s) : t[k].id = s[k].id
  BY <1>1, <1>2, <1>4
<1>6. NewestFirst(t)
  BY <1>1, <1>4, <1>5 DEF NewestFirst
<1>7. ToSet(t) = ChangedAll(c, ToSet(s))
  <2>1. ASSUME NEW y \in ToSet(t) PROVE \E x \in ToSet(s) : y = ChangedCreation(c, x)
    <3>1. PICK k \in 1..Len(s) : y = t[k]
      BY <1>4 DEF ToSet
    <3>2. s[k] \in ToSet(s)
      BY ListElements
    <3>. QED BY <3>1, <3>2, <1>4
  <2>2. ASSUME NEW x \in ToSet(s) PROVE ChangedCreation(c, x) \in ToSet(t)
    <3>1. PICK k \in 1..Len(s) : x = s[k]
      BY <1>1 DEF ToSet
    <3>2. ChangedCreation(c, x) = t[k]
      BY <3>1, <1>4
    <3>. QED BY <3>2, <1>4 DEF ToSet
  <2>. QED BY <2>1, <2>2 DEF ChangedAll
<1>. QED BY <1>4, <1>5, <1>6, <1>7 DEF t

\* And the pages.
LEMMA ChangesPaged ==
  ASSUME NEW h, h \subseteq Creation, NEW b, Paged(b, h), NEW c, NEW d,
         d = [creations |-> Changed(c, b.creations), page |-> b.page]
  PROVE  Paged(d, ChangedAll(c, h))
<1>1. PICK s : Lists(s, h) /\ \A x \in ToSet(b.creations) : \A k \in 1..Len(s) : k >= b.page => x.id > s[k].id
  BY DEF Paged
<1>2. /\ b.page \in Nat \ {0} /\ b.creations \in Seq(h) /\ NewestFirst(b.creations)
      /\ s \in Seq(h) /\ NewestFirst(s) /\ ToSet(s) = h
  BY <1>1 DEF Paged, Lists
<1>3. /\ Changed(c, s) \in Seq(ChangedAll(c, h)) /\ NewestFirst(Changed(c, s))
      /\ ToSet(Changed(c, s)) = ChangedAll(c, ToSet(s))
      /\ Len(Changed(c, s)) = Len(s) /\ \A k \in 1..Len(s) : Changed(c, s)[k].id = s[k].id
  BY <1>2, ChangesList
<1>4. d.creations = Changed(c, b.creations) /\ d.page = b.page
  OBVIOUS
<1>5. /\ d.creations \in Seq(ChangedAll(c, h)) /\ NewestFirst(d.creations)
      /\ ToSet(d.creations) = ChangedAll(c, ToSet(b.creations))
  BY <1>2, <1>4, ChangesList
<1>6. Lists(Changed(c, s), ChangedAll(c, h))
  BY <1>2, <1>3 DEF Lists
<1>. DEFINE t == Changed(c, s)
<1>. HIDE DEF t
<1>7. ASSUME NEW y \in ToSet(d.creations), NEW k \in 1..Len(t), k >= d.page PROVE y.id > t[k].id
  <2>1. PICK x \in ToSet(b.creations) : y = ChangedCreation(c, x)
    BY <1>5 DEF ChangedAll
  <2>2. x \in Creation
    BY <1>2, ListElements
  <2>3. y.id = x.id
    BY <2>1, <2>2 DEF ChangedCreation, CreationEffect, Creation
  <2>. QED BY <1>1, <1>3, <1>4, <1>7, <2>3 DEF t
<1>. QED BY <1>2, <1>4, <1>5, <1>6, <1>7 DEF Paged, t
-----------------------------------------------------------------------------
(***************************************************************************)
(* The creation center.                                                    *)
(***************************************************************************)
OwnOps    == {"creations", "delete", "visibility", "withdraw"}
OwnFields == {"creations", "loading", "page", "hasMore", "filter"}

AsksList(c)  == c.op = "creations"
IsReset(c) == AsksList(c) /\ c.arg.reset
IsMore(c)  == AsksList(c) /\ ~c.arg.reset

\* A page more is asked for when no other is on its way.
OwnOrder(q) ==
  \A k \in 1..Len(q) : AsksList(q[k]) =>
    /\ IsReset(q[k]) => q[k].arg.p = 1
    /\ IsReset(q[k]) \/ \A j \in 1..(k - 1) : ~AsksList(q[j])

\* What loads under another filter is followed by what loads under f.
OwnFilters(q, f) ==
  \A k \in 1..Len(q) :
    /\ q[k].op = "withdraw" => q[k].arg.filter = f
    /\ AsksList(q[k]) => q[k].arg.filter = f \/ \E j \in (k + 1)..Len(q) : AsksList(q[j])

\* The list will be replaced once more.
OwnToCome(q) ==
  \E k \in 1..Len(q) : q[k].op = "withdraw" \/ (IsReset(q[k]) /\ q[k].ans = Pending)

\* The page more that is asked for is the next one of b.
NextAsked(q, b) == \A k \in 1..Len(q) : IsMore(q[k]) /\ q[k].ans = Pending => q[k].arg.p = b.page

\* The answers lead to creations that the pages to come follow.
OwnLead(q, u, h) ==
  \E b : OwnReplay!Leads(q, OwnView(u), b) /\ Paged(b, CreationsHeld(h, u.filter)) /\ NextAsked(q, b)

OwnGo(q, u, h) ==
  /\ DOMAIN u = OwnFields /\ h \subseteq Creation
  /\ OwnOrder(q) /\ OwnFilters(q, u.filter)
  /\ OwnToCome(q) \/ OwnLead(q, u, h)

OwnState == Queue(OwnOps) /\ (~mishap => OwnGo(net, ui, srv))

\* Call c may follow q when the filter, f until now, is g.
Follows(q, c, f, g) ==
  /\ IsReset(c) => c.arg.p = 1
  /\ AsksList(c) => IsReset(c) \/ \A k \in 1..Len(q) : ~AsksList(q[k])
  /\ c.op = "withdraw" \/ AsksList(c) => c.arg.filter = g
  /\ g = f \/ (AsksList(c) /\ \A k \in 1..Len(q) : q[k].op # "withdraw")

\* The queue without its oldest call or with it, and one more call or none.
LEMMA OwnQueueGoes ==
  ASSUME NEW q, NEW t, NEW d \in {0, 1}, NEW e \in {0, 1}, Len(q) \in Nat, Len(q) >= d,
         Len(t) = (Len(q) - d) + e, \A k \in 1..(Len(q) - d) : t[k] = q[k + d],
         NEW f, NEW g, OwnOrder(q), OwnFilters(q, f),
         e = 0 => g = f, e = 1 => Follows(q, t[Len(t)], f, g)
  PROVE  OwnOrder(t) /\ OwnFilters(t, g)
<1>. DEFINE n == Len(q) - d
<1>1. n \in Nat /\ Len(t) = n + e /\ Len(t) \in Nat /\ Len(q) = n + d
  OBVIOUS
<1>2. \A k \in 1..n : t[k] = q[k + d] /\ k + d \in 1..Len(q)
  BY <1>1
<1>3. \A k \in 1..Len(t) : k \in 1..n \/ (e = 1 /\ k = n + 1 /\ k = Len(t))
  BY <1>1
<1>. HIDE DEF n
<1>4. ASSUME NEW k \in 1..Len(t), AsksList(t[k]), ~IsReset(t[k]), NEW j \in 1..(k - 1) PROVE ~AsksList(t[j])
  <2>0. j \in 1..n
    BY <1>1, <1>3
  <2>1. CASE k \in 1..n
    <3>1. j + d \in 1..((k + d) - 1) /\ t[j] = q[j + d] /\ t[k] = q[k + d] /\ k + d \in 1..Len(q)
      BY <1>1, <1>2, <2>0, <2>1
    <3>. QED BY <3>1, <1>4 DEF OwnOrder
  <2>2. CASE e = 1 /\ k = n + 1 /\ k = Len(t)
    <3>1. Follows(q, t[k], f, g)
      BY <2>2
    <3>2. ~AsksList(q[j + d])
      BY <3>1, <1>2, <1>4, <2>0 DEF Follows
    <3>. QED BY <3>2, <2>0, <1>2
  <2>. QED BY <2>1, <2>2, <1>3
<1>5. ASSUME NEW k \in 1..Len(t), IsReset(t[k]) PROVE t[k].arg.p = 1
  <2>1. CASE k \in 1..n
    BY <2>1, <1>2, <1>5 DEF OwnOrder, IsReset
  <2>2. CASE e = 1 /\ k = Len(t)
    BY <2>2, <1>5 DEF Follows
  <2>. QED BY <2>1, <2>2, <1>3
<1>6. ASSUME NEW k \in 1..Len(t), t[k].op = "withdraw" PROVE t[k].arg.filter = g
  <2>1. CASE k \in 1..n
    <3>1. k + d \in 1..Len(q) /\ q[k + d].op = "withdraw" /\ q[k + d].arg.filter = f /\ t[k] = q[k + d]
      BY <2>1, <1>2, <1>6 DEF OwnFilters
    <3>2. g = f
      BY <3>1 DEF Follows
    <3>. QED BY <3>1, <3>2
  <2>2. CASE e = 1 /\ k = Len(t)
    BY <2>2, <1>6 DEF Follows
  <2>. QED BY <2>1, <2>2, <1>3
<1>7. ASSUME NEW k \in 1..Len(t), AsksList(t[k]), t[k].arg.filter # g PROVE \E j \in (k + 1)..Len(t) : AsksList(t[j])
  <2>1. CASE k \in 1..n
    <3>1. k + d \in 1..Len(q) /\ t[k] = q[k + d]
      BY <2>1, <1>2
    <3>2. CASE g = f
      <4>1. PICK j \in (k + d + 1)..Len(q) : AsksList(q[j])
        BY <3>1, <3>2, <1>7 DEF OwnFilters
      <4>2. j - d \in (k + 1)..Len(t) /\ j - d \in 1..n /\ (j - d) + d = j
        BY <1>1
      <4>. QED BY <4>1, <4>2, <1>2
    <3>3. CASE g # f
      <4>1. e = 1 /\ AsksList(t[Len(t)])
        BY <3>3 DEF Follows
      <4>2. Len(t) \in (k + 1)..Len(t)
        BY <4>1, <2>1, <1>1
      <4>. QED BY <4>1, <4>2
    <3>. QED BY <3>2, <3>3
  <2>2. CASE e = 1 /\ k = Len(t)
    BY <2>2, <1>7 DEF Follows
  <2>. QED BY <2>1, <2>2, <1>3
<1>8. OwnOrder(t)
  BY <1>4, <1>5 DEF OwnOrder
<1>9. OwnFilters(t, g)
  BY <1>6, <1>7 DEF OwnFilters
<1>. QED BY <1>8, <1>9

\* One call more.
LEMMA OwnQueueGrows ==
  ASSUME NEW q, NEW t, Len(q) \in Nat, Len(t) = Len(q) + 1, \A k \in 1..Len(q) : t[k] = q[k],
         NEW f, NEW g, OwnOrder(q), OwnFilters(q, f), Follows(q, t[Len(t)], f, g)
  PROVE  OwnOrder(t) /\ OwnFilters(t, g)
<1>1. 0 \in {0, 1} /\ 1 \in {0, 1} /\ Len(q) >= 0 /\ Len(t) = (Len(q) - 0) + 1
  OBVIOUS
<1>2. \A k \in 1..(Len(q) - 0) : t[k] = q[k + 0]
  OBVIOUS
<1>. QED BY <1>1, <1>2, OwnQueueGoes

\* The oldest call gone, and one more or none.
LEMMA OwnQueueTurns ==
  ASSUME NEW q, NEW t, NEW e \in {0, 1}, Len(q) \in Nat, Len(q) >= 1, Len(t) = (Len(q) - 1) + e,
         \A k \in 1..(Len(q) - 1) : t[k] = q[k + 1],
         NEW f, OwnOrder(q), OwnFilters(q, f), e = 1 => Follows(q, t[Len(t)], f, f)
  PROVE  OwnOrder(t) /\ OwnFilters(t, f)
<1>1. 1 \in {0, 1}
  OBVIOUS
<1>. QED BY <1>1, OwnQueueGoes

\* Answers leave the order and the filters.
LEMMA OwnQueueAnswered ==
  ASSUME NEW q, NEW t, Len(t) = Len(q), \A k \in 1..Len(q) : t[k].op = q[k].op /\ t[k].arg = q[k].arg,
         NEW f, OwnOrder(q), OwnFilters(q, f)
  PROVE  OwnOrder(t) /\ OwnFilters(t, f)
<1>1. \A k \in 1..Len(q) : /\ AsksList(t[k]) <=> AsksList(q[k])
                           /\ IsReset(t[k]) <=> IsReset(q[k])
  BY DEF AsksList, IsReset
<1>2. OwnOrder(t)
  <2>1. ASSUME NEW k \in 1..Len(t), IsReset(t[k]) PROVE t[k].arg.p = 1
    BY <2>1, <1>1 DEF OwnOrder, IsReset
  <2>2. ASSUME NEW k \in 1..Len(t), AsksList(t[k]), ~IsReset(t[k]), NEW j \in 1..(k - 1), AsksList(t[j]) PROVE FALSE
    <3>1. k \in 1..Len(q) /\ AsksList(q[k]) /\ ~IsReset(q[k])
      BY <2>2, <1>1
    <3>2. ~AsksList(q[j])
      BY <3>1 DEF OwnOrder
    <3>3. j \in 1..Len(q)
      OBVIOUS
    <3>. QED BY <3>2, <3>3, <2>2, <1>1
  <2>. QED BY <2>1, <2>2 DEF OwnOrder
<1>3. OwnFilters(t, f)
  <2>1. ASSUME NEW k \in 1..Len(t) PROVE t[k].op = "withdraw" => t[k].arg.filter = f
    BY DEF OwnFilters
  <2>2. ASSUME NEW k \in 1..Len(t), AsksList(t[k]), t[k].arg.filter # f
        PROVE  \E j \in (k + 1)..Len(t) : AsksList(t[j])
    <3>1. k \in 1..Len(q) /\ AsksList(q[k]) /\ q[k].arg.filter # f
      BY <2>2, <1>1
    <3>2. PICK j \in (k + 1)..Len(q) : AsksList(q[j])
      BY <3>1 DEF OwnFilters
    <3>3. j \in 1..Len(q)
      OBVIOUS
    <3>. QED BY <3>2, <3>3, <1>1
  <2>. QED BY <2>1, <2>2 DEF OwnFilters
<1>. QED BY <1>2, <1>3

\* What can happen on this page.
LEMMA OwnActions ==
  ASSUME page = "creations", Queue(OwnOps), Next
  PROVE  \/ \E f \in Filters : SetFilter(f)
         \/ LoadMoreCreations \/ ActOnCreation
         \/ \E i \in 1..Len(net) :
              CreationsServed(i) \/ CreationActServed(i) \/ CreationsLoaded(i) \/ CreationActDone(i) \/ Deny(i)
<1>1. page \in FeedsPages /\ Queue(FeedsOps)
  BY QueueOf DEF FeedsPages, OwnOps, FeedsOps
<1>2. CASE FeedsUser
  BY <1>2 DEF FeedsUser, FeedTab, FeedScroll, GoToPage, InteractionTab, FollowToggle, HandleFollow
<1>3. ASSUME NEW i \in 1..Len(net), FeedsService(i) \/ FeedsThen(i)
      PROVE  CreationsServed(i) \/ CreationActServed(i) \/ CreationsLoaded(i) \/ CreationActDone(i)
  <2>1. net[i].op \in OwnOps
    BY DEF Queue, Calls
  <2>. QED BY <1>3, <2>1 DEF OwnOps, FeedsService, FeedServed, InteractionsServed,
         FollowToggleServed, ProfileServed, FollowServed, Asked, FeedsThen, FeedLoaded,
         InteractionsLoaded, FollowToggled, ProfileLoaded, FollowDone, Answered
<1>. QED BY <1>1, <1>2, <1>3, FeedsNext

\* The page starts with its first load on its way.
LEMMA OwnStarts ==
  ASSUME CreationsInit PROVE OwnState
<1>. DEFINE a == [reset |-> TRUE, p |-> 1, filter |-> "all"]
            c == Fetch("creations", a)
<1>1. IsCall(c) /\ c.op = "creations" /\ c.op \in OwnOps /\ c.ans = Pending /\ c.arg = a
  BY NewCalls DEF OwnOps
<1>2. net = <<c>> /\ mishap = FALSE
  BY DEF CreationsInit
<1>. HIDE DEF c
<1>3. Queue(OwnOps) /\ Len(net) = 1 /\ net[1] = c
  BY <1>1, <1>2, FirstCall
<1>4. DOMAIN ui = OwnFields /\ ui.filter = "all"
  BY DEF CreationsInit, OwnFields
<1>5. srv \subseteq Creation
  <2>1. \A n \in CreationIds, p, s \in BOOLEAN :
          [id |-> n, published |-> p, submitted |-> s, public |-> TRUE] \in Creation
    BY DEF Creation
  <2>2. \A n : (n # 2) \in BOOLEAN /\ (n = 1) \in BOOLEAN
    OBVIOUS
  <2>3. \A n \in CreationIds :
          [id |-> n, published |-> n # 2, submitted |-> n = 1, public |-> TRUE] \in Creation
    BY <2>1, <2>2, Zenon
  <2>. QED BY <2>3 DEF CreationsInit
<1>6. IsReset(c) /\ c.arg.p = 1 /\ c.arg.filter = "all" /\ AsksList(c)
  BY <1>1 DEF IsReset, AsksList
<1>7. \A k \in 1..Len(net) : k = 1 /\ net[k] = c
  BY <1>3
<1>8. OwnOrder(net)
  BY <1>6, <1>7 DEF OwnOrder
<1>9. OwnFilters(net, ui.filter)
  BY <1>1, <1>4, <1>6, <1>7 DEF OwnFilters
<1>10. OwnToCome(net)
  <2>1. 1 \in 1..Len(net)
    BY <1>3
  <2>. QED BY <2>1, <1>1, <1>3, <1>6 DEF OwnToCome
<1>. QED BY <1>3, <1>4, <1>5, <1>8, <1>9, <1>10 DEF OwnState, OwnGo

\* Without a list on its way the number of the next page is left alone.
LEMMA OwnPageStays ==
  ASSUME NEW q, Len(q) \in Nat, \A k \in 1..Len(q) : q[k].op \in OwnOps /\ ~AsksList(q[k]),
         NEW a, NEW b, OwnReplay!Leads(q, a, b)
  PROVE  b.page = a.page
<1>1. PICK w : OwnReplay!Walk(q, Len(q), a, w) /\ w[Len(q)] = b
  BY DEF OwnReplay!Leads
<1>. DEFINE T == {k \in 0..Len(q) : w[k].page = a.page}
<1>2. 0 \in T
  BY <1>1 DEF OwnReplay!Walk
<1>3. ASSUME NEW k \in 1..Len(q), k - 1 \in T PROVE k \in T
  <2>1. \A v : OwnAfter(q[k], v).page = v.page
    <3>1. q[k].op \in {"delete", "visibility", "withdraw"}
      BY DEF AsksList, OwnOps
    <3>. QED BY <3>1 DEF OwnAfter
  <2>2. w[k] = OwnReplay!Step(q[k], w[k - 1])
    BY <1>1 DEF OwnReplay!Walk
  <2>. QED BY <1>3, <2>1, <2>2 DEF OwnReplay!Step
<1>4. \A k \in 0..Len(q) : k \in T
  <2>. HIDE DEF T
  <2>. QED BY <1>2, <1>3, OwnReplay!Reaches
<1>5. Len(q) \in T
  BY <1>4
<1>. QED BY <1>1, <1>5

\* The owner's steps.
LEMMA OwnBegins ==
  ASSUME OwnState, NEW s, NEW c, IsCall(c), c.op \in OwnOps, c.ans = Pending,
         net' = Append(net, c), ui' = s, page' = page, srv' = srv, mishap' \in BOOLEAN, mishap => mishap',
         DOMAIN ui = OwnFields => DOMAIN s = OwnFields /\ OwnView(s) = OwnView(ui),
         ~mishap' => /\ Follows(net, c, ui.filter, s.filter)
                     /\ c.op = "withdraw" \/ IsReset(c) \/ s.filter = ui.filter
                     /\ IsMore(c) => c.arg.p = ui.page
  PROVE  OwnState'
<1>1. NewOnes(<<c>>, OwnOps) /\ Len(<<c>>) = 1 /\ <<c>>[1] = c
  BY NewOne
<1>2. net' = net \o <<c>>
  OBVIOUS
<1>3. Begun(OwnOps, s, <<c>>)
  BY <1>1, <1>2, Begins DEF OwnState
<1>4. /\ Queue(OwnOps)' /\ Grown(net, net') /\ Len(net) \in Nat /\ Len(net') = Len(net) + 1
      /\ \A k \in 1..Len(net) : net'[k] = net[k]
      /\ net'[Len(net')] = c
  <2>1. 1 \in 1..Len(<<c>>)
    BY <1>1
  <2>. QED BY <1>1, <1>3, <2>1 DEF Begun
<1>5. ASSUME ~mishap' PROVE OwnGo(net', s, srv)
  <2>1. ~mishap
    BY <1>5
  <2>2. /\ DOMAIN ui = OwnFields /\ srv \subseteq Creation
        /\ OwnOrder(net) /\ OwnFilters(net, ui.filter)
        /\ OwnToCome(net) \/ OwnLead(net, ui, srv)
    BY <2>1 DEF OwnState, OwnGo
  <2>3. DOMAIN s = OwnFields /\ OwnView(s) = OwnView(ui)
    BY <2>2
  <2>4. Follows(net, c, ui.filter, s.filter)
    BY <1>5
  <2>5. OwnOrder(net') /\ OwnFilters(net', s.filter)
    <3>1. Follows(net, net'[Len(net')], ui.filter, s.filter)
      BY <1>4, <2>4
    <3>2. Len(net) \in Nat /\ Len(net') = Len(net) + 1 /\ \A k \in 1..Len(net) : net'[k] = net[k]
      BY <1>4
    <3>. QED BY <3>1, <3>2, <2>2, OwnQueueGrows
  <2>6. \A k \in 1..Len(net') : k \in 1..Len(net) \/ (k = Len(net') /\ net'[k] = c)
    BY <1>4
  <2>7. Len(net') \in 1..Len(net') /\ \A k \in 1..Len(net) : k \in 1..Len(net') /\ net'[k] = net[k]
    BY <1>4
  <2>8. CASE c.op = "withdraw" \/ IsReset(c)
    <3>1. OwnToCome(net')
      BY <1>4, <2>7, <2>8 DEF OwnToCome
    <3>. QED BY <2>2, <2>3, <2>5, <3>1 DEF OwnGo
  <2>9. CASE OwnToCome(net)
    <3>1. OwnToCome(net')
      BY <2>7, <2>9 DEF OwnToCome
    <3>. QED BY <2>2, <2>3, <2>5, <3>1 DEF OwnGo
  <2>10. CASE ~(c.op = "withdraw" \/ IsReset(c)) /\ OwnLead(net, ui, srv)
    <3>1. PICK b : /\ OwnReplay!Leads(net, OwnView(ui), b)
                   /\ Paged(b, CreationsHeld(srv, ui.filter)) /\ NextAsked(net, b)
      BY <2>10 DEF OwnLead
    <3>2. OwnReplay!Leads(net', OwnView(s), b)
      <4>1. OwnReplay!Leads(net', OwnView(ui), b)
        BY <1>4, <3>1, OwnReplay!LeadsGrow DEF Grown
      <4>. QED BY <4>1, <2>3
    <3>3. s.filter = ui.filter
      BY <1>5, <2>10
    <3>4. ASSUME IsMore(c) PROVE c.arg.p = b.page
      <4>1. \A k \in 1..Len(net) : net[k].op \in OwnOps /\ ~AsksList(net[k])
        BY <2>4, <2>10, <3>4 DEF Follows, IsMore, OwnState, Queue, Calls
      <4>2. OwnReplay!Leads(net, OwnView(ui), b)
        BY <3>1
      <4>3. b.page = OwnView(ui).page
        BY <1>4, <4>1, <4>2, OwnPageStays
      <4>. QED BY <4>3, <1>5, <3>4 DEF OwnView
    <3>5. NextAsked(net', b)
      <4>1. ASSUME NEW k \in 1..Len(net'), IsMore(net'[k]), net'[k].ans = Pending PROVE net'[k].arg.p = b.page
        BY <4>1, <1>4, <2>6, <3>1, <3>4 DEF NextAsked
      <4>. QED BY <4>1 DEF NextAsked
    <3>6. OwnLead(net', s, srv)
      BY <3>1, <3>2, <3>3, <3>5 DEF OwnLead
    <3>. QED BY <2>2, <2>3, <2>5, <3>6 DEF OwnGo
  <2>. QED BY <2>2, <2>8, <2>9, <2>10
<1>6. ui' = s /\ srv' = srv
  OBVIOUS
<1>. QED BY <1>4, <1>5, <1>6 DEF OwnState

\* A new filter.
LEMMA OwnFiltered ==
  ASSUME OwnState, NEW f, SetFilter(f) PROVE OwnState'
<1>. DEFINE s == [ui EXCEPT !.filter = f, !.loading = TRUE]
            a == [reset |-> TRUE, p |-> 1, filter |-> f]
            c == Fetch("creations", a)
<1>1. IsCall(c) /\ c.op = "creations" /\ c.op \in OwnOps /\ c.ans = Pending /\ c.arg = a
  BY NewCalls DEF OwnOps
<1>2. /\ net' = Append(net, c) /\ ui' = s /\ page' = page /\ srv' = srv /\ ~mishap
      /\ mishap' = \E i \in DOMAIN net : net[i].op \in Reloading
  BY DEF SetFilter, LoadCreations
<1>3. AsksList(c) /\ IsReset(c) /\ ~IsMore(c) /\ c.arg.p = 1 /\ c.arg.filter = f
  BY <1>1 DEF IsReset, AsksList, IsMore
<1>4. DOMAIN ui = OwnFields => DOMAIN s = OwnFields /\ OwnView(s) = OwnView(ui) /\ s.filter = f
  BY DEF OwnFields, OwnView
<1>. HIDE DEF c, s
<1>5. mishap' \in BOOLEAN
  BY <1>2
<1>6. ASSUME ~mishap' PROVE \A k \in 1..Len(net) : net[k].op # "withdraw"
  <2>1. DOMAIN net = 1..Len(net)
    BY InDomain DEF OwnState
  <2>. QED BY <2>1, <1>2, <1>6 DEF Reloading
<1>7. DOMAIN ui = OwnFields
  BY <1>2 DEF OwnState, OwnGo
<1>8. ASSUME ~mishap' PROVE Follows(net, c, ui.filter, s.filter)
  BY <1>1, <1>3, <1>4, <1>6, <1>7, <1>8 DEF Follows
<1>. QED BY <1>1, <1>2, <1>3, <1>4, <1>5, <1>8, OwnBegins

\* One page more is asked for.
LEMMA OwnAsksMore ==
  ASSUME OwnState, LoadMoreCreations PROVE OwnState'
<1>. DEFINE s == [ui EXCEPT !.loading = TRUE]
            a == [reset |-> FALSE, p |-> ui.page, filter |-> ui.filter]
            c == Fetch("creations", a)
<1>1. IsCall(c) /\ c.op = "creations" /\ c.op \in OwnOps /\ c.ans = Pending /\ c.arg = a
  BY NewCalls DEF OwnOps
<1>2. /\ net' = Append(net, c) /\ ui' = s /\ page' = page /\ srv' = srv /\ ~mishap
      /\ mishap' = \E i \in DOMAIN net : net[i].op = "creations"
  BY DEF LoadMoreCreations, LoadCreations
<1>3. AsksList(c) /\ ~IsReset(c) /\ c.arg.p = ui.page /\ c.arg.filter = ui.filter
  BY <1>1 DEF IsReset, AsksList
<1>4. DOMAIN ui = OwnFields => DOMAIN s = OwnFields /\ OwnView(s) = OwnView(ui) /\ s.filter = ui.filter
  BY DEF OwnFields, OwnView
<1>. HIDE DEF c, s
<1>5. mishap' \in BOOLEAN
  BY <1>2
<1>6. ASSUME ~mishap' PROVE \A k \in 1..Len(net) : ~AsksList(net[k])
  <2>1. DOMAIN net = 1..Len(net)
    BY InDomain DEF OwnState
  <2>. QED BY <2>1, <1>2, <1>6 DEF AsksList
<1>7. DOMAIN ui = OwnFields
  BY <1>2 DEF OwnState, OwnGo
<1>8. ASSUME ~mishap' PROVE Follows(net, c, ui.filter, s.filter)
  BY <1>1, <1>3, <1>4, <1>6, <1>7, <1>8 DEF Follows
<1>. QED BY <1>1, <1>2, <1>3, <1>4, <1>5, <1>7, <1>8, OwnBegins

\* What a card offers is done.
LEMMA OwnActs ==
  ASSUME OwnState, ActOnCreation PROVE OwnState'
<1>0. PICK x \in ToSet(ui.creations) : \E op \in CreationActs(x) :
        ~mishap /\ Handle(ui, <<Fetch(op, [id |-> x.id, filter |-> ui.filter])>>)
  BY DEF ActOnCreation
<1>1. PICK op \in CreationActs(x) :
        ~mishap /\ Handle(ui, <<Fetch(op, [id |-> x.id, filter |-> ui.filter])>>)
  BY <1>0
<1>2. op \in OwnOps /\ op # "creations"
  BY DEF CreationActs, OwnOps
<1>. DEFINE a == [id |-> x.id, filter |-> ui.filter]
            c == Fetch(op, a)
<1>3. IsCall(c) /\ c.op = op /\ c.ans = Pending /\ c.arg = a
  BY NewCalls
<1>4. net' = Append(net, c) /\ ui' = ui /\ page' = page /\ srv' = srv /\ mishap' = mishap
  BY <1>1 DEF Handle
<1>5. mishap' \in BOOLEAN
  BY <1>4 DEF OwnState, Queue
<1>6. ~AsksList(c) /\ ~IsReset(c) /\ ~IsMore(c)
  BY <1>2, <1>3 DEF AsksList, IsReset, IsMore
<1>7. c.arg.filter = ui.filter
  BY <1>3
<1>. HIDE DEF c
<1>8. Follows(net, c, ui.filter, ui.filter)
  BY <1>6, <1>7 DEF Follows
<1>. QED BY <1>2, <1>3, <1>4, <1>5, <1>6, <1>8, OwnBegins

\* The answer to a load that starts over.
LEMMA OwnListed ==
  ASSUME NEW q, NEW t, NEW i \in 1..Len(q), Len(q) \in Nat, Len(t) = Len(q),
         \A k \in 1..Len(q) : k # i => t[k] = q[k], t[i].op = q[i].op, t[i].arg = q[i].arg,
         t[i].ans # Pending,
         \A k \in 1..(i - 1) : q[k].ans # Pending,
         \A k \in i..Len(q) : q[k].ans = Pending,
         OwnOrder(q), NEW f, OwnFilters(q, f), AsksList(q[i]), ~OwnToCome(t)
  PROVE  /\ q[i].arg.filter = f
         /\ \A k \in 1..Len(q) : ~(IsMore(t[k]) /\ t[k].ans = Pending)
<1>1. ASSUME NEW k \in (i + 1)..Len(q), AsksList(q[k]) PROVE FALSE
  <2>1. k \in 1..Len(q) /\ i \in 1..(k - 1) /\ k \in i..Len(q) /\ k # i
    OBVIOUS
  <2>2. IsReset(q[k])
    BY <2>1, <1>1 DEF OwnOrder
  <2>3. t[k] = q[k] /\ q[k].ans = Pending
    BY <2>1
  <2>. QED BY <2>1, <2>2, <2>3 DEF OwnToCome
<1>2. q[i].arg.filter = f
  BY <1>1 DEF OwnFilters
<1>3. ASSUME NEW k \in 1..Len(q), IsMore(t[k]), t[k].ans = Pending PROVE FALSE
  <2>1. k # i /\ t[k] = q[k]
    BY <1>3
  <2>2. ~(k \in 1..(i - 1))
    BY <2>1, <1>3
  <2>3. k \in (i + 1)..Len(q)
    BY <2>1, <2>2
  <2>. QED BY <2>1, <2>3, <1>1, <1>3 DEF IsMore
<1>. QED BY <1>2, <1>3

\* A call is answered.
LEMMA OwnReplied ==
  ASSUME OwnState, NEW i \in 1..Len(net), net[i].ans = Pending, NEW v, NEW h, Reply(i, v, h),
         ~mishap => h \subseteq Creation,
         AsksList(net[i]) => /\ h = srv
                           /\ \E s : /\ Lists(s, CreationsHeld(srv, net[i].arg.filter))
                                     /\ v = IF net[i].arg.p <= Len(s) THEN <<s[net[i].arg.p]>> ELSE << >>,
         ~mishap /\ net[i].op \in {"delete", "visibility"} =>
           \A b, c : Paged(b, CreationsHeld(srv, ui.filter)) /\ c.op = net[i].op /\ c.arg = net[i].arg
             => Paged(OwnAfter(c, b), CreationsHeld(h, ui.filter)) /\ OwnAfter(c, b).page = b.page
  PROVE  OwnState'
<1>1. Replied(OwnOps, i, v, h)
  BY Replies DEF OwnState
<1>2. /\ Queue(OwnOps)' /\ ui' = ui /\ srv' = h
      /\ Len(net') = Len(net) /\ Len(net) \in Nat
      /\ \A k \in 1..Len(net) : k # i => net'[k] = net[k]
      /\ net'[i].op = net[i].op /\ net'[i].arg = net[i].arg /\ net'[i].ans # Pending
  BY <1>1 DEF Replied
<1>3. net[i].op \in OwnOps
  BY DEF OwnState, Queue, Calls
<1>4. ASSUME ~mishap' PROVE OwnGo(net', ui, h)
  <2>1. AnsweredNext(net, net', i) /\ net'[i].ans = Ok(v) /\ ~mishap
    BY <1>1, <1>4, RepliedNext
  <2>2. \A k \in 1..(i - 1) : net[k].ans # Pending
    BY <1>1, <1>4 DEF Replied
  <2>3. /\ DOMAIN ui = OwnFields /\ srv \subseteq Creation
        /\ OwnOrder(net) /\ OwnFilters(net, ui.filter)
        /\ OwnToCome(net) \/ OwnLead(net, ui, srv)
    BY <2>1 DEF OwnState, OwnGo
  <2>4. OwnOrder(net') /\ OwnFilters(net', ui.filter)
    <3>1. \A k \in 1..Len(net) : net'[k].op = net[k].op /\ net'[k].arg = net[k].arg
      BY <1>2
    <3>. QED BY <1>2, <2>3, <3>1, OwnQueueAnswered
  <2>5. h \subseteq Creation
    BY <2>1
  <2>6. SUFFICES ASSUME ~OwnToCome(net') PROVE OwnLead(net', ui, h)
    BY <2>3, <2>4, <2>5 DEF OwnGo
  <2>7. net[i].op # "withdraw" /\ (~IsReset(net[i]) => ~OwnToCome(net))
    <3>1. net[i].op # "withdraw"
      BY <1>2, <2>6 DEF OwnToCome
    <3>2. ASSUME ~IsReset(net[i]), OwnToCome(net) PROVE FALSE
      <4>1. PICK k \in 1..Len(net) : net[k].op = "withdraw" \/ (IsReset(net[k]) /\ net[k].ans = Pending)
        BY <3>2 DEF OwnToCome
      <4>2. k # i
        BY <4>1, <3>1, <3>2
      <4>3. net'[k] = net[k] /\ k \in 1..Len(net')
        BY <4>2, <1>2
      <4>. QED BY <4>1, <4>3, <2>6 DEF OwnToCome
    <3>. QED BY <3>1, <3>2
  <2>8. CASE AsksList(net[i])
    <3>1. /\ net[i].arg.filter = ui.filter
          /\ \A k \in 1..Len(net) : ~(IsMore(net'[k]) /\ net'[k].ans = Pending)
      <4>1. \A k \in i..Len(net) : net[k].ans = Pending
        BY <2>1 DEF AnsweredNext
      <4>. QED BY <4>1, <1>2, <2>2, <2>3, <2>6, <2>8, OwnListed
    <3>2. \A b : NextAsked(net', b)
      BY <3>1, <1>2 DEF NextAsked
    <3>. DEFINE g == CreationsHeld(h, ui.filter)
                p == net[i].arg.p
    <3>3. PICK s : Lists(s, g) /\ v = IF p <= Len(s) THEN <<s[p]>> ELSE << >>
      BY <2>8, <3>1
    <3>4. net'[i].ans.data = v /\ net'[i].op = "creations"
      BY <1>2, <2>1, <2>8 DEF Ok, AsksList
    <3>5. CASE IsReset(net[i])
      <4>1. PICK b : OwnReplay!Leads(net, OwnView(ui), b)
        BY <1>2, OwnReplay!LeadsOn
      <4>2. OwnReplay!Leads(net', OwnView(ui), OwnAfter(net'[i], b))
        BY <2>1, <4>1, OwnReplay!LeadsAnswered DEF AnsweredNext
      <4>3. p = 1 /\ net'[i].arg.reset
        BY <1>2, <2>3, <2>8, <3>5 DEF OwnOrder, IsReset
      <4>4. OwnAfter(net'[i], b) = [creations |-> v, page |-> 2]
        BY <3>4, <4>3 DEF OwnAfter, Grows
      <4>5. v = IF 1 <= Len(s) THEN <<s[1]>> ELSE << >>
        BY <3>3, <4>3
      <4>. HIDE DEF g
      <4>6. Paged(OwnAfter(net'[i], b), g)
        BY <3>3, <4>4, <4>5, FirstPage
      <4>. QED BY <3>2, <4>2, <4>6 DEF OwnLead, g
    <3>6. CASE ~IsReset(net[i])
      <4>1. PICK b : OwnReplay!Leads(net, OwnView(ui), b) /\ Paged(b, g) /\ NextAsked(net, b)
        BY <2>3, <2>7, <2>8, <3>6 DEF OwnLead
      <4>2. OwnReplay!Leads(net', OwnView(ui), OwnAfter(net'[i], b))
        BY <2>1, <4>1, OwnReplay!LeadsAnswered DEF AnsweredNext
      <4>3. p = b.page
        BY <2>8, <3>6, <4>1 DEF NextAsked, IsMore, IsReset
      <4>4. ~net'[i].arg.reset
        BY <1>2, <2>8, <3>6 DEF IsReset
      <4>5. OwnAfter(net'[i], b) = [creations |-> b.creations \o v, page |-> b.page + 1]
        BY <3>4, <4>4 DEF OwnAfter, Grows
      <4>6. v = IF b.page <= Len(s) THEN <<s[b.page]>> ELSE << >>
        BY <3>3, <4>3
      <4>7. \A x \in g : x.id \in Int
        BY <2>5 DEF CreationsHeld, Creation, CreationIds
      <4>8. Lists(s, g) /\ Paged(b, g)
        BY <3>3, <4>1
      <4>. HIDE DEF g
      <4>9. OwnAfter(net'[i], b) = [creations |-> b.creations \o (IF b.page <= Len(s) THEN <<s[b.page]>> ELSE << >>),
                                    page |-> b.page + 1]
        BY <4>5, <4>6
      <4>10. Paged(OwnAfter(net'[i], b), g)
        BY <4>7, <4>8, <4>9, NextPage
      <4>. QED BY <3>2, <4>2, <4>10 DEF OwnLead, g
    <3>. QED BY <3>5, <3>6
  <2>9. CASE ~AsksList(net[i])
    <3>1. net[i].op \in {"delete", "visibility"}
      BY <1>3, <2>7, <2>9 DEF OwnOps, AsksList
    <3>2. ~IsReset(net[i])
      BY <2>9 DEF IsReset
    <3>3. PICK b : /\ OwnReplay!Leads(net, OwnView(ui), b)
                   /\ Paged(b, CreationsHeld(srv, ui.filter)) /\ NextAsked(net, b)
      BY <2>3, <2>7, <3>2 DEF OwnLead
    <3>4. OwnReplay!Leads(net', OwnView(ui), OwnAfter(net'[i], b))
      BY <2>1, <3>3, OwnReplay!LeadsAnswered DEF AnsweredNext
    <3>5. Paged(OwnAfter(net'[i], b), CreationsHeld(h, ui.filter)) /\ OwnAfter(net'[i], b).page = b.page
      BY <1>2, <2>1, <3>1, <3>3
    <3>6. \A k \in 1..Len(net') : IsMore(net'[k]) /\ net'[k].ans = Pending => k # i /\ net'[k] = net[k]
      BY <1>2
    <3>7. NextAsked(net', OwnAfter(net'[i], b))
      BY <1>2, <3>3, <3>5, <3>6 DEF NextAsked
    <3>. QED BY <3>4, <3>5, <3>7 DEF OwnLead
  <2>. QED BY <2>8, <2>9
<1>. QED BY <1>2, <1>4 DEF OwnState

\* The service answers.
LEMMA OwnIsServed ==
  ASSUME OwnState, NEW i \in 1..Len(net), CreationsServed(i) \/ CreationActServed(i) PROVE OwnState'
<1>1. ~mishap => srv \subseteq Creation
  BY DEF OwnState, OwnGo
<1>2. CASE CreationsServed(i)
  <2>. DEFINE p == net[i].arg.p
              g == CreationsHeld(srv, net[i].arg.filter)
  <2>1. net[i].op = "creations" /\ net[i].ans = Pending
    BY <1>2 DEF CreationsServed, Asked
  <2>2. PICK s \in Listings(g, Cardinality(CreationIds)) : Reply(i, IF p <= Len(s) THEN <<s[p]>> ELSE << >>, srv)
    BY <1>2 DEF CreationsServed
  <2>3. Cardinality(CreationIds) \in Nat
    <3>1. 1 \in Int /\ 2 \in Int
      OBVIOUS
    <3>2. IsFiniteSet(1..2)
      BY <3>1, FS_Interval, Zenon
    <3>. QED BY <3>2, FS_CardinalityType DEF CreationIds
  <2>. HIDE DEF g
  <2>4. Lists(s, g)
    BY <2>2, <2>3, ListingLists
  <2>5. net[i].op \notin {"delete", "visibility"}
    BY <2>1
  <2>. DEFINE v == IF p <= Len(s) THEN <<s[p]>> ELSE << >>
  <2>6. AsksList(net[i]) => /\ srv = srv
                          /\ \E r : Lists(r, CreationsHeld(srv, net[i].arg.filter))
                                    /\ v = IF net[i].arg.p <= Len(r) THEN <<r[net[i].arg.p]>> ELSE << >>
    BY <2>4 DEF g
  <2>7. Reply(i, v, srv)
    BY <2>2
  <2>. HIDE DEF v
  <2>. QED BY <1>1, <2>1, <2>5, <2>6, <2>7, OwnReplied
<1>3. CASE Asked(i, {"delete"}) /\ Reply(i, TRUE, {c \in srv : c.id # net[i].arg.id})
  <2>. DEFINE id == net[i].arg.id
              h == {c \in srv : c.id # id}
  <2>1. net[i].op = "delete" /\ net[i].ans = Pending /\ Reply(i, TRUE, h) /\ ~AsksList(net[i])
    BY <1>3 DEF Asked, AsksList
  <2>2. ~mishap => h \subseteq Creation
    BY <1>1
  <2>3. ASSUME ~mishap, NEW b, NEW c, Paged(b, CreationsHeld(srv, ui.filter)), c.op = "delete", c.arg = net[i].arg
        PROVE  Paged(OwnAfter(c, b), CreationsHeld(h, ui.filter)) /\ OwnAfter(c, b).page = b.page
    <3>. DEFINE g == CreationsHeld(srv, ui.filter)
    <3>1. CreationsHeld(h, ui.filter) = {x \in g : x.id # id}
      BY DEF CreationsHeld
    <3>2. OwnAfter(c, b) = [creations |-> Without(b.creations, id), page |-> b.page]
      BY <2>3 DEF OwnAfter
    <3>3. \A x \in g : x.id \in Int
      BY <1>1, <2>3 DEF CreationsHeld, Creation, CreationIds
    <3>4. Paged(b, g)
      BY <2>3
    <3>. HIDE DEF g
    <3>5. Paged(OwnAfter(c, b), {x \in g : x.id # id})
      BY <3>2, <3>3, <3>4, LessPaged
    <3>6. OwnAfter(c, b).page = b.page
      BY <3>2
    <3>. HIDE DEF h
    <3>7. Paged(OwnAfter(c, b), CreationsHeld(h, ui.filter))
      BY <3>1, <3>5
    <3>. QED BY <3>6, <3>7
  <2>. HIDE DEF h
  <2>4. ~mishap /\ net[i].op \in {"delete", "visibility"} =>
          \A b, c : Paged(b, CreationsHeld(srv, ui.filter)) /\ c.op = net[i].op /\ c.arg = net[i].arg
            => Paged(OwnAfter(c, b), CreationsHeld(h, ui.filter)) /\ OwnAfter(c, b).page = b.page
    BY <2>1, <2>3
  <2>. QED BY <2>1, <2>2, <2>4, OwnReplied
<1>4. CASE /\ Asked(i, {"visibility", "withdraw"})
           /\ Reply(i, TRUE, {CreationEffect(c, net[i].op, net[i].arg) : c \in srv})
  <2>. DEFINE h == {CreationEffect(x, net[i].op, net[i].arg) : x \in srv}
  <2>1. net[i].op \in {"visibility", "withdraw"} /\ net[i].ans = Pending /\ Reply(i, TRUE, h) /\ ~AsksList(net[i])
    BY <1>4 DEF Asked, AsksList
  <2>2. \A x \in Creation : CreationEffect(x, net[i].op, net[i].arg) \in Creation
    BY DEF CreationEffect, Creation
  <2>3. ~mishap => h \subseteq Creation
    BY <1>1, <2>2
  <2>4. ASSUME ~mishap, net[i].op = "visibility",
               NEW b, NEW c, Paged(b, CreationsHeld(srv, ui.filter)), c.op = "visibility", c.arg = net[i].arg
        PROVE  Paged(OwnAfter(c, b), CreationsHeld(h, ui.filter)) /\ OwnAfter(c, b).page = b.page
    <3>. DEFINE g == CreationsHeld(srv, ui.filter)
    <3>1. h = {ChangedCreation(c, x) : x \in srv}
      BY <2>4 DEF ChangedCreation
    <3>2. \A x \in srv : ChangedCreation(c, x).published = x.published
      BY <1>1, <2>4 DEF ChangedCreation, CreationEffect, Creation
    <3>. HIDE DEF h
    <3>3. CreationsHeld(h, ui.filter) = ChangedAll(c, g)
      <4>1. ASSUME NEW y \in CreationsHeld(h, ui.filter) PROVE y \in ChangedAll(c, g)
        <5>1. PICK x \in srv : y = ChangedCreation(c, x)
          BY <3>1 DEF CreationsHeld
        <5>2. ui.filter = "published" => x.published
          BY <5>1, <3>2 DEF CreationsHeld
        <5>3. x \in g
          BY <5>2 DEF CreationsHeld
        <5>. QED BY <5>1, <5>3 DEF ChangedAll
      <4>2. ASSUME NEW y \in ChangedAll(c, g) PROVE y \in CreationsHeld(h, ui.filter)
        <5>1. PICK x \in g : y = ChangedCreation(c, x)
          BY DEF ChangedAll
        <5>2. x \in srv /\ (ui.filter = "published" => x.published)
          BY <5>1 DEF CreationsHeld
        <5>3. y \in h
          BY <5>1, <5>2, <3>1
        <5>4. ui.filter = "published" => y.published
          BY <5>1, <5>2, <3>2
        <5>. QED BY <5>3, <5>4 DEF CreationsHeld
      <4>. QED BY <4>1, <4>2
    <3>4. OwnAfter(c, b) = [creations |-> Changed(c, b.creations), page |-> b.page]
      BY <2>4 DEF OwnAfter
    <3>5. g \subseteq Creation /\ Paged(b, g)
      BY <1>1, <2>4 DEF CreationsHeld
    <3>. HIDE DEF g
    <3>6. Paged(OwnAfter(c, b), ChangedAll(c, g))
      BY <3>4, <3>5, ChangesPaged
    <3>. QED BY <3>3, <3>4, <3>6
  <2>. HIDE DEF h
  <2>5. ~mishap /\ net[i].op \in {"delete", "visibility"} =>
          \A b, c : Paged(b, CreationsHeld(srv, ui.filter)) /\ c.op = net[i].op /\ c.arg = net[i].arg
            => Paged(OwnAfter(c, b), CreationsHeld(h, ui.filter)) /\ OwnAfter(c, b).page = b.page
    BY <2>1, <2>4
  <2>. QED BY <2>1, <2>3, <2>5, OwnReplied
<1>. QED BY <1>2, <1>3, <1>4 DEF CreationActServed

\* A continuation makes of the list what Replay says, or loads it again.
LEMMA OwnFinishes ==
  ASSUME OwnState, NEW i \in 1..Len(net), net[i].ans # Pending, NEW s, NEW cs, NewOnes(cs, OwnOps), Settle(i, s, cs),
         DOMAIN ui = OwnFields /\ IsOk(i) => DOMAIN s = OwnFields /\ s.filter = ui.filter,
         DOMAIN ui = OwnFields /\ IsOk(i) =>
           \/ OwnView(s) = OwnAfter(net[i], OwnView(ui)) /\ net[i].op # "withdraw" /\ Len(cs) = 0
           \/ Len(cs) = 1 /\ IsReset(cs[1]) /\ cs[1].arg.p = 1 /\ net[i].op = "withdraw"
              /\ cs[1].arg.filter = net[i].arg.filter /\ cs[1].op = "creations"
  PROVE  OwnState'
<1>1. Finished(OwnOps, i, s, cs)
  BY SettleFinishes DEF OwnState
<1>2. /\ Queue(OwnOps)' /\ ui' = s /\ srv' = srv
      /\ Len(net') = (Len(net) - 1) + Len(cs) /\ Len(net) \in Nat
      /\ \A k \in 1..Len(cs) : net'[(Len(net) - 1) + k] = cs[k]
      /\ (mishap => mishap') /\ (~mishap' => i = 1 /\ IsOk(1) /\ Shifted(net, net'))
  BY <1>1 DEF Finished
<1>3. ASSUME ~mishap' PROVE OwnGo(net', s, srv)
  <2>1. ~mishap /\ i = 1 /\ IsOk(i) /\ Shifted(net, net')
    BY <1>2, <1>3 DEF OwnState, Queue
  <2>2. /\ DOMAIN ui = OwnFields /\ srv \subseteq Creation
        /\ OwnOrder(net) /\ OwnFilters(net, ui.filter)
        /\ OwnToCome(net) \/ OwnLead(net, ui, srv)
    BY <2>1 DEF OwnState, OwnGo
  <2>3. DOMAIN s = OwnFields /\ s.filter = ui.filter
    BY <2>1, <2>2
  <2>4. Len(net) \in Nat /\ Len(net) >= 1 /\ \A k \in 1..(Len(net) - 1) : net'[k] = net[k + 1]
    BY <2>1 DEF Shifted
  <2>5. CASE /\ Len(cs) = 1 /\ IsReset(cs[1]) /\ cs[1].arg.p = 1 /\ net[i].op = "withdraw"
             /\ cs[1].arg.filter = net[i].arg.filter /\ cs[1].op = "creations"
    <3>1. 1 \in 1..Len(cs) /\ Len(net') = Len(net) /\ Len(net) \in 1..Len(net') /\ (Len(net) - 1) + 1 = Len(net)
      BY <2>4, <2>5, <1>2
    <3>2. net'[Len(net')] = cs[1] /\ cs[1].ans = Pending
      BY <3>1, <1>2 DEF NewOnes
    <3>3. OwnToCome(net')
      BY <2>5, <3>1, <3>2 DEF OwnToCome
    <3>4. cs[1].arg.filter = ui.filter
      BY <2>1, <2>2, <2>5 DEF OwnFilters
    <3>5. Follows(net, net'[Len(net')], ui.filter, ui.filter)
      BY <2>5, <3>2, <3>4 DEF Follows
    <3>6. 1 \in {0, 1} /\ Len(net') = (Len(net) - 1) + 1
      BY <2>4, <3>1
    <3>7. OwnOrder(net') /\ OwnFilters(net', ui.filter)
      BY <2>2, <2>4, <3>5, <3>6, OwnQueueTurns
    <3>. QED BY <2>2, <2>3, <3>3, <3>7 DEF OwnGo
  <2>6. CASE OwnView(s) = OwnAfter(net[i], OwnView(ui)) /\ net[i].op # "withdraw" /\ Len(cs) = 0
    <3>1. 0 \in {0, 1} /\ 0 # 1 /\ Len(net') = (Len(net) - 1) + 0 /\ Len(net') = Len(net) - 1
      BY <1>2, <2>4, <2>6
    <3>2. OwnOrder(net') /\ OwnFilters(net', ui.filter)
      BY <2>2, <2>4, <3>1, OwnQueueTurns
    <3>3. CASE OwnToCome(net)
      <4>1. PICK k \in 1..Len(net) : net[k].op = "withdraw" \/ (IsReset(net[k]) /\ net[k].ans = Pending)
        BY <3>3 DEF OwnToCome
      <4>2. k # 1
        BY <4>1, <2>1, <2>6
      <4>3. k - 1 \in 1..(Len(net) - 1) /\ (k - 1) + 1 = k /\ k - 1 \in 1..Len(net')
        BY <4>2, <2>4, <3>1
      <4>4. net'[k - 1] = net[k]
        BY <4>3, <2>4
      <4>5. OwnToCome(net')
        BY <4>1, <4>3, <4>4 DEF OwnToCome
      <4>. QED BY <2>2, <2>3, <3>2, <4>5 DEF OwnGo
    <3>4. CASE OwnLead(net, ui, srv)
      <4>1. PICK b : /\ OwnReplay!Leads(net, OwnView(ui), b)
                     /\ Paged(b, CreationsHeld(srv, ui.filter)) /\ NextAsked(net, b)
        BY <3>4 DEF OwnLead
      <4>2. OwnReplay!Leads(net', OwnReplay!Step(net[1], OwnView(ui)), b)
        BY <2>1, <4>1, OwnReplay!LeadsSettled DEF Shifted
      <4>3. OwnReplay!Step(net[1], OwnView(ui)) = OwnView(s)
        BY <2>1, <2>6 DEF OwnReplay!Step
      <4>4. NextAsked(net', b)
        <5>1. \A k \in 1..Len(net') : k + 1 \in 1..Len(net) /\ net'[k] = net[k + 1]
          BY <2>4, <3>1
        <5>. QED BY <5>1, <4>1 DEF NextAsked
      <4>. QED BY <2>2, <2>3, <3>2, <4>1, <4>2, <4>3, <4>4 DEF OwnGo, OwnLead
    <3>. QED BY <2>2, <3>3, <3>4
  <2>. QED BY <2>1, <2>2, <2>5, <2>6
<1>. QED BY <1>2, <1>3 DEF OwnState

\* The continuations.
LEMMA OwnGoesOn ==
  ASSUME OwnState, NEW i \in 1..Len(net), CreationsLoaded(i) \/ CreationActDone(i) PROVE OwnState'
<1>0. NewOnes(<< >>, OwnOps) /\ Len(<< >>) = 0
  BY NewNone
<1>1. CASE CreationsLoaded(i)
  <2>. DEFINE fail == [ui EXCEPT !.loading = FALSE]
              r == net[i].arg.reset
              done == [ui EXCEPT !.loading = FALSE,
                                 !.creations = IF r THEN Data(i) ELSE @ \o Data(i),
                                 !.page = IF r THEN 2 ELSE @ + 1,
                                 !.hasMore = Data(i) # <<>>]
  <2>1. net[i].op = "creations" /\ net[i].ans # Pending /\ Settle(i, IF ~IsOk(i) THEN fail ELSE done, << >>)
    BY <1>1 DEF CreationsLoaded, Answered
  <2>2. DOMAIN ui = OwnFields =>
          /\ DOMAIN done = OwnFields /\ done.filter = ui.filter
          /\ done.creations = (IF r THEN Data(i) ELSE ui.creations \o Data(i))
          /\ done.page = (IF r THEN 2 ELSE ui.page + 1)
    BY DEF OwnFields
  <2>3. OwnAfter(net[i], OwnView(ui)) = IF r THEN [creations |-> Data(i), page |-> 2]
                                        ELSE [creations |-> ui.creations \o Data(i), page |-> ui.page + 1]
    BY <2>1 DEF OwnAfter, Grows, OwnView, Data
  <2>. HIDE DEF done, fail
  <2>4. DOMAIN ui = OwnFields => OwnView(done) = OwnAfter(net[i], OwnView(ui))
    <3>1. CASE r
      BY <2>2, <2>3, <3>1 DEF OwnView
    <3>2. CASE ~r
      BY <2>2, <2>3, <3>2 DEF OwnView
    <3>. QED BY <3>1, <3>2
  <2>5. CASE IsOk(i)
    <3>1. Settle(i, done, << >>) /\ net[i].op # "withdraw"
      BY <2>1, <2>5
    <3>. HIDE DEF r
    <3>. QED BY <1>0, <2>1, <2>2, <2>4, <3>1, OwnFinishes
  <2>6. CASE ~IsOk(i)
    <3>1. Settle(i, fail, << >>)
      BY <2>1, <2>6
    <3>. QED BY <1>0, <2>1, <2>6, <3>1, OwnFinishes
  <2>. QED BY <2>5, <2>6
<1>2. CASE Answered(i, {"delete"}) /\ Settle(i, IF IsOk(i) THEN [ui EXCEPT !.creations = Without(@, net[i].arg.id)] ELSE ui, << >>)
  <2>. DEFINE less == [ui EXCEPT !.creations = Without(@, net[i].arg.id)]
  <2>1. net[i].op = "delete" /\ net[i].ans # Pending /\ Settle(i, IF IsOk(i) THEN less ELSE ui, << >>)
    BY <1>2 DEF Answered
  <2>2. DOMAIN ui = OwnFields =>
          /\ DOMAIN less = OwnFields /\ less.filter = ui.filter
          /\ less.creations = Without(ui.creations, net[i].arg.id) /\ less.page = ui.page
    BY DEF OwnFields
  <2>3. OwnAfter(net[i], OwnView(ui)) = [creations |-> Without(ui.creations, net[i].arg.id), page |-> ui.page]
    BY <2>1 DEF OwnAfter, OwnView
  <2>. HIDE DEF less
  <2>4. DOMAIN ui = OwnFields => OwnView(less) = OwnAfter(net[i], OwnView(ui))
    BY <2>2, <2>3 DEF OwnView
  <2>5. CASE IsOk(i)
    <3>1. Settle(i, less, << >>) /\ net[i].op # "withdraw"
      BY <2>1, <2>5
    <3>. QED BY <1>0, <2>1, <2>2, <2>4, <3>1, OwnFinishes
  <2>6. CASE ~IsOk(i)
    <3>1. Settle(i, ui, << >>)
      BY <2>1, <2>6
    <3>. QED BY <1>0, <2>1, <2>6, <3>1, OwnFinishes
  <2>. QED BY <2>5, <2>6
<1>3. CASE /\ Answered(i, {"visibility"})
           /\ Settle(i, IF IsOk(i)
                        THEN [ui EXCEPT !.creations = [k \in DOMAIN @ |-> CreationEffect(@[k], "visibility", net[i].arg)]]
                        ELSE ui, << >>)
  <2>. DEFINE seen == [ui EXCEPT !.creations = [k \in DOMAIN @ |-> CreationEffect(@[k], "visibility", net[i].arg)]]
  <2>1. net[i].op = "visibility" /\ net[i].ans # Pending /\ Settle(i, IF IsOk(i) THEN seen ELSE ui, << >>)
    BY <1>3 DEF Answered
  <2>2. DOMAIN ui = OwnFields =>
          /\ DOMAIN seen = OwnFields /\ seen.filter = ui.filter
          /\ seen.creations = Changed(net[i], ui.creations) /\ seen.page = ui.page
    BY DEF OwnFields, Changed, ChangedCreation
  <2>3. OwnAfter(net[i], OwnView(ui)) = [creations |-> Changed(net[i], ui.creations), page |-> ui.page]
    BY <2>1 DEF OwnAfter, OwnView
  <2>. HIDE DEF seen
  <2>4. DOMAIN ui = OwnFields => OwnView(seen) = OwnAfter(net[i], OwnView(ui))
    BY <2>2, <2>3 DEF OwnView
  <2>5. CASE IsOk(i)
    <3>1. Settle(i, seen, << >>) /\ net[i].op # "withdraw"
      BY <2>1, <2>5
    <3>. QED BY <1>0, <2>1, <2>2, <2>4, <3>1, OwnFinishes
  <2>6. CASE ~IsOk(i)
    <3>1. Settle(i, ui, << >>)
      BY <2>1, <2>6
    <3>. QED BY <1>0, <2>1, <2>6, <3>1, OwnFinishes
  <2>. QED BY <2>5, <2>6
<1>4. CASE /\ Answered(i, Reloading)
           /\ IF IsOk(i) THEN Settle(i, [ui EXCEPT !.loading = TRUE], <<LoadCreations(TRUE, net[i].arg.filter)>>)
              ELSE Settle(i, ui, << >>)
  <2>. DEFINE s == [ui EXCEPT !.loading = TRUE]
              a == [reset |-> TRUE, p |-> 1, filter |-> net[i].arg.filter]
              c == Fetch("creations", a)
  <2>1. /\ net[i].op = "withdraw" /\ net[i].ans # Pending
        /\ IsOk(i) => Settle(i, s, <<c>>)
        /\ ~IsOk(i) => Settle(i, ui, << >>)
    BY <1>4 DEF Answered, Reloading, LoadCreations
  <2>2. IsCall(c) /\ c.op = "creations" /\ c.op \in OwnOps /\ c.ans = Pending /\ c.arg = a
    BY NewCalls DEF OwnOps
  <2>3. DOMAIN ui = OwnFields => DOMAIN s = OwnFields /\ s.filter = ui.filter
    BY DEF OwnFields
  <2>4. IsReset(c) /\ c.arg.p = 1 /\ c.arg.filter = net[i].arg.filter
    BY <2>2 DEF IsReset, AsksList
  <2>. HIDE DEF c, s
  <2>5. NewOnes(<<c>>, OwnOps) /\ Len(<<c>>) = 1 /\ <<c>>[1] = c
    BY <2>2, NewOne
  <2>. DEFINE cs == <<c>>
  <2>6. NewOnes(cs, OwnOps) /\ Len(cs) = 1 /\ IsReset(cs[1]) /\ cs[1].arg.p = 1
        /\ cs[1].arg.filter = net[i].arg.filter /\ cs[1].op = "creations"
    BY <2>2, <2>4, <2>5
  <2>7. CASE IsOk(i)
    <3>1. Settle(i, s, cs)
      BY <2>1, <2>7
    <3>. HIDE DEF cs
    <3>. QED BY <2>1, <2>3, <2>6, <3>1, OwnFinishes
  <2>8. CASE ~IsOk(i)
    <3>1. Settle(i, ui, << >>)
      BY <2>1, <2>8
    <3>. QED BY <1>0, <2>1, <2>8, <3>1, OwnFinishes
  <2>. QED BY <2>7, <2>8
<1>. QED BY <1>1, <1>2, <1>3, <1>4 DEF CreationActDone

\* The steps of the creation center keep it in a state of it.
LEMMA OwnPageSteps ==
  ASSUME page = "creations", OwnState, Next PROVE OwnState'
<1>1. ASSUME NEW i \in 1..Len(net), Deny(i) PROVE OwnState'
  <2>1. Denied(OwnOps, i)
    BY <1>1, Denies DEF OwnState
  <2>2. Queue(OwnOps)' /\ mishap'
    BY <2>1 DEF Denied
  <2>. QED BY <2>2 DEF OwnState
<1>. QED BY <1>1, OwnActions, OwnFiltered, OwnAsksMore, OwnActs, OwnIsServed, OwnGoesOn DEF OwnState

\* The creation center (WebFeeds.CreationsAreCurrent): the list will be loaded
\* anew, or the answers lead to creations that the service holds as they are
\* shown, all of them newer than those on the page that is asked for next.
THEOREM CreationsStayCurrent == Spec => []CreationsAreCurrent
<1>. DEFINE Inv == page = "creations" => OwnState
<1>1. Init => Inv
  BY Mounts, OwnStarts
<1>2. Inv /\ [Next]_vars => Inv'
  <2>1. CASE Next
    BY <2>1, PageStays, OwnPageSteps
  <2>2. CASE UNCHANGED vars
    BY <2>2 DEF vars, OwnState, Queue, Calls, InOrder
  <2>. QED BY <2>1, <2>2
<1>3. Inv => CreationsAreCurrent
  <2>. SUFFICES ASSUME OwnState, Quiet, ~mishap
                PROVE  /\ ToSet(ui.creations) \subseteq CreationsHeld(srv, ui.filter)
                       /\ NewestFirst(ui.creations)
    BY DEF CreationsAreCurrent
  <2>1. Len(net) = 0 /\ 1..Len(net) = {}
    <3>1. Len(net) = 0
      BY QuietIsEmpty DEF OwnState
    <3>. QED BY <3>1
  <2>2. OwnLead(net, ui, srv)
    BY <2>1 DEF OwnState, OwnGo, OwnToCome
  <2>3. PICK b : OwnReplay!Leads(net, OwnView(ui), b) /\ Paged(b, CreationsHeld(srv, ui.filter))
    BY <2>2 DEF OwnLead
  <2>4. OwnView(ui) = b
    BY <2>1, <2>3, OwnReplay!LeadsNowhere
  <2>5. b.creations = ui.creations
    BY <2>4 DEF OwnView
  <2>. QED BY <2>3, <2>5, ListElements DEF Paged
<1>. HIDE DEF Inv
<1>. QED BY <1>1, <1>2, <1>3, PTL DEF Spec
=============================================================================
